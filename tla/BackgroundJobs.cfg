SPECIFICATION FairSpec
CONSTANTS
  Jobs = {m1, c1}
  Monitors = {m1}
  Sessions = {s1, s2}
  None = None
  MaxRunningJobs = 1
  LinesPerNotice = 1
  FloodLines = 1
  RetryLimit = 1
  MaxLines = 2
  MaxFaults = 1
  MaxStarts = 2
CHECK_DEADLOCK FALSE
INVARIANTS
  MonitorInv
  OneEnd
PROPERTIES
  JobsRightSession
  ExitTold
