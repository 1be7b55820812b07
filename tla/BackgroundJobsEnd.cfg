SPECIFICATION Spec
CONSTANTS
  Jobs = {m1}
  Monitors = {m1}
  Sessions = {s1}
  None = None
  MaxRunningJobs = 1
  LinesPerNotice = 1
  FloodLines = 1
  RetryLimit = 1
  MaxLines = 2
  MaxFaults = 1
  MaxStarts = 1
CHECK_DEADLOCK FALSE
INVARIANTS
  EndComesLast
