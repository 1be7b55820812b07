SPECIFICATION MCSpec
CONSTANTS
  a1 = a1
  a2 = a2
  a3 = a3
  a4 = a4
  p1 = p1
  p2 = p2
  p3 = p3
  Attempts = {a1, a3, a4}
  Processes = {p1, p2, p3}
  Recoveries = {r1, r2}
  Pid <- MCPid
  NoOne = NoOne
  IncompleteRecovery = FALSE
  l1 = l1
  k1 = k1
  k2 = k2
  s1 = s1
  s2 = s2
  Lineages = {l1, l2}
  Keys = {k1, k2}
  Requests = {"r1", "r2"}
  MaxLength = 3
  MaxFaults = 2
  Reading = TRUE
  Findings = {"f1", "f2"}
  Sessions = {s1, s2}
  Shells = {p1, p2, p3}
  SessionIds = {s1, s2}
  Dirs = {"d1", "d2", "d3"}
  MaxArtifacts = 1
  Cap = 1
  Scenarios <- Roles
  Instances = {p1, p2, p3}
  Prompts = {"a", "b", "c", "d"}
  Files <- Stores
  CallSets <- Meetings
  MaxMishaps = 1
  Repos = {g1, g2}
  ChildRepo = g1
  MaxRequests = 1
  MaxIds = 0
  MaxRevokes = 2
CHECK_DEADLOCK FALSE
SYMMETRY ServicesSymmetry
INVARIANTS
  MutualExclusion
  IncompleteAttributed
  StoreInv
  NoFindingLost
  NothingLost
  NoScratchForgotten
PROPERTIES
  LiveLockKept
  IsLedger
  RevocationHolds
  RemovalsHeld
