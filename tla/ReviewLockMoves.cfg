SPECIFICATION Spec
CONSTANTS
  a1 = a1
  a2 = a2
  a3 = a3
  a4 = a4
  p1 = p1
  p2 = p2
  p3 = p3
  Attempts = {a1, a2, a3}
  Processes = {p1, p2}
  Recoveries = {r1, r2}
  Pid <- MCPid
  NoOne = NoOne
  IncompleteRecovery = FALSE
CHECK_DEADLOCK FALSE
PROPERTIES
  MovesOnlyObserved
