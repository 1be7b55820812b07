SPECIFICATION MCSpec
CONSTANTS
  n1 = n1
  n2 = n2
  q1 = q1
  q2 = q2
  s1 = s1
  Notes = {n1, n2}
  Queries = {q1, q2}
  MaxNotes = 2
  MaxQueries = 2
  Window = 1
  Repeatable = {n1, q1}
  MaxRepeats = 1
  Sessions = {s1, s2}
  Repos = {g1}
  ChildRepo = g1
  MaxRequests = 1
  MaxIds = 2
  MaxRevokes = 2
  Occurrences = {1, 2, 3}
  Priority <- MCPriority
  TTL = 2
  Coalesce = 1
  Interval = 2
  MaxTime = 4
  Replacements = 1
CHECK_DEADLOCK FALSE
INVARIANTS
  RunnerInv
  ChannelInv
  PermissionInv
  SoundsInv
PROPERTIES
  PromisesSettle
  StartsInTime
