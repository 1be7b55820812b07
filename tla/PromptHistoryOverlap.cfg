SPECIFICATION HistorySpec
CONSTANTS
  p1 = p1
  p2 = p2
  p3 = p3
  Instances = {p1, p2, p3}
  Prompts = {"a", "b", "c"}
  Files <- MCFiles
  CallSets <- MCCallSets
  MaxMishaps = 0
CHECK_DEADLOCK FALSE
INVARIANTS
  OnlyDeletesRemove
