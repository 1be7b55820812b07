SPECIFICATION Spec
CONSTANTS
  Tasks = {t1, t2}
  Talkers = {}
  Sessions = {s1}
  None = None
  RetryLimit = 3
  MaxFaults = 1
  MaxPrompts = 0
  MaxVanishes = 1
  MaxCompactions = 0
  MaxStarts = 1
  SlowPrompts = FALSE
CHECK_DEADLOCK FALSE
SYMMETRY MCSymmetry
INVARIANTS
  FailedForwardServed
