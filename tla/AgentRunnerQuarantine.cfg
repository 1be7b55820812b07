SPECIFICATION KillSpec
CONSTANTS
  t1 = t1
  t2 = t2
  t3 = t3
  Tasks = {t1}
  Writers <- MCWriters
  Overlap <- MCOverlap
  Interactive = {t1}
  MaxConcurrency = 1
  Posix = TRUE
  MaxWaiters = 0
  MaxAsks = 0
CHECK_DEADLOCK FALSE
PROPERTIES
  QuarantineReleased
