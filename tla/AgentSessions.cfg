SPECIFICATION MCSpec
CONSTANTS
  t1 = t1
  t2 = t2
  t3 = t3
  Tasks = {t1, t2}
  Writers <- MCWriters
  Overlap <- MCOverlap
  Interactive = {t1}
  MaxConcurrency = 2
  Posix = TRUE
  MaxWaiters = 1
  MaxAsks = 2
  Hosts = {"p1", "p2", "p3"}
  SessionIds = {"A", "B", "C", "D"}
  Plans <- MCPlans
  MaxActivations = 3
  Messages = {1, 2}
  Cap = 2
  MaxCallbacks = 1
CHECK_DEADLOCK FALSE
INVARIANTS
  SlotsBoundProcesses
  OverlappingWritersExclude
  ScratchOutlivesGroup
  ReportedOnce
  IInv
  TransportInv
PROPERTIES
  VerdictsFinal
  ImplementsTaskSlots
  VerdictReported
  LateExitsFreed
  TransportEnds
