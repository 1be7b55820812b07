SPECIFICATION MCSpec
CONSTANTS
  s1 = s1
  Tasks = {t1, t2}
  Talkers = {t1}
  Sessions = {s1, s2}
  None = None
  RetryLimit = 1
  MaxFaults = 2
  MaxPrompts = 1
  MaxVanishes = 1
  MaxCompactions = 1
  MaxStarts = 2
  SlowPrompts = FALSE
CHECK_DEADLOCK FALSE
INVARIANTS
  WakeServed
  AtMostOnce
PROPERTIES
  RightSession
  HeldWhileBusy
  WakesNeverRace
  NothingLost
  NothingReplayed
  CompletionsArrive
  ContentSeen
