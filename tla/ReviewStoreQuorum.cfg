SPECIFICATION StoreSpec
CONSTANTS
  Lineages = {"l1", "l2"}
  Keys = {"k1", "k2"}
  Requests = {"r1"}
  MaxLength = 3
  MaxFaults = 2
  Reading = FALSE
CHECK_DEADLOCK FALSE
INVARIANTS
  AuthorityPreserved
