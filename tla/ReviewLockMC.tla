---------------------------- MODULE ReviewLockMC ----------------------------
(* Small instances of ReviewLock: p1 calls acquire() twice, the others once. *)
EXTENDS ReviewLock, TLC

CONSTANTS a1, a2, a3, a4, p1, p2, p3

MCPid == [a \in Attempts |-> CASE a \in {a1, a2} -> p1 [] a = a3 -> p2 [] OTHER -> p3]
MCSymmetry == Permutations(Recoveries)
=============================================================================
