---------------------------- MODULE ReviewLedger ----------------------------
(***************************************************************************)
(* What the review graph store promises: one ledger that only grows, entry *)
(* by entry, for all lineages of a repository, until it is lost.           *)
(***************************************************************************)
EXTENDS Naturals, Sequences

CONSTANT Entries    \* what an operation may add

VARIABLES ledger, lost

Init == ledger = <<>> /\ lost = FALSE
Add ==
  /\ Len(ledger') > Len(ledger)
  /\ \E e \in Entries : ledger' = Append(ledger, e)
  /\ ~lost /\ ~lost'

\* Nothing is promised of a ledger that is lost.
Lose == lost'

Next == Add \/ Lose
Spec == Init /\ [][Next]_<<ledger, lost>>
=============================================================================
