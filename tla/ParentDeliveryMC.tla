-------------------------- MODULE ParentDeliveryMC --------------------------
(* Small instances of ParentDelivery. *)
EXTENDS ParentDelivery, TLC

MCSymmetry == Permutations(Tasks) \cup Permutations(Sessions)
=============================================================================
