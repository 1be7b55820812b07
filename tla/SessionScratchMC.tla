--------------------------- MODULE SessionScratchMC ---------------------------
(* A small instance of SessionScratch: a session dies, another one that was  *)
(* started from its shell goes on, and a third process opens the first one   *)
(* again or sweeps.                                                          *)
EXTENDS SessionScratch, TLC

CONSTANTS p1, p2, p3, s1, s2, s3

MCScenarios == {p1 :> {s1, "dies"} @@ p2 :> {s2, "nests"} @@ p3 :> {s3}}
================================================================================
