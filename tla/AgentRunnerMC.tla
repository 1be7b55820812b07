--------------------------- MODULE AgentRunnerMC ---------------------------
(* Small instances of AgentRunner: t1 and t2 declare overlapping surfaces. *)
EXTENDS AgentRunner

CONSTANTS t1, t2, t3

MCWriters == {t1, t2} \cap Tasks
MCOverlap == {<<t1, t2>>, <<t2, t1>>} \cap (Tasks \X Tasks)
=============================================================================
