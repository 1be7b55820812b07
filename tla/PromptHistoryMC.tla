-------------------------- MODULE PromptHistoryMC --------------------------
(* Two instances delete while a third one, whose file both rewrite, captures. *)
EXTENDS PromptHistory

CONSTANTS p1, p2, p3

MCFiles == <<[name |-> <<"own", p3>>, lines |-> <<"a", "b">>]>>
MCCallSets == {{<<p1, "delete", 1>>, <<p2, "delete", 1>>, <<p3, "capture", 1>>}}
=============================================================================
