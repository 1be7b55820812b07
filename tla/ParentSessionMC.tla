---------------------------- MODULE ParentSessionMC ----------------------------
(***************************************************************************)
(* Small instances of ParentDelivery, of which each behaviour is one:      *)
(*   prompts   one task and two sessions; prompts of the user and of       *)
(*             wakes, of which one may vanish                              *)
(*   forwards  two tasks of one session; nobody prompts, so that the       *)
(*             parent is left to what is forwarded to it, by prompts that  *)
(*             may be slow                                                 *)
(***************************************************************************)
EXTENDS ParentDelivery

CONSTANT s1

VARIABLE subject

allVars == <<subject, vars>>

Forward == INSTANCE ParentDelivery WITH
    Sessions <- {s1}, MaxPrompts <- 0, MaxVanishes <- 0, MaxStarts <- 1, SlowPrompts <- TRUE,
    RetryLimit <- 2

MCInit ==
    /\ subject \in {"prompts", "forwards"}
    /\ Init

\* The task that sends no message stays as it is.
OneTask == \A t \in Tasks \ Talkers : task'[t] = "new"

MCNext ==
    \/ subject = "prompts" /\ Next /\ OneTask /\ UNCHANGED subject
    \/ subject = "forwards" /\ Forward!Next /\ UNCHANGED subject

MCSpec == MCInit /\ [][MCNext]_allVars /\ Forward!Fairness

\* NoRacingWakes of ParentDelivery, where no prompt outlasts its grace: the
\* extension never sends a wake while a prompt it knows of has not started.
WakesNeverRace == [][subject = "prompts" => WakesApart]_vars

\* CompletionForwarded of ParentDelivery: a pending completion of a parent left
\* to what is forwarded to it leaves the queue or its session ends, as long as
\* the host rejects no more sends than the retries cover.
CompletionsArrive == subject = "forwards" => CompletionForwarded

\* StoredContentSeen of ParentDelivery: content stored in such a parent, while
\* it is idle, gets a run that reads it.
ContentSeen == subject = "forwards" => StoredContentSeen
================================================================================
