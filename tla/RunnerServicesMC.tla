-------------------------- MODULE RunnerServicesMC --------------------------
(***************************************************************************)
(* Small instances of what a session runs beside its agent: the IPC        *)
(* channel of a child process, the channel on which it asks for the review *)
(* permission, the runner on a system without process groups, and sounds.  *)
(* The subject of a behaviour is chosen at its start; the other parts stay *)
(* in their initial states, where none of their fair steps is enabled.     *)
(***************************************************************************)
EXTENDS ChildMessaging, StandingPermission, NotificationScheduler

CONSTANTS n1, n2, q1, q2, s1

VARIABLES
    subject,
    status, queue, pump, live, terminal, grace, quarantined, childExit, claims,
    scratch, waiters, reported, report, asks, child, stray

runnerState == <<status, queue, pump, live, terminal, grace, quarantined, childExit, claims,
                 scratch, waiters, reported, report, asks, child, stray>>
allVars == <<subject, vars, runnerState, permVars, soundVars>>

\* A ChildMessenger, whose frames come once, and a runner that holds one query.
Single == INSTANCE ChildMessaging WITH
    MaxNotes <- 1, MaxQueries <- 1, Repeatable <- {}, MaxRepeats <- 0

\* Two tasks for one slot, no process groups.
Runner == INSTANCE AgentRunner WITH
    Tasks <- {"t1", "t2"}, Writers <- {"t1"}, Overlap <- {}, Interactive <- {"t1"},
    MaxConcurrency <- 1, Posix <- FALSE, MaxWaiters <- 0, MaxAsks <- 1

\* The event between the others is the more urgent.
MCPriority == <<1, 2, 1>>

MCInit ==
    /\ subject \in {"runner", "queries", "notices", "repeated", "permission", "sounds"}
    /\ Init
    /\ Runner!Init
    /\ PermissionInit
    /\ SoundsInit
    /\ session = s1

\* Each behaviour of the channel uses a part of the ids only.
Unsent(ids) == \A i \in ids : ask'[i] = "unsent"

MCNext ==
    \/ subject = "runner" /\ Runner!Next
       /\ UNCHANGED <<subject, vars, permVars, soundVars>>
    \/ subject = "queries" /\ Single!Next /\ Unsent({n1, n2})
       /\ UNCHANGED <<subject, runnerState, permVars, soundVars>>
    \/ subject = "notices" /\ Next /\ Unsent({q1, q2})
       /\ UNCHANGED <<subject, runnerState, permVars, soundVars>>
    \/ subject = "repeated" /\ Next /\ Unsent({n2, q2})
       /\ UNCHANGED <<subject, runnerState, permVars, soundVars>>
    \/ subject = "permission" /\ PermissionNext
       /\ UNCHANGED <<subject, vars, runnerState, soundVars>>
    \/ subject = "sounds" /\ SoundsNext
       /\ UNCHANGED <<subject, vars, runnerState, permVars>>

MCSpec == MCInit /\ [][MCNext]_allVars /\ Fairness

\* SlotsBoundProcesses of AgentRunner without process groups, where only the exit
\* that was observed frees a slot, since nothing can be asked of the group; and its
\* NoLostWakeup with one slot for two tasks: the one that waits is never forgotten.
RunnerInv == Runner!SlotsBoundProcesses /\ Runner!NoLostWakeup
=============================================================================
