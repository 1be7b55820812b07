---------------------------- MODULE AgentRunner ----------------------------
(***************************************************************************)
(* The subagent runner of lib/agents-runner.ts: tasks wait in a FIFO       *)
(* queue, at most MaxConcurrency of them own a slot (an entry of the       *)
(* `live' map), and a slot is given back only once the child's process     *)
(* group is proven gone.  A child whose end cannot be confirmed is         *)
(* quarantined: its task is reported, its slot, its scratch directory and  *)
(* its claim on writer surfaces are kept.                                  *)
(*                                                                         *)
(* One action is one synchronous run of the host's event loop: a call of   *)
(* the API, a timer, or an event of a child.  Time is abstracted: a timer  *)
(* that is armed may fire at any later turn, and a deadline may or may not *)
(* have passed when it is compared with the clock.                         *)
(***************************************************************************)
EXTENDS Naturals, FiniteSets, Sequences

CONSTANTS
  Tasks,           \* the ids that run() hands out, each used once
  Writers,         \* the tasks whose request declares writerSurfaces
  Overlap,         \* pairs of writers whose surfaces overlap in one root
  Interactive,     \* the tasks in mode "task": their questions reach the user
  MaxConcurrency,  \* limits.maxConcurrency
  Posix,           \* platform # "win32": children lead a process group
  MaxWaiters,      \* bound on the unresolved waitFor() calls per task
  MaxAsks          \* bound on the open questions of one child

ASSUME WritersAssumption == Writers \subseteq Tasks
ASSUME InteractiveAssumption == Interactive \subseteq Tasks
ASSUME OverlapAssumption ==
  /\ Overlap \subseteq Writers \X Writers
  /\ \A a, b \in Writers : <<a, b>> \in Overlap => <<b, a>> \in Overlap
ASSUME MaxConcurrencyAssumption == MaxConcurrency \in Nat
ASSUME PosixAssumption == Posix \in BOOLEAN
ASSUME BoundsAssumption == MaxWaiters \in Nat /\ MaxAsks \in Nat

VARIABLES
  status,       \* the task record's status; "absent" before run()
  queue,        \* admitted tasks waiting for a slot
  pump,         \* the pump microtask: none, scheduled, or inside its loop
  live,         \* the keys of the live map: the occupied slots
  terminal,     \* live.terminal: the verdict to report, "none" while running
  grace,        \* which step the timer behind live.cancelGrace will take
  quarantined,  \* live.quarantined
  childExit,    \* live.childExit is set: the exit event was observed
  claims,       \* the owners registered in the WriterSurfaceRegistry
  scratch,      \* the tasks whose TMPDIR exists
  waiters,      \* unresolved waitFor() calls per task
  reported,     \* calls of hooks.onFinish per task
  report,       \* the record's final report: none, a result, or an error
  asks,         \* questions whose askUser() has not resolved
  child,        \* the child process itself
  stray         \* a descendant of the child is alive in its process group

vars == <<status, queue, pump, live, terminal, grace, quarantined, childExit,
          claims, scratch, waiters, reported, report, asks, child, stray>>

Finals == {"completed", "failed", "cancelled", "timed_out"}
Statuses == {"absent", "queued", "running", "waiting"} \cup Finals
isFinished(s) == s \in Finals

GraceSteps == {"none", "cleanup", "kill", "confirm", "await"}
ChildStates == {"none", "unspawned", "spawning", "alive", "dead"}

TypeOK ==
  /\ status \in [Tasks -> Statuses]
  /\ queue \in Seq(Tasks)
  /\ pump \in {"idle", "scheduled", "looping"}
  /\ live \subseteq Tasks
  /\ terminal \in [Tasks -> Finals \cup {"none"}]
  /\ grace \in [Tasks -> GraceSteps]
  /\ quarantined \in [Tasks -> BOOLEAN]
  /\ childExit \in [Tasks -> BOOLEAN]
  /\ claims \subseteq Writers
  /\ scratch \subseteq Tasks
  /\ waiters \in [Tasks -> Nat]
  /\ reported \in [Tasks -> Nat]
  /\ report \in [Tasks -> {"none", "result", "error"}]
  /\ asks \in [Tasks -> Nat]
  /\ child \in [Tasks -> ChildStates]
  /\ stray \in [Tasks -> BOOLEAN]

Init ==
  /\ status = [t \in Tasks |-> "absent"]
  /\ queue = <<>>
  /\ pump = "idle"
  /\ live = {}
  /\ terminal = [t \in Tasks |-> "none"]
  /\ grace = [t \in Tasks |-> "none"]
  /\ quarantined = [t \in Tasks |-> FALSE]
  /\ childExit = [t \in Tasks |-> FALSE]
  /\ claims = {}
  /\ scratch = {}
  /\ waiters = [t \in Tasks |-> 0]
  /\ reported = [t \in Tasks |-> 0]
  /\ report = [t \in Tasks |-> "none"]
  /\ asks = [t \in Tasks |-> 0]
  /\ child = [t \in Tasks |-> "none"]
  /\ stray = [t \in Tasks |-> FALSE]

----------------------------------------------------------------------------
(* The event loop.  Host code and promise continuations run between two    *)
(* turns, but not inside the pump's loop.  A turn (timer, pipe, process    *)
(* event) starts once the microtasks are drained and the spawn or error    *)
(* event of every new child has been delivered, both being nextTicks.      *)

HostCode == pump # "looping"
Turn == pump = "idle" /\ \A t \in Tasks : child[t] \notin {"unspawned", "spawning"}

Running(t) == t \in live /\ terminal[t] = "none"

\* kill(-pgid, 0): some process of the child's group still exists.
GroupAlive(t) == child[t] \in {"spawning", "alive"} \/ stray[t]

\* A false answer is ambiguous without a group: nothing can be asked at all.
probeGroup(t) ==
  IF ~Posix \/ child[t] = "unspawned" THEN "unavailable"
  ELSE IF GroupAlive(t) THEN "present" ELSE "gone"

\* The claims of the registry that the surfaces of t overlap.
conflicts(t) == {w \in claims : <<t, w>> \in Overlap}

\* The queue without the entry that cancel() found at position i.
Spliced(i) == SubSeq(queue, 1, i - 1) \o SubSeq(queue, i + 1, Len(queue))

\* finish(): the record becomes final, once; waiters and the host hear of it.
\* keepClaim is live?.quarantined.
finish(t, s, keepClaim) ==
  /\ claims' = IF keepClaim THEN claims ELSE claims \ {t}
  /\ IF isFinished(status[t])
     THEN UNCHANGED <<status, waiters, reported>>
     ELSE /\ status' = [status EXCEPT ![t] = s]
          /\ reported' = [reported EXCEPT ![t] = @ + 1]
          /\ waiters' = [waiters EXCEPT ![t] = 0]

\* requestStop(): the first verdict wins; SIGTERM now, SIGKILL when the timer fires.
requestStop(t, s) ==
  IF Running(t)
  THEN /\ terminal' = [terminal EXCEPT ![t] = s]
       /\ grace' = [grace EXCEPT ![t] = "kill"]
  ELSE UNCHANGED <<terminal, grace>>

\* settleOrderly(): the verdict of a child that said it is done; it gets
\* cleanupTimeoutMs to leave after its stdin is closed.
settleOrderly(t, s) ==
  IF Running(t)
  THEN /\ terminal' = [terminal EXCEPT ![t] = s]
       /\ grace' = [grace EXCEPT ![t] = "cleanup"]
  ELSE UNCHANGED <<terminal, grace>>

\* Mutant: the slot of a quarantined task is freed without waking the pump.
completeExit_NoPump(t) ==
  /\ live' = live \ {t}
  /\ scratch' = scratch \ {t}
  /\ grace' = [grace EXCEPT ![t] = "none"]
  /\ pump' = IF quarantined[t] THEN pump ELSE "scheduled"
  /\ IF quarantined[t]
     THEN /\ claims' = claims \ {t}
          /\ UNCHANGED <<status, waiters, reported>>
     ELSE finish(t, IF terminal[t] = "none" THEN "failed" ELSE terminal[t], FALSE)

\* Mutant: a quarantined task's claim is left in the registry.
completeExit_ClaimKept(t) ==
  /\ live' = live \ {t}
  /\ scratch' = scratch \ {t}
  /\ grace' = [grace EXCEPT ![t] = "none"]
  /\ pump' = "scheduled"
  /\ IF quarantined[t]
     THEN UNCHANGED <<claims, status, waiters, reported>>
     ELSE finish(t, IF terminal[t] = "none" THEN "failed" ELSE terminal[t], FALSE)

\* completeExit(): the slot, the scratch directory and the claim are given
\* back; a quarantined task was reported before.
completeExit(t) ==
  /\ live' = live \ {t}
  /\ scratch' = scratch \ {t}
  /\ grace' = [grace EXCEPT ![t] = "none"]
  /\ pump' = "scheduled"
  /\ IF quarantined[t]
     THEN /\ claims' = claims \ {t}
          /\ UNCHANGED <<status, waiters, reported>>
     ELSE finish(t, IF terminal[t] = "none" THEN "failed" ELSE terminal[t], FALSE)

\* Mutant: the reported task gives its slot back.
quarantine_SlotFreed(t) ==
  /\ quarantined' = [quarantined EXCEPT ![t] = TRUE]
  /\ grace' = [grace EXCEPT ![t] = "none"]
  /\ finish(t, "failed", TRUE)
  /\ pump' = "scheduled"
  /\ live' = live \ {t}
  /\ UNCHANGED scratch

\* Mutant: the reported task gives its claim back.
quarantine_ClaimReleased(t) ==
  /\ quarantined' = [quarantined EXCEPT ![t] = TRUE]
  /\ grace' = [grace EXCEPT ![t] = "none"]
  /\ finish(t, "failed", FALSE)
  /\ pump' = "scheduled"
  /\ UNCHANGED <<live, scratch>>

\* Mutant: cleanup of the reported task removes its scratch directory.
quarantine_ScratchRemoved(t) ==
  /\ quarantined' = [quarantined EXCEPT ![t] = TRUE]
  /\ grace' = [grace EXCEPT ![t] = "none"]
  /\ finish(t, "failed", TRUE)
  /\ pump' = "scheduled"
  /\ scratch' = scratch \ {t}
  /\ UNCHANGED live

\* The deadline passed with the end of the group unconfirmed.
quarantine(t) ==
  /\ quarantined' = [quarantined EXCEPT ![t] = TRUE]
  /\ grace' = [grace EXCEPT ![t] = "none"]
  /\ finish(t, "failed", TRUE)
  /\ pump' = "scheduled"
  /\ UNCHANGED <<live, scratch>>

----------------------------------------------------------------------------
(* Calls of the host.                                                      *)

\* run(): conflict check and claim are one synchronous call.
Run(t) ==
  /\ HostCode
  /\ status[t] = "absent"
  /\ t \in Writers => conflicts(t) = {}
  /\ status' = [status EXCEPT ![t] = "queued"]
  /\ claims' = IF t \in Writers THEN claims \cup {t} ELSE claims
  /\ queue' = Append(queue, t)
  /\ pump' = "scheduled"
  /\ UNCHANGED <<live, terminal, grace, quarantined, childExit, scratch,
                 waiters, reported, report, asks, child, stray>>

\* Mutant: waitFor() registers without looking at the record.
WaitFor_Unchecked(t) ==
  /\ HostCode
  /\ status[t] # "absent"
  /\ waiters[t] < MaxWaiters
  /\ waiters' = [waiters EXCEPT ![t] = @ + 1]
  /\ UNCHANGED <<status, queue, pump, live, terminal, grace, quarantined,
                 childExit, claims, scratch, reported, report, asks, child, stray>>

\* waitFor(): a finished task resolves at once and leaves nothing behind.
WaitFor(t) ==
  /\ HostCode
  /\ status[t] # "absent" /\ ~isFinished(status[t])
  /\ waiters[t] < MaxWaiters
  /\ waiters' = [waiters EXCEPT ![t] = @ + 1]
  /\ UNCHANGED <<status, queue, pump, live, terminal, grace, quarantined,
                 childExit, claims, scratch, reported, report, asks, child, stray>>

\* cancel() of a task that has not started.
CancelQueued(t) ==
  /\ HostCode
  /\ \E i \in 1..Len(queue) :
       /\ queue[i] = t
       /\ queue' = Spliced(i)
  /\ finish(t, "cancelled", FALSE)
  /\ pump' = "scheduled"
  /\ UNCHANGED <<live, terminal, grace, quarantined, childExit, scratch,
                 report, asks, child, stray>>

\* cancel() of a child; a second verdict changes nothing.
CancelLive(t) ==
  /\ HostCode
  /\ Running(t)
  /\ requestStop(t, "cancelled")
  /\ UNCHANGED <<status, queue, pump, live, quarantined, childExit, claims,
                 scratch, waiters, reported, report, asks, child, stray>>

\* cancelAll(): every queued and every live task, before the pump can run.
CancelAll ==
  /\ HostCode
  /\ LET queued == {queue[i] : i \in 1..Len(queue)}
         stopped == {t \in Tasks : Running(t)}
     IN /\ queued \cup stopped # {}
        /\ queue' = <<>>
        /\ claims' = claims \ queued
        /\ status' = [t \in Tasks |-> IF t \in queued THEN "cancelled" ELSE status[t]]
        /\ reported' = [t \in Tasks |-> IF t \in queued THEN reported[t] + 1 ELSE reported[t]]
        /\ waiters' = [t \in Tasks |-> IF t \in queued THEN 0 ELSE waiters[t]]
        /\ pump' = IF queued # {} THEN "scheduled" ELSE pump
        /\ terminal' = [t \in Tasks |-> IF t \in stopped THEN "cancelled" ELSE terminal[t]]
        /\ grace' = [t \in Tasks |-> IF t \in stopped THEN "kill" ELSE grace[t]]
  /\ UNCHANGED <<live, quarantined, childExit, scratch, report, asks, child, stray>>

\* steer(): its note resumes a waiting record, as any event but a question does.
Steer(t) ==
  /\ HostCode
  /\ t \in live
  /\ status[t] = "waiting"
  /\ status' = [status EXCEPT ![t] = "running"]
  /\ UNCHANGED <<queue, pump, live, terminal, grace, quarantined, childExit, claims,
                 scratch, waiters, reported, report, asks, child, stray>>

\* Mutant: the state read before the await is trusted after it.
Answer_Stale(t) ==
  /\ HostCode
  /\ asks[t] > 0
  /\ asks' = [asks EXCEPT ![t] = @ - 1]
  /\ status' = [status EXCEPT ![t] = "running"]
  /\ UNCHANGED <<queue, pump, live, terminal, grace, quarantined, childExit, claims,
                 scratch, waiters, reported, report, child, stray>>

\* answer(): the user's answer arrives after an await; the record resumes
\* only if the same child is still running.
Answer(t) ==
  /\ HostCode
  /\ asks[t] > 0
  /\ asks' = [asks EXCEPT ![t] = @ - 1]
  /\ status' = IF Running(t) /\ status[t] = "waiting"
               THEN [status EXCEPT ![t] = "running"] ELSE status
  /\ UNCHANGED <<queue, pump, live, terminal, grace, quarantined, childExit, claims,
                 scratch, waiters, reported, report, child, stray>>

----------------------------------------------------------------------------
(* The pump's loop: launch the head of the queue while a slot is free.     *)

CanLaunch == Cardinality(live) < MaxConcurrency /\ queue # <<>>

\* beforeSpawn, the background policy, the instructions file or spawn itself
\* throws: only this task fails, and it never owned a slot.
LaunchRefused ==
  /\ pump # "idle"
  /\ CanLaunch
  /\ queue' = Tail(queue)
  /\ pump' = "looping"
  /\ finish(Head(queue), "failed", FALSE)
  /\ UNCHANGED <<live, terminal, grace, quarantined, childExit, scratch,
                 report, asks, child, stray>>

\* spawn returned a handle: of a process, or of a failed spawn without pid,
\* whose RPC streams may be missing.
Launch ==
  /\ pump # "idle"
  /\ CanLaunch
  /\ queue' = Tail(queue)
  /\ pump' = "looping"
  /\ LET t == Head(queue) IN
     /\ live' = live \cup {t}
     /\ scratch' = scratch \cup {t}
     /\ status' = [status EXCEPT ![t] = "running"]
     /\ \/ /\ child' = [child EXCEPT ![t] = "spawning"]
           /\ UNCHANGED <<terminal, grace>>
        \/ /\ child' = [child EXCEPT ![t] = "unspawned"]
           /\ UNCHANGED <<terminal, grace>>
        \/ /\ child' = [child EXCEPT ![t] = "unspawned"]
           /\ terminal' = [terminal EXCEPT ![t] = "failed"]
           /\ grace' = [grace EXCEPT ![t] = "kill"]
  /\ UNCHANGED <<quarantined, childExit, claims, waiters, reported, report, asks, stray>>

PumpDone ==
  /\ pump # "idle"
  /\ ~CanLaunch
  /\ pump' = "idle"
  /\ UNCHANGED <<status, queue, live, terminal, grace, quarantined, childExit,
                 claims, scratch, waiters, reported, report, asks, child, stray>>

----------------------------------------------------------------------------
(* Events of a child.                                                      *)

\* The nextTick after a spawn: `spawn' calls onLaunch, which may throw.
SpawnEvent(t) ==
  /\ pump = "idle"
  /\ child[t] = "spawning"
  /\ child' = [child EXCEPT ![t] = "alive"]
  /\ \/ UNCHANGED <<terminal, grace>>
     \/ requestStop(t, "failed")
  /\ UNCHANGED <<status, queue, pump, live, quarantined, childExit, claims,
                 scratch, waiters, reported, report, asks, stray>>

\* childError() of a child that never had a pid: no exit will follow.
SpawnError(t) ==
  /\ pump = "idle"
  /\ child[t] = "unspawned"
  /\ child' = [child EXCEPT ![t] = "none"]
  /\ live' = live \ {t}
  /\ scratch' = scratch \ {t}
  /\ grace' = [grace EXCEPT ![t] = "none"]
  /\ finish(t, "failed", FALSE)
  /\ pump' = "scheduled"
  /\ UNCHANGED <<queue, terminal, quarantined, childExit, report, asks, stray>>

\* childError() of a process that exists: it must still exit.
ChildError(t) ==
  /\ Turn
  /\ Running(t)
  /\ requestStop(t, "failed")
  /\ UNCHANGED <<status, queue, pump, live, quarantined, childExit, claims,
                 scratch, waiters, reported, report, asks, child, stray>>

\* The prompt command was rejected; its response is handled in a microtask.
PromptRejected(t) ==
  /\ Turn
  /\ Running(t)
  /\ requestStop(t, "failed")
  /\ UNCHANGED <<status, queue, pump, live, quarantined, childExit, claims,
                 scratch, waiters, reported, report, asks, child, stray>>

\* A dialog request of an interactive task: the record waits for the user.
\* A background task's is dismissed in the same call, like any progress.
Ask(t) ==
  /\ Turn
  /\ t \in Interactive
  /\ Running(t)
  /\ asks[t] < MaxAsks
  /\ asks' = [asks EXCEPT ![t] = @ + 1]
  /\ status' = [status EXCEPT ![t] = "waiting"]
  /\ UNCHANGED <<queue, pump, live, terminal, grace, quarantined, childExit, claims,
                 scratch, waiters, reported, report, child, stray>>

\* Any other run event: text, tools, usage, a turn, the end of an agent loop.
Progress(t) ==
  /\ Turn
  /\ Running(t)
  /\ status' = [status EXCEPT ![t] = "running"]
  /\ \E r \in {report[t], "result", "error"} : report' = [report EXCEPT ![t] = r]
  /\ UNCHANGED <<queue, pump, live, terminal, grace, quarantined, childExit, claims,
                 scratch, waiters, reported, asks, child, stray>>

\* agent_settled: completed needs a final report.
AgentSettled(t) ==
  /\ Turn
  /\ Running(t)
  /\ status' = [status EXCEPT ![t] = "running"]
  /\ settleOrderly(t, IF report[t] = "result" THEN "completed" ELSE "failed")
  /\ UNCHANGED <<queue, pump, live, quarantined, childExit, claims, scratch,
                 waiters, reported, report, asks, child, stray>>

\* exited(): a surviving group keeps the slot.  Only a child that is already
\* quarantined gets the slow probe.
Exited(t) ==
  /\ Turn
  /\ t \in live
  /\ child[t] = "dead" /\ ~childExit[t]
  /\ childExit' = [childExit EXCEPT ![t] = TRUE]
  /\ IF probeGroup(t) = "present"
     THEN /\ IF quarantined[t]
             THEN grace' = [grace EXCEPT ![t] = "await"] /\ UNCHANGED terminal
             ELSE requestStop(t, "failed")
          /\ UNCHANGED <<live, scratch, pump, claims, status, waiters, reported>>
     ELSE completeExit(t) /\ UNCHANGED terminal
  /\ UNCHANGED <<queue, quarantined, report, asks, child, stray>>

----------------------------------------------------------------------------
(* Timers.                                                                 *)

\* armStall(): the silence budget of a child without a verdict ran out.
Stall(t) ==
  /\ Turn
  /\ Running(t)
  /\ requestStop(t, "timed_out")
  /\ UNCHANGED <<status, queue, pump, live, quarantined, childExit, claims,
                 scratch, waiters, reported, report, asks, child, stray>>

\* Mutant: SIGTERM is sent and no SIGKILL is scheduled behind it.
CleanupTimeout_NoKill(t) ==
  /\ Turn
  /\ t \in live
  /\ grace[t] = "cleanup"
  /\ grace' = [grace EXCEPT ![t] = "none"]
  /\ UNCHANGED <<status, queue, pump, live, terminal, quarantined, childExit, claims,
                 scratch, waiters, reported, report, asks, child, stray>>

\* settleOrderly()'s first timer: the child outstayed cleanupTimeoutMs; SIGTERM.
CleanupTimeout(t) ==
  /\ Turn
  /\ t \in live
  /\ grace[t] = "cleanup"
  /\ grace' = [grace EXCEPT ![t] = "kill"]
  /\ UNCHANGED <<status, queue, pump, live, terminal, quarantined, childExit, claims,
                 scratch, waiters, reported, report, asks, child, stray>>

\* The deadline has not passed: the next probe in GROUP_CONFIRM_MS.
rearm(t) ==
  /\ grace' = [grace EXCEPT ![t] = "confirm"]
  /\ UNCHANGED <<quarantined, live, scratch, pump, claims, status, waiters, reported>>

\* SIGKILL and the first probe, then a probe every GROUP_CONFIRM_MS.  A probe
\* inside the deadline arms the next one; later it quarantines.
confirmGroupExit(t) ==
  /\ Turn
  /\ t \in live
  /\ grace[t] \in {"kill", "confirm"}
  /\ \/ /\ \/ probeGroup(t) = "gone"
           \/ probeGroup(t) = "unavailable" /\ childExit[t]
        /\ completeExit(t)
        /\ UNCHANGED quarantined
     \/ /\ \/ probeGroup(t) = "present"
           \/ probeGroup(t) = "unavailable" /\ ~childExit[t]
        /\ \/ quarantine(t)
           \/ rearm(t)
  /\ UNCHANGED <<queue, terminal, childExit, report, asks, child, stray>>

\* Mutant: the quarantined group is probed once.
awaitQuarantinedGroup_Once(t) ==
  /\ Turn
  /\ t \in live
  /\ grace[t] = "await"
  /\ IF probeGroup(t) # "present"
     THEN completeExit(t)
     ELSE /\ grace' = [grace EXCEPT ![t] = "none"]
          /\ UNCHANGED <<live, scratch, pump, claims, status, waiters, reported>>
  /\ UNCHANGED <<queue, terminal, quarantined, childExit, report, asks, child, stray>>

\* A quarantined group is probed every QUARANTINE_PROBE_MS until it is gone.
awaitQuarantinedGroup(t) ==
  /\ Turn
  /\ t \in live
  /\ grace[t] = "await"
  /\ probeGroup(t) # "present"
  /\ completeExit(t)
  /\ UNCHANGED <<queue, terminal, quarantined, childExit, report, asks, child, stray>>

----------------------------------------------------------------------------
(* The operating system: a child dies on its own or of a signal, and may   *)
(* leave descendants in its group.                                         *)

ChildDies(t) ==
  /\ child[t] = "alive"
  /\ child' = [child EXCEPT ![t] = "dead"]
  /\ \E s \in BOOLEAN : stray' = [stray EXCEPT ![t] = s]
  /\ UNCHANGED <<status, queue, pump, live, terminal, grace, quarantined, childExit,
                 claims, scratch, waiters, reported, report, asks>>

StrayDies(t) ==
  /\ stray[t]
  /\ stray' = [stray EXCEPT ![t] = FALSE]
  /\ UNCHANGED <<status, queue, pump, live, terminal, grace, quarantined, childExit,
                 claims, scratch, waiters, reported, report, asks, child>>

----------------------------------------------------------------------------
TaskStep(t) ==
  \/ Run(t) \/ WaitFor(t) \/ CancelQueued(t) \/ CancelLive(t)
  \/ Steer(t) \/ Answer(t)
  \/ SpawnEvent(t) \/ SpawnError(t) \/ ChildError(t) \/ PromptRejected(t)
  \/ Ask(t) \/ Progress(t) \/ AgentSettled(t) \/ Exited(t)
  \/ Stall(t) \/ CleanupTimeout(t) \/ confirmGroupExit(t) \/ awaitQuarantinedGroup(t)
  \/ ChildDies(t) \/ StrayDies(t)

Next ==
  \/ CancelAll \/ LaunchRefused \/ Launch \/ PumpDone
  \/ \E t \in Tasks : TaskStep(t)

Spec == Init /\ [][Next]_vars

\* Microtasks and nextTicks run, armed timers fire, and the exit of a dead
\* child is delivered.  Nothing is assumed of the user, of the child's output
\* or of the time a child takes.
Fairness ==
  /\ WF_vars(LaunchRefused \/ Launch) /\ WF_vars(PumpDone)
  /\ \A t \in Tasks :
       /\ WF_vars(SpawnEvent(t) \/ SpawnError(t))
       /\ WF_vars(Exited(t))
       /\ WF_vars(CleanupTimeout(t))
       /\ WF_vars(confirmGroupExit(t))
       /\ WF_vars(awaitQuarantinedGroup(t))

\* SIGKILL was sent to the group: what is left of it ends sooner or later.
Killed(t) == grace[t] = "confirm" \/ quarantined[t]
KillFairness == \A t \in Tasks : WF_vars(Killed(t) /\ (ChildDies(t) \/ StrayDies(t)))

FairSpec == Spec /\ Fairness
KillSpec == FairSpec /\ KillFairness

----------------------------------------------------------------------------
(* Properties.                                                             *)

\* A process that may still write: the child, or what is left of its group.
\* Without process groups (Windows) a descendant cannot be seen at all.
MayWrite(t) == child[t] \in {"spawning", "alive"} \/ (Posix /\ stray[t])

\* No more slots than maxConcurrency are occupied, and every process the
\* runner started and cannot prove gone still occupies its slot, whatever was
\* reported of its task.
SlotsBoundProcesses ==
  /\ Cardinality(live) <= MaxConcurrency
  /\ \A t \in Tasks : MayWrite(t) => t \in live

\* Two tasks whose declared surfaces overlap never have a process each that
\* may write, not even after one was cancelled, timed out or quarantined.
OverlappingWritersExclude ==
  \A a, b \in Tasks : <<a, b>> \in Overlap /\ a # b => ~(MayWrite(a) /\ MayWrite(b))

\* The TMPDIR of a child is not removed under a process of its group.
ScratchOutlivesGroup == \A t \in Tasks : MayWrite(t) => t \in scratch

\* A free slot and queued work never meet without a pump on its way: every
\* path that frees a slot or adds work schedules one.
NoLostWakeup == queue # <<>> /\ Cardinality(live) < MaxConcurrency => pump # "idle"

\* onFinish is called exactly once for a task that finished and never for one
\* that did not, and no waitFor() of a finished task stays unresolved.
ReportedOnce ==
  \A t \in Tasks :
    /\ reported[t] = IF isFinished(status[t]) THEN 1 ELSE 0
    /\ isFinished(status[t]) => waiters[t] = 0

\* The first verdict on a child is never replaced, and its record ends with
\* that verdict, or with "failed" when the cleanup did: no later cancel, stall,
\* exit or settle rewrites what happened, and no answer, note or event that still
\* arrives from a quarantined child revives a finished record.
VerdictsFinal ==
  [][\A t \in Tasks :
       /\ terminal[t] # "none" =>
            /\ terminal'[t] = terminal[t]
            /\ status'[t] # status[t] /\ isFinished(status'[t]) =>
                 status'[t] \in {terminal[t], "failed"}
       /\ isFinished(status[t]) => status'[t] = status[t]]_vars

\* Once a verdict was decided, the task is reported: the ladder of stdin,
\* SIGTERM, SIGKILL and probes ends, even if no process ever dies.  A verdict and
\* a report are for good, so that all are reported is what each asks for.
AllReported == \A t \in Tasks : terminal[t] # "none" => isFinished(status[t])
VerdictReported == ~AllReported ~> AllReported

\* A quarantined child whose exit is observed later gives its slot back once
\* its group is gone, and the slot serves the queue again.
LateExitFreesSlot ==
  \A t \in Tasks : grace[t] = "await" ~> t \notin live

\* What the comment above awaitQuarantinedGroup() says: a descendant that
\* outlives the observed exit is probed until it is gone, then the slot is
\* released.
QuarantineReleased ==
  \A t \in Tasks : quarantined[t] /\ childExit[t] ~> t \notin live
----------------------------------------------------------------------------
(* The inductive invariant behind the safety properties.                   *)

\* Waiting tasks are queued records, each once.
QueueInv ==
  /\ \A i \in 1..Len(queue) : status[queue[i]] = "queued"
  /\ \A i, j \in 1..Len(queue) : queue[i] = queue[j] => i = j
  /\ \A t \in Tasks : status[t] = "queued" => \E i \in 1..Len(queue) : queue[i] = t

\* A slot belongs to a task that runs, or that was quarantined and reported.
SlotInv ==
  /\ IsFiniteSet(live)
  /\ \A t \in Tasks :
       /\ t \in live => t \in scratch
       /\ t \in live /\ ~quarantined[t] => status[t] \in {"running", "waiting"}
       /\ status[t] \in {"running", "waiting"} => t \in live
       /\ quarantined[t] => isFinished(status[t])
       /\ MayWrite(t) \/ child[t] = "unspawned" => t \in live

\* The registry holds exactly the writers that wait or own a slot, and no two
\* of them overlap.
ClaimInv ==
  /\ \A t \in Writers : t \in claims <=> status[t] = "queued" \/ t \in live
  /\ \A a, b \in claims : <<a, b>> \in Overlap => a = b

\* What the pending timer and the observed events say of the process.
ProcessInv ==
  \A t \in Tasks :
    /\ stray[t] \/ childExit[t] => child[t] = "dead"
    /\ child[t] = "unspawned" => ~quarantined[t]
    /\ status[t] \in {"absent", "queued"} => child[t] = "none"
    /\ grace[t] # "none" \/ quarantined[t] => terminal[t] # "none"
    /\ grace[t] \in {"cleanup", "kill", "confirm"} => t \in live /\ ~quarantined[t]
    /\ grace[t] = "await" => t \in live /\ childExit[t] /\ quarantined[t]

IInv ==
  /\ QueueInv /\ SlotInv /\ ClaimInv /\ ProcessInv
  /\ Cardinality(live) <= MaxConcurrency /\ NoLostWakeup /\ ReportedOnce

----------------------------------------------------------------------------
(* The runner implements the slots it promises.                            *)

phase(s) == IF s \in {"running", "waiting"} THEN "running"
            ELSE IF isFinished(s) THEN "finished" ELSE s

Slots == INSTANCE TaskSlots WITH
  state <- [t \in Tasks |-> phase(status[t])],
  slots <- live,
  Conflict <- Overlap \ {<<w, w>> : w \in Writers},
  Capacity <- MaxConcurrency

\* Admission by the registry of claims, the queue, the kill ladder and the
\* quarantine together are a pool of slots in which no two open tasks overlap.
ImplementsTaskSlots == Slots!Spec
=============================================================================
