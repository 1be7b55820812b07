--------------------------- MODULE BackgroundJobs ---------------------------
(***************************************************************************)
(* The background jobs of a session: the registry                          *)
(* (lib/background-jobs.ts), the monitors whose output lines are events    *)
(* (lib/background-monitor.ts), and the queue that carries their notices   *)
(* to the parent (extensions/gentle-agents.ts).                            *)
(*                                                                         *)
(* One action is one callback.  A callback may hand over two notices, each *)
(* with a flush of its own: the operators on the desk (the notice queue,   *)
(* what the parent was told, the retry) return the set of its outcomes.    *)
(* The order of the notices of different jobs is left out, since no notice *)
(* says anything of another job: the queue holds, for each job, the events *)
(* that wait and the end that waits behind them (EndsLast).                *)
(* The routing and the wake are those of ParentDelivery, here with a coarser *)
(* parent whose prompts always start a run.                                *)
(***************************************************************************)
EXTENDS Naturals, FiniteSets, Sequences

CONSTANTS
  Jobs,            \* jobs that may be started
  Monitors,        \* those whose lines are events
  Sessions,        \* parent sessions
  None,            \* no session
  MaxRunningJobs,  \* MAX_RUNNING_JOBS
  LinesPerNotice,  \* MONITOR_LINES_PER_NOTICE
  FloodLines,      \* MONITOR_FLOOD_LINES
  RetryLimit,      \* PARENT_DELIVERY_RETRY_LIMIT
  MaxLines,        \* bound: event lines of one monitor
  MaxFaults,       \* bound: sends the host rejects
  MaxStarts        \* bound: session_start events

ASSUME JobsAssumption == IsFiniteSet(Jobs) /\ Monitors \subseteq Jobs
ASSUME NoneAssumption == None \notin Sessions
ASSUME LimitsAssumption ==
  /\ MaxRunningJobs \in Nat /\ LinesPerNotice \in Nat \ {0} /\ FloodLines \in Nat
  /\ RetryLimit \in Nat /\ MaxLines \in Nat /\ MaxFaults \in Nat /\ MaxStarts \in Nat

VARIABLES
  session,   \* activeSessionId(), and whether parentCtx is set
  phase,     \* what the parent is doing
  owner,     \* ownerSessionId of each job
  status,    \* status of each job; "exited" stands for "failed" too, "halted" is a
             \* job "stopped" by job_stop
  run,       \* the promise of each job: its command, then its log being closed
  active,    \* monitors the controller watches
  batch,     \* the open batch of each monitor
  flushing,  \* monitors with a scheduled flush
  recent,    \* lines of each monitor inside the flood window
  events,    \* job.events
  silenced,  \* jobs that job_stop or the end of a session silenced
  desk,      \* [queue, told, retry, retries, wake, faults]
  starts     \* session_start events so far

jobVars == <<owner, status, run>>
monitorVars == <<active, batch, flushing, recent, events, silenced>>
vars == <<session, phase, jobVars, monitorVars, desk, starts>>

NoBatch == [lines |-> <<>>, omitted |-> 0]
Nothing == [lines |-> <<>>, omitted |-> 0, ends |-> 0]
EmptyQueue == [j \in Jobs |-> Nothing]
EmptyDesk == [queue |-> EmptyQueue, told |-> EmptyQueue, retry |-> FALSE, retries |-> 0,
              wake |-> "none", faults |-> 0]

IsBatch(b) == /\ b.lines \in Seq(1..MaxLines) /\ Len(b.lines) <= LinesPerNotice
              /\ b.omitted \in 0..MaxLines

TypeOK ==
  /\ session \in Sessions \cup {None}
  /\ phase \in {"idle", "running", "settling", "compacting"}
  /\ owner \in [Jobs -> Sessions \cup {None}]
  /\ status \in [Jobs -> {"new", "running", "exited", "stopped", "halted"}]
  /\ run \in [Jobs -> {"none", "executing", "closing", "done"}]
  /\ active \subseteq Monitors /\ flushing \subseteq active /\ silenced \subseteq Jobs
  /\ \A j \in Monitors : IsBatch(batch[j])
  /\ recent \in [Monitors -> 0..FloodLines + 1]
  /\ events \in [Monitors -> 0..MaxLines]
  /\ \A j \in Jobs : IsBatch(desk.queue[j])
  /\ desk.wake \in {"none", "owed", "sent"}
  /\ desk.retries \in 0..RetryLimit /\ desk.faults \in 0..MaxFaults
  /\ starts \in 0..MaxStarts

Init ==
  /\ session = None
  /\ phase = "idle"
  /\ owner = [j \in Jobs |-> None]
  /\ status = [j \in Jobs |-> "new"]
  /\ run = [j \in Jobs |-> "none"]
  /\ active = {} /\ flushing = {} /\ silenced = {}
  /\ batch = [j \in Monitors |-> NoBatch]
  /\ recent = [j \in Monitors |-> 0]
  /\ events = [j \in Monitors |-> 0]
  /\ desk = EmptyDesk
  /\ starts = 0

----------------------------------------------------------------------------
(* The notice queue                                                        *)

\* mergeMonitorBatches(): the first lines are kept, the others counted.  The
\* batcher adds a single line the same way.
Merged(a, b) ==
  LET all == a.lines \o b.lines
      kept == IF Len(all) < LinesPerNotice THEN Len(all) ELSE LinesPerNotice
  IN  [a EXCEPT !.lines = SubSeq(all, 1, kept), !.omitted = @ + b.omitted + Len(all) - kept]

Size(b) == Len(b.lines) + b.omitted

\* The notices of a queue, and what of job j the notices ns carry.
Notices(q) ==
  {n \in Jobs \X {"events", "end"} :
     IF n[2] = "events" THEN Size(q[n[1]]) > 0 ELSE q[n[1]].ends > 0}
Carried(q, j, ns) ==
  [lines |-> IF <<j, "events">> \in ns THEN q[j].lines ELSE <<>>,
   omitted |-> IF <<j, "events">> \in ns THEN q[j].omitted ELSE 0,
   ends |-> IF <<j, "end">> \in ns THEN q[j].ends ELSE 0]

\* The parent receives it.
Told(a, b) == [lines |-> a.lines \o b.lines, omitted |-> a.omitted + b.omitted,
               ends |-> a.ends + b.ends]

\* Mutant: whoever is there is told.
Deliverable_AnyOwner(q) == Notices(q)

Deliverable(q) == {n \in Notices(q) : owner[n[1]] = session}

\* Mutant: a failed send is not retried.
Retried_Never(d, ph, bad) == FALSE

\* armDeliveryRetry(): only an idle parent gets a retry.
Retried(d, ph, bad) == ph = "idle" /\ bad # {} /\ ~d.retry /\ d.retries < RetryLimit

\* flushJobNotices() when the host rejects bad: notices of another session are
\* dropped.
Flushed(d, ph, bad) ==
  LET sends == Deliverable(d.queue) \ bad
      again == Retried(d, ph, bad)
  IN  [queue |-> [j \in Jobs |-> Carried(d.queue, j, bad)],
       told |-> [j \in Jobs |-> Told(d.told[j], Carried(d.queue, j, sends))],
       retry |-> d.retry \/ again,
       retries |-> IF again THEN d.retries + 1 ELSE d.retries,
       wake |-> IF ph = "idle" /\ sends # {} /\ d.wake = "none" THEN "owed" ELSE d.wake,
       faults |-> d.faults + Cardinality(bad)]

\* The outcomes of a flush: nothing without a route.
Flushes(d, ph) ==
  IF session = None \/ ph = "compacting" THEN {d}
  ELSE {Flushed(d, ph, bad) :
          bad \in {b \in SUBSET Deliverable(d.queue) : d.faults + Cardinality(b) <= MaxFaults}}

\* queueJobNotice() of a queue that has the notice: flushed at once unless the
\* parent has a run.
Queues(d, q) ==
  LET es == {[d EXCEPT !.queue = q]}
  IN  IF phase = "running" THEN es ELSE UNION {Flushes(e, phase) : e \in es}

\* Events join those that wait; an end comes behind them.
WithEvents(q, j, b) == [q EXCEPT ![j] = Merged(@, b)]
WithEnd(q, j) == [q EXCEPT ![j].ends = @ + 1]

\* Mutant: the open batch is dropped.
FlushesBatch_Dropped(d, j, b) == {d}

\* The controller's flush() of the batch b.
FlushesBatch(d, j, b) ==
  IF j \in active /\ b # NoBatch THEN Queues(d, WithEvents(d.queue, j, b)) ELSE {d}

\* The batch b and then the end of job j.
Finishes(d, j, b) == UNION {Queues(e, WithEnd(e.queue, j)) : e \in FlushesBatch(d, j, b)}

----------------------------------------------------------------------------
(* The jobs                                                                *)

Running == {j \in Jobs : status[j] = "running"}
OpenBatch(j) == IF j \in Monitors THEN batch[j] ELSE NoBatch

\* The controller's cancel(): no timer, no batch.
Cancel(j) ==
  /\ active' = active \ {j}
  /\ flushing' = flushing \ {j}
  /\ batch' = [m \in Monitors |-> IF m = j THEN NoBatch ELSE batch[m]]

\* The registry's stop(): a job that ended keeps its outcome.
Stopped(js) == [j \in Jobs |-> IF j \in js \cap Running THEN "stopped" ELSE status[j]]

\* The tools bash_background and monitor.
Start(j) ==
  /\ phase = "running"
  /\ status[j] = "new"
  /\ Cardinality(Running) < MaxRunningJobs
  /\ status' = [status EXCEPT ![j] = "running"]
  /\ run' = [run EXCEPT ![j] = "executing"]
  /\ owner' = [owner EXCEPT ![j] = session]
  /\ active' = active \cup ({j} \cap Monitors)
  /\ UNCHANGED <<session, phase, batch, flushing, recent, events, silenced, desk, starts>>

\* stopFor(): the pending lines, then the harness's stop notice.
StopFor(j, b) ==
  /\ status' = Stopped({j})
  /\ Cancel(j)
  /\ desk' \in Finishes(desk, j, b)

\* onLine(): one more event line, and what it makes of the batch; the status
\* is st unless the line is a flood.  Any of the earlier lines may have left
\* the flood window.
PushLine(j, st) ==
  LET line == events[j] + 1
      b == Merged(batch[j], [lines |-> <<line>>, omitted |-> 0])
  IN  /\ j \in active /\ status[j] = "running" /\ events[j] < MaxLines
      /\ events' = [events EXCEPT ![j] = line]
      /\ \E r \in 0..recent[j] :
           /\ recent' = [recent EXCEPT ![j] = r + 1]
           /\ \/ r + 1 > FloodLines /\ StopFor(j, b)
              \/ /\ r + 1 <= FloodLines
                 /\ batch' = [batch EXCEPT ![j] = b]
                 /\ flushing' = flushing \cup {j}
                 /\ status' = [status EXCEPT ![j] = st]
                 /\ UNCHANGED <<active, desk>>

Line(j) ==
  /\ run[j] = "executing"
  /\ PushLine(j, "running")
  /\ UNCHANGED <<session, phase, owner, run, silenced, starts>>

FlushTimer(j) ==
  /\ j \in flushing
  /\ flushing' = flushing \ {j}
  /\ batch' = [batch EXCEPT ![j] = NoBatch]
  /\ desk' \in FlushesBatch(desk, j, batch[j])
  /\ UNCHANGED <<session, phase, jobVars, active, recent, events, silenced, starts>>

\* Mutant: the timeout does not look at the status.
Timeout_Unchecked(j) ==
  /\ j \in active
  /\ StopFor(j, batch[j])
  /\ UNCHANGED <<session, phase, owner, run, recent, events, silenced, starts>>

\* The monitor's timeout; a command that already ended reports its own exit.
Timeout(j) ==
  /\ j \in active
  /\ status[j] = "running"
  /\ StopFor(j, batch[j])
  /\ UNCHANGED <<session, phase, owner, run, recent, events, silenced, starts>>

\* The command ends, with or without a last partial line: the status is set
\* now, the exit is reported when the log is closed.
ExecEnds(j) ==
  /\ run[j] = "executing"
  /\ run' = [run EXCEPT ![j] = "closing"]
  /\ \/ /\ status' = [status EXCEPT ![j] = IF @ = "running" THEN "exited" ELSE @]
        /\ UNCHANGED <<active, batch, flushing, recent, events, desk>>
     \/ PushLine(j, "exited")
  /\ UNCHANGED <<session, phase, owner, silenced, starts>>

\* finish() of the registry, onSettled and settleJob(): a job that ended on its
\* own reports its pending lines and its exit, a stopped one nothing.
LogClosed(j) ==
  /\ run[j] = "closing"
  /\ run' = [run EXCEPT ![j] = "done"]
  /\ IF status[j] = "exited"
     THEN Cancel(j) /\ desk' \in Finishes(desk, j, OpenBatch(j))
     ELSE UNCHANGED <<active, batch, flushing, desk>>
  /\ UNCHANGED <<session, phase, owner, status, recent, events, silenced, starts>>

\* The tool job_stop: the timers and the pending lines are dropped.
JobStop(j) ==
  /\ phase = "running"
  /\ status[j] # "new" /\ owner[j] = session
  /\ Cancel(j)
  /\ status' = [status EXCEPT ![j] = IF @ = "running" THEN "halted" ELSE @]
  /\ silenced' = silenced \cup {j}
  /\ UNCHANGED <<session, phase, owner, run, recent, events, desk, starts>>

\* A human stops a running job in the jobs view: the agent is told.
HumanStop(j) ==
  /\ session # None /\ owner[j] = session
  /\ status[j] = "running"
  /\ status' = Stopped({j})
  /\ Cancel(j)
  /\ desk' \in Finishes(desk, j, OpenBatch(j))
  /\ UNCHANGED <<session, phase, owner, run, recent, events, silenced, starts>>

----------------------------------------------------------------------------
(* The parent                                                              *)

SessionStart(s) ==
  /\ session = None
  /\ starts < MaxStarts
  /\ starts' = starts + 1
  /\ session' = s
  /\ phase' = "idle"
  /\ desk' = [desk EXCEPT !.queue = EmptyQueue, !.retry = FALSE, !.retries = 0,
                       !.wake = "none"]
  /\ UNCHANGED <<jobVars, monitorVars>>

\* Every job of the session is stopped and silent.
SessionShutdown ==
  /\ session # None
  /\ session' = None
  /\ phase' = "idle"
  /\ status' = Stopped(Jobs)
  /\ active' = {} /\ flushing' = {}
  /\ batch' = [j \in Monitors |-> NoBatch]
  /\ silenced' = {j \in Jobs : status[j] # "new"}
  /\ desk' = [desk EXCEPT !.queue = EmptyQueue, !.retry = FALSE, !.retries = 0,
                       !.wake = "none"]
  /\ UNCHANGED <<owner, run, recent, events, starts>>

\* dispatchWake(), the microtask after the callback that stored a notice: its
\* prompt will start a run, so the retry ends.
Dispatch ==
  /\ desk.wake = "owed"
  /\ desk' = [desk EXCEPT !.wake = "sent", !.retry = FALSE]
  /\ UNCHANGED <<session, phase, jobVars, monitorVars, starts>>

\* agent_start: a prompt of the user or of a wake, or the host goes on.
AgentStart ==
  /\ session # None /\ phase \in {"idle", "settling"}
  /\ phase' = "running"
  /\ desk' = [desk EXCEPT !.retry = FALSE, !.retries = 0, !.wake = "none"]
  /\ UNCHANGED <<session, jobVars, monitorVars, starts>>

TurnEnd ==
  /\ phase = "running"
  /\ desk' \in Flushes(desk, "running")
  /\ UNCHANGED <<session, phase, jobVars, monitorVars, starts>>

AgentEnd ==
  /\ phase = "running"
  /\ phase' = "settling"
  /\ desk' \in Flushes(desk, "running")
  /\ UNCHANGED <<session, jobVars, monitorVars, starts>>

AgentSettled ==
  /\ phase = "settling"
  /\ phase' = "idle"
  /\ desk' \in Flushes(desk, "idle")
  /\ UNCHANGED <<session, jobVars, monitorVars, starts>>

Compacts ==
  /\ session # None /\ phase = "idle"
  /\ phase' = "compacting"
  /\ UNCHANGED <<session, jobVars, monitorVars, desk, starts>>

\* The boundary flush after a compaction.
Compacted ==
  /\ phase = "compacting"
  /\ phase' = "idle"
  /\ desk' \in Flushes(desk, "idle")
  /\ UNCHANGED <<session, jobVars, monitorVars, starts>>

Retry ==
  /\ desk.retry
  /\ desk' \in Flushes([desk EXCEPT !.retry = FALSE], phase)
  /\ UNCHANGED <<session, phase, jobVars, monitorVars, starts>>

JobSteps(j) == Start(j) \/ ExecEnds(j) \/ LogClosed(j) \/ JobStop(j) \/ HumanStop(j)
MonitorSteps(j) == Line(j) \/ FlushTimer(j) \/ Timeout(j)
ParentSteps ==
  \/ \E s \in Sessions : SessionStart(s)
  \/ SessionShutdown \/ AgentStart \/ TurnEnd \/ AgentEnd \/ AgentSettled
  \/ Compacts \/ Compacted \/ Retry

\* A microtask runs before the next callback.
Next ==
  \/ Dispatch
  \/ /\ desk.wake # "owed"
     /\ (\E j \in Jobs : JobSteps(j)) \/ (\E j \in Monitors : MonitorSteps(j)) \/ ParentSteps

Spec == Init /\ [][Next]_vars

\* A log is closed, a wake's prompt starts a run, runs and compactions end,
\* the retry's timer fires.
FairSpec ==
  /\ Spec
  /\ \A j \in Jobs : WF_vars(LogClosed(j))
  /\ WF_vars(Dispatch) /\ SF_vars(desk.wake = "sent" /\ AgentStart)
  /\ WF_vars(AgentEnd) /\ SF_vars(AgentSettled) /\ WF_vars(Compacted) /\ WF_vars(Retry)

----------------------------------------------------------------------------
(* Properties                                                              *)

\* Until a monitor is silenced, each of its event lines is in its open batch,
\* in a pending notice, or was told, in full or as a count: batching, merging,
\* requeueing and the end of the job lose none and report none twice.
LinesAccounted ==
  \A j \in Monitors \ silenced :
    events[j] = Size(batch[j]) + Size(desk.queue[j]) + Size(desk.told[j])

\* A monitor's lines reach the agent in the order they were printed.
LinesInOrder ==
  \A j \in Monitors :
    LET l == desk.told[j].lines IN \A i \in 2..Len(l) : l[i - 1] < l[i]

\* No events are queued behind an end.
EndsLast == \A j \in active : desk.queue[j].ends = 0

\* What becomes of a monitor's lines: all accounted for, and in order.
MonitorInv == TypeOK /\ LinesAccounted /\ LinesInOrder /\ EndsLast

\* The end of a job is told at most once, whoever raced to end it; and a job that is
\* running, or was when job_stop stopped it, has no end to tell, neither by the exit
\* of its command nor by its timeout.
OneEnd ==
  \A j \in Jobs :
    LET ends == desk.told[j].ends + desk.queue[j].ends
    IN  ends <= 1 /\ (status[j] \in {"running", "halted"} => ends = 0)

\* A job's notices reach only the session that started it.
JobsRightSession ==
  [][\A j \in Jobs : desk'.told[j] # desk.told[j] => owner[j] = session]_vars

\* A job that ends on its own tells the agent, or its session ends.
ExitTold ==
  \A j \in Jobs :
    run[j] = "closing" /\ status[j] = "exited" ~> desk.told[j].ends > 0 \/ session # owner[j]

\* extensions/gentle-agents.ts:1401: "A monitor's pending lines are delivered
\* before its end."
EndComesLast ==
  \A j \in Monitors \ silenced : desk.told[j].ends > 0 => Size(desk.told[j]) = events[j]
=============================================================================
