--------------------------- MODULE ParentDelivery ---------------------------
(***************************************************************************)
(* How the results and the messages of subagents reach the parent session: *)
(* the completion queue (lib/agents-completion-delivery.ts), the message   *)
(* queue (lib/agents-message-delivery.ts), and the routing, the wake and   *)
(* the retry of extensions/gentle-agents.ts.                               *)
(*                                                                         *)
(* One action is one callback of the extension, together with the host's   *)
(* step that fires it.  The host (Pi) is external: what a prompt, a run    *)
(* and a compaction do is taken from the comments and the fakes the        *)
(* extension is tested with.  Timers are macrotasks, so none fires while   *)
(* the microtask dispatchWake is queued; other callbacks may run before.   *)
(* The queues are sets: nothing here tells the order of what they hold.    *)
(***************************************************************************)
EXTENDS Naturals, FiniteSets

CONSTANTS
  Tasks,           \* background tasks
  Talkers,         \* those of them that send messages
  Sessions,        \* parent sessions
  None,            \* no session
  RetryLimit,      \* PARENT_DELIVERY_RETRY_LIMIT
  MaxFaults,       \* bound: sends the host rejects
  MaxPrompts,      \* bound: prompts of the user
  MaxVanishes,     \* bound: prompts that never start a run
  MaxCompactions,  \* bound: compactions
  MaxStarts,       \* bound: session_start events
  SlowPrompts      \* whether a prompt may take longer than the grace to start

ASSUME TasksAssumption == IsFiniteSet(Tasks)
ASSUME TalkersAssumption == Talkers \subseteq Tasks
ASSUME NoneAssumption == None \notin Sessions
ASSUME RetryAssumption == RetryLimit \in Nat
ASSUME BoundsAssumption ==
  /\ MaxFaults \in Nat /\ MaxPrompts \in Nat /\ MaxVanishes \in Nat
  /\ MaxCompactions \in Nat /\ MaxStarts \in Nat
ASSUME SlowPromptsAssumption == SlowPrompts \in BOOLEAN

VARIABLES
  session,   \* activeSessionId(), and whether parentCtx is set
  owner,     \* parentSessionId of each task
  task,      \* what became of each task
  query,     \* the query of each task
  queue,     \* the pending completions and the pending messages
  consumed,  \* completions the parent has read by a tool
  delivered, \* completions taken from the queue and not given back
  closed,    \* invalidatedTasks
  wake,      \* wakeOwed, wakeQueued, promptStarting (and its grace timer)
  timers,    \* the boundary flush, the delivery retry, deliveryRetries
  runs,      \* activeAgentRuns
  runActive, \* parentRunActive
  host,      \* what Pi is doing: [phase, the user's prompt, wakes not started yet]
  sent,      \* how often the parent received each content
  unseen,    \* some stored content had no run since
  used       \* how much of each bound is used

extVars == <<queue, consumed, delivered, closed, wake, timers, runs, runActive>>
vars == <<session, owner, task, query, extVars, host, sent, unseen, used>>

Completion(t) == [kind |-> "completion", of |-> t]
Notice(t) == [kind |-> "notification", of |-> t]
Query(t) == [kind |-> "query", of |-> t]
Content == [kind : {"completion", "notification", "query"}, of : Tasks]

\* Pi outside a run, in a run, after agent_end and before agent_settled, in a
\* compaction outside a run, and between its end event and its end.
Phases == {"idle", "running", "ending", "compacting", "leaving"}

WakeStates == [owed : BOOLEAN, queued : BOOLEAN, starting : BOOLEAN]
TimerStates == [boundary : BOOLEAN, retry : BOOLEAN, retries : 0..RetryLimit]

TypeOK ==
  /\ session \in Sessions \cup {None}
  /\ owner \in [Tasks -> Sessions \cup {None}]
  /\ task \in [Tasks -> {"new", "running", "settled", "cancelled"}]
  /\ query \in [Tasks -> {"none", "open", "settled"}]
  /\ queue \subseteq Content
  /\ consumed \subseteq Tasks
  /\ delivered \subseteq Tasks
  /\ closed \subseteq Tasks
  /\ wake \in WakeStates
  /\ timers \in TimerStates
  /\ runs \in Nat
  /\ runActive \in BOOLEAN
  /\ host \in [phase : Phases, prompt : {"none", "typed", "announced"}, wakes : Nat]
  /\ sent \in [Content -> Nat]
  /\ unseen \in BOOLEAN
  /\ used \in [faults : 0..MaxFaults, prompts : 0..MaxPrompts, vanishes : 0..MaxVanishes,
               compactions : 0..MaxCompactions, starts : 0..MaxStarts]

NoHost == [phase |-> "idle", prompt |-> "none", wakes |-> 0]

Init ==
  /\ session = None
  /\ owner = [t \in Tasks |-> None]
  /\ task = [t \in Tasks |-> "new"]
  /\ query = [t \in Tasks |-> "none"]
  /\ queue = {}
  /\ consumed = {}
  /\ delivered = {}
  /\ closed = {}
  /\ wake = [owed |-> FALSE, queued |-> FALSE, starting |-> FALSE]
  /\ timers = [boundary |-> FALSE, retry |-> FALSE, retries |-> 0]
  /\ runs = 0
  /\ runActive = FALSE
  /\ host = NoHost
  /\ sent = [c \in Content |-> 0]
  /\ unseen = FALSE
  /\ used = [faults |-> 0, prompts |-> 0, vanishes |-> 0, compactions |-> 0, starts |-> 0]

Use(bound, limit) == used[bound] < limit /\ used' = [used EXCEPT ![bound] = @ + 1]

----------------------------------------------------------------------------
(* Routing and flushing                                                    *)

\* Mutant: what is not idle takes steering.
Route_Steers(phase, active) ==
  IF session = None THEN "none" ELSE IF phase = "idle" THEN "idle" ELSE "run"

\* parentRoute(): a busy parent without a run holds; no context, no route.
Route(phase, active) ==
  CASE session = None -> "none"
    [] session # None /\ phase = "idle" -> "idle"
    [] session # None /\ phase # "idle" /\ active -> "run"
    [] OTHER -> "hold"

\* requestWake(): one dispatch per pass, none while a prompt is starting.
Requested(w) == [w EXCEPT !.queued = @ \/ (w.owed /\ ~w.starting)]

\* Mutant: the retry is never armed.
RetryArmed_Never(tm) == tm

\* armDeliveryRetry()
RetryArmed(tm) ==
  IF tm.retry \/ tm.retries >= RetryLimit THEN tm
  ELSE [tm EXCEPT !.retry = TRUE, !.retries = @ + 1]

IsCompletion(c) == c.kind = "completion"

\* Mutants: consumed completions are returned; any session's are delivered.
Deliverable_Consumed(q) == {c \in q : IsCompletion(c) /\ owner[c.of] = session}
Deliverable_AnyOwner(q) == {c \in q : IsCompletion(c) /\ c.of \notin consumed}

\* takeDeliverable() of the two queues, and the owner check before each send.
Deliverable(q) ==
  {c \in q : /\ owner[c.of] = session
             /\ IsCompletion(c) => c.of \notin consumed
             /\ ~IsCompletion(c) => task[c.of] = "running" /\ c.of \notin closed
             /\ c.kind = "query" => query[c.of] = "open"}

\* Mutants: a failed completion is dropped; one failure requeues them all.
Requeued_None(bad, D) == {}
Requeued_All(bad, D) == IF bad = {} THEN {} ELSE {c \in D : IsCompletion(c)}

\* requeue() of what could not be forwarded: messages are dropped.
Requeued(bad, D) == {c \in bad : IsCompletion(c)}

\* The host rejects the sends of bad, at most as many as the bound leaves.
Rejects(bad) ==
  /\ used.faults + Cardinality(bad) <= MaxFaults
  /\ used' = [used EXCEPT !.faults = @ + Cardinality(bad)]

\* sendToParent() of each content of ok: stored with a wake owed when the
\* parent is idle, steered into the run otherwise.
Send(ok, route) ==
  /\ sent' = [c \in Content |-> IF c \in ok THEN sent[c] + 1 ELSE sent[c]]
  /\ unseen' = (unseen \/ (route = "idle" /\ ok # {}))

Woken(ok, route, w) ==
  IF route = "idle" /\ ok # {} THEN Requested([w EXCEPT !.owed = TRUE]) ELSE w

\* What a flush does when the parent cannot receive: nothing.
Held(q, w, tm) ==
  /\ queue' = q
  /\ wake' = w
  /\ timers' = tm
  /\ UNCHANGED <<delivered, sent, unseen, used>>

\* flushAll() in a phase of the host, given what the callback has already put
\* in place.  Only an idle parent, which has no boundary coming, gets a retry.
FlushAll(phase, active, q, w, tm) ==
  LET route == Route(phase, active)
      D == Deliverable(q)
      taken == {c.of : c \in {x \in q : IsCompletion(x) /\ x.of \notin consumed}}
  IN  /\ runActive' = (active /\ route # "idle")
      /\ \/ /\ route \in {"none", "hold"}
            /\ Held(q, Requested(w), tm)
         \/ /\ route \in {"idle", "run"}
            /\ \E bad \in SUBSET D :
                 LET failed == Requeued(bad, D)
                 IN  /\ Rejects(bad)
                     /\ Send(D \ bad, route)
                     /\ queue' = failed
                     /\ delivered' = (delivered \cup taken) \ {c.of : c \in failed}
                     /\ wake' = Requested(Woken(D \ bad, route, w))
                     /\ timers' = IF route = "idle" /\ failed # {} THEN RetryArmed(tm) ELSE tm

\* flushMessages() alone.
FlushMessages(q) ==
  LET route == Route(host.phase, runActive)
      D == {c \in Deliverable(q) : ~IsCompletion(c)}
  IN  /\ runActive' = (runActive /\ route # "idle")
      /\ \/ /\ route \in {"none", "hold"}
            /\ Held(q, wake, timers)
         \/ /\ route \in {"idle", "run"}
            /\ \E bad \in SUBSET D :
                 /\ Rejects(bad)
                 /\ Send(D \ bad, route)
                 /\ queue' = {c \in q : IsCompletion(c)}
                 /\ wake' = Woken(D \ bad, route, wake)
                 /\ UNCHANGED <<delivered, timers>>

WithoutMessagesOf(q, t) == {c \in q : IsCompletion(c) \/ c.of # t}

----------------------------------------------------------------------------
(* The host's events                                                       *)

\* resetParentDelivery() and dropAll() of both queues.  A queued dispatchWake
\* stays queued, and session_start leaves activeAgentRuns alone.
Reset ==
  /\ queue' = {}
  /\ consumed' = {}
  /\ delivered' = {}
  /\ closed' = {}
  /\ runActive' = FALSE
  /\ wake' = [wake EXCEPT !.owed = FALSE, !.starting = FALSE]
  /\ timers' = [boundary |-> FALSE, retry |-> FALSE, retries |-> 0]
  /\ unseen' = FALSE

SessionStart(s) ==
  /\ session = None
  /\ Use("starts", MaxStarts)
  /\ session' = s
  /\ Reset
  /\ UNCHANGED <<owner, task, query, runs, host, sent>>

\* The session's host activity ends with it; its tasks are being cancelled.
SessionShutdown ==
  /\ session # None
  /\ session' = None
  /\ Reset
  /\ runs' = 0
  /\ host' = NoHost
  /\ UNCHANGED <<owner, task, query, sent, used>>

UserPrompts ==
  /\ session # None
  /\ host.phase = "idle"
  /\ host.prompt = "none"
  /\ Use("prompts", MaxPrompts)
  /\ host' = [host EXCEPT !.prompt = "typed"]
  /\ UNCHANGED <<session, owner, task, query, extVars, sent, unseen>>

\* Mutant: the start of a prompt is not noted.
BeforeAgentStart_Unnoted ==
  /\ host.phase = "idle"
  /\ host.prompt = "typed"
  /\ host' = [host EXCEPT !.prompt = "announced"]
  /\ UNCHANGED <<session, owner, task, query, extVars, sent, unseen, used>>

\* before_agent_start of a prompt of the user or of a wake.
BeforeAgentStart ==
  /\ host.phase = "idle"
  /\ \/ host.prompt = "typed" /\ host' = [host EXCEPT !.prompt = "announced"]
     \/ host.wakes > 0 /\ UNCHANGED host
  /\ wake' = [wake EXCEPT !.starting = @ \/ ~runActive]
  /\ UNCHANGED <<session, owner, task, query, queue, consumed, delivered, closed, timers, runs,
                 runActive, sent, unseen, used>>

\* agent_start: a run starts, from a prompt or as a retry after agent_end.
AgentStart ==
  /\ \/ host.phase = "idle" /\ host.prompt = "announced"
        /\ host' = [host EXCEPT !.phase = "running", !.prompt = "none"]
     \/ host.phase = "idle" /\ host.wakes > 0
        /\ host' = [host EXCEPT !.phase = "running", !.wakes = @ - 1]
     \/ host.phase = "ending" /\ host' = [host EXCEPT !.phase = "running"]
  /\ runs' = runs + 1
  /\ runActive' = TRUE
  /\ wake' = [wake EXCEPT !.owed = FALSE, !.starting = FALSE]
  /\ timers' = [timers EXCEPT !.retry = FALSE, !.retries = 0]
  /\ unseen' = FALSE
  /\ UNCHANGED <<session, owner, task, query, queue, consumed, delivered, closed, sent, used>>

\* A prompt that finds a run in progress is steered into it.
PromptJoinsRun ==
  /\ host.phase = "running"
  /\ \/ host.prompt # "none" /\ host' = [host EXCEPT !.prompt = "none"]
     \/ host.wakes > 0 /\ host' = [host EXCEPT !.wakes = @ - 1]
  /\ UNCHANGED <<session, owner, task, query, extVars, sent, unseen, used>>

\* A prompt is handled by an input handler, or rejected: no event tells.
PromptVanishes ==
  /\ host.phase = "idle"
  /\ Use("vanishes", MaxVanishes)
  /\ \/ host.prompt # "none" /\ host' = [host EXCEPT !.prompt = "none"]
     \/ host.wakes > 0 /\ host' = [host EXCEPT !.wakes = @ - 1]
  /\ UNCHANGED <<session, owner, task, query, extVars, sent, unseen>>

TurnEnd ==
  /\ host.phase = "running"
  /\ FlushAll("running", runActive, queue, wake, timers)
  /\ UNCHANGED <<session, owner, task, query, consumed, closed, runs, host>>

\* agent_end: Pi still streams, and drains what is steered, until agent_settled.
AgentEnd ==
  /\ host.phase = "running"
  /\ SlowPrompts \/ (host.prompt # "announced" /\ host.wakes = 0)
  /\ host' = [host EXCEPT !.phase = "ending"]
  /\ runs' = IF runs > 0 THEN runs - 1 ELSE 0
  /\ FlushAll("ending", runActive, queue, wake, timers)
  /\ UNCHANGED <<session, owner, task, query, consumed, closed>>

AgentSettled ==
  /\ host.phase = "ending"
  /\ host' = [host EXCEPT !.phase = "idle"]
  /\ FlushAll("idle", FALSE, queue, [wake EXCEPT !.starting = FALSE], timers)
  /\ UNCHANGED <<session, owner, task, query, consumed, closed, runs>>

\* Pi compacts outside a run: on the user's command, or before a prompt's run.
Compact ==
  /\ session # None
  /\ host.phase = "idle"
  /\ Use("compactions", MaxCompactions)
  /\ host' = [host EXCEPT !.phase = "compacting"]
  /\ UNCHANGED <<session, owner, task, query, extVars, sent, unseen>>

\* Mutant: the event is not handled.
CompactionEvent_Ignored ==
  /\ host.phase = "compacting"
  /\ host' = [host EXCEPT !.phase = "leaving"]
  /\ UNCHANGED <<session, owner, task, query, extVars, sent, unseen, used>>

\* session_compact or session_compact_failed: Pi still reports compaction, so
\* the flush waits for the next tick.  Inside a run the same event comes alone.
CompactionEvent ==
  /\ \/ host.phase = "compacting" /\ host' = [host EXCEPT !.phase = "leaving"] /\ UNCHANGED used
     \/ host.phase = "running" /\ Use("compactions", MaxCompactions) /\ UNCHANGED host
  /\ timers' = [timers EXCEPT !.boundary = TRUE]
  /\ UNCHANGED <<session, owner, task, query, queue, consumed, delivered, closed, wake, runs,
                 runActive, sent, unseen>>

CompactionOver ==
  /\ host.phase = "leaving"
  /\ host' = [host EXCEPT !.phase = "idle"]
  /\ UNCHANGED <<session, owner, task, query, extVars, sent, unseen, used>>

----------------------------------------------------------------------------
(* Timers and the wake                                                     *)

\* Pi leaves a compaction before its next macrotask.
Macrotask == ~wake.queued /\ host.phase # "leaving"

BoundaryFlush ==
  /\ timers.boundary
  /\ Macrotask
  /\ FlushAll(host.phase, runActive, queue, wake, [timers EXCEPT !.boundary = FALSE])
  /\ UNCHANGED <<session, owner, task, query, consumed, closed, runs, host>>

DeliveryRetry ==
  /\ timers.retry
  /\ Macrotask
  /\ FlushAll(host.phase, runActive, queue, wake, [timers EXCEPT !.retry = FALSE])
  /\ UNCHANGED <<session, owner, task, query, consumed, closed, runs, host>>

\* Mutant: the end of the grace does not ask for the owed wake again.
PromptGrace_Forgets ==
  /\ wake.starting
  /\ Macrotask
  /\ wake' = [wake EXCEPT !.starting = FALSE]
  /\ UNCHANGED <<session, owner, task, query, queue, consumed, delivered, closed, timers, runs,
                 runActive, host, sent, unseen, used>>

\* PARENT_WAKE_GRACE_MS passed since the last sign of a prompt.
PromptGrace ==
  /\ wake.starting
  /\ Macrotask
  /\ SlowPrompts \/ (host.prompt # "announced" /\ host.wakes = 0)
  /\ wake' = Requested([wake EXCEPT !.starting = FALSE])
  /\ UNCHANGED <<session, owner, task, query, queue, consumed, delivered, closed, timers, runs,
                 runActive, host, sent, unseen, used>>

\* dispatchWake(): the wake prompt is sent only to an idle parent; one the host
\* rejects stays owed.
DispatchWake ==
  LET route == Route(host.phase, runActive)
      asked == wake.owed /\ ~wake.starting
  IN  /\ wake.queued
      /\ runActive' = (runActive /\ ~(asked /\ route = "idle"))
      /\ \/ /\ ~asked \/ route # "idle"
            /\ wake' = [wake EXCEPT !.queued = FALSE]
            /\ UNCHANGED <<timers, host, used>>
         \/ /\ asked /\ route = "idle"
            /\ wake' = [owed |-> FALSE, queued |-> FALSE, starting |-> TRUE]
            /\ timers' = [timers EXCEPT !.retry = FALSE, !.retries = 0]
            /\ host' = [host EXCEPT !.wakes = @ + 1]
            /\ UNCHANGED used
         \/ /\ asked /\ route = "idle"
            /\ Use("faults", MaxFaults)
            /\ wake' = [wake EXCEPT !.queued = FALSE]
            /\ timers' = RetryArmed([timers EXCEPT !.retry = FALSE])
            /\ UNCHANGED host
      /\ UNCHANGED <<session, owner, task, query, queue, consumed, delivered, closed, runs, sent,
                     unseen>>

----------------------------------------------------------------------------
(* The tasks and the parent's tools                                        *)

Launch(t) ==
  /\ session # None
  /\ task[t] = "new"
  /\ task' = [task EXCEPT ![t] = "running"]
  /\ owner' = [owner EXCEPT ![t] = session]
  /\ UNCHANGED <<session, query, extVars, host, sent, unseen, used>>

\* onFinish and settleCompletion(): any verdict but "cancelled".  A child of an
\* earlier session may still end after its parent has shut down.
Finish(t) ==
  LET known == t \in consumed \cup delivered
      q == WithoutMessagesOf(queue, t)
      pending == IF known THEN q ELSE q \cup {Completion(t)}
  IN  /\ task[t] = "running"
      /\ task' = [task EXCEPT ![t] = "settled"]
      /\ closed' = closed \cup {t}
      /\ IF runs = 0 THEN FlushAll(host.phase, runActive, pending, wake, timers)
         ELSE Held(pending, wake, timers) /\ UNCHANGED runActive
      /\ UNCHANGED <<session, owner, query, consumed, runs, host>>

FinishCancelled(t) ==
  /\ task[t] = "running"
  /\ task' = [task EXCEPT ![t] = "cancelled"]
  /\ closed' = closed \cup {t}
  /\ queue' = WithoutMessagesOf(queue, t)
  /\ UNCHANGED <<session, owner, query, consumed, delivered, wake, timers, runs, runActive, host,
                 sent, unseen, used>>

MayTalk(t) == t \in Talkers /\ session # None /\ owner[t] = session /\ task[t] = "running"

\* onNotification.  The model lets a task notify once.
Notify(t) ==
  LET q == IF t \in closed THEN queue ELSE queue \cup {Notice(t)}
  IN  /\ MayTalk(t)
      /\ Notice(t) \notin queue
      /\ sent[Notice(t)] = 0
      /\ IF runs = 0 THEN FlushMessages(q)
         ELSE Held(q, wake, timers) /\ UNCHANGED runActive
      /\ UNCHANGED <<session, owner, task, query, consumed, closed, runs, host>>

\* onQuery: the first send that fails is told to the child, whose query
\* expires; what the flush had taken after it is dropped.  The child's own
\* query is the last in its queue.
Ask(t) ==
  LET new == IF t \in closed THEN {} ELSE {Query(t)}
      earlier == {c \in Deliverable(queue) : ~IsCompletion(c)}
      route == Route(host.phase, runActive)
      flushed == runs = 0 /\ route \in {"idle", "run"}
  IN  /\ MayTalk(t)
      /\ query[t] = "none"
      /\ runActive' = (runActive /\ ~(runs = 0 /\ route = "idle"))
      /\ \/ /\ ~flushed
            /\ query' = [query EXCEPT ![t] = "open"]
            /\ Held(queue \cup new, wake, timers)
         \/ /\ flushed
            /\ query' = [query EXCEPT ![t] = "open"]
            /\ Send(earlier \cup new, route)
            /\ queue' = {c \in queue : IsCompletion(c)}
            /\ wake' = Woken(earlier \cup new, route, wake)
            /\ UNCHANGED <<delivered, timers, used>>
         \/ /\ flushed
            /\ Use("faults", MaxFaults)
            /\ query' = [query EXCEPT ![t] = "settled"]
            /\ \E ok \in SUBSET earlier :
                 /\ ok # earlier \cup new
                 /\ Send(ok, route)
                 /\ wake' = Woken(ok, route, wake)
            /\ queue' = {c \in queue : IsCompletion(c)}
            /\ UNCHANGED <<delivered, timers>>
      /\ UNCHANGED <<session, owner, task, consumed, closed, runs, host>>

\* onQuerySettled: replied to, expired, or given up with its task.
QuerySettled(t) ==
  /\ query[t] = "open"
  /\ query' = [query EXCEPT ![t] = "settled"]
  /\ queue' = queue \ {Query(t)}
  /\ UNCHANGED <<session, owner, task, consumed, delivered, closed, wake, timers, runs, runActive,
                 host, sent, unseen, used>>

\* The parent's run reads a finished task (result, continue, a waiting call).
ReadResult(t) ==
  /\ host.phase = "running"
  /\ task[t] \in {"settled", "cancelled"}
  /\ consumed' = consumed \cup {t}
  /\ closed' = closed \cup {t}
  /\ queue' = WithoutMessagesOf(queue, t)
  /\ UNCHANGED <<session, owner, task, query, delivered, wake, timers, runs, runActive, host, sent,
                 unseen, used>>

\* The cancel tool silences the task at once; the runner ends it later.
CancelTool(t) ==
  /\ host.phase = "running"
  /\ task[t] = "running"
  /\ closed' = closed \cup {t}
  /\ queue' = WithoutMessagesOf(queue, t)
  /\ UNCHANGED <<session, owner, task, query, consumed, delivered, wake, timers, runs, runActive,
                 host, sent, unseen, used>>

PromptSteps == UserPrompts \/ PromptVanishes
RunSteps ==
  \/ \E s \in Sessions : SessionStart(s)
  \/ SessionShutdown \/ BeforeAgentStart \/ AgentStart \/ PromptJoinsRun
  \/ TurnEnd \/ AgentEnd \/ AgentSettled
  \/ Compact \/ CompactionEvent \/ CompactionOver
HostSteps == PromptSteps \/ RunSteps
TimerSteps == BoundaryFlush \/ DeliveryRetry \/ PromptGrace \/ DispatchWake
TaskSteps(t) ==
  \/ Launch(t) \/ Finish(t) \/ FinishCancelled(t) \/ Notify(t) \/ Ask(t) \/ QuerySettled(t)
  \/ ReadResult(t) \/ CancelTool(t)

Next == HostSteps \/ TimerSteps \/ \E t \in Tasks : TaskSteps(t)

Spec == Init /\ [][Next]_vars

\* A run ends, and settles however often Pi retries it; a compaction ends; a
\* prompt that does not vanish starts; timers fire and microtasks run.
Fairness ==
  /\ WF_vars(AgentStart) /\ WF_vars(PromptJoinsRun) /\ WF_vars(AgentEnd) /\ SF_vars(AgentSettled)
  /\ WF_vars(host.phase = "compacting" /\ CompactionEvent) /\ WF_vars(CompactionOver)
  /\ WF_vars(BoundaryFlush) /\ WF_vars(DeliveryRetry) /\ WF_vars(PromptGrace)
  /\ WF_vars(DispatchWake)
FairSpec == Spec /\ Fairness

\* The parent is left to what is forwarded to it: no prompt is typed or vanishes.
ForwardSpec ==
  Init /\ [][RunSteps \/ TimerSteps \/ \E t \in Tasks : TaskSteps(t)]_vars /\ Fairness

----------------------------------------------------------------------------
(* Properties                                                              *)

NewlySent == {c \in Content : sent'[c] > sent[c]}

\* The parent receives each completion, query and notification at most once,
\* whatever was requeued, retried or flushed twice.
AtMostOnce == \A c \in Content : sent[c] <= 1

\* Content goes to the session that launched the task, even when the task ends
\* after its session did and another one is open.
RightSession == [][\A c \in NewlySent : owner[c.of] = session]_vars

\* A completion of the open session leaves the queue only to be received, or
\* because the parent has already read the result.
NothingLost ==
  [][\A t \in Tasks :
       (Completion(t) \in queue \/ (task[t] = "running" /\ task'[t] = "settled"))
         /\ owner[t] = session /\ session' = session
         => Completion(t) \in queue' \cup NewlySent \/ t \in consumed']_vars

\* A result the parent has read, and a query that was replied to or expired,
\* is never handed to it again.
NothingReplayed ==
  [][\A c \in NewlySent :
       /\ IsCompletion(c) => c.of \notin consumed
       /\ c.kind = "query" => query'[c.of] = "open"]_vars

\* Content is never forwarded to a parent that is busy without a run, where it
\* would start a turn of its own.
HeldWhileBusy == [][NewlySent # {} => host'.phase \in {"idle", "running", "ending"}]_vars

\* The extension never sends a wake while a prompt it knows of has not started
\* its run: two of them racing could both reach the agent.
WakesApart == host'.wakes > host.wakes => host.wakes = 0 /\ host.prompt # "announced"
NoRacingWakes == [][WakesApart]_vars

\* An owed wake always has something that will send it: no wakeup is lost
\* between the microtask, the grace, the retry and the boundaries.
WakeServed ==
  session # None /\ wake.owed =>
    \/ wake.queued \/ wake.starting \/ timers.retry \/ timers.boundary
    \/ host.phase # "idle"
    \/ timers.retries >= RetryLimit

\* The inductive invariant of the proofs: a content that is pending was not
\* received, one that does not exist yet is neither, and only the completion of
\* a task that ended counts as delivered.
Unsaid(c) ==
  \/ IsCompletion(c) /\ task[c.of] \in {"new", "running"}
  \/ c.kind = "query" /\ query[c.of] = "none"
DeliveryInv ==
  /\ \A c \in Content :
       /\ sent[c] <= 1
       /\ c \in queue => sent[c] = 0
       /\ Unsaid(c) => sent[c] = 0 /\ c \notin queue
  /\ runActive => host.phase \in {"running", "ending"}
  /\ host.phase = "leaving" => timers.boundary
  /\ session = None => host = NoHost
  /\ \A t \in delivered : task[t] \notin {"new", "running"}
  /\ WakeServed

\* extensions/gentle-agents.ts:1292: a completion whose forward failed waits
\* for the next boundary, "and an idle parent, which has none coming, gets a
\* bounded retry".
FailedForwardServed ==
  session # None /\ (\E t \in Tasks : Completion(t) \in queue) /\ host.phase = "idle" =>
    \/ wake.queued \/ wake.starting \/ timers.retry \/ timers.boundary
    \/ host.prompt # "none" \/ host.wakes > 0
    \/ timers.retries >= RetryLimit

\* A pending completion leaves the queue or its session ends, as long as the
\* host rejects no more sends than the retries cover.
CompletionForwarded ==
  \A t \in Tasks : Completion(t) \in queue ~> (Completion(t) \notin queue \/ session = None)

\* Content stored in an idle parent gets a run that reads it.
StoredContentSeen == unseen ~> ~unseen
=============================================================================
