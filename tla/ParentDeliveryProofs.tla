------------------------ MODULE ParentDeliveryProofs ------------------------
(***************************************************************************)
(* Proofs about ParentDelivery, for every finite set of tasks, every set   *)
(* of sessions, every limit of retries and every bound.                    *)
(***************************************************************************)
EXTENDS ParentDelivery, FiniteSetTheorems, TLAPS

\* What tasks can say is finite, so a set of it has a size.
LEMMA ContentFinite == ASSUME NEW S \in SUBSET Content PROVE Cardinality(S) \in Nat
<1> DEFINE K == {"completion", "notification", "query"}
           f == [p \in K \X Tasks |-> [kind |-> p[1], of |-> p[2]]]
<1>1. IsFiniteSet(K)
  <2>1. IsFiniteSet({"completion"})
    BY FS_Singleton
  <2>2. IsFiniteSet({"completion"} \cup {"notification"})
    BY <2>1, FS_AddElement
  <2>3. IsFiniteSet(({"completion"} \cup {"notification"}) \cup {"query"})
    BY <2>2, FS_AddElement
  <2>4. K = ({"completion"} \cup {"notification"}) \cup {"query"}
    OBVIOUS
  <2> QED BY <2>3, <2>4
<1>2. IsFiniteSet(K \X Tasks)
  BY <1>1, TasksAssumption, FS_Product
<1>3. f \in Surjection(K \X Tasks, Content)
  <2>1. ASSUME NEW c \in Content PROVE \E p \in K \X Tasks : f[p] = c
    <3>1. <<c.kind, c.of>> \in K \X Tasks /\ c = [kind |-> c.kind, of |-> c.of]
      BY DEF Content
    <3> QED BY <3>1
  <2>2. f \in [K \X Tasks -> Content]
    BY DEF Content
  <2> QED BY <2>1, <2>2 DEF Surjection
<1>4. IsFiniteSet(Content)
  BY <1>2, <1>3, FS_Surjection
<1> QED BY <1>4, FS_Subset, FS_CardinalityType

\* The small functions that update the wake and the timers.
LEMMA WakeTyped ==
  ASSUME NEW w \in WakeStates, NEW ok, NEW route
  PROVE  Requested(w) \in WakeStates /\ Woken(ok, route, w) \in WakeStates
<1>1. ASSUME NEW x \in WakeStates, NEW b \in BOOLEAN
      PROVE  [x EXCEPT !.queued = b] \in WakeStates /\ [x EXCEPT !.owed = b] \in WakeStates
  BY <1>1 DEF WakeStates
<1>2. ASSUME NEW x \in WakeStates PROVE Requested(x) \in WakeStates
  <2>1. (x.queued \/ (x.owed /\ ~x.starting)) \in BOOLEAN
    OBVIOUS
  <2> HIDE DEF WakeStates
  <2> QED BY <1>1, <2>1 DEF Requested
<1>3. [w EXCEPT !.owed = TRUE] \in WakeStates
  BY <1>1
<1> QED BY <1>2, <1>3 DEF Woken

\* The retry stays within its limit.
LEMMA RetryTyped == ASSUME NEW tm \in TimerStates PROVE RetryArmed(tm) \in TimerStates
<1>1. CASE tm.retry \/ tm.retries >= RetryLimit
  BY <1>1 DEF RetryArmed
<1>2. CASE ~(tm.retry \/ tm.retries >= RetryLimit)
  <2>1. tm.retries \in 0..RetryLimit /\ tm.retries + 1 \in 0..RetryLimit
    BY <1>2, RetryAssumption DEF TimerStates
  <2>2. [tm EXCEPT !.retry = TRUE, !.retries = @ + 1] \in TimerStates
    BY <2>1 DEF TimerStates
  <2> QED BY <1>2, <2>2 DEF RetryArmed
<1> QED BY <1>1, <1>2

\* What the callbacks of this module hand to a flush.
Flushing(q, w, tm) == q \subseteq Content /\ w \in WakeStates /\ tm \in TimerStates

\* The part of the type invariant that a flush writes.
FlushTyped ==
  /\ queue' \subseteq Content
  /\ delivered' \subseteq Tasks
  /\ wake' \in WakeStates
  /\ timers' \in TimerStates
  /\ runActive' \in BOOLEAN
  /\ sent' \in [Content -> Nat]
  /\ unseen' \in BOOLEAN
  /\ used' \in [faults : 0..MaxFaults, prompts : 0..MaxPrompts, vanishes : 0..MaxVanishes,
                compactions : 0..MaxCompactions, starts : 0..MaxStarts]

\* Rejected sends stay within their bound.
LEMMA RejectsTyped ==
  ASSUME TypeOK, NEW bad \in SUBSET Content, Rejects(bad)
  PROVE  used' \in [faults : 0..MaxFaults, prompts : 0..MaxPrompts, vanishes : 0..MaxVanishes,
                    compactions : 0..MaxCompactions, starts : 0..MaxStarts]
  BY ContentFinite, BoundsAssumption DEF Rejects, TypeOK

\* Sending writes what it should.
LEMMA SendTyped ==
  ASSUME TypeOK, NEW ok \in SUBSET Content, NEW route, Send(ok, route)
  PROVE  sent' \in [Content -> Nat] /\ unseen' \in BOOLEAN
  BY DEF Send, TypeOK

\* A whole flush writes what it should.
LEMMA FlushAllTyped ==
  ASSUME TypeOK, NEW phase, NEW active \in BOOLEAN, NEW q, NEW w, NEW tm,
         Flushing(q, w, tm), FlushAll(phase, active, q, w, tm)
  PROVE  FlushTyped
<1> DEFINE route == Route(phase, active)
           D == Deliverable(q)
           taken == {c.of : c \in {x \in q : IsCompletion(x) /\ x.of \notin consumed}}
<1>1. D \in SUBSET Content /\ taken \subseteq Tasks
  BY DEF Deliverable, Flushing, Content
<1>2. CASE Held(q, Requested(w), tm)
  BY <1>2, WakeTyped, RetryTyped DEF Held, FlushTyped, FlushAll, Flushing, TypeOK
<1>3. ASSUME NEW bad \in SUBSET D,
             Rejects(bad), Send(D \ bad, route), queue' = Requeued(bad, D),
             delivered' = (delivered \cup taken) \ {c.of : c \in Requeued(bad, D)},
             wake' = Requested(Woken(D \ bad, route, w)),
             timers' = IF route = "idle" /\ Requeued(bad, D) # {} THEN RetryArmed(tm) ELSE tm
      PROVE  FlushTyped
  <2>1. queue' \subseteq Content
    BY <1>1, <1>3 DEF Requeued
  <2>2. wake' \in WakeStates /\ timers' \in TimerStates
    BY <1>3, WakeTyped, RetryTyped DEF Flushing
  <2>3. delivered' \subseteq Tasks
    BY <1>1, <1>3 DEF TypeOK
  <2>4. sent' \in [Content -> Nat] /\ unseen' \in BOOLEAN
    BY <1>1, <1>3, SendTyped
  <2>5. bad \in SUBSET Content
    BY <1>1
  <2>6. used' \in [faults : 0..MaxFaults, prompts : 0..MaxPrompts, vanishes : 0..MaxVanishes,
                   compactions : 0..MaxCompactions, starts : 0..MaxStarts]
    BY <1>3, <2>5, RejectsTyped
  <2>7. runActive' \in BOOLEAN
    BY DEF FlushAll
  <2> QED BY <2>1, <2>2, <2>3, <2>4, <2>6, <2>7 DEF FlushTyped
<1> QED BY <1>2, <1>3 DEF FlushAll

\* So does a flush of the messages alone.
LEMMA FlushMessagesTyped ==
  ASSUME TypeOK, NEW q \in SUBSET Content, FlushMessages(q)
  PROVE  FlushTyped
<1> DEFINE route == Route(host.phase, runActive)
           D == {c \in Deliverable(q) : ~IsCompletion(c)}
<1>1. D \in SUBSET Content
  BY DEF Deliverable
<1>2. CASE Held(q, wake, timers)
  BY <1>2 DEF Held, FlushTyped, FlushMessages, TypeOK
<1>3. ASSUME NEW bad \in SUBSET D,
             Rejects(bad), Send(D \ bad, route), queue' = {c \in q : IsCompletion(c)},
             wake' = Woken(D \ bad, route, wake), UNCHANGED <<delivered, timers>>
      PROVE  FlushTyped
  <2>1. wake' \in WakeStates
    BY <1>3, WakeTyped, RetryTyped DEF TypeOK
  <2>2. sent' \in [Content -> Nat] /\ unseen' \in BOOLEAN
    BY <1>1, <1>3, SendTyped
  <2>3. bad \in SUBSET Content
    BY <1>1
  <2>4. used' \in [faults : 0..MaxFaults, prompts : 0..MaxPrompts, vanishes : 0..MaxVanishes,
                   compactions : 0..MaxCompactions, starts : 0..MaxStarts]
    BY <1>3, <2>3, RejectsTyped
  <2>5. runActive' \in BOOLEAN
    BY DEF FlushMessages
  <2>6. queue' \subseteq Content
    BY <1>3
  <2> QED BY <1>3, <2>1, <2>2, <2>4, <2>5, <2>6 DEF FlushTyped, TypeOK
<1> QED BY <1>2, <1>3 DEF FlushMessages

----------------------------------------------------------------------------
(* Type correctness                                                        *)

\* One more use of a bound stays within it.
LEMMA UseTyped ==
  ASSUME TypeOK,
         \/ Use("faults", MaxFaults) \/ Use("prompts", MaxPrompts) \/ Use("vanishes", MaxVanishes)
         \/ Use("compactions", MaxCompactions) \/ Use("starts", MaxStarts)
  PROVE  used' \in [faults : 0..MaxFaults, prompts : 0..MaxPrompts, vanishes : 0..MaxVanishes,
                    compactions : 0..MaxCompactions, starts : 0..MaxStarts]
  BY BoundsAssumption DEF Use, TypeOK

\* The records of the wake and of the timers with some fields set.
LEMMA FieldsTyped ==
  ASSUME TypeOK
  PROVE  /\ [wake EXCEPT !.starting = FALSE] \in WakeStates
         /\ [wake EXCEPT !.starting = @ \/ ~runActive] \in WakeStates
         /\ [wake EXCEPT !.queued = FALSE] \in WakeStates
         /\ [wake EXCEPT !.owed = FALSE, !.starting = FALSE] \in WakeStates
         /\ [timers EXCEPT !.boundary = FALSE] \in TimerStates
         /\ [timers EXCEPT !.boundary = TRUE] \in TimerStates
         /\ [timers EXCEPT !.retry = FALSE] \in TimerStates
         /\ [timers EXCEPT !.retry = FALSE, !.retries = 0] \in TimerStates
<1>1. ASSUME NEW b \in BOOLEAN
      PROVE  /\ [wake EXCEPT !.starting = b] \in WakeStates
             /\ [wake EXCEPT !.queued = b] \in WakeStates
             /\ [wake EXCEPT !.owed = FALSE, !.starting = b] \in WakeStates
             /\ [timers EXCEPT !.boundary = b] \in TimerStates
             /\ [timers EXCEPT !.retry = b] \in TimerStates
  BY <1>1 DEF TypeOK, WakeStates, TimerStates
<1>2. (wake.starting \/ ~runActive) \in BOOLEAN
  OBVIOUS
<1>3. [timers EXCEPT !.retry = FALSE, !.retries = 0] \in TimerStates
  <2>1. 0 \in 0..RetryLimit
    BY RetryAssumption
  <2>2. ASSUME NEW n \in 0..RetryLimit, NEW b \in BOOLEAN
        PROVE  [timers EXCEPT !.retry = b, !.retries = n] \in TimerStates
    BY <2>2 DEF TypeOK, TimerStates
  <2> QED BY <2>1, <2>2
<1> QED BY <1>1, <1>2, <1>3

\* The host's events keep the types.
LEMMA HostTyped == ASSUME TypeOK, HostSteps PROVE TypeOK'
<1> USE DEF extVars
<1>1. ASSUME NEW s \in Sessions, SessionStart(s) PROVE TypeOK'
  <2>1. [boundary |-> FALSE, retry |-> FALSE, retries |-> 0] \in TimerStates
    BY RetryAssumption DEF TimerStates
  <2> QED BY <1>1, <2>1, UseTyped, FieldsTyped DEF SessionStart, Reset, TypeOK
<1>2. CASE SessionShutdown
  <2>1. [boundary |-> FALSE, retry |-> FALSE, retries |-> 0] \in TimerStates
    BY RetryAssumption DEF TimerStates
  <2> QED BY <1>2, <2>1, FieldsTyped DEF SessionShutdown, Reset, NoHost, TypeOK, Phases
<1>3. CASE UserPrompts
  <2>1. host' \in [phase : Phases, prompt : {"none", "typed", "announced"}, wakes : Nat]
    BY <1>3 DEF UserPrompts, TypeOK
  <2> QED BY <1>3, <2>1, UseTyped DEF UserPrompts, TypeOK
<1>4. CASE BeforeAgentStart
  <2>1. host' \in [phase : Phases, prompt : {"none", "typed", "announced"}, wakes : Nat]
    BY <1>4 DEF BeforeAgentStart, TypeOK
  <2> QED BY <1>4, <2>1, FieldsTyped DEF BeforeAgentStart, TypeOK
<1>5. CASE AgentStart
  <2>1. host' \in [phase : Phases, prompt : {"none", "typed", "announced"}, wakes : Nat]
    <3>0. ASSUME NEW p \in Phases, NEW r \in {"none", "typed", "announced"}
          PROVE  [host EXCEPT !.phase = p, !.prompt = r]
                   \in [phase : Phases, prompt : {"none", "typed", "announced"}, wakes : Nat]
      BY <3>0 DEF TypeOK
    <3>1. CASE host' = [host EXCEPT !.phase = "running", !.prompt = "none"]
      <4>1. "running" \in Phases /\ "none" \in {"none", "typed", "announced"}
        BY DEF Phases
      <4> QED BY <3>0, <3>1, <4>1
    <3>2. CASE host.wakes > 0 /\ host' = [host EXCEPT !.phase = "running", !.wakes = @ - 1]
      <4>1. host.wakes - 1 \in Nat /\ "running" \in Phases
        BY <3>2 DEF TypeOK, Phases
      <4>2. ASSUME NEW p \in Phases, NEW n \in Nat
            PROVE  [host EXCEPT !.phase = p, !.wakes = n]
                     \in [phase : Phases, prompt : {"none", "typed", "announced"}, wakes : Nat]
        BY <4>2 DEF TypeOK
      <4> QED BY <3>2, <4>1, <4>2
    <3>3. CASE host' = [host EXCEPT !.phase = "running"]
      BY <3>3 DEF TypeOK, Phases
    <3> QED BY <1>5, <3>1, <3>2, <3>3 DEF AgentStart
  <2>2. wake' \in WakeStates /\ timers' \in TimerStates
    BY <1>5, FieldsTyped DEF AgentStart
  <2>3. /\ runs' \in Nat /\ runActive' \in BOOLEAN /\ unseen' \in BOOLEAN
        /\ UNCHANGED <<session, owner, task, query, queue, consumed, delivered, closed, sent, used>>
    <3>1. runs + 1 \in Nat
      BY DEF TypeOK
    <3> QED BY <1>5, <3>1 DEF AgentStart
  <2> QED BY <2>1, <2>2, <2>3 DEF TypeOK
<1>6. CASE PromptJoinsRun
  <2>1. host' \in [phase : Phases, prompt : {"none", "typed", "announced"}, wakes : Nat]
    BY <1>6 DEF PromptJoinsRun, TypeOK
  <2> QED BY <1>6, <2>1 DEF PromptJoinsRun, TypeOK
<1>7. CASE PromptVanishes
  <2>1. host' \in [phase : Phases, prompt : {"none", "typed", "announced"}, wakes : Nat]
    BY <1>7 DEF PromptVanishes, TypeOK
  <2> QED BY <1>7, <2>1, UseTyped DEF PromptVanishes, TypeOK
<1>8. CASE TurnEnd
  <2>1. FlushTyped
    BY <1>8, FlushAllTyped DEF TurnEnd, TypeOK, Flushing
  <2> QED BY <1>8, <2>1 DEF TurnEnd, FlushTyped, TypeOK
<1>9. CASE AgentEnd
  <2>1. FlushTyped
    BY <1>9, FlushAllTyped DEF AgentEnd, TypeOK, Flushing
  <2>2. host' \in [phase : Phases, prompt : {"none", "typed", "announced"}, wakes : Nat]
    BY <1>9 DEF AgentEnd, TypeOK, Phases
  <2> QED BY <1>9, <2>1, <2>2 DEF AgentEnd, FlushTyped, TypeOK
<1>10. CASE AgentSettled
  <2>1. FlushTyped
    BY <1>10, FlushAllTyped, FieldsTyped DEF AgentSettled, TypeOK, Flushing
  <2>2. host' \in [phase : Phases, prompt : {"none", "typed", "announced"}, wakes : Nat]
    BY <1>10 DEF AgentSettled, TypeOK, Phases
  <2> QED BY <1>10, <2>1, <2>2 DEF AgentSettled, FlushTyped, TypeOK
<1>11. CASE Compact
  <2>1. host' \in [phase : Phases, prompt : {"none", "typed", "announced"}, wakes : Nat]
    BY <1>11 DEF Compact, TypeOK, Phases
  <2> QED BY <1>11, <2>1, UseTyped DEF Compact, TypeOK
<1>12. CASE CompactionEvent
  <2>1. host' \in [phase : Phases, prompt : {"none", "typed", "announced"}, wakes : Nat]
    BY <1>12 DEF CompactionEvent, TypeOK, Phases
  <2> QED BY <1>12, <2>1, UseTyped, FieldsTyped DEF CompactionEvent, TypeOK
<1>13. CASE CompactionOver
  <2>1. host' \in [phase : Phases, prompt : {"none", "typed", "announced"}, wakes : Nat]
    BY <1>13 DEF CompactionOver, TypeOK, Phases
  <2> QED BY <1>13, <2>1 DEF CompactionOver, TypeOK
<1> QED BY <1>1, <1>2, <1>3, <1>4, <1>5, <1>6, <1>7, <1>8, <1>9, <1>10, <1>11, <1>12, <1>13
    DEF HostSteps, PromptSteps, RunSteps

\* So do the timers and the wake.
LEMMA TimersTyped == ASSUME TypeOK, TimerSteps PROVE TypeOK'
<1>1. CASE BoundaryFlush
  <2>1. FlushTyped
    BY <1>1, FlushAllTyped, FieldsTyped DEF BoundaryFlush, TypeOK, Flushing
  <2> QED BY <1>1, <2>1 DEF BoundaryFlush, FlushTyped, TypeOK
<1>2. CASE DeliveryRetry
  <2>1. FlushTyped
    BY <1>2, FlushAllTyped, FieldsTyped DEF DeliveryRetry, TypeOK, Flushing
  <2> QED BY <1>2, <2>1 DEF DeliveryRetry, FlushTyped, TypeOK
<1>3. CASE PromptGrace
  <2>1. wake' \in WakeStates
    BY <1>3, FieldsTyped, WakeTyped DEF PromptGrace
  <2> QED BY <1>3, <2>1 DEF PromptGrace, TypeOK
<1>4. CASE DispatchWake
  <2>1. wake' \in WakeStates
    <3>1. [owed |-> FALSE, queued |-> FALSE, starting |-> TRUE] \in WakeStates
      BY DEF WakeStates
    <3> QED BY <1>4, <3>1, FieldsTyped DEF DispatchWake
  <2>2. timers' \in TimerStates
    BY <1>4, FieldsTyped, RetryTyped DEF DispatchWake, TypeOK
  <2>3. host' \in [phase : Phases, prompt : {"none", "typed", "announced"}, wakes : Nat]
    BY <1>4 DEF DispatchWake, TypeOK
  <2>4. used' \in [faults : 0..MaxFaults, prompts : 0..MaxPrompts, vanishes : 0..MaxVanishes,
                   compactions : 0..MaxCompactions, starts : 0..MaxStarts]
    BY <1>4, UseTyped DEF DispatchWake, TypeOK
  <2>5. runActive' \in BOOLEAN
    BY <1>4 DEF DispatchWake
  <2> QED BY <1>4, <2>1, <2>2, <2>3, <2>4, <2>5 DEF DispatchWake, TypeOK
<1> QED BY <1>1, <1>2, <1>3, <1>4 DEF TimerSteps

\* What a task may add to the queue is content.
LEMMA SaidTyped ==
  ASSUME NEW t \in Tasks
  PROVE  Completion(t) \in Content /\ Notice(t) \in Content /\ Query(t) \in Content
  BY DEF Completion, Notice, Query, Content

\* So do the tasks and the tools.
LEMMA TasksTyped == ASSUME TypeOK, NEW t \in Tasks, TaskSteps(t) PROVE TypeOK'
<1> USE DEF extVars
<1>1. CASE Launch(t)
  BY <1>1 DEF Launch, TypeOK
<1>2. CASE Finish(t)
  <2> DEFINE pending == IF t \in consumed \cup delivered THEN WithoutMessagesOf(queue, t)
                        ELSE WithoutMessagesOf(queue, t) \cup {Completion(t)}
  <2>1. pending \in SUBSET Content
    BY SaidTyped DEF WithoutMessagesOf, TypeOK
  <2>2. FlushTyped
    <3>1. CASE runs = 0
      BY <1>2, <2>1, <3>1, FlushAllTyped DEF Finish, TypeOK, Flushing
    <3>2. CASE runs # 0
      BY <1>2, <2>1, <3>2 DEF Finish, TypeOK, Held, FlushTyped
    <3> QED BY <3>1, <3>2
  <2> QED BY <1>2, <2>2 DEF Finish, FlushTyped, TypeOK
<1>3. CASE FinishCancelled(t)
  BY <1>3 DEF FinishCancelled, TypeOK, WithoutMessagesOf
<1>4. CASE Notify(t)
  <2> DEFINE q == IF t \in closed THEN queue ELSE queue \cup {Notice(t)}
  <2>1. q \in SUBSET Content
    BY SaidTyped DEF TypeOK
  <2>2. FlushTyped
    <3>1. CASE runs = 0
      BY <1>4, <2>1, <3>1, FlushMessagesTyped DEF Notify
    <3>2. CASE runs # 0
      BY <1>4, <2>1, <3>2 DEF Notify, TypeOK, Held, FlushTyped
    <3> QED BY <3>1, <3>2
  <2> QED BY <1>4, <2>2 DEF Notify, FlushTyped, TypeOK
<1>5. CASE Ask(t)
  <2> DEFINE new == IF t \in closed THEN {} ELSE {Query(t)}
             earlier == {c \in Deliverable(queue) : ~IsCompletion(c)}
             route == Route(host.phase, runActive)
  <2>1. earlier \cup new \in SUBSET Content /\ queue \cup new \in SUBSET Content
    BY SaidTyped DEF TypeOK, Deliverable
  <2>2. query' \in [Tasks -> {"none", "open", "settled"}] /\ runActive' \in BOOLEAN
    BY <1>5 DEF Ask, TypeOK
  <2>3. CASE Held(queue \cup new, wake, timers)
    BY <1>5, <2>1, <2>2, <2>3 DEF Ask, Held, TypeOK
  <2>4. CASE /\ Send(earlier \cup new, route)
             /\ queue' = {c \in queue : IsCompletion(c)}
             /\ wake' = Woken(earlier \cup new, route, wake)
             /\ UNCHANGED <<delivered, timers, used>>
    <3>1. sent' \in [Content -> Nat] /\ unseen' \in BOOLEAN
      BY <2>1, <2>4, SendTyped
    <3>2. wake' \in WakeStates
      BY <2>4, WakeTyped DEF TypeOK
    <3> QED BY <1>5, <2>2, <2>4, <3>1, <3>2 DEF Ask, TypeOK
  <2>5. ASSUME Use("faults", MaxFaults), NEW ok \in SUBSET earlier,
               Send(ok, route), wake' = Woken(ok, route, wake),
               queue' = {c \in queue : IsCompletion(c)}, UNCHANGED <<delivered, timers>>
        PROVE  TypeOK'
    <3>1. sent' \in [Content -> Nat] /\ unseen' \in BOOLEAN
      BY <2>1, <2>5, SendTyped
    <3>2. wake' \in WakeStates
      BY <2>5, WakeTyped DEF TypeOK
    <3> QED BY <1>5, <2>2, <2>5, <3>1, <3>2, UseTyped DEF Ask, TypeOK
  <2> QED BY <1>5, <2>3, <2>4, <2>5 DEF Ask
<1>6. CASE QuerySettled(t)
  BY <1>6 DEF QuerySettled, TypeOK
<1>7. CASE ReadResult(t)
  BY <1>7 DEF ReadResult, TypeOK, WithoutMessagesOf
<1>8. CASE CancelTool(t)
  BY <1>8 DEF CancelTool, TypeOK, WithoutMessagesOf
<1> QED BY <1>1, <1>2, <1>3, <1>4, <1>5, <1>6, <1>7, <1>8 DEF TaskSteps

\* Every variable stays in its type, the retries within PARENT_DELIVERY_RETRY_LIMIT.
THEOREM TypeCorrect == Spec => []TypeOK
<1>1. Init => TypeOK
  <2> SUFFICES ASSUME Init PROVE TypeOK
    OBVIOUS
  <2>1. wake \in WakeStates
    BY DEF Init, WakeStates
  <2>2. timers \in TimerStates
    BY RetryAssumption DEF Init, TimerStates
  <2>3. used \in [faults : 0..MaxFaults, prompts : 0..MaxPrompts, vanishes : 0..MaxVanishes,
                  compactions : 0..MaxCompactions, starts : 0..MaxStarts]
    BY BoundsAssumption DEF Init
  <2>4. host \in [phase : Phases, prompt : {"none", "typed", "announced"}, wakes : Nat]
    BY DEF Init, NoHost, Phases
  <2>5. sent \in [Content -> Nat]
    BY DEF Init
  <2> QED BY <2>1, <2>2, <2>3, <2>4, <2>5 DEF Init, TypeOK
<1>2. TypeOK /\ [Next]_vars => TypeOK'
  <2>1. CASE UNCHANGED vars
    BY <2>1 DEF vars, extVars, TypeOK
  <2> QED BY <2>1, HostTyped, TimersTyped, TasksTyped DEF Next
<1> QED BY <1>1, <1>2, PTL DEF Spec

----------------------------------------------------------------------------
(* What a step sends and what it keeps                                     *)

\* Of what is in q and in the queue, a step sends once or keeps, never both.
Delivers(q) ==
  /\ queue' \subseteq q
  /\ \A c \in Content :
       \/ sent'[c] = sent[c]
       \/ sent'[c] = sent[c] + 1 /\ c \in q /\ c \notin queue'

\* What a step sends, it may send.
SendsRight ==
  \A c \in Content :
    sent'[c] > sent[c] =>
      /\ owner[c.of] = session
      /\ IsCompletion(c) => c.of \notin consumed
      /\ c.kind = "query" => query'[c.of] = "open"
      /\ host'.phase \in {"idle", "running", "ending"}

\* The completions of q for the open session that a step loses: none.
Keeps(q) ==
  \A c \in q : IsCompletion(c) /\ owner[c.of] = session =>
    c \in queue' \/ sent'[c] > sent[c] \/ c.of \in consumed

\* What a step newly counts as delivered, it took from q.
TakesFrom(q) ==
  \A t \in delivered' : t \in delivered \/ \E c \in q : IsCompletion(c) /\ c.of = t

\* After a step, an owed wake is queued, or follows a prompt that is starting.
WakeAsked == wake'.owed => wake'.queued \/ wake'.starting

\* requestWake() leaves no owed wake unasked.
LEMMA RequestAsks ==
  ASSUME NEW w \in WakeStates
  PROVE  Requested(w).owed => Requested(w).queued \/ Requested(w).starting
  BY DEF Requested, WakeStates

\* A step that sends nothing and only removes from the queue.
LEMMA SendsNothing ==
  ASSUME TypeOK, sent' = sent, queue' \subseteq queue
  PROVE  Delivers(queue) /\ SendsRight
  BY DEF Delivers, SendsRight, TypeOK

\* Sends of a set of contents that leave the queue.
LEMMA SendDelivers ==
  ASSUME TypeOK, NEW q \in SUBSET Content, NEW ok \in SUBSET q, NEW route, Send(ok, route),
         queue' \subseteq q, queue' \cap ok = {}
  PROVE  Delivers(q) /\ \A c \in Content : sent'[c] > sent[c] <=> c \in ok
  BY DEF Delivers, Send, TypeOK

\* A whole flush sends what is deliverable or requeues it.
LEMMA FlushAllEffect ==
  ASSUME TypeOK, NEW phase, NEW active \in BOOLEAN, NEW q, NEW w, NEW tm,
         Flushing(q, w, tm), FlushAll(phase, active, q, w, tm)
  PROVE  /\ Delivers(q) /\ Keeps(q) /\ WakeAsked /\ TakesFrom(q)
         /\ \A c \in Content : sent'[c] > sent[c] =>
              c \in Deliverable(q) /\ Route(phase, active) \in {"idle", "run"}
         /\ tm.boundary => timers'.boundary
         /\ runActive' => active /\ Route(phase, active) # "idle"
<1> DEFINE route == Route(phase, active)
           D == Deliverable(q)
           taken == {c.of : c \in {x \in q : IsCompletion(x) /\ x.of \notin consumed}}
<1>1. D \in SUBSET q /\ q \in SUBSET Content
  BY DEF Deliverable, Flushing
<1>2. runActive' => active /\ route # "idle"
  BY DEF FlushAll
<1>3. CASE Held(q, Requested(w), tm)
  BY <1>1, <1>2, <1>3, RequestAsks
     DEF Held, Delivers, Keeps, WakeAsked, TakesFrom, Flushing, TypeOK
<1>4. ASSUME route \in {"idle", "run"}, NEW bad \in SUBSET D,
             Send(D \ bad, route), queue' = Requeued(bad, D),
             delivered' = (delivered \cup taken) \ {c.of : c \in Requeued(bad, D)},
             wake' = Requested(Woken(D \ bad, route, w)),
             timers' = IF route = "idle" /\ Requeued(bad, D) # {} THEN RetryArmed(tm) ELSE tm
      PROVE  /\ Delivers(q) /\ Keeps(q) /\ WakeAsked /\ TakesFrom(q)
             /\ \A c \in Content : sent'[c] > sent[c] => c \in D /\ route \in {"idle", "run"}
             /\ tm.boundary => timers'.boundary
  <2>1. Delivers(q) /\ \A c \in Content : sent'[c] > sent[c] <=> c \in D \ bad
    <3>1. Requeued(bad, D) \subseteq q /\ Requeued(bad, D) \cap (D \ bad) = {}
      BY <1>1 DEF Requeued
    <3>2. D \ bad \in SUBSET q
      BY <1>1
    <3> QED BY <1>1, <1>4, <3>1, <3>2, SendDelivers
  <2>2. WakeAsked
    BY <1>4, WakeTyped, RequestAsks DEF WakeAsked, Flushing
  <2>3. Keeps(q)
    <3> SUFFICES ASSUME NEW c \in q, IsCompletion(c), owner[c.of] = session, c.of \notin consumed
                 PROVE  c \in queue' \/ sent'[c] > sent[c]
      BY DEF Keeps
    <3>1. c \in D
      BY DEF Deliverable, IsCompletion
    <3>2. c \in bad => c \in queue'
      BY <1>4 DEF Requeued
    <3> QED BY <1>1, <2>1, <3>1, <3>2
  <2>4. tm.boundary => timers'.boundary
    BY <1>4 DEF RetryArmed, Flushing, TimerStates
  <2>5. TakesFrom(q)
    BY <1>4 DEF TakesFrom
  <2> QED BY <1>4, <2>1, <2>2, <2>3, <2>4, <2>5
<1> QED BY <1>2, <1>3, <1>4 DEF FlushAll

\* So does a flush of the messages, which leaves the completions queued.
LEMMA FlushMessagesEffect ==
  ASSUME TypeOK, NEW q \in SUBSET Content, FlushMessages(q)
  PROVE  /\ Delivers(q) /\ Keeps(q)
         /\ \A c \in Content : sent'[c] > sent[c] =>
              c \in Deliverable(q) /\ Route(host.phase, runActive) \in {"idle", "run"}
         /\ timers' = timers /\ TakesFrom(q)
         /\ wake' = wake \/ WakeAsked
         /\ runActive' => runActive /\ Route(host.phase, runActive) # "idle"
<1> DEFINE route == Route(host.phase, runActive)
           D == {c \in Deliverable(q) : ~IsCompletion(c)}
<1>1. D \in SUBSET q
  BY DEF Deliverable
<1>2. runActive' => runActive /\ route # "idle"
  BY DEF FlushMessages
<1>3. TakesFrom(q)
  <2>1. delivered' = delivered
    BY DEF FlushMessages, Held
  <2> QED BY <2>1 DEF TakesFrom
<1>4. CASE Held(q, wake, timers)
  BY <1>2, <1>4, <1>3 DEF Held, Delivers, Keeps, TypeOK
<1>5. ASSUME route \in {"idle", "run"}, NEW bad \in SUBSET D,
             Send(D \ bad, route), queue' = {c \in q : IsCompletion(c)},
             wake' = Woken(D \ bad, route, wake), UNCHANGED <<delivered, timers>>
      PROVE  /\ Delivers(q) /\ Keeps(q)
             /\ \A c \in Content : sent'[c] > sent[c] => c \in D /\ route \in {"idle", "run"}
             /\ timers' = timers
             /\ wake' = wake \/ WakeAsked
  <2>1. Delivers(q) /\ \A c \in Content : sent'[c] > sent[c] <=> c \in D \ bad
    BY <1>1, <1>5, SendDelivers
  <2>2. wake' = wake \/ WakeAsked
    <3>1. [wake EXCEPT !.owed = TRUE] \in WakeStates
      BY DEF TypeOK, WakeStates
    <3> QED BY <1>5, <3>1, RequestAsks DEF WakeAsked, Woken
  <2>3. Keeps(q)
    BY <1>5 DEF Keeps
  <2> QED BY <1>5, <2>1, <2>2, <2>3
<1> QED BY <1>2, <1>4, <1>5, <1>3 DEF FlushMessages

\* The bookkeeping of one step: each content is still received at most once.
Once ==
  \A c \in Content :
    /\ sent[c] <= 1
    /\ c \in queue => sent[c] = 0
    /\ Unsaid(c) => sent[c] = 0 /\ c \notin queue

\* A step that delivers of what was never received keeps that bookkeeping.
LEMMA OnceKept ==
  ASSUME TypeOK, Once, NEW q \in SUBSET Content, Delivers(q),
         \A c \in q : sent[c] = 0,
         \A c \in Content : Unsaid(c)' => Unsaid(c) /\ c \notin q
  PROVE  Once'
<1> SUFFICES ASSUME NEW c \in Content
             PROVE  /\ sent'[c] <= 1
                    /\ c \in queue' => sent'[c] = 0
                    /\ Unsaid(c)' => sent'[c] = 0 /\ c \notin queue'
  BY DEF Once
<1>1. CASE sent'[c] = sent[c]
  BY <1>1 DEF Once, Delivers
<1>2. CASE sent'[c] = sent[c] + 1 /\ c \in q /\ c \notin queue'
  BY <1>2 DEF Once
<1> QED BY <1>1, <1>2 DEF Delivers

\* Of a task, only its completion, its notification and its query exist.
LEMMA Kinds ==
  ASSUME NEW c \in Content
  PROVE  /\ c.of \in Tasks
         /\ c.kind = "completion" => c = Completion(c.of)
         /\ c.kind = "notification" => c = Notice(c.of)
         /\ c.kind = "query" => c = Query(c.of)
         /\ c.kind \in {"completion", "notification", "query"}
  BY DEF Content, Completion, Notice, Query

\* A route that delivers is open only in the phases where the parent receives.
LEMMA RouteOpen ==
  ASSUME TypeOK, NEW phase \in Phases, NEW active \in BOOLEAN,
         active => phase \in {"running", "ending"}, Route(phase, active) \in {"idle", "run"}
  PROVE  phase \in {"idle", "running", "ending"}
  BY DEF Route

\* The completions of the open session that a step loses: none.
LosesNothing ==
  \A t \in Tasks :
    (Completion(t) \in queue \/ (task[t] = "running" /\ task'[t] = "settled"))
      /\ owner[t] = session /\ session' = session
      => Completion(t) \in queue' \cup NewlySent \/ t \in consumed'

\* The parts of DeliveryInv other than Once.
RunKnown == runActive => host.phase \in {"running", "ending"}
BoundaryKnown == host.phase = "leaving" => timers.boundary
HostKnown == session = None => host = NoHost
DeliveredDone == \A t \in delivered : task[t] \notin {"new", "running"}

\* What is proved of every step.
StepGood ==
  /\ Once' /\ DeliveredDone' /\ RunKnown' /\ BoundaryKnown' /\ HostKnown' /\ WakeServed'
  /\ SendsRight /\ LosesNothing

\* The invariant by its parts.
LEMMA InvParts ==
  DeliveryInv <=> Once /\ DeliveredDone /\ RunKnown /\ BoundaryKnown /\ HostKnown /\ WakeServed
  BY DEF DeliveryInv, Once, DeliveredDone, RunKnown, BoundaryKnown, HostKnown

\* A wake that was asked for is served.
LEMMA AskedServed == WakeAsked => WakeServed'
  BY DEF WakeAsked, WakeServed

\* What is taken from the queue is the completion of a task that ended.
LEMMA TakenDone ==
  ASSUME Once, DeliveredDone, queue \subseteq Content, TakesFrom(queue), task' = task
  PROVE  DeliveredDone'
  BY DEF Once, DeliveredDone, TakesFrom, Unsaid

\* A flush of the queue as it stands, on a host event or a timer.
LEMMA QueueFlush ==
  ASSUME TypeOK, DeliveryInv, NEW active \in BOOLEAN, NEW w \in WakeStates, NEW tm \in TimerStates,
         host'.phase \in Phases, FlushAll(host'.phase, active, queue, w, tm),
         UNCHANGED <<session, owner, task, query, consumed>>,
         active => host'.phase \in {"running", "ending"},
         host'.phase = "leaving" => tm.boundary, HostKnown'
  PROVE  StepGood
<1> DEFINE phase == host'.phase
<1>1. Flushing(queue, w, tm)
  BY DEF Flushing, TypeOK
<1>2. /\ Delivers(queue) /\ Keeps(queue) /\ WakeAsked /\ TakesFrom(queue)
      /\ \A c \in Content : sent'[c] > sent[c] =>
           c \in Deliverable(queue) /\ Route(phase, active) \in {"idle", "run"}
      /\ tm.boundary => timers'.boundary
      /\ runActive' => active /\ Route(phase, active) # "idle"
  BY <1>1, FlushAllEffect
<1>3. Once'
  <2>1. \A c \in Content : Unsaid(c)' <=> Unsaid(c)
    BY DEF Unsaid, IsCompletion
  <2>2. Once /\ \A c \in Content : Unsaid(c) => c \notin queue
    BY InvParts DEF Once
  <2>3. queue \in SUBSET Content /\ \A c \in queue : sent[c] = 0
    BY <2>2 DEF Once, TypeOK
  <2> QED BY <1>2, <2>1, <2>2, <2>3, OnceKept
<1>4. SendsRight
  <2> SUFFICES ASSUME NEW c \in Content, sent'[c] > sent[c]
               PROVE  /\ owner[c.of] = session
                      /\ IsCompletion(c) => c.of \notin consumed
                      /\ c.kind = "query" => query'[c.of] = "open"
                      /\ phase \in {"idle", "running", "ending"}
    BY DEF SendsRight
  <2>1. c \in Deliverable(queue)
    BY <1>2
  <2>2. phase \in {"idle", "running", "ending"}
    BY <1>2, RouteOpen
  <2> QED BY <2>1, <2>2 DEF Deliverable
<1>5. LosesNothing
  <2> SUFFICES ASSUME NEW t \in Tasks, Completion(t) \in queue, owner[t] = session
               PROVE  Completion(t) \in queue' \cup NewlySent \/ t \in consumed'
    BY DEF LosesNothing
  <2>1. IsCompletion(Completion(t)) /\ Completion(t).of = t /\ Completion(t) \in Content
    BY SaidTyped DEF IsCompletion, Completion
  <2>2. Completion(t) \in queue' \/ sent'[Completion(t)] > sent[Completion(t)] \/ t \in consumed
    BY <1>2, <2>1 DEF Keeps
  <2> QED BY <2>1, <2>2 DEF NewlySent
<1>6. RunKnown' /\ BoundaryKnown'
  BY <1>2 DEF RunKnown, BoundaryKnown
<1>7. DeliveredDone'
  BY <1>1, <1>2, InvParts, TakenDone DEF Flushing
<1> QED BY <1>2, <1>3, <1>4, <1>5, <1>6, <1>7, AskedServed DEF StepGood

\* A step that sends nothing, tells of no new content and keeps completions.
LEMMA QuietStep ==
  ASSUME TypeOK, DeliveryInv, sent' = sent, queue' \subseteq queue,
         \A c \in Content : Unsaid(c)' => Unsaid(c)
  PROVE  Once' /\ SendsRight
<1>1. Delivers(queue) /\ SendsRight
  BY SendsNothing
<1>2. Once
  BY InvParts
<1>3. queue \in SUBSET Content /\ \A c \in queue : sent[c] = 0
  BY <1>2 DEF Once, TypeOK
<1>4. \A c \in Content : Unsaid(c) => c \notin queue
  BY <1>2 DEF Once
<1>5. Once'
  BY <1>1, <1>2, <1>3, <1>4, OnceKept
<1> QED BY <1>1, <1>5

\* A quiet step that leaves the tasks and the queue alone.
LEMMA IdleStep ==
  ASSUME TypeOK, DeliveryInv, UNCHANGED <<owner, task, query, queue, sent, delivered>>
  PROVE  Once' /\ SendsRight /\ LosesNothing /\ DeliveredDone'
<1>1. \A c \in Content : Unsaid(c)' => Unsaid(c)
  BY DEF Unsaid, IsCompletion
<1>2. Once' /\ SendsRight
  BY <1>1, QuietStep
<1>3. LosesNothing
  BY DEF LosesNothing
<1>4. DeliveredDone'
  BY InvParts DEF DeliveredDone
<1> QED BY <1>2, <1>3, <1>4

----------------------------------------------------------------------------
(* Every step is good                                                      *)

\* The host's events.
LEMMA HostGood == ASSUME TypeOK, DeliveryInv, HostSteps PROVE StepGood
<1> USE DEF extVars
<1>0. Once /\ RunKnown /\ BoundaryKnown /\ HostKnown /\ WakeServed
  BY InvParts
<1>1. CASE SessionShutdown \/ \E s \in Sessions : SessionStart(s)
  <2>1. /\ sent' = sent /\ queue' = {} /\ runActive' = FALSE /\ session' # session
        /\ wake' = [wake EXCEPT !.owed = FALSE, !.starting = FALSE] /\ delivered' = {}
        /\ UNCHANGED <<owner, task, query>>
    BY <1>1, NoneAssumption DEF SessionShutdown, SessionStart, Reset, TypeOK
  <2>4. host' = NoHost /\ host'.phase = "idle"
    BY <1>0, <1>1 DEF SessionShutdown, SessionStart, HostKnown, NoHost
  <2>2. Once' /\ SendsRight
    <3>1. \A c \in Content : Unsaid(c)' => Unsaid(c)
      BY <2>1 DEF Unsaid, IsCompletion
    <3> QED BY <2>1, <3>1, QuietStep
  <2>3. ~wake'.owed
    BY <2>1 DEF TypeOK, WakeStates
  <2> QED BY <2>1, <2>2, <2>3, <2>4
        DEF StepGood, LosesNothing, DeliveredDone, RunKnown, BoundaryKnown, HostKnown, WakeServed
<1>2. CASE UserPrompts
  BY <1>0, <1>2, IdleStep
     DEF UserPrompts, StepGood, RunKnown, BoundaryKnown, HostKnown, NoHost, WakeServed, TypeOK
<1>3. CASE BeforeAgentStart
  <2>1. WakeServed' /\ RunKnown' /\ BoundaryKnown' /\ HostKnown'
    BY <1>0, <1>3
       DEF BeforeAgentStart, RunKnown, BoundaryKnown, HostKnown, NoHost, WakeServed, TypeOK, WakeStates
  <2> QED BY <1>3, <2>1, IdleStep DEF BeforeAgentStart, StepGood
<1>4. CASE AgentStart
  <2>1. host'.phase = "running" /\ ~wake'.owed
    BY <1>4 DEF AgentStart, TypeOK, WakeStates
  <2>2. HostKnown'
    BY <1>0, <1>4 DEF AgentStart, HostKnown, NoHost
  <2> QED BY <1>4, <2>1, <2>2, IdleStep DEF AgentStart, StepGood, RunKnown, BoundaryKnown, WakeServed
<1>5. CASE PromptJoinsRun
  BY <1>0, <1>5, IdleStep
     DEF PromptJoinsRun, StepGood, RunKnown, BoundaryKnown, HostKnown, NoHost, WakeServed, TypeOK
<1>6. CASE PromptVanishes
  BY <1>0, <1>6, IdleStep
     DEF PromptVanishes, StepGood, RunKnown, BoundaryKnown, HostKnown, NoHost, WakeServed, TypeOK
<1>7. CASE TurnEnd
  <2>1. host'.phase = "running" /\ host'.phase \in Phases
    BY <1>7 DEF TurnEnd, TypeOK
  <2>2. HostKnown'
    BY <1>0, <1>7 DEF TurnEnd, HostKnown, NoHost
  <2> QED BY <1>7, <2>1, <2>2, QueueFlush DEF TurnEnd, TypeOK
<1>8. CASE AgentEnd
  <2>1. host'.phase = "ending" /\ host'.phase \in Phases
    BY <1>8 DEF AgentEnd, TypeOK, Phases
  <2>2. HostKnown'
    BY <1>0, <1>8 DEF AgentEnd, HostKnown, NoHost
  <2> QED BY <1>8, <2>1, <2>2, QueueFlush DEF AgentEnd, TypeOK
<1>9. CASE AgentSettled
  <2>1. host'.phase = "idle" /\ host'.phase \in Phases
    BY <1>9 DEF AgentSettled, TypeOK, Phases
  <2>2. HostKnown'
    BY <1>0, <1>9 DEF AgentSettled, HostKnown, NoHost
  <2> QED BY <1>9, <2>1, <2>2, QueueFlush, FieldsTyped DEF AgentSettled, TypeOK
<1>10. CASE Compact
  BY <1>0, <1>10, IdleStep
     DEF Compact, StepGood, RunKnown, BoundaryKnown, HostKnown, NoHost, WakeServed, TypeOK
<1>11. CASE CompactionEvent
  <2>1. timers'.boundary /\ (host'.phase = host.phase \/ host'.phase = "leaving")
    BY <1>11 DEF CompactionEvent, TypeOK, TimerStates
  <2>2. HostKnown'
    BY <1>0, <1>11 DEF CompactionEvent, HostKnown, NoHost
  <2> QED BY <1>0, <1>11, <2>1, <2>2, IdleStep
        DEF CompactionEvent, StepGood, RunKnown, BoundaryKnown, WakeServed
<1>12. CASE CompactionOver
  BY <1>0, <1>12, IdleStep
     DEF CompactionOver, StepGood, RunKnown, BoundaryKnown, HostKnown, NoHost, WakeServed, TypeOK
<1> QED BY <1>1, <1>2, <1>3, <1>4, <1>5, <1>6, <1>7, <1>8, <1>9, <1>10, <1>11, <1>12 DEF HostSteps, PromptSteps, RunSteps

\* The timers and the wake.
LEMMA TimersGood == ASSUME TypeOK, DeliveryInv, TimerSteps PROVE StepGood
<1>0. Once /\ RunKnown /\ BoundaryKnown /\ HostKnown /\ WakeServed
  BY InvParts
<1>1. CASE BoundaryFlush
  <2>1. host'.phase \in Phases /\ host' = host /\ host.phase # "leaving"
    BY <1>1 DEF BoundaryFlush, Macrotask, TypeOK
  <2> QED BY <1>0, <1>1, <2>1, QueueFlush, FieldsTyped
        DEF BoundaryFlush, TypeOK, RunKnown, HostKnown
<1>2. CASE DeliveryRetry
  <2>1. host'.phase \in Phases /\ host' = host /\ host.phase # "leaving"
    BY <1>2 DEF DeliveryRetry, Macrotask, TypeOK
  <2> QED BY <1>0, <1>2, <2>1, QueueFlush, FieldsTyped
        DEF DeliveryRetry, TypeOK, RunKnown, HostKnown
<1>3. CASE PromptGrace
  <2>1. WakeAsked
    BY <1>3, FieldsTyped, RequestAsks DEF PromptGrace, WakeAsked
  <2> QED BY <1>0, <1>3, <2>1, IdleStep, AskedServed
        DEF PromptGrace, StepGood, RunKnown, BoundaryKnown, HostKnown
<1>4. CASE DispatchWake
  <2> DEFINE route == Route(host.phase, runActive)
             asked == wake.owed /\ ~wake.starting
  <2>1. Once' /\ SendsRight /\ LosesNothing /\ DeliveredDone'
    BY <1>4, IdleStep DEF DispatchWake
  <2>2. RunKnown'
    <3>1. host'.phase = host.phase
      BY <1>4 DEF DispatchWake, TypeOK
    <3>2. runActive' => runActive
      BY <1>4 DEF DispatchWake
    <3> QED BY <1>0, <3>1, <3>2 DEF RunKnown
  <2>6. HostKnown'
    BY <1>0, <1>4 DEF DispatchWake, HostKnown, Route
  <2>3. CASE (~asked \/ route # "idle") /\ wake' = [wake EXCEPT !.queued = FALSE]
             /\ UNCHANGED <<timers, host, used>>
    <3>1. wake'.owed = wake.owed /\ wake'.starting = wake.starting
      BY <2>3 DEF TypeOK, WakeStates
    <3>2. ~asked => ~wake'.owed \/ wake'.starting
      BY <3>1
    <3>3. route # "idle" => session = None \/ host.phase # "idle"
      BY DEF Route
    <3>4. session' = session
      BY <1>4 DEF DispatchWake
    <3>5. WakeServed'
      BY <1>0, <2>3, <3>1, <3>2, <3>3, <3>4 DEF WakeServed
    <3> QED BY <1>0, <2>1, <2>2, <2>3, <2>6, <3>5 DEF StepGood, BoundaryKnown
  <2>4. CASE /\ wake' = [owed |-> FALSE, queued |-> FALSE, starting |-> TRUE]
             /\ timers' = [timers EXCEPT !.retry = FALSE, !.retries = 0]
             /\ host' = [host EXCEPT !.wakes = @ + 1]
    <3>1. ~wake'.owed
      BY <2>4
    <3>2. timers'.boundary = timers.boundary /\ host'.phase = host.phase
      BY <2>4 DEF TypeOK, TimerStates
    <3> QED BY <1>0, <1>4, <2>1, <2>2, <2>6, <3>1, <3>2 DEF StepGood, BoundaryKnown, WakeServed
  <2>5. CASE timers' = RetryArmed([timers EXCEPT !.retry = FALSE]) /\ UNCHANGED host
    <3> DEFINE tm == [timers EXCEPT !.retry = FALSE]
    <3>1. tm \in TimerStates /\ tm.boundary = timers.boundary /\ tm.retries = timers.retries
      BY FieldsTyped DEF TypeOK, TimerStates
    <3>2. timers'.retry \/ timers'.retries >= RetryLimit
      BY <2>5, <3>1, RetryAssumption DEF RetryArmed, TimerStates
    <3>3. timers'.boundary = timers.boundary
      BY <2>5, <3>1 DEF RetryArmed, TimerStates
    <3>4. WakeServed'
      BY <3>2 DEF WakeServed
    <3> QED BY <1>0, <1>4, <2>1, <2>2, <2>5, <2>6, <3>3, <3>4 DEF StepGood, BoundaryKnown
  <2> QED BY <1>4, <2>3, <2>4, <2>5 DEF DispatchWake
<1> QED BY <1>1, <1>2, <1>3, <1>4 DEF TimerSteps

\* A task's step that hands q to a flush, or leaves q queued.
LEMMA TaskFlush ==
  ASSUME TypeOK, DeliveryInv, NEW q \in SUBSET Content,
         UNCHANGED <<session, host>>, Delivers(q), Keeps(q), TakesFrom(q), SendsRight,
         \A c \in queue : IsCompletion(c) => c \in q,
         \A c \in q : sent[c] = 0,
         \A c \in Content : Unsaid(c)' => Unsaid(c) /\ c \notin q,
         \A t \in Tasks :
           task[t] = "running" /\ task'[t] = "settled" => Completion(t) \in q \/ t \in consumed,
         \A t \in Tasks : task'[t] \in {"new", "running"} => task[t] \in {"new", "running"},
         consumed \subseteq consumed',
         runActive' => runActive, timers.boundary => timers'.boundary, WakeServed'
  PROVE  StepGood
<1>0. Once /\ DeliveredDone /\ RunKnown /\ BoundaryKnown /\ HostKnown
  BY InvParts
<1>1. Once'
  BY <1>0, OnceKept
<1>2. DeliveredDone'
  <2> SUFFICES ASSUME NEW t \in delivered', task'[t] \in {"new", "running"} PROVE FALSE
    BY DEF DeliveredDone
  <2>1. CASE t \in delivered
    BY <1>0, <2>1 DEF DeliveredDone, TypeOK
  <2>2. CASE \E c \in q : IsCompletion(c) /\ c.of = t
    <3> PICK c \in q : IsCompletion(c) /\ c.of = t
      BY <2>2
    <3>1. ~Unsaid(c)'
      OBVIOUS
    <3> QED BY <3>1 DEF Unsaid, IsCompletion
  <2> QED BY <2>1, <2>2 DEF TakesFrom
<1>3. LosesNothing
  <2> SUFFICES ASSUME NEW t \in Tasks, owner[t] = session,
                      Completion(t) \in queue \/ (task[t] = "running" /\ task'[t] = "settled")
               PROVE  Completion(t) \in queue' \cup NewlySent \/ t \in consumed'
    BY DEF LosesNothing
  <2>1. IsCompletion(Completion(t)) /\ Completion(t).of = t /\ Completion(t) \in Content
    BY SaidTyped DEF IsCompletion, Completion
  <2>2. Completion(t) \in q \/ t \in consumed
    BY <2>1
  <2>3. Completion(t) \in queue' \/ sent'[Completion(t)] > sent[Completion(t)] \/ t \in consumed
    BY <2>1, <2>2 DEF Keeps
  <2> QED BY <2>1, <2>3 DEF NewlySent
<1>4. RunKnown' /\ BoundaryKnown' /\ HostKnown'
  BY <1>0 DEF RunKnown, BoundaryKnown, HostKnown
<1> QED BY <1>1, <1>2, <1>3, <1>4 DEF StepGood

\* What is left queued is neither sent nor taken.
LEMMA HeldEffect ==
  ASSUME TypeOK, NEW q \in SUBSET Content, Held(q, wake, timers)
  PROVE  /\ Delivers(q) /\ Keeps(q) /\ TakesFrom(q) /\ SendsRight
         /\ wake' = wake /\ timers' = timers
  BY DEF Held, Delivers, Keeps, TakesFrom, SendsRight, TypeOK

\* A wake that was served stays served while nothing of the wake changes.
LEMMA ServedStill ==
  ASSUME WakeServed, UNCHANGED <<session, host, wake, timers>>
  PROVE  WakeServed'
  BY DEF WakeServed

\* A step whose sends are among the deliverable contents of q sends right.
LEMMA DeliverableRight ==
  ASSUME TypeOK, DeliveryInv, NEW q \in SUBSET Content, UNCHANGED <<host, query>>,
         \A c \in Content : sent'[c] > sent[c] =>
           c \in Deliverable(q) /\ Route(host.phase, runActive) \in {"idle", "run"}
  PROVE  SendsRight
<1> SUFFICES ASSUME NEW c \in Content, sent'[c] > sent[c]
             PROVE  /\ owner[c.of] = session
                    /\ IsCompletion(c) => c.of \notin consumed
                    /\ c.kind = "query" => query'[c.of] = "open"
                    /\ host'.phase \in {"idle", "running", "ending"}
  BY DEF SendsRight
<1>1. c \in Deliverable(q) /\ Route(host.phase, runActive) \in {"idle", "run"}
  OBVIOUS
<1>2. host.phase \in Phases /\ runActive \in BOOLEAN
  BY DEF TypeOK
<1>3. runActive => host.phase \in {"running", "ending"}
  BY InvParts DEF RunKnown
<1>4. host.phase \in {"idle", "running", "ending"}
  BY <1>1, <1>2, <1>3, RouteOpen
<1> QED BY <1>1, <1>4 DEF Deliverable

\* The end of a task.
LEMMA FinishGood == ASSUME TypeOK, DeliveryInv, NEW t \in Tasks, Finish(t) PROVE StepGood
<1> DEFINE kept == WithoutMessagesOf(queue, t)
           q == IF t \in consumed \cup delivered THEN kept ELSE kept \cup {Completion(t)}
<1>0. Once /\ DeliveredDone /\ WakeServed
  BY InvParts
<1>1. /\ q \in SUBSET Content
      /\ Completion(t) \in Content /\ IsCompletion(Completion(t)) /\ Completion(t).of = t
  BY SaidTyped DEF WithoutMessagesOf, TypeOK, IsCompletion, Completion
<1>2. /\ task[t] = "running" /\ task' = [task EXCEPT ![t] = "settled"] /\ t \notin delivered
      /\ UNCHANGED <<session, owner, query, consumed, host>>
  BY <1>0 DEF Finish, DeliveredDone
<1>3. \A c \in q : sent[c] = 0
  <2>1. Unsaid(Completion(t))
    BY <1>1, <1>2 DEF Unsaid
  <2>2. sent[Completion(t)] = 0
    BY <1>0, <1>1, <2>1 DEF Once
  <2> QED BY <1>0, <1>1, <2>2 DEF Once, WithoutMessagesOf
<1>4. \A c \in Content : Unsaid(c)' => Unsaid(c) /\ c \notin q
  <2> SUFFICES ASSUME NEW c \in Content, Unsaid(c)' PROVE Unsaid(c) /\ c \notin q
    OBVIOUS
  <2>1. c # Completion(t) /\ Unsaid(c)
    BY <1>1, <1>2, Kinds DEF Unsaid, IsCompletion, TypeOK
  <2>2. c \notin queue
    BY <1>0, <2>1 DEF Once
  <2> QED BY <2>1, <2>2 DEF WithoutMessagesOf
<1>5. \A c \in queue : IsCompletion(c) => c \in q
  BY DEF WithoutMessagesOf
<1>6. \A u \in Tasks : task'[u] \in {"new", "running"} => task[u] \in {"new", "running"}
  BY <1>2 DEF TypeOK
<1>7. \A u \in Tasks :
        task[u] = "running" /\ task'[u] = "settled" => Completion(u) \in q \/ u \in consumed
  BY <1>2 DEF TypeOK
<1>8. /\ Delivers(q) /\ Keeps(q) /\ TakesFrom(q) /\ SendsRight /\ WakeServed'
      /\ (runActive' => runActive) /\ (timers.boundary => timers'.boundary)
  <2>1. CASE runs = 0
    <3>1. FlushAll(host.phase, runActive, q, wake, timers)
      BY <2>1 DEF Finish
    <3>2. runActive \in BOOLEAN /\ Flushing(q, wake, timers)
      BY <1>1 DEF Flushing, TypeOK
    <3>3. /\ Delivers(q) /\ Keeps(q) /\ WakeAsked /\ TakesFrom(q)
          /\ \A c \in Content : sent'[c] > sent[c] =>
               c \in Deliverable(q) /\ Route(host.phase, runActive) \in {"idle", "run"}
          /\ timers.boundary => timers'.boundary
          /\ runActive' => runActive
      BY <3>1, <3>2, FlushAllEffect
    <3>4. SendsRight
      BY <1>1, <1>2, <3>3, DeliverableRight
    <3> QED BY <3>3, <3>4, AskedServed
  <2>2. CASE runs # 0
    <3>1. Held(q, wake, timers) /\ UNCHANGED runActive
      BY <2>2 DEF Finish
    <3> QED BY <1>0, <1>1, <1>2, <3>1, HeldEffect, ServedStill
  <2> QED BY <2>1, <2>2
<1> QED BY <1>1, <1>2, <1>3, <1>4, <1>5, <1>6, <1>7, <1>8, TaskFlush

\* A notification of a child.
LEMMA NotifyGood == ASSUME TypeOK, DeliveryInv, NEW t \in Tasks, Notify(t) PROVE StepGood
<1> DEFINE q == IF t \in closed THEN queue ELSE queue \cup {Notice(t)}
<1>0. Once /\ DeliveredDone /\ WakeServed
  BY InvParts
<1>1. /\ q \in SUBSET Content
      /\ Notice(t) \in Content /\ ~IsCompletion(Notice(t)) /\ Notice(t).kind = "notification"
  BY SaidTyped DEF TypeOK, IsCompletion, Notice
<1>2. UNCHANGED <<session, owner, task, query, consumed, host>> /\ sent[Notice(t)] = 0
  BY DEF Notify
<1>3. \A c \in q : sent[c] = 0
  BY <1>0, <1>1, <1>2 DEF Once, TypeOK
<1>4. \A c \in Content : Unsaid(c)' => Unsaid(c) /\ c \notin q
  <2> SUFFICES ASSUME NEW c \in Content, Unsaid(c)' PROVE Unsaid(c) /\ c \notin q
    OBVIOUS
  <2>1. Unsaid(c) /\ c # Notice(t)
    BY <1>1, <1>2 DEF Unsaid, IsCompletion
  <2> QED BY <1>0, <2>1 DEF Once
<1>5. \A u \in Tasks : ~(task[u] = "running" /\ task'[u] = "settled")
  BY <1>2
<1>8. /\ Delivers(q) /\ Keeps(q) /\ TakesFrom(q) /\ SendsRight /\ WakeServed'
      /\ (runActive' => runActive) /\ (timers.boundary => timers'.boundary)
  <2>1. CASE runs = 0
    <3>1. FlushMessages(q)
      BY <2>1 DEF Notify
    <3>3. /\ Delivers(q) /\ Keeps(q) /\ TakesFrom(q)
          /\ \A c \in Content : sent'[c] > sent[c] =>
               c \in Deliverable(q) /\ Route(host.phase, runActive) \in {"idle", "run"}
          /\ timers' = timers
          /\ wake' = wake \/ WakeAsked
          /\ runActive' => runActive
      BY <1>1, <3>1, FlushMessagesEffect
    <3>4. SendsRight
      BY <1>1, <1>2, <3>3, DeliverableRight
    <3> QED BY <1>0, <1>2, <3>3, <3>4, AskedServed, ServedStill
  <2>2. CASE runs # 0
    <3>1. Held(q, wake, timers) /\ UNCHANGED runActive
      BY <2>2 DEF Notify
    <3> QED BY <1>0, <1>1, <1>2, <3>1, HeldEffect, ServedStill
  <2> QED BY <2>1, <2>2
<1> QED BY <1>1, <1>2, <1>3, <1>4, <1>5, <1>8, TaskFlush

\* A query of a child.
LEMMA AskGood == ASSUME TypeOK, DeliveryInv, NEW t \in Tasks, Ask(t) PROVE StepGood
<1> DEFINE new == IF t \in closed THEN {} ELSE {Query(t)}
           earlier == {c \in Deliverable(queue) : ~IsCompletion(c)}
           route == Route(host.phase, runActive)
           flushed == runs = 0 /\ route \in {"idle", "run"}
           q == queue \cup new
<1>0. Once /\ DeliveredDone /\ RunKnown /\ WakeServed
  BY InvParts
<1>1. /\ q \in SUBSET Content
      /\ Query(t) \in Content /\ ~IsCompletion(Query(t)) /\ Query(t).kind = "query"
      /\ Query(t).of = t
  BY SaidTyped DEF TypeOK, IsCompletion, Query
<1>2. /\ UNCHANGED <<session, owner, task, consumed, host, delivered>>
      /\ query[t] = "none" /\ owner[t] = session
      /\ runActive' => runActive
  BY DEF Ask, Held, MayTalk
<1>3. sent[Query(t)] = 0 /\ Query(t) \notin queue
  BY <1>0, <1>1, <1>2 DEF Once, Unsaid
<1>4. \A c \in q : sent[c] = 0
  BY <1>0, <1>1, <1>3 DEF Once, TypeOK
<1>5. query'[t] # "none" /\ \A u \in Tasks : u # t => query'[u] = query[u]
  BY DEF Ask, TypeOK
<1>6. \A c \in Content : Unsaid(c)' => Unsaid(c) /\ c \notin q
  <2> SUFFICES ASSUME NEW c \in Content, Unsaid(c)' PROVE Unsaid(c) /\ c \notin q
    OBVIOUS
  <2>1. Unsaid(c) /\ c # Query(t)
    BY <1>1, <1>2, <1>5, Kinds DEF Unsaid, IsCompletion
  <2> QED BY <1>0, <2>1 DEF Once
<1>7. \A u \in Tasks : ~(task[u] = "running" /\ task'[u] = "settled")
  BY <1>2
<1>8. earlier \in SUBSET queue /\ \A c \in earlier : ~IsCompletion(c)
  BY DEF Deliverable
<1>9. flushed => host.phase \in {"idle", "running", "ending"}
  BY <1>0, RouteOpen DEF TypeOK, RunKnown
<1>10. \A c \in earlier :
         owner[c.of] = session /\ (c.kind = "query" => query'[c.of] = "open")
  BY <1>2, <1>5 DEF Deliverable, TypeOK, Content
<1>11. ASSUME NEW ok \in SUBSET (earlier \cup new), flushed, Send(ok, route),
              Query(t) \in ok => query'[t] = "open",
              queue' = {c \in queue : IsCompletion(c)}
       PROVE  Delivers(q) /\ Keeps(q) /\ SendsRight
  <2>1. \A c \in ok : ~IsCompletion(c) /\ c \in q
    BY <1>1, <1>8
  <2>2. ok \in SUBSET q /\ queue' \subseteq q /\ queue' \cap ok = {}
    BY <1>11, <2>1
  <2>3. Delivers(q) /\ \A c \in Content : sent'[c] > sent[c] <=> c \in ok
    BY <1>1, <1>11, <2>2, SendDelivers
  <2>4. Keeps(q)
    BY <1>1, <1>11 DEF Keeps
  <2>5. SendsRight
    <3> SUFFICES ASSUME NEW c \in ok
                 PROVE  /\ owner[c.of] = session
                        /\ IsCompletion(c) => c.of \notin consumed
                        /\ c.kind = "query" => query'[c.of] = "open"
                        /\ host'.phase \in {"idle", "running", "ending"}
      BY <2>3 DEF SendsRight
    <3>1. host'.phase \in {"idle", "running", "ending"}
      BY <1>2, <1>9, <1>11
    <3>2. owner[c.of] = session /\ (c.kind = "query" => query'[c.of] = "open")
      BY <1>1, <1>2, <1>10, <1>11
    <3> QED BY <2>1, <3>1, <3>2
  <2> QED BY <2>3, <2>4, <2>5
<1>12. ASSUME NEW ok, wake' = Woken(ok, route, wake), timers' = timers
       PROVE  WakeServed'
  <2>1. CASE wake' = wake
    BY <1>0, <1>2, <1>12, <2>1, ServedStill
  <2>2. CASE wake' = Requested([wake EXCEPT !.owed = TRUE])
    <3>1. [wake EXCEPT !.owed = TRUE] \in WakeStates
      BY DEF TypeOK, WakeStates
    <3> QED BY <2>2, <3>1, RequestAsks, AskedServed DEF WakeAsked
  <2> QED BY <1>12, <2>1, <2>2 DEF Woken
<1>13. TakesFrom(q)
  BY <1>2 DEF TakesFrom
<1>14. Delivers(q) /\ Keeps(q) /\ SendsRight /\ WakeServed' /\ timers' = timers
  <2>1. CASE Held(q, wake, timers)
    BY <1>0, <1>1, <1>2, <2>1, HeldEffect, ServedStill
  <2>2. CASE /\ flushed
             /\ query' = [query EXCEPT ![t] = "open"]
             /\ Send(earlier \cup new, route)
             /\ queue' = {c \in queue : IsCompletion(c)}
             /\ wake' = Woken(earlier \cup new, route, wake)
             /\ UNCHANGED timers
    <3>1. query'[t] = "open"
      BY <2>2 DEF TypeOK
    <3>2. Delivers(q) /\ Keeps(q) /\ SendsRight
      BY <1>11, <2>2, <3>1
    <3> QED BY <1>12, <2>2, <3>2
  <2>3. CASE /\ flushed
             /\ \E ok \in SUBSET earlier :
                  Send(ok, route) /\ wake' = Woken(ok, route, wake)
             /\ queue' = {c \in queue : IsCompletion(c)}
             /\ UNCHANGED timers
    <3>1. PICK ok \in SUBSET earlier : Send(ok, route) /\ wake' = Woken(ok, route, wake)
      BY <2>3
    <3>2. Query(t) \notin ok /\ ok \in SUBSET (earlier \cup new)
      BY <1>3, <1>8
    <3>3. Delivers(q) /\ Keeps(q) /\ SendsRight
      BY <1>11, <2>3, <3>1, <3>2
    <3> QED BY <1>12, <2>3, <3>1, <3>3
  <2> HIDE DEF new, earlier, route, q
  <2> QED BY <2>1, <2>2, <2>3 DEF Ask, flushed, new, earlier, route, q
<1>15. \A c \in queue : IsCompletion(c) => c \in q
  OBVIOUS
<1>16. \A u \in Tasks : task'[u] \in {"new", "running"} => task[u] \in {"new", "running"}
  BY <1>2
<1>17. consumed \subseteq consumed' /\ (timers.boundary => timers'.boundary)
  BY <1>2, <1>14
<1> HIDE DEF q
<1> QED BY <1>1, <1>2, <1>4, <1>6, <1>7, <1>13, <1>14, <1>15, <1>16, <1>17, TaskFlush

\* The steps of a task and the tools that send nothing.
LEMMA SilentGood ==
  ASSUME TypeOK, DeliveryInv, NEW t \in Tasks,
         Launch(t) \/ FinishCancelled(t) \/ QuerySettled(t) \/ ReadResult(t) \/ CancelTool(t)
  PROVE  StepGood
<1>0. Once /\ DeliveredDone /\ RunKnown /\ BoundaryKnown /\ HostKnown /\ WakeServed
  BY InvParts
<1>1. /\ sent' = sent /\ queue' \subseteq queue /\ delivered' = delivered
      /\ UNCHANGED <<session, host, wake, timers, runActive>>
  BY DEF Launch, FinishCancelled, QuerySettled, ReadResult, CancelTool, WithoutMessagesOf, extVars
<1>2. /\ \A u \in Tasks : task'[u] \in {"new", "running"} => task[u] \in {"new", "running"}
      /\ \A u \in Tasks : task'[u] = "settled" => task[u] = "settled"
      /\ \A u \in Tasks : query'[u] = "none" => query[u] = "none"
  BY DEF Launch, FinishCancelled, QuerySettled, ReadResult, CancelTool, TypeOK
<1>3. \A c \in Content : Unsaid(c)' => Unsaid(c)
  BY <1>2, Kinds DEF Unsaid, IsCompletion
<1>4. Once' /\ SendsRight
  BY <1>1, <1>3, QuietStep
<1>5. DeliveredDone'
  BY <1>0, <1>1, <1>2 DEF DeliveredDone, TypeOK
<1>6. LosesNothing
  <2> SUFFICES ASSUME NEW u \in Tasks, Completion(u) \in queue
               PROVE  Completion(u) \in queue' \/ u \in consumed'
    BY <1>2 DEF LosesNothing
  <2>1. IsCompletion(Completion(u)) /\ Completion(u) # Query(t)
    BY DEF IsCompletion, Completion, Query
  <2> QED BY <2>1 DEF Launch, FinishCancelled, QuerySettled, ReadResult, CancelTool,
        WithoutMessagesOf, extVars
<1>7. WakeServed'
  BY <1>0, <1>1, ServedStill
<1>8. RunKnown' /\ BoundaryKnown' /\ HostKnown'
  BY <1>0, <1>1 DEF RunKnown, BoundaryKnown, HostKnown
<1> QED BY <1>4, <1>5, <1>6, <1>7, <1>8 DEF StepGood

\* Every step is good.
LEMMA EveryStepGood == ASSUME TypeOK, DeliveryInv, Next PROVE StepGood
  BY HostGood, TimersGood, FinishGood, NotifyGood, AskGood, SilentGood DEF Next, TaskSteps

----------------------------------------------------------------------------
(* The theorems                                                            *)

\* The inductive invariant holds in every reachable state.
THEOREM Invariant == Spec => []DeliveryInv
<1>1. Init => DeliveryInv
  BY DEF Init, DeliveryInv, NoHost, WakeServed, Unsaid
<1>2. TypeOK /\ DeliveryInv /\ [Next]_vars => DeliveryInv'
  <2> SUFFICES ASSUME TypeOK, DeliveryInv, [Next]_vars PROVE DeliveryInv'
    OBVIOUS
  <2>1. CASE Next
    <3>1. Once' /\ DeliveredDone' /\ RunKnown' /\ BoundaryKnown' /\ HostKnown' /\ WakeServed'
      BY <2>1, EveryStepGood DEF StepGood
    <3> QED BY <3>1 DEF DeliveryInv, Once, DeliveredDone, RunKnown, BoundaryKnown, HostKnown
  <2>2. CASE UNCHANGED vars
    BY <2>2 DEF vars, extVars, DeliveryInv, WakeServed, Unsaid, IsCompletion
  <2> QED BY <2>1, <2>2
<1> QED BY <1>1, <1>2, TypeCorrect, PTL DEF Spec

\* Each completion, query and notification reaches the parent at most once.
THEOREM DeliveredOnce == Spec => []AtMostOnce
<1>1. DeliveryInv => AtMostOnce
  BY DEF DeliveryInv, AtMostOnce
<1> QED BY <1>1, Invariant, PTL

\* An owed wake always has something that will send it.
THEOREM Served == Spec => []WakeServed
<1>1. DeliveryInv => WakeServed
  BY DEF DeliveryInv
<1> QED BY <1>1, Invariant, PTL

\* Content reaches only the session that launched the task.
THEOREM ToItsSession == Spec => RightSession
<1>1. TypeOK /\ DeliveryInv /\ [Next]_vars => [\A c \in NewlySent : owner[c.of] = session]_vars
  BY EveryStepGood DEF StepGood, SendsRight, NewlySent
<1> QED BY <1>1, TypeCorrect, Invariant, PTL DEF Spec, RightSession

\* No completion of the open session is lost.
THEOREM LostNever == Spec => NothingLost
<1>1. TypeOK /\ DeliveryInv /\ [Next]_vars => [LosesNothing]_vars
  BY EveryStepGood DEF StepGood
<1> QED BY <1>1, TypeCorrect, Invariant, PTL DEF Spec, NothingLost, LosesNothing

\* A result that was read, or a query that is over, is not handed over again.
THEOREM ReplayedNever == Spec => NothingReplayed
<1>1. TypeOK /\ DeliveryInv /\ [Next]_vars
        => [\A c \in NewlySent :
              /\ IsCompletion(c) => c.of \notin consumed
              /\ c.kind = "query" => query'[c.of] = "open"]_vars
  BY EveryStepGood DEF StepGood, SendsRight, NewlySent
<1> QED BY <1>1, TypeCorrect, Invariant, PTL DEF Spec, NothingReplayed

\* A parent that is busy without a run receives nothing.
THEOREM HeldInBusyParent == Spec => HeldWhileBusy
<1>1. TypeOK /\ DeliveryInv /\ [Next]_vars
        => [NewlySent # {} => host'.phase \in {"idle", "running", "ending"}]_vars
  BY EveryStepGood DEF StepGood, SendsRight, NewlySent
<1> QED BY <1>1, TypeCorrect, Invariant, PTL DEF Spec, HeldWhileBusy
----------------------------------------------------------------------------
(* One wake at a time.                                                     *)

\* A prompt that has been announced, or a wake that was sent.
Starting == host.prompt = "announced" \/ host.wakes > 0

\* Outside a run the extension knows of every prompt that is starting, and none
\* is left when a run ends: each has started it, joined it or vanished.
StartInv ==
  /\ host.phase \in {"idle", "compacting", "leaving"} /\ Starting => wake.starting
  /\ host.phase = "ending" => ~Starting

\* What is proved of every step.
WakeStep ==
  /\ StartInv'
  /\ host'.wakes > host.wakes => ~Starting

\* Neither asking for a wake nor a flush touches the note of a starting prompt.
LEMMA StartingKept ==
  ASSUME NEW w \in WakeStates, NEW ok, NEW route
  PROVE  Requested(w).starting = w.starting /\ Woken(ok, route, w).starting = w.starting
<1>1. ASSUME NEW x \in WakeStates PROVE Requested(x).starting = x.starting
  BY <1>1 DEF Requested, WakeStates
<1>2. [w EXCEPT !.owed = TRUE] \in WakeStates /\ [w EXCEPT !.owed = TRUE].starting = w.starting
  BY DEF WakeStates
<1> QED BY <1>1, <1>2 DEF Woken

LEMMA FlushStarting ==
  ASSUME NEW phase, NEW active, NEW q, NEW w \in WakeStates, NEW tm,
         FlushAll(phase, active, q, w, tm)
  PROVE  wake'.starting = w.starting
<1>1. CASE wake' = Requested(w)
  BY <1>1, StartingKept
<1>2. ASSUME NEW ok, wake' = Requested(Woken(ok, Route(phase, active), w))
      PROVE  wake'.starting = w.starting
  BY <1>2, WakeTyped, StartingKept
<1>3. \/ wake' = Requested(w)
      \/ \E ok : wake' = Requested(Woken(ok, Route(phase, active), w))
  BY DEF FlushAll, Held
<1> QED BY <1>1, <1>2, <1>3

\* A step of no prompt: the host stays as it is and so does the note.
LEMMA SameHost ==
  ASSUME TypeOK, StartInv, host' = host, wake'.starting = wake.starting
  PROVE  WakeStep
<1>1. StartInv'
  BY DEF StartInv, Starting
<1>2. ~(host'.wakes > host.wakes)
  BY DEF TypeOK
<1> QED BY <1>1, <1>2 DEF WakeStep

\* The host's events.
LEMMA HostWakes == ASSUME ~SlowPrompts, TypeOK, DeliveryInv, StartInv, HostSteps PROVE WakeStep
<1> USE DEF extVars
<1>0. /\ host.phase \in Phases /\ host.wakes \in Nat /\ wake \in WakeStates
      /\ host \in [phase : Phases, prompt : {"none", "typed", "announced"}, wakes : Nat]
  BY DEF TypeOK
<1>1. CASE SessionShutdown \/ \E s \in Sessions : SessionStart(s)
  <2>1. host' = NoHost
    BY <1>1, InvParts, NoneAssumption DEF SessionShutdown, SessionStart, HostKnown
  <2>2. host'.wakes = 0 /\ host'.prompt = "none" /\ host'.phase = "idle"
    BY <2>1 DEF NoHost
  <2> QED BY <1>0, <2>2 DEF WakeStep, StartInv, Starting
<1>2. CASE UserPrompts
  <2>1. /\ host'.prompt = "typed" /\ host'.wakes = host.wakes /\ host'.phase = host.phase
        /\ wake' = wake
    BY <1>0, <1>2 DEF UserPrompts
  <2> QED BY <1>0, <2>1 DEF WakeStep, StartInv, Starting
<1>3. CASE BeforeAgentStart
  <2>1. host'.wakes = host.wakes /\ host'.phase = "idle"
    BY <1>0, <1>3 DEF BeforeAgentStart
  <2>2. ~runActive
    BY <1>3, InvParts DEF RunKnown, BeforeAgentStart
  <2>3. wake'.starting
    BY <1>0, <1>3, <2>2 DEF BeforeAgentStart, WakeStates
  <2> QED BY <1>0, <2>1, <2>3 DEF WakeStep, StartInv
<1>4. CASE AgentStart
  <2>1. host'.phase = "running" /\ ~(host'.wakes > host.wakes)
    <3>1. CASE host' = [host EXCEPT !.phase = "running", !.prompt = "none"]
      BY <1>0, <3>1
    <3>2. CASE host' = [host EXCEPT !.phase = "running", !.wakes = @ - 1]
      BY <1>0, <3>2
    <3>3. CASE host' = [host EXCEPT !.phase = "running"]
      BY <1>0, <3>3
    <3> QED BY <1>4, <3>1, <3>2, <3>3 DEF AgentStart
  <2> QED BY <2>1 DEF WakeStep, StartInv
<1>5. CASE PromptJoinsRun
  <2>1. host'.phase = "running" /\ ~(host'.wakes > host.wakes)
    BY <1>0, <1>5 DEF PromptJoinsRun
  <2> QED BY <2>1 DEF WakeStep, StartInv
<1>6. CASE PromptVanishes
  <2>1. host'.phase = "idle" /\ host.phase = "idle" /\ ~(host'.wakes > host.wakes) /\ wake' = wake
    BY <1>0, <1>6 DEF PromptVanishes
  <2>2. Starting' => Starting
    <3>1. CASE host' = [host EXCEPT !.prompt = "none"]
      BY <1>0, <3>1 DEF Starting
    <3>2. CASE host.wakes > 0
      BY <3>2 DEF Starting
    <3> QED BY <1>6, <3>1, <3>2 DEF PromptVanishes
  <2> QED BY <2>1, <2>2 DEF WakeStep, StartInv
<1>7. CASE TurnEnd
  BY <1>0, <1>7, FlushStarting, SameHost DEF TurnEnd
<1>8. CASE AgentEnd
  <2>1. ~Starting
    BY <1>0, <1>8 DEF AgentEnd, Starting
  <2>2. host'.phase = "ending" /\ host'.wakes = host.wakes /\ host'.prompt = host.prompt
    BY <1>0, <1>8 DEF AgentEnd
  <2> QED BY <1>0, <2>1, <2>2 DEF WakeStep, StartInv, Starting
<1>9. CASE AgentSettled
  <2>1. ~Starting
    BY <1>9 DEF AgentSettled, StartInv
  <2>2. host'.phase = "idle" /\ host'.wakes = host.wakes /\ host'.prompt = host.prompt
    BY <1>0, <1>9 DEF AgentSettled
  <2> QED BY <1>0, <2>1, <2>2 DEF WakeStep, StartInv, Starting
<1>10. CASE Compact
  <2>1. /\ host'.phase = "compacting" /\ host.phase = "idle" /\ host'.wakes = host.wakes
        /\ host'.prompt = host.prompt /\ wake' = wake
    BY <1>0, <1>10 DEF Compact
  <2> QED BY <1>0, <2>1 DEF WakeStep, StartInv, Starting
<1>11. CASE CompactionEvent
  <2>1. CASE host.phase = "compacting" /\ host' = [host EXCEPT !.phase = "leaving"]
    <3>1. /\ host'.phase = "leaving" /\ host'.wakes = host.wakes
          /\ host'.prompt = host.prompt /\ wake' = wake
      BY <1>0, <1>11, <2>1 DEF CompactionEvent
    <3> QED BY <1>0, <2>1, <3>1 DEF WakeStep, StartInv, Starting
  <2>2. CASE host' = host
    BY <1>11, <2>2, SameHost DEF CompactionEvent
  <2> QED BY <1>11, <2>1, <2>2 DEF CompactionEvent
<1>12. CASE CompactionOver
  <2>1. /\ host'.phase = "idle" /\ host.phase = "leaving" /\ host'.wakes = host.wakes
        /\ host'.prompt = host.prompt /\ wake' = wake
    BY <1>0, <1>12 DEF CompactionOver
  <2> QED BY <1>0, <2>1 DEF WakeStep, StartInv, Starting
<1> QED BY <1>1, <1>2, <1>3, <1>4, <1>5, <1>6, <1>7, <1>8, <1>9, <1>10, <1>11, <1>12
    DEF HostSteps, PromptSteps, RunSteps

\* The timers, and the wake itself: it is sent only by an idle parent that knows
\* of no prompt that is starting, and then notes its own.
LEMMA TimerWakes == ASSUME ~SlowPrompts, TypeOK, StartInv, TimerSteps PROVE WakeStep
<1>0. /\ host.phase \in Phases /\ host.wakes \in Nat /\ wake \in WakeStates
      /\ host \in [phase : Phases, prompt : {"none", "typed", "announced"}, wakes : Nat]
  BY DEF TypeOK
<1>1. CASE BoundaryFlush
  BY <1>0, <1>1, FlushStarting, SameHost DEF BoundaryFlush
<1>2. CASE DeliveryRetry
  BY <1>0, <1>2, FlushStarting, SameHost DEF DeliveryRetry
<1>3. CASE PromptGrace
  <2>1. ~Starting /\ host' = host
    BY <1>0, <1>3 DEF PromptGrace, Starting
  <2> QED BY <1>0, <2>1 DEF WakeStep, StartInv, Starting
<1>4. CASE DispatchWake
  <2>1. CASE wake' = [wake EXCEPT !.queued = FALSE] /\ host' = host
    <3>1. wake'.starting = wake.starting
      BY <1>0, <2>1 DEF WakeStates
    <3> QED BY <2>1, <3>1, SameHost
  <2>2. CASE /\ Route(host.phase, runActive) = "idle" /\ ~wake.starting
             /\ wake' = [owed |-> FALSE, queued |-> FALSE, starting |-> TRUE]
             /\ host' = [host EXCEPT !.wakes = @ + 1]
    <3>1. host.phase = "idle"
      BY <2>2 DEF Route
    <3>2. ~Starting
      BY <2>2, <3>1 DEF StartInv
    <3>3. host'.phase = "idle" /\ wake'.starting
      BY <1>0, <2>2, <3>1
    <3> QED BY <3>2, <3>3 DEF WakeStep, StartInv
  <2> QED BY <1>4, <2>1, <2>2 DEF DispatchWake
<1> QED BY <1>1, <1>2, <1>3, <1>4 DEF TimerSteps

\* The tasks and the tools may ask for a wake; they send none.
LEMMA TaskWakes ==
  ASSUME TypeOK, StartInv, NEW t \in Tasks, TaskSteps(t) PROVE WakeStep
<1> SUFFICES host' = host /\ wake'.starting = wake.starting
  BY SameHost
<1>0. wake \in WakeStates
  BY DEF TypeOK
<1>1. CASE Finish(t)
  <2>1. CASE runs = 0
    BY <1>0, <1>1, <2>1, FlushStarting DEF Finish
  <2>2. CASE runs # 0
    BY <1>1, <2>2 DEF Finish, Held
  <2> QED BY <1>1, <2>1, <2>2 DEF Finish
<1>2. CASE Notify(t)
  <2>1. ASSUME NEW q, FlushMessages(q) PROVE wake'.starting = wake.starting
    <3>1. wake' = wake \/ \E ok, route : wake' = Woken(ok, route, wake)
      BY <2>1 DEF FlushMessages, Held
    <3> QED BY <1>0, <3>1, StartingKept
  <2>2. CASE runs = 0
    BY <1>2, <2>1, <2>2 DEF Notify
  <2>3. CASE runs # 0
    BY <1>2, <2>3 DEF Notify, Held
  <2> QED BY <1>2, <2>2, <2>3 DEF Notify
<1>3. CASE Ask(t)
  <2>1. wake' = wake \/ \E ok, route : wake' = Woken(ok, route, wake)
    BY <1>3 DEF Ask, Held
  <2> QED BY <1>0, <1>3, <2>1, StartingKept DEF Ask
<1>4. CASE Launch(t) \/ FinishCancelled(t) \/ QuerySettled(t) \/ ReadResult(t) \/ CancelTool(t)
  BY <1>4 DEF Launch, FinishCancelled, QuerySettled, ReadResult, CancelTool, extVars
<1> QED BY <1>1, <1>2, <1>3, <1>4 DEF TaskSteps

\* If a prompt starts its run within the grace, the extension never sends a wake
\* while another prompt, announced or its own, is starting.
THEOREM WakesDoNotRace == ~SlowPrompts => (Spec => NoRacingWakes)
<1> SUFFICES ASSUME ~SlowPrompts PROVE Spec => NoRacingWakes
  OBVIOUS
<1>1. Init => StartInv
  BY DEF Init, NoHost, StartInv, Starting
<1>2. TypeOK /\ DeliveryInv /\ StartInv /\ [Next]_vars => WakeStep
  <2> SUFFICES ASSUME TypeOK, DeliveryInv, StartInv, [Next]_vars PROVE WakeStep
    OBVIOUS
  <2>1. CASE Next
    BY <2>1, HostWakes, TimerWakes, TaskWakes DEF Next
  <2>2. CASE UNCHANGED vars
    BY <2>2, SameHost DEF vars, extVars
  <2> QED BY <2>1, <2>2
<1>3. TypeOK /\ WakeStep => StartInv' /\ WakesApart
  BY DEF WakeStep, WakesApart, Starting, TypeOK
<1>4. Spec => [](TypeOK /\ DeliveryInv)
  BY TypeCorrect, Invariant, PTL
<1> QED BY <1>1, <1>2, <1>3, <1>4, PTL DEF Spec, NoRacingWakes
=============================================================================
