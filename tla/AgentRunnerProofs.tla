------------------------- MODULE AgentRunnerProofs -------------------------
(***************************************************************************)
(* Proofs about AgentRunner, for every set of tasks, every overlap         *)
(* relation and every concurrency limit.                                   *)
(***************************************************************************)
EXTENDS AgentRunner, FiniteSetTheorems, SequenceTheorems, TLAPS

\* What the pump takes from the queue and what it leaves in it.
LEMMA QueueTail ==
  ASSUME NEW S, NEW q \in Seq(S), q # <<>>
  PROVE  /\ Head(q) \in S
         /\ Head(q) = q[1]
         /\ Tail(q) \in Seq(S)
         /\ Len(q) \in Nat \ {0}
         /\ Len(Tail(q)) = Len(q) - 1
         /\ \A i \in 1..Len(Tail(q)) : Tail(q)[i] = q[i + 1]
  BY HeadTailProperties

\* What is left of the queue when cancel() takes out its i-th entry.
LEMMA SplicedQueue ==
  ASSUME queue \in Seq(Tasks), NEW i \in 1..Len(queue)
  PROVE  /\ Spliced(i) \in Seq(Tasks)
         /\ Len(Spliced(i)) = Len(queue) - 1
         /\ \A k \in 1..Len(Spliced(i)) :
              Spliced(i)[k] = IF k < i THEN queue[k] ELSE queue[k + 1]
<1> DEFINE a == SubSeq(queue, 1, i - 1)
           b == SubSeq(queue, i + 1, Len(queue))
<1>1. a \in Seq(Tasks) /\ Len(a) = i - 1 /\ \A k \in 1..(i - 1) : a[k] = queue[k]
  BY SubSeqProperties
<1>2. b \in Seq(Tasks) /\ Len(b) = Len(queue) - i
      /\ \A k \in 1..(Len(queue) - i) : b[k] = queue[i + k]
  BY SubSeqProperties
<1> HIDE DEF a, b
<1>3. /\ a \o b \in Seq(Tasks) /\ Len(a \o b) = Len(queue) - 1
      /\ \A k \in 1..(Len(queue) - 1) : (a \o b)[k] = IF k <= i - 1 THEN a[k] ELSE b[k - (i - 1)]
  <2>1. Len(queue) \in Nat
    BY LenProperties
  <2>2. Len(a) + Len(b) = Len(queue) - 1
    BY <1>1, <1>2, <2>1
  <2>3. a \in Seq(Tasks) /\ b \in Seq(Tasks)
    BY <1>1, <1>2
  <2>4. /\ a \o b \in Seq(Tasks)
        /\ Len(a \o b) = Len(a) + Len(b)
        /\ \A k \in 1..(Len(a) + Len(b)) :
             (a \o b)[k] = IF k <= Len(a) THEN a[k] ELSE b[k - Len(a)]
    BY <2>3, ConcatProperties
  <2>5. Len(a) = i - 1
    BY <1>1
  <2> QED BY <2>1, <2>2, <2>4, <2>5
<1>4. ASSUME NEW k \in 1..(Len(queue) - 1)
      PROVE  (a \o b)[k] = IF k < i THEN queue[k] ELSE queue[k + 1]
  <2>1. CASE k < i
    BY <1>1, <1>3, <2>1
  <2>2. CASE ~(k < i)
    <3>1. (a \o b)[k] = b[k - (i - 1)]
      BY <1>3, <2>2
    <3>2. k - (i - 1) \in 1..(Len(queue) - i) /\ i + (k - (i - 1)) = k + 1
      BY <2>2
    <3> QED BY <1>2, <2>2, <3>1, <3>2
  <2> QED BY <2>1, <2>2
<1>5. Spliced(i) = a \o b
  BY DEF Spliced, a, b
<1> QED BY <1>3, <1>4, <1>5

\* finish() keeps the types of what it writes.
LEMMA FinishType ==
  ASSUME TypeOK, NEW t \in Tasks, NEW s \in Finals, NEW k \in BOOLEAN, finish(t, s, k)
  PROVE  /\ claims' \subseteq Writers
         /\ status' \in [Tasks -> Statuses]
         /\ waiters' \in [Tasks -> Nat]
         /\ reported' \in [Tasks -> Nat]
<1>1. claims' \subseteq Writers
  BY DEF finish, TypeOK
<1>2. CASE isFinished(status[t])
  BY <1>1, <1>2 DEF finish, isFinished, TypeOK
<1>3. CASE ~isFinished(status[t])
  <2>1. status' = [status EXCEPT ![t] = s]
    BY <1>3 DEF finish
  <2>2. reported' = [reported EXCEPT ![t] = reported[t] + 1]
    BY <1>3 DEF finish
  <2>3. waiters' = [waiters EXCEPT ![t] = 0]
    BY <1>3 DEF finish
  <2>4. reported[t] + 1 \in Nat /\ s \in Statuses
    BY DEF TypeOK, Statuses
  <2> QED BY <1>1, <2>1, <2>2, <2>3, <2>4 DEF TypeOK
<1> QED BY <1>2, <1>3

\* completeExit() keeps the types of what it writes.
LEMMA CompleteExitType ==
  ASSUME TypeOK, NEW t \in Tasks, completeExit(t)
  PROVE  /\ claims' \subseteq Writers
         /\ status' \in [Tasks -> Statuses]
         /\ waiters' \in [Tasks -> Nat]
         /\ reported' \in [Tasks -> Nat]
         /\ live' \subseteq Tasks
         /\ scratch' \subseteq Tasks
         /\ grace' \in [Tasks -> GraceSteps]
         /\ pump' \in {"idle", "scheduled", "looping"}
<1> DEFINE s == IF terminal[t] = "none" THEN "failed" ELSE terminal[t]
<1>1. s \in Finals
  BY DEF TypeOK, Finals
<1>2. CASE quarantined[t]
  BY <1>2 DEF completeExit, TypeOK, GraceSteps
<1>3. CASE ~quarantined[t]
  <2>1. finish(t, s, FALSE)
    BY <1>3 DEF completeExit
  <2> HIDE DEF s
  <2> QED BY <1>1, <2>1, FinishType DEF completeExit, TypeOK, GraceSteps
<1> QED BY <1>2, <1>3

\* The value of each variable stays in its range, whatever the host calls
\* and whatever the children do.
THEOREM TypeCorrect == Spec => []TypeOK
<1>1. Init => TypeOK
  BY DEF Init, TypeOK, Statuses, GraceSteps, ChildStates
<1>2. TypeOK /\ [Next]_vars => TypeOK'
  <2> SUFFICES ASSUME TypeOK, [Next]_vars PROVE TypeOK'
    OBVIOUS
  <2> USE WritersAssumption
  <2>1. CASE CancelAll
    <3> DEFINE queued == {queue[i] : i \in 1..Len(queue)}
               stopped == {t \in Tasks : Running(t)}
    <3> HIDE DEF queued, stopped
    <3>1. /\ claims' \subseteq Writers
          /\ queue' \in Seq(Tasks)
          /\ pump' \in {"idle", "scheduled", "looping"}
      BY <2>1 DEF CancelAll, TypeOK
    <3>2. status' = [t \in Tasks |-> IF t \in queued THEN "cancelled" ELSE status[t]]
      BY <2>1 DEF CancelAll, queued
    <3>3. reported' = [t \in Tasks |-> IF t \in queued THEN reported[t] + 1 ELSE reported[t]]
      BY <2>1 DEF CancelAll, queued
    <3>4. waiters' = [t \in Tasks |-> IF t \in queued THEN 0 ELSE waiters[t]]
      BY <2>1 DEF CancelAll, queued
    <3>5. terminal' = [t \in Tasks |-> IF t \in stopped THEN "cancelled" ELSE terminal[t]]
      BY <2>1 DEF CancelAll, stopped
    <3>6. grace' = [t \in Tasks |-> IF t \in stopped THEN "kill" ELSE grace[t]]
      BY <2>1 DEF CancelAll, stopped
    <3>7. UNCHANGED <<live, quarantined, childExit, scratch, report, asks, child, stray>>
      BY <2>1 DEF CancelAll
    <3> QED
      BY <3>1, <3>2, <3>3, <3>4, <3>5, <3>6, <3>7 DEF TypeOK, Statuses, Finals, GraceSteps
  <2>2. CASE LaunchRefused
    <3>1. Head(queue) \in Tasks /\ Tail(queue) \in Seq(Tasks)
      BY <2>2, QueueTail DEF LaunchRefused, CanLaunch, TypeOK
    <3>2. finish(Head(queue), "failed", FALSE) /\ "failed" \in Finals
      BY <2>2 DEF LaunchRefused, Finals
    <3> QED BY <2>2, <3>1, <3>2, FinishType DEF LaunchRefused, TypeOK
  <2>3. CASE Launch
    <3>1. Head(queue) \in Tasks /\ Tail(queue) \in Seq(Tasks)
      BY <2>3, QueueTail DEF Launch, CanLaunch, TypeOK
    <3>2. /\ status' \in [Tasks -> Statuses]
          /\ child' \in [Tasks -> ChildStates]
      BY <2>3, <3>1 DEF Launch, TypeOK, Statuses, ChildStates
    <3>3. /\ terminal' \in [Tasks -> Finals \cup {"none"}]
          /\ grace' \in [Tasks -> GraceSteps]
      BY <2>3, <3>1 DEF Launch, TypeOK, Finals, GraceSteps
    <3>4. /\ queue' \in Seq(Tasks)
          /\ pump' = "looping"
          /\ live' \subseteq Tasks
          /\ scratch' \subseteq Tasks
      BY <2>3, <3>1 DEF Launch, TypeOK
    <3>5. UNCHANGED <<quarantined, childExit, claims, waiters, reported, report, asks, stray>>
      BY <2>3 DEF Launch
    <3> QED BY <3>2, <3>3, <3>4, <3>5 DEF TypeOK
  <2>4. CASE PumpDone
    BY <2>4 DEF PumpDone, TypeOK
  <2>5. ASSUME NEW t \in Tasks, TaskStep(t) PROVE TypeOK'
    <3>1. CASE Run(t)
      BY <3>1 DEF Run, TypeOK, Statuses
    <3>2. CASE WaitFor(t)
      BY <3>2 DEF WaitFor, TypeOK
    <3>3. CASE CancelQueued(t)
      <4>1. PICK i \in 1..Len(queue) : queue' = Spliced(i)
        BY <3>3 DEF CancelQueued
      <4>2. queue' \in Seq(Tasks)
        BY <4>1, SplicedQueue DEF TypeOK
      <4>3. finish(t, "cancelled", FALSE) /\ "cancelled" \in Finals
        BY <3>3 DEF CancelQueued, Finals
      <4> QED BY <3>3, <4>2, <4>3, FinishType DEF CancelQueued, TypeOK
    <3>4. CASE CancelLive(t)
      BY <3>4 DEF CancelLive, requestStop, TypeOK, Finals, GraceSteps
    <3>5. CASE Steer(t)
      BY <3>5 DEF Steer, TypeOK, Statuses
    <3>6. CASE Answer(t)
      BY <3>6 DEF Answer, TypeOK, Statuses
    <3>7. CASE SpawnEvent(t)
      BY <3>7 DEF SpawnEvent, requestStop, TypeOK, Finals, GraceSteps, ChildStates
    <3>8. CASE SpawnError(t)
      <4>1. finish(t, "failed", FALSE) /\ "failed" \in Finals
        BY <3>8 DEF SpawnError, Finals
      <4> QED BY <3>8, <4>1, FinishType DEF SpawnError, TypeOK, GraceSteps, ChildStates
    <3>9. CASE ChildError(t)
      BY <3>9 DEF ChildError, requestStop, TypeOK, Finals, GraceSteps
    <3>10. CASE PromptRejected(t)
      BY <3>10 DEF PromptRejected, requestStop, TypeOK, Finals, GraceSteps
    <3>11. CASE Ask(t)
      BY <3>11 DEF Ask, TypeOK, Statuses
    <3>12. CASE Progress(t)
      BY <3>12 DEF Progress, TypeOK, Statuses
    <3>13. CASE AgentSettled(t)
      BY <3>13 DEF AgentSettled, settleOrderly, TypeOK, Statuses, Finals, GraceSteps
    <3>14. CASE Exited(t)
      <4>1. CASE probeGroup(t) = "present"
        BY <3>14, <4>1 DEF Exited, requestStop, Running, TypeOK, Finals, GraceSteps
      <4>2. CASE probeGroup(t) # "present"
        BY <3>14, <4>2, CompleteExitType DEF Exited, TypeOK
      <4> QED BY <4>1, <4>2
    <3>15. CASE Stall(t)
      BY <3>15 DEF Stall, requestStop, TypeOK, Finals, GraceSteps
    <3>16. CASE CleanupTimeout(t)
      BY <3>16 DEF CleanupTimeout, TypeOK, GraceSteps
    <3>17. CASE confirmGroupExit(t)
      <4>1. CASE completeExit(t) /\ UNCHANGED quarantined
        BY <3>17, <4>1, CompleteExitType DEF confirmGroupExit, TypeOK
      <4>2. CASE quarantine(t)
        <5>1. finish(t, "failed", TRUE) /\ "failed" \in Finals
          BY <4>2 DEF quarantine, Finals
        <5> QED BY <3>17, <4>2, <5>1, FinishType DEF confirmGroupExit, quarantine, TypeOK, GraceSteps
      <4>3. CASE rearm(t)
        BY <3>17, <4>3 DEF confirmGroupExit, rearm, TypeOK, GraceSteps
      <4> QED BY <3>17, <4>1, <4>2, <4>3 DEF confirmGroupExit
    <3>18. CASE awaitQuarantinedGroup(t)
      BY <3>18, CompleteExitType DEF awaitQuarantinedGroup, TypeOK
    <3>19. CASE ChildDies(t)
      BY <3>19 DEF ChildDies, TypeOK, ChildStates
    <3>20. CASE StrayDies(t)
      BY <3>20 DEF StrayDies, TypeOK
    <3> QED
      BY <2>5, <3>1, <3>2, <3>3, <3>4, <3>5, <3>6, <3>7, <3>8, <3>9, <3>10, <3>11,
         <3>12, <3>13, <3>14, <3>15, <3>16, <3>17, <3>18, <3>19, <3>20 DEF TaskStep
  <2>6. CASE UNCHANGED vars
    BY <2>6 DEF vars, TypeOK
  <2> QED
    BY <2>1, <2>2, <2>3, <2>4, <2>5, <2>6 DEF Next
<1> QED
  BY <1>1, <1>2, PTL DEF Spec

----------------------------------------------------------------------------
(* The inductive invariant.  A step disturbs it in one of a few ways; each *)
(* way has a lemma, and the actions cite the lemma of theirs.              *)

Bound == Cardinality(live) <= MaxConcurrency

\* A task that owns a slot and was not quarantined is running or waiting.
LEMMA LiveStatus ==
  ASSUME IInv, NEW t \in Tasks, t \in live, ~quarantined[t]
  PROVE  /\ status[t] \in {"running", "waiting"}
         /\ ~isFinished(status[t])
         /\ reported[t] = 0
  BY DEF IInv, SlotInv, ReportedOnce, isFinished, Finals

\* A child without a verdict is not quarantined.
LEMMA RunningStatus ==
  ASSUME IInv, NEW t \in Tasks, Running(t)
  PROVE  t \in live /\ ~quarantined[t] /\ status[t] \in {"running", "waiting"}
  BY LiveStatus DEF IInv, ProcessInv, Running

\* A queued task owns no slot and was not reported.
LEMMA QueuedStatus ==
  ASSUME IInv, NEW t \in Tasks, status[t] = "queued"
  PROVE  /\ t \notin live
         /\ ~quarantined[t]
         /\ ~isFinished(status[t])
         /\ reported[t] = 0
         /\ ~MayWrite(t)
  BY DEF IInv, SlotInv, ReportedOnce, isFinished, Finals

\* A slot taken while one is free keeps the pool within its bound.
LEMMA SlotTaken ==
  ASSUME IInv, NEW t \in Tasks, Cardinality(live) < MaxConcurrency,
         live' = live \cup {t}
  PROVE  IsFiniteSet(live') /\ Bound'
<1>1. IsFiniteSet(live) /\ Cardinality(live) \in Nat
  BY FS_CardinalityType DEF IInv, SlotInv
<1>2. IsFiniteSet(live \cup {t}) /\ Cardinality(live \cup {t}) <= Cardinality(live) + 1
  BY <1>1, FS_AddElement
<1>3. Cardinality(live \cup {t}) \in Nat
  BY <1>2, FS_CardinalityType
<1> QED BY <1>1, <1>2, <1>3, MaxConcurrencyAssumption DEF Bound

\* A slot given back leaves the pool within its bound.
LEMMA SlotFreed ==
  ASSUME IInv, live' \subseteq live
  PROVE  IsFiniteSet(live') /\ Bound'
<1>1. IsFiniteSet(live) /\ Cardinality(live) <= MaxConcurrency
  BY DEF IInv, SlotInv
<1>2. IsFiniteSet(live') /\ Cardinality(live') <= Cardinality(live)
  BY <1>1, FS_Subset
<1>3. Cardinality(live') \in Nat /\ Cardinality(live) \in Nat
  BY <1>1, <1>2, FS_CardinalityType
<1> QED BY <1>1, <1>2, <1>3, MaxConcurrencyAssumption DEF Bound

\* A step that leaves the records, the queue, the slots and the claims alone.
LEMMA ProcessStep ==
  ASSUME TypeOK, IInv, ProcessInv', NEW t \in Tasks,
         UNCHANGED <<status, queue, pump, live, claims, scratch, waiters, reported, quarantined>>,
         \A u \in Tasks : MayWrite(u)' => MayWrite(u),
         \A u \in Tasks : child'[u] = "unspawned" => child[u] = "unspawned"
  PROVE  IInv'
<1>1. QueueInv'
  BY DEF IInv, QueueInv
<1>2. SlotInv'
  BY DEF IInv, SlotInv
<1>3. ClaimInv'
  BY DEF IInv, ClaimInv
<1>4. Bound' /\ NoLostWakeup' /\ ReportedOnce'
  BY DEF IInv, Bound, NoLostWakeup, ReportedOnce
<1> QED BY <1>1, <1>2, <1>3, <1>4 DEF IInv, Bound

\* A step that only decides a verdict and arms a timer.
LEMMA VerdictStep ==
  ASSUME TypeOK, IInv, NEW t \in Tasks, NEW s \in Finals, NEW g \in {"cleanup", "kill"}, Running(t),
         terminal' = [terminal EXCEPT ![t] = s],
         grace' = [grace EXCEPT ![t] = g],
         \A u \in Tasks : status'[u] \in {"absent", "queued"} => status[u] \in {"absent", "queued"},
         UNCHANGED <<live, quarantined, childExit, child, stray>>
  PROVE  ProcessInv'
  BY RunningStatus DEF IInv, ProcessInv, TypeOK, Finals

\* A step that turns a running record into a waiting one or back.
LEMMA ResumeStep ==
  ASSUME TypeOK, IInv, ProcessInv', NEW t \in Tasks, NEW s \in {"running", "waiting"},
         status[t] \in {"running", "waiting"},
         status' = [status EXCEPT ![t] = s],
         UNCHANGED <<queue, pump, live, claims, scratch, waiters, reported, quarantined, child, stray>>
  PROVE  IInv'
<1>1. QueueInv'
  <2>1. \A u \in Tasks : status'[u] = "queued" <=> status[u] = "queued"
    BY DEF TypeOK
  <2>2. \A i \in 1..Len(queue) : queue[i] \in Tasks
    BY ElementOfSeq DEF TypeOK
  <2>3. QueueInv
    BY DEF IInv
  <2> QED BY <2>1, <2>2, <2>3 DEF QueueInv
<1>2. SlotInv'
  <2>1. \A u \in Tasks : u # t => status'[u] = status[u]
    BY DEF TypeOK
  <2>2. status'[t] = s /\ t \in live /\ ~quarantined[t]
    BY DEF TypeOK, IInv, SlotInv, isFinished, Finals
  <2>3. \A u \in Tasks : (MayWrite(u)' <=> MayWrite(u)) /\ child'[u] = child[u]
    BY DEF MayWrite
  <2>4. SlotInv
    BY DEF IInv
  <2> QED BY <2>1, <2>2, <2>3, <2>4 DEF SlotInv
<1>3. ClaimInv'
  BY WritersAssumption DEF IInv, ClaimInv, TypeOK
<1>4. Bound' /\ NoLostWakeup' /\ ReportedOnce'
  BY DEF IInv, Bound, NoLostWakeup, ReportedOnce, isFinished, Finals, TypeOK
<1> QED BY <1>1, <1>2, <1>3, <1>4 DEF IInv, Bound

\* finish() of a record that is not final.
LEMMA FinishEffect ==
  ASSUME TypeOK, IInv, NEW t \in Tasks, NEW s \in Finals, NEW k \in BOOLEAN,
         finish(t, s, k), ~isFinished(status[t])
  PROVE  /\ claims' = IF k THEN claims ELSE claims \ {t}
         /\ status' = [status EXCEPT ![t] = s]
         /\ reported' = [reported EXCEPT ![t] = 1]
         /\ waiters' = [waiters EXCEPT ![t] = 0]
<1>1. /\ claims' = IF k THEN claims ELSE claims \ {t}
      /\ status' = [status EXCEPT ![t] = s]
      /\ reported' = [reported EXCEPT ![t] = reported[t] + 1]
      /\ waiters' = [waiters EXCEPT ![t] = 0]
  BY DEF finish
<1>2. reported[t] = 0
  BY DEF IInv, ReportedOnce
<1> QED BY <1>1, <1>2

\* completeExit() of a task that owns a slot: final, reported, unclaimed.
LEMMA CompleteExitEffect ==
  ASSUME TypeOK, IInv, NEW t \in Tasks, t \in live, completeExit(t)
  PROVE  /\ claims' = claims \ {t}
         /\ \E s \in Finals : /\ status' = [status EXCEPT ![t] = s]
                              /\ isFinished(status[t]) => s = status[t]
         /\ reported' = [reported EXCEPT ![t] = 1]
         /\ waiters' = [waiters EXCEPT ![t] = 0]
<1>1. CASE quarantined[t]
  <2>1. isFinished(status[t])
    BY <1>1 DEF IInv, SlotInv
  <2>2. status[t] \in Finals /\ reported[t] = 1 /\ waiters[t] = 0
    BY <2>1 DEF IInv, ReportedOnce, isFinished
  <2>3. claims' = claims \ {t} /\ UNCHANGED <<status, waiters, reported>>
    BY <1>1 DEF completeExit
  <2> QED BY <2>2, <2>3 DEF TypeOK
<1>2. CASE ~quarantined[t]
  <2> DEFINE s == IF terminal[t] = "none" THEN "failed" ELSE terminal[t]
  <2>1. s \in Finals
    BY DEF TypeOK, Finals
  <2>2. finish(t, s, FALSE) /\ ~isFinished(status[t])
    BY <1>2, LiveStatus DEF completeExit
  <2> HIDE DEF s
  <2> QED BY <2>1, <2>2, FinishEffect
<1> QED BY <1>1, <1>2

\* A step in which a task whose process is gone gives everything back.
LEMMA LeaveStep ==
  ASSUME TypeOK, TypeOK', IInv, ProcessInv', NEW t \in Tasks, t \in live, NEW s \in Finals,
         status' = [status EXCEPT ![t] = s],
         reported' = [reported EXCEPT ![t] = 1],
         waiters' = [waiters EXCEPT ![t] = 0],
         claims' = claims \ {t}, live' = live \ {t}, scratch' = scratch \ {t},
         pump' = "scheduled",
         UNCHANGED <<queue, quarantined, stray>>,
         ~MayWrite(t)', child'[t] # "unspawned",
         \A u \in Tasks \ {t} : child'[u] = child[u]
  PROVE  IInv'
<1>1. status[t] # "queued"
  BY QueuedStatus
<1>2. QueueInv'
  <2>1. ASSUME NEW k \in 1..Len(queue) PROVE status'[queue[k]] = "queued"
    <3>1. queue[k] \in Tasks /\ status[queue[k]] = "queued"
      BY ElementOfSeq DEF IInv, QueueInv, TypeOK
    <3> QED BY <1>1, <3>1 DEF TypeOK
  <2>2. ASSUME NEW u \in Tasks, status'[u] = "queued"
        PROVE  \E k \in 1..Len(queue) : queue[k] = u
    BY <2>2 DEF IInv, QueueInv, TypeOK, Finals
  <2> QED BY <2>1, <2>2 DEF IInv, QueueInv
<1>3. IsFiniteSet(live') /\ Bound'
  BY SlotFreed
<1>4. SlotInv'
  BY <1>3 DEF IInv, SlotInv, MayWrite, isFinished, Finals, TypeOK
<1>5. ClaimInv'
  BY <1>1, WritersAssumption DEF IInv, ClaimInv, TypeOK, Finals
<1>6. NoLostWakeup' /\ ReportedOnce'
  BY DEF IInv, NoLostWakeup, ReportedOnce, isFinished, TypeOK
<1> QED BY <1>2, <1>3, <1>4, <1>5, <1>6 DEF IInv, Bound

\* A step in which a queued task is finished without ever running.
LEMMA DropStep ==
  ASSUME TypeOK, TypeOK', IInv, NEW t \in Tasks, NEW s \in Finals,
         NEW i \in 1..Len(queue), queue[i] = t,
         Len(queue') = Len(queue) - 1,
         \A k \in 1..Len(queue') : queue'[k] = IF k < i THEN queue[k] ELSE queue[k + 1],
         finish(t, s, FALSE), pump' # "idle",
         UNCHANGED <<live, terminal, grace, scratch, quarantined, childExit, child, stray>>
  PROVE  IInv'
<1>1. status[t] = "queued"
  BY DEF IInv, QueueInv
<1>2. /\ claims' = claims \ {t}
      /\ status' = [status EXCEPT ![t] = s]
      /\ reported' = [reported EXCEPT ![t] = 1]
      /\ waiters' = [waiters EXCEPT ![t] = 0]
  BY <1>1, QueuedStatus, FinishEffect
<1>3. Len(queue) \in Nat /\ Len(queue') \in Nat
  BY LenProperties DEF TypeOK
<1>4. ASSUME NEW k \in 1..Len(queue')
      PROVE  \E j \in 1..Len(queue) : j # i /\ queue'[k] = queue[j] /\ j = IF k < i THEN k ELSE k + 1
  BY <1>3
<1>5. QueueInv'
  <2>1. ASSUME NEW k \in 1..Len(queue') PROVE status'[queue'[k]] = "queued"
    <3>1. PICK j \in 1..Len(queue) : j # i /\ queue'[k] = queue[j]
      BY <1>4
    <3>2. queue[j] # t /\ status[queue[j]] = "queued" /\ queue[j] \in Tasks
      BY <3>1, <1>3, ElementOfSeq DEF IInv, QueueInv, TypeOK
    <3> QED BY <1>2, <3>1, <3>2 DEF TypeOK
  <2>2. ASSUME NEW k \in 1..Len(queue'), NEW m \in 1..Len(queue'), queue'[k] = queue'[m]
        PROVE  k = m
    <3>1. PICK j \in 1..Len(queue) : queue'[k] = queue[j] /\ j = IF k < i THEN k ELSE k + 1
      BY <1>4
    <3>2. PICK l \in 1..Len(queue) : queue'[m] = queue[l] /\ l = IF m < i THEN m ELSE m + 1
      BY <1>4
    <3>3. j = l
      <4>1. queue[j] = queue[l]
        BY <2>2, <3>1, <3>2
      <4>2. \A x, y \in 1..Len(queue) : queue[x] = queue[y] => x = y
        BY DEF IInv, QueueInv
      <4> QED BY <4>1, <4>2
    <3> QED BY <1>3, <3>1, <3>2, <3>3
  <2>3. ASSUME NEW u \in Tasks, status'[u] = "queued"
        PROVE  \E k \in 1..Len(queue') : queue'[k] = u
    <3>1. u # t /\ status[u] = "queued"
      BY <1>2, <2>3 DEF TypeOK, Finals
    <3>2. PICK j \in 1..Len(queue) : queue[j] = u
      BY <3>1 DEF IInv, QueueInv
    <3>3. j # i
      BY <3>1, <3>2
    <3>4. CASE j < i
      BY <1>3, <3>2, <3>4
    <3>5. CASE j > i
      <4>1. j - 1 \in 1..Len(queue') /\ ~(j - 1 < i) /\ (j - 1) + 1 = j
        BY <1>3, <3>5
      <4> QED BY <3>2, <4>1
    <3> QED BY <1>3, <3>3, <3>4, <3>5
  <2> QED BY <2>1, <2>2, <2>3 DEF QueueInv
<1>6. t \notin live /\ ~quarantined[t] /\ ~MayWrite(t)
  BY <1>1, QueuedStatus
<1>7. SlotInv'
  <2>1. IsFiniteSet(live')
    BY DEF IInv, SlotInv
  <2>2. status'[t] = s /\ s \in Finals
    BY <1>2 DEF TypeOK
  <2>3. ASSUME NEW u \in Tasks, u # t PROVE status'[u] = status[u]
    BY <1>2, <2>3 DEF TypeOK
  <2>4. \A u \in Tasks : (MayWrite(u)' <=> MayWrite(u)) /\ child'[u] = child[u]
    BY DEF MayWrite
  <2>5. child[t] # "unspawned"
    BY <1>6 DEF IInv, SlotInv
  <2> QED BY <1>6, <2>1, <2>2, <2>3, <2>4, <2>5 DEF IInv, SlotInv, isFinished, Finals
<1>8. ClaimInv'
  <2>1. \A u \in Writers : u # t => status'[u] = status[u]
    BY <1>2, WritersAssumption DEF TypeOK
  <2>2. status'[t] # "queued"
    BY <1>2 DEF TypeOK, Finals
  <2>3. ClaimInv
    BY DEF IInv
  <2> QED BY <1>2, <1>6, <2>1, <2>2, <2>3 DEF ClaimInv
<1>9. ProcessInv'
  <2>1. \A u \in Tasks : status'[u] \in {"absent", "queued"} => status[u] \in {"absent", "queued"}
    BY <1>2 DEF TypeOK, Finals
  <2>2. ProcessInv
    BY DEF IInv
  <2>3. \A u \in Tasks :
          /\ stray'[u] = stray[u] /\ childExit'[u] = childExit[u] /\ child'[u] = child[u]
          /\ quarantined'[u] = quarantined[u] /\ grace'[u] = grace[u]
          /\ terminal'[u] = terminal[u] /\ (u \in live' <=> u \in live)
    OBVIOUS
  <2> QED BY <2>1, <2>2, <2>3 DEF ProcessInv
<1>10. ReportedOnce'
  BY <1>2 DEF IInv, ReportedOnce, isFinished, TypeOK
<1>11. Bound' /\ NoLostWakeup'
  BY DEF IInv, Bound, NoLostWakeup
<1> QED BY <1>5, <1>7, <1>8, <1>9, <1>10, <1>11 DEF IInv, Bound

\* run(): the new task conflicts with no claim, waits once, and wakes the pump.
LEMMA RunStep ==
  ASSUME TypeOK, TypeOK', IInv, NEW t \in Tasks, Run(t)
  PROVE  IInv'
<1>1. /\ status[t] = "absent"
      /\ status' = [status EXCEPT ![t] = "queued"]
      /\ queue' = Append(queue, t)
      /\ pump' = "scheduled"
      /\ claims' = IF t \in Writers THEN claims \cup {t} ELSE claims
      /\ t \in Writers => \A w \in claims : <<t, w>> \notin Overlap
  BY DEF Run, conflicts
<1>2. t \notin live /\ ~quarantined[t] /\ ~MayWrite(t) /\ child[t] # "unspawned"
  BY <1>1 DEF IInv, SlotInv, isFinished, Finals
<1>3. Len(queue) \in Nat
  BY LenProperties DEF TypeOK
<1>4. /\ Len(queue') = Len(queue) + 1
      /\ queue'[Len(queue) + 1] = t
      /\ \A k \in 1..Len(queue) : queue'[k] = queue[k] /\ queue[k] \in Tasks /\ queue[k] # t
  <2>1. ASSUME NEW k \in 1..Len(queue) PROVE queue[k] \in Tasks /\ queue[k] # t
    BY <1>1, ElementOfSeq DEF TypeOK, IInv, QueueInv
  <2>2. /\ Len(queue') = Len(queue) + 1
        /\ queue'[Len(queue) + 1] = t
        /\ \A k \in 1..Len(queue) : queue'[k] = queue[k]
    BY <1>1, AppendProperties DEF TypeOK
  <2> QED BY <2>1, <2>2
<1>5. QueueInv'
  <2>1. \A u \in Tasks : status'[u] = IF u = t THEN "queued" ELSE status[u]
    BY <1>1 DEF TypeOK
  <2>2. \A k \in 1..Len(queue') : k \in 1..Len(queue) \/ k = Len(queue) + 1
    BY <1>3, <1>4
  <2>3. \A k \in 1..Len(queue) : k \in 1..Len(queue')
    BY <1>3, <1>4
  <2>4. Len(queue) + 1 \in 1..Len(queue')
    BY <1>3, <1>4
  <2> QED BY <1>4, <2>1, <2>2, <2>3, <2>4 DEF IInv, QueueInv
<1>6. SlotInv'
  BY <1>1, <1>2 DEF Run, IInv, SlotInv, MayWrite, isFinished, Finals, TypeOK
<1>7. ClaimInv'
  <2>1. ASSUME NEW u \in Writers PROVE u \in claims' <=> status'[u] = "queued" \/ u \in live'
    BY <1>1, <1>2, WritersAssumption DEF Run, IInv, ClaimInv, TypeOK
  <2>2. ASSUME NEW a \in claims', NEW b \in claims', <<a, b>> \in Overlap PROVE a = b
    <3>1. CASE a \in claims /\ b \in claims
      BY <2>2, <3>1 DEF IInv, ClaimInv
    <3>2. CASE a \notin claims
      BY <1>1, <2>2, <3>2
    <3>3. CASE b \notin claims
      BY <1>1, <2>2, <3>3, OverlapAssumption
    <3> QED BY <3>1, <3>2, <3>3
  <2> QED BY <2>1, <2>2 DEF ClaimInv
<1>8. ProcessInv' /\ Bound' /\ NoLostWakeup'
  BY <1>1 DEF Run, IInv, ProcessInv, Bound, NoLostWakeup
<1>9. ReportedOnce'
  BY <1>1 DEF Run, IInv, ReportedOnce, isFinished, Finals, TypeOK
<1> QED BY <1>5, <1>6, <1>7, <1>8, <1>9 DEF IInv, Bound

\* cancelAll(): the whole queue is finished at once and every child is stopped.
LEMMA CancelAllStep ==
  ASSUME TypeOK, TypeOK', IInv, CancelAll
  PROVE  IInv'
<1> DEFINE queued == {queue[i] : i \in 1..Len(queue)}
           stopped == {t \in Tasks : Running(t)}
<1>1. \A u \in queued : u \in Tasks /\ status[u] = "queued"
  <2> SUFFICES ASSUME NEW k \in 1..Len(queue)
               PROVE  queue[k] \in Tasks /\ status[queue[k]] = "queued"
    OBVIOUS
  <2> QED BY ElementOfSeq DEF IInv, QueueInv, TypeOK
<1>2. \A u \in stopped : u \in Tasks /\ Running(u)
  OBVIOUS
<1> HIDE DEF queued, stopped
<1>3. /\ queue' = <<>>
      /\ claims' = claims \ queued
      /\ status' = [t \in Tasks |-> IF t \in queued THEN "cancelled" ELSE status[t]]
      /\ reported' = [t \in Tasks |-> IF t \in queued THEN reported[t] + 1 ELSE reported[t]]
      /\ waiters' = [t \in Tasks |-> IF t \in queued THEN 0 ELSE waiters[t]]
      /\ terminal' = [t \in Tasks |-> IF t \in stopped THEN "cancelled" ELSE terminal[t]]
      /\ grace' = [t \in Tasks |-> IF t \in stopped THEN "kill" ELSE grace[t]]
      /\ UNCHANGED <<live, quarantined, childExit, scratch, child, stray>>
  BY DEF CancelAll, queued, stopped
<1>4. \A u \in queued : u \notin live /\ ~quarantined[u] /\ reported[u] = 0
                        /\ ~MayWrite(u) /\ child[u] # "unspawned"
  BY <1>1, QueuedStatus DEF IInv, SlotInv
<1>5. QueueInv' /\ NoLostWakeup'
  <2>1. ASSUME NEW u \in Tasks PROVE status'[u] # "queued"
    <3>1. status[u] = "queued" => u \in queued
      BY DEF IInv, QueueInv, queued
    <3> QED BY <1>3, <3>1
  <2>2. Len(queue') = 0
    BY <1>3
  <2> QED BY <1>3, <2>1, <2>2 DEF QueueInv, NoLostWakeup
<1>6. SlotInv'
  <2>1. IsFiniteSet(live') /\ \A u \in Tasks : (MayWrite(u)' <=> MayWrite(u)) /\ child'[u] = child[u]
    BY <1>3 DEF IInv, SlotInv, MayWrite
  <2>2. \A u \in Tasks : IF u \in queued THEN status'[u] = "cancelled" ELSE status'[u] = status[u]
    BY <1>3
  <2> QED BY <1>3, <1>4, <2>1, <2>2 DEF IInv, SlotInv, isFinished, Finals
<1>7. ClaimInv'
  <2>1. ASSUME NEW u \in Writers PROVE u \in claims' <=> status'[u] = "queued" \/ u \in live'
    <3>1. u \in Tasks /\ (u \in claims <=> status[u] = "queued" \/ u \in live)
      BY WritersAssumption DEF IInv, ClaimInv
    <3>2. status[u] = "queued" => u \in queued
      BY <3>1 DEF IInv, QueueInv, queued
    <3> QED BY <1>3, <1>4, <3>1, <3>2
  <2> QED BY <1>3, <2>1 DEF IInv, ClaimInv
<1>8. ProcessInv'
  BY <1>2, <1>3, RunningStatus DEF IInv, ProcessInv, TypeOK
<1>9. Bound'
  BY <1>3 DEF IInv, Bound
<1>10. ReportedOnce'
  BY <1>1, <1>3, <1>4 DEF IInv, ReportedOnce, isFinished, Finals
<1> QED BY <1>5, <1>6, <1>7, <1>8, <1>9, <1>10 DEF IInv, Bound

\* launch(): the head of the queue takes a free slot before a process exists.
LEMMA LaunchStep ==
  ASSUME TypeOK, TypeOK', IInv, Launch
  PROVE  IInv'
<1> DEFINE t == Head(queue)
<1>1. queue # <<>> /\ Cardinality(live) < MaxConcurrency
  BY DEF Launch, CanLaunch
<1>2. /\ t \in Tasks /\ t = queue[1] /\ queue' = Tail(queue)
      /\ Len(queue) \in Nat \ {0}
      /\ Len(queue') = Len(queue) - 1
      /\ \A k \in 1..Len(queue') : queue'[k] = queue[k + 1]
  BY <1>1, QueueTail DEF Launch, TypeOK
<1>3. status[t] = "queued"
  BY <1>2 DEF IInv, QueueInv
<1>4. t \notin live /\ ~quarantined[t] /\ reported[t] = 0 /\ ~MayWrite(t)
  BY <1>2, <1>3, QueuedStatus
<1>5. /\ live' = live \cup {t}
      /\ scratch' = scratch \cup {t}
      /\ status' = [status EXCEPT ![t] = "running"]
      /\ pump' = "looping"
      /\ UNCHANGED <<quarantined, childExit, claims, waiters, reported, report, asks, stray>>
      /\ \E c \in {"spawning", "unspawned"} : child' = [child EXCEPT ![t] = c]
      /\ \/ UNCHANGED <<terminal, grace>>
         \/ /\ terminal' = [terminal EXCEPT ![t] = "failed"]
            /\ grace' = [grace EXCEPT ![t] = "kill"]
  BY DEF Launch
<1> HIDE DEF t
<1>6. \A u \in Tasks : status'[u] = IF u = t THEN "running" ELSE status[u]
  BY <1>2, <1>5 DEF TypeOK
<1>7. QueueInv'
  <2>1. \A x, y \in 1..Len(queue) : queue[x] = queue[y] => x = y
    BY DEF IInv, QueueInv
  <2>2. ASSUME NEW k \in 1..Len(queue') PROVE status'[queue'[k]] = "queued"
    <3>1. k + 1 \in 1..Len(queue) /\ 1 \in 1..Len(queue) /\ queue'[k] = queue[k + 1]
      BY <1>2
    <3>2. queue[k + 1] # t
      BY <1>2, <2>1, <3>1
    <3>3. queue[k + 1] \in Tasks /\ status[queue[k + 1]] = "queued"
      BY <3>1, ElementOfSeq DEF IInv, QueueInv, TypeOK
    <3> QED BY <1>6, <3>1, <3>2, <3>3
  <2>3. ASSUME NEW k \in 1..Len(queue'), NEW m \in 1..Len(queue'), queue'[k] = queue'[m]
        PROVE  k = m
    BY <1>2, <2>1, <2>3
  <2>4. ASSUME NEW u \in Tasks, status'[u] = "queued"
        PROVE  \E k \in 1..Len(queue') : queue'[k] = u
    <3>1. u # t /\ status[u] = "queued"
      BY <1>6, <2>4
    <3>2. PICK j \in 1..Len(queue) : queue[j] = u
      BY <3>1 DEF IInv, QueueInv
    <3>3. j # 1
      BY <1>2, <3>1, <3>2
    <3>4. j - 1 \in 1..Len(queue') /\ (j - 1) + 1 = j
      BY <1>2, <3>3
    <3> QED BY <1>2, <3>2, <3>4
  <2> QED BY <2>2, <2>3, <2>4 DEF QueueInv
<1>8. IsFiniteSet(live') /\ Bound'
  BY <1>1, <1>2, <1>5, SlotTaken
<1>9. SlotInv'
  <2>1. \A u \in Tasks : u # t => child'[u] = child[u] /\ (MayWrite(u)' <=> MayWrite(u))
    BY <1>5 DEF MayWrite, TypeOK
  <2> QED BY <1>4, <1>5, <1>6, <1>8, <2>1 DEF IInv, SlotInv, isFinished, Finals
<1>10. ClaimInv'
  BY <1>2, <1>3, <1>5, <1>6, WritersAssumption DEF IInv, ClaimInv
<1>11. ProcessInv'
  <2>1. ~stray[t] /\ ~childExit[t] /\ grace[t] \notin {"cleanup", "kill", "confirm", "await"}
    <3>1. grace[t] \notin {"cleanup", "kill", "confirm", "await"}
      BY <1>2, <1>4 DEF IInv, ProcessInv
    <3>2. child[t] # "dead"
      BY <1>2, <1>3 DEF IInv, ProcessInv
    <3> QED BY <1>2, <3>1, <3>2 DEF IInv, ProcessInv
  <2> QED BY <1>2, <1>4, <1>5, <2>1 DEF IInv, ProcessInv, TypeOK
<1>12. NoLostWakeup'
  BY <1>5 DEF NoLostWakeup
<1>13. ReportedOnce'
  BY <1>2, <1>3, <1>5, <1>6 DEF IInv, ReportedOnce, isFinished, Finals
<1> QED BY <1>7, <1>8, <1>9, <1>10, <1>11, <1>12, <1>13 DEF IInv, Bound

\* Quarantine: the record is finished, slot, scratch and claim are kept.
LEMMA QuarantineStep ==
  ASSUME TypeOK, TypeOK', IInv, NEW t \in Tasks, t \in live, ~quarantined[t],
         terminal[t] # "none", child[t] # "unspawned", quarantine(t),
         UNCHANGED <<queue, terminal, childExit, child, stray>>
  PROVE  IInv'
<1>1. status[t] \in {"running", "waiting"} /\ ~isFinished(status[t])
  BY LiveStatus
<1>2. /\ claims' = claims
      /\ status' = [status EXCEPT ![t] = "failed"]
      /\ reported' = [reported EXCEPT ![t] = 1]
      /\ waiters' = [waiters EXCEPT ![t] = 0]
  BY <1>1, FinishEffect DEF quarantine, Finals
<1>3. /\ quarantined' = [quarantined EXCEPT ![t] = TRUE]
      /\ grace' = [grace EXCEPT ![t] = "none"]
      /\ pump' = "scheduled"
      /\ UNCHANGED <<live, scratch>>
  BY DEF quarantine
<1>4. \A u \in Tasks : status'[u] = IF u = t THEN "failed" ELSE status[u]
  BY <1>2 DEF TypeOK
<1>5. \A u \in Tasks : /\ quarantined'[u] = IF u = t THEN TRUE ELSE quarantined[u]
                       /\ grace'[u] = IF u = t THEN "none" ELSE grace[u]
  BY <1>3 DEF TypeOK
<1>6. QueueInv'
  <2>1. \A k \in 1..Len(queue) : queue[k] \in Tasks /\ queue[k] # t
    BY <1>1, ElementOfSeq DEF IInv, QueueInv, TypeOK
  <2> QED BY <1>1, <1>4, <2>1 DEF IInv, QueueInv
<1>7. SlotInv'
  BY <1>1, <1>3, <1>4, <1>5 DEF IInv, SlotInv, MayWrite, isFinished, Finals
<1>8. ClaimInv'
  BY <1>1, <1>2, <1>3, <1>4, WritersAssumption DEF IInv, ClaimInv
<1>9. ProcessInv'
  <2> SUFFICES ASSUME NEW u \in Tasks
               PROVE  /\ stray'[u] \/ childExit'[u] => child'[u] = "dead"
                      /\ child'[u] = "unspawned" => ~quarantined'[u]
                      /\ status'[u] \in {"absent", "queued"} => child'[u] = "none"
                      /\ grace'[u] # "none" \/ quarantined'[u] => terminal'[u] # "none"
                      /\ grace'[u] \in {"cleanup", "kill", "confirm"} => u \in live' /\ ~quarantined'[u]
                      /\ grace'[u] = "await" => u \in live' /\ childExit'[u] /\ quarantined'[u]
    BY DEF ProcessInv
  <2>1. CASE u = t
    BY <1>4, <1>5, <2>1 DEF IInv, ProcessInv
  <2>2. CASE u # t
    BY <1>3, <1>4, <1>5, <2>2 DEF IInv, ProcessInv
  <2> QED BY <2>1, <2>2
<1>10. Bound' /\ NoLostWakeup' /\ ReportedOnce'
  BY <1>2, <1>3, <1>4 DEF IInv, Bound, NoLostWakeup, ReportedOnce, isFinished, Finals, TypeOK
<1> QED BY <1>6, <1>7, <1>8, <1>9, <1>10 DEF IInv, Bound

\* The runner steps that follow a probe: the group is not there any more.
LEMMA GoneStep ==
  ASSUME TypeOK, TypeOK', IInv, ProcessInv', NEW t \in Tasks, t \in live, completeExit(t),
         probeGroup(t) # "present", child[t] = "dead" \/ probeGroup(t) = "gone",
         child[t] # "unspawned",
         UNCHANGED <<queue, quarantined, child, stray>>
  PROVE  IInv'
<1>1. PICK s \in Finals : status' = [status EXCEPT ![t] = s]
  BY CompleteExitEffect
<1>2. /\ claims' = claims \ {t}
      /\ reported' = [reported EXCEPT ![t] = 1]
      /\ waiters' = [waiters EXCEPT ![t] = 0]
  BY CompleteExitEffect
<1>3. live' = live \ {t} /\ scratch' = scratch \ {t} /\ pump' = "scheduled"
  BY DEF completeExit
<1>4. ~MayWrite(t)' /\ child'[t] # "unspawned"
  BY PosixAssumption DEF MayWrite, probeGroup, GroupAlive
<1> QED BY <1>1, <1>2, <1>3, <1>4, LeaveStep

\* Giving the slot back leaves no timer behind and no verdict forgotten.
LEMMA GoneProcess ==
  ASSUME TypeOK, IInv, NEW t \in Tasks, t \in live, completeExit(t),
         UNCHANGED <<terminal, quarantined, child, stray>>,
         \A u \in Tasks : childExit'[u] => childExit[u] \/ child[u] = "dead",
         \A u \in Tasks : childExit[u] => childExit'[u]
  PROVE  ProcessInv'
<1>1. PICK s \in Finals : status' = [status EXCEPT ![t] = s]
  BY CompleteExitEffect
<1>2. live' = live \ {t} /\ grace' = [grace EXCEPT ![t] = "none"]
  BY DEF completeExit
<1> QED BY <1>1, <1>2 DEF IInv, ProcessInv, TypeOK, Finals

----------------------------------------------------------------------------
\* A new runner satisfies the inductive invariant.
LEMMA InitInv == Init => IInv
<1> SUFFICES ASSUME Init PROVE IInv
  OBVIOUS
<1>1. IsFiniteSet(live) /\ Cardinality(live) <= MaxConcurrency
  BY FS_EmptySet, MaxConcurrencyAssumption DEF Init
<1>2. QueueInv /\ NoLostWakeup
  BY DEF Init, QueueInv, NoLostWakeup
<1>3. SlotInv
  BY <1>1 DEF Init, SlotInv, MayWrite
<1>4. ClaimInv /\ ProcessInv
  BY WritersAssumption DEF Init, ClaimInv, ProcessInv
<1>5. ReportedOnce
  BY DEF Init, ReportedOnce, isFinished, Finals
<1> QED BY <1>1, <1>2, <1>3, <1>4, <1>5 DEF IInv

\* A verdict, and perhaps the end of a spawn, is all that changes.
LEMMA StopStep ==
  ASSUME TypeOK, TypeOK', IInv, NEW t \in Tasks, NEW s \in Finals, Running(t), requestStop(t, s),
         UNCHANGED <<status, queue, pump, live, quarantined, childExit, claims, scratch,
                     waiters, reported, child, stray>>
  PROVE  IInv'
<1>1. ProcessInv'
  BY VerdictStep DEF requestStop
<1> QED BY <1>1, ProcessStep DEF MayWrite

\* Every handler, call and timer preserves the inductive invariant.
LEMMA StepInv == TypeOK /\ TypeOK' /\ IInv /\ [Next]_vars => IInv'
<1> SUFFICES ASSUME TypeOK, TypeOK', IInv, [Next]_vars PROVE IInv'
  OBVIOUS
<1>1. CASE CancelAll
  BY <1>1, CancelAllStep
<1>2. CASE LaunchRefused
  <2>1. /\ Head(queue) \in Tasks /\ queue[1] = Head(queue)
        /\ Len(queue) \in Nat \ {0} /\ 1 \in 1..Len(queue)
        /\ Len(queue') = Len(queue) - 1
        /\ \A k \in 1..Len(queue') : queue'[k] = IF k < 1 THEN queue[k] ELSE queue[k + 1]
    BY <1>2, QueueTail DEF LaunchRefused, CanLaunch, TypeOK
  <2>2. finish(Head(queue), "failed", FALSE) /\ "failed" \in Finals /\ pump' # "idle"
    BY <1>2 DEF LaunchRefused, Finals
  <2>3. UNCHANGED <<live, terminal, grace, scratch, quarantined, childExit, child, stray>>
    BY <1>2 DEF LaunchRefused
  <2> QED BY <2>1, <2>2, <2>3, DropStep
<1>3. CASE Launch
  BY <1>3, LaunchStep
<1>4. CASE PumpDone
  <2>1. NoLostWakeup'
    BY <1>4 DEF PumpDone, CanLaunch, NoLostWakeup
  <2> QED BY <1>4, <2>1
        DEF PumpDone, IInv, QueueInv, SlotInv, ClaimInv, ProcessInv, ReportedOnce, MayWrite
<1>5. ASSUME NEW t \in Tasks, TaskStep(t) PROVE IInv'
  <2>1. CASE Run(t)
    BY <2>1, RunStep
  <2>2. CASE WaitFor(t)
    <3>1. ReportedOnce'
      BY <2>2 DEF WaitFor, IInv, ReportedOnce, TypeOK
    <3> QED BY <2>2, <3>1
          DEF WaitFor, IInv, QueueInv, SlotInv, ClaimInv, ProcessInv, NoLostWakeup, MayWrite
  <2>3. CASE CancelQueued(t)
    <3>1. PICK i \in 1..Len(queue) : queue[i] = t /\ queue' = Spliced(i)
      BY <2>3 DEF CancelQueued
    <3>2. /\ Len(queue') = Len(queue) - 1
          /\ \A k \in 1..Len(queue') : queue'[k] = IF k < i THEN queue[k] ELSE queue[k + 1]
      BY <3>1, SplicedQueue DEF TypeOK
    <3>3. finish(t, "cancelled", FALSE) /\ "cancelled" \in Finals /\ pump' # "idle"
      BY <2>3 DEF CancelQueued, Finals
    <3>4. UNCHANGED <<live, terminal, grace, scratch, quarantined, childExit, child, stray>>
      BY <2>3 DEF CancelQueued
    <3> QED BY <3>1, <3>2, <3>3, <3>4, DropStep
  <2>4. CASE CancelLive(t)
    BY <2>4, StopStep DEF CancelLive, Finals
  <2>5. CASE Steer(t)
    <3>1. ProcessInv'
      BY <2>5 DEF Steer, IInv, ProcessInv, TypeOK
    <3> QED BY <2>5, <3>1, ResumeStep DEF Steer
  <2>6. CASE Answer(t)
    <3>1. CASE Running(t) /\ status[t] = "waiting"
      <4>1. status' = [status EXCEPT ![t] = "running"]
        BY <2>6, <3>1 DEF Answer
      <4>2. ProcessInv'
        BY <2>6, <4>1 DEF Answer, IInv, ProcessInv, TypeOK
      <4> QED BY <2>6, <3>1, <4>1, <4>2, ResumeStep DEF Answer
    <3>2. CASE ~(Running(t) /\ status[t] = "waiting")
      <4>1. status' = status
        BY <2>6, <3>2 DEF Answer
      <4> QED BY <2>6, <4>1
            DEF Answer, IInv, QueueInv, SlotInv, ClaimInv, ProcessInv, NoLostWakeup,
                ReportedOnce, MayWrite
    <3> QED BY <3>1, <3>2
  <2>7. CASE SpawnEvent(t)
    <3>1. child' = [child EXCEPT ![t] = "alive"] /\ child[t] = "spawning"
      BY <2>7 DEF SpawnEvent
    <3>2. \A u \in Tasks : (MayWrite(u)' <=> MayWrite(u))
      BY <2>7, <3>1 DEF SpawnEvent, MayWrite, TypeOK
    <3>3. ProcessInv'
      <4>1. CASE UNCHANGED <<terminal, grace>>
        BY <2>7, <3>1, <4>1 DEF SpawnEvent, IInv, ProcessInv, TypeOK
      <4>2. CASE Running(t) /\ requestStop(t, "failed")
        BY <2>7, <3>1, <4>2, RunningStatus DEF SpawnEvent, requestStop, IInv, ProcessInv, TypeOK
      <4> QED BY <2>7, <4>1, <4>2 DEF SpawnEvent, requestStop
    <3> QED BY <2>7, <3>1, <3>2, <3>3, ProcessStep DEF SpawnEvent, TypeOK
  <2>8. CASE SpawnError(t)
    <3>1. t \in live /\ ~quarantined[t] /\ ~stray[t]
      BY <2>8 DEF SpawnError, IInv, SlotInv, ProcessInv
    <3>2. /\ claims' = claims \ {t}
          /\ status' = [status EXCEPT ![t] = "failed"]
          /\ reported' = [reported EXCEPT ![t] = 1]
          /\ waiters' = [waiters EXCEPT ![t] = 0]
      BY <2>8, <3>1, LiveStatus, FinishEffect DEF SpawnError, Finals
    <3>3. ~MayWrite(t)' /\ child' = [child EXCEPT ![t] = "none"]
      BY <2>8, <3>1 DEF SpawnError, MayWrite, TypeOK
    <3>4. ProcessInv'
      BY <2>8, <3>1, <3>2, <3>3 DEF SpawnError, IInv, ProcessInv, TypeOK
    <3> QED BY <2>8, <3>1, <3>2, <3>3, <3>4, LeaveStep DEF SpawnError, TypeOK, Finals
  <2>9. CASE ChildError(t)
    BY <2>9, StopStep DEF ChildError, Finals
  <2>10. CASE PromptRejected(t)
    BY <2>10, StopStep DEF PromptRejected, Finals
  <2>11. CASE Ask(t)
    <3>1. status[t] \in {"running", "waiting"}
      BY <2>11, RunningStatus DEF Ask
    <3>2. ProcessInv'
      BY <2>11 DEF Ask, IInv, ProcessInv, TypeOK
    <3> QED BY <2>11, <3>1, <3>2, ResumeStep DEF Ask
  <2>12. CASE Progress(t)
    <3>1. status[t] \in {"running", "waiting"}
      BY <2>12, RunningStatus DEF Progress
    <3>2. ProcessInv'
      BY <2>12 DEF Progress, IInv, ProcessInv, TypeOK
    <3> QED BY <2>12, <3>1, <3>2, ResumeStep DEF Progress
  <2>13. CASE AgentSettled(t)
    <3>1. status[t] \in {"running", "waiting"}
      BY <2>13, RunningStatus DEF AgentSettled
    <3>2. status' = [status EXCEPT ![t] = "running"]
      BY <2>13 DEF AgentSettled
    <3>3. PICK s \in Finals : settleOrderly(t, s)
      BY <2>13 DEF AgentSettled, Finals
    <3>4. ProcessInv'
      <4>1. \A u \in Tasks : status'[u] \in {"absent", "queued"} => status[u] \in {"absent", "queued"}
        BY <3>2 DEF TypeOK
      <4> QED BY <2>13, <3>3, <4>1, VerdictStep DEF AgentSettled, settleOrderly
    <3> QED BY <2>13, <3>1, <3>2, <3>4, ResumeStep DEF AgentSettled
  <2>14. CASE Exited(t)
    <3>1. t \in live /\ child[t] = "dead"
      BY <2>14 DEF Exited
    <3>2. childExit' = [childExit EXCEPT ![t] = TRUE]
      BY <2>14 DEF Exited
    <3>3. CASE probeGroup(t) = "present"
      <4>1. ProcessInv'
        <5>1. CASE quarantined[t]
          BY <2>14, <3>1, <3>2, <3>3, <5>1 DEF Exited, IInv, ProcessInv, TypeOK
        <5>2. CASE ~quarantined[t]
          BY <2>14, <3>1, <3>2, <3>3, <5>2
             DEF Exited, requestStop, Running, IInv, ProcessInv, TypeOK, Finals
        <5> QED BY <5>1, <5>2
      <4> QED BY <2>14, <3>3, <4>1, ProcessStep DEF Exited, MayWrite
    <3>4. CASE probeGroup(t) # "present"
      <4>1. completeExit(t) /\ UNCHANGED terminal
        BY <2>14, <3>4 DEF Exited
      <4>2. ProcessInv'
        BY <2>14, <3>1, <3>2, <4>1, GoneProcess DEF Exited, TypeOK
      <4> QED BY <2>14, <3>1, <3>4, <4>1, <4>2, GoneStep DEF Exited
    <3> QED BY <3>3, <3>4
  <2>15. CASE Stall(t)
    BY <2>15, StopStep DEF Stall, Finals
  <2>16. CASE CleanupTimeout(t)
    <3>1. ProcessInv'
      BY <2>16 DEF CleanupTimeout, IInv, ProcessInv, TypeOK
    <3> QED BY <2>16, <3>1, ProcessStep DEF CleanupTimeout, MayWrite
  <2>17. CASE confirmGroupExit(t)
    <3>1. /\ t \in live /\ ~quarantined[t] /\ terminal[t] # "none" /\ child[t] # "unspawned"
          /\ grace[t] \in {"kill", "confirm"}
          /\ UNCHANGED <<queue, terminal, childExit, child, stray>>
      BY <2>17 DEF confirmGroupExit, Turn, IInv, ProcessInv
    <3>2. CASE /\ probeGroup(t) = "gone" \/ (probeGroup(t) = "unavailable" /\ childExit[t])
               /\ completeExit(t)
               /\ UNCHANGED quarantined
      <4>1. ProcessInv'
        BY <3>1, <3>2, GoneProcess
      <4>2. probeGroup(t) # "present" /\ (child[t] = "dead" \/ probeGroup(t) = "gone")
        BY <3>2 DEF IInv, ProcessInv
      <4> QED BY <3>1, <3>2, <4>1, <4>2, GoneStep
    <3>3. CASE quarantine(t)
      BY <3>1, <3>3, QuarantineStep
    <3>4. CASE rearm(t)
      <4>1. ProcessInv'
        BY <3>1, <3>4 DEF rearm, IInv, ProcessInv, TypeOK
      <4> QED BY <3>1, <3>4, <4>1, ProcessStep DEF rearm, MayWrite
    <3>5. \/ /\ probeGroup(t) = "gone" \/ (probeGroup(t) = "unavailable" /\ childExit[t])
             /\ completeExit(t)
             /\ UNCHANGED quarantined
          \/ quarantine(t)
          \/ rearm(t)
      BY <2>17 DEF confirmGroupExit
    <3> QED BY <3>2, <3>3, <3>4, <3>5
  <2>18. CASE awaitQuarantinedGroup(t)
    <3>1. /\ t \in live /\ child[t] = "dead" /\ completeExit(t) /\ probeGroup(t) # "present"
          /\ UNCHANGED <<queue, terminal, quarantined, childExit, child, stray>>
      BY <2>18 DEF awaitQuarantinedGroup, IInv, ProcessInv
    <3>2. ProcessInv'
      BY <3>1, GoneProcess
    <3> QED BY <3>1, <3>2, GoneStep
  <2>19. CASE ChildDies(t)
    <3>1. PICK b \in BOOLEAN : stray' = [stray EXCEPT ![t] = b]
      BY <2>19 DEF ChildDies
    <3>2. ProcessInv'
      BY <2>19, <3>1 DEF ChildDies, IInv, ProcessInv, SlotInv, MayWrite, isFinished, TypeOK
    <3>3. \A u \in Tasks : MayWrite(u)' => MayWrite(u)
      BY <2>19, <3>1 DEF ChildDies, MayWrite, TypeOK
    <3> QED BY <2>19, <3>2, <3>3, ProcessStep DEF ChildDies, TypeOK
  <2>20. CASE StrayDies(t)
    <3>1. ProcessInv'
      BY <2>20 DEF StrayDies, IInv, ProcessInv, TypeOK
    <3>2. \A u \in Tasks : MayWrite(u)' => MayWrite(u)
      BY <2>20 DEF StrayDies, MayWrite, TypeOK
    <3> QED BY <2>20, <3>1, <3>2, ProcessStep DEF StrayDies
  <2> QED
    BY <1>5, <2>1, <2>2, <2>3, <2>4, <2>5, <2>6, <2>7, <2>8, <2>9, <2>10, <2>11,
       <2>12, <2>13, <2>14, <2>15, <2>16, <2>17, <2>18, <2>19, <2>20 DEF TaskStep
<1>6. CASE UNCHANGED vars
  BY <1>6 DEF vars, IInv, QueueInv, SlotInv, ClaimInv, ProcessInv, NoLostWakeup, ReportedOnce,
     MayWrite
<1> QED BY <1>1, <1>2, <1>3, <1>4, <1>5, <1>6 DEF Next

\* The inductive invariant holds in every behaviour.
THEOREM Invariant == Spec => []IInv
<1>1. Spec => []TypeOK
  BY TypeCorrect
<1> QED BY <1>1, InitInv, StepInv, PTL DEF Spec

\* No more than maxConcurrency slots are ever occupied, and a process the
\* runner cannot prove gone still occupies its slot.
THEOREM SlotsBound == Spec => []SlotsBoundProcesses
<1>1. IInv => SlotsBoundProcesses
  BY DEF IInv, SlotInv, SlotsBoundProcesses
<1> QED BY <1>1, Invariant, PTL

\* Writers with overlapping surfaces never both have a process that may write.
THEOREM WritersExclude == Spec => []OverlappingWritersExclude
<1>1. TypeOK /\ IInv => OverlappingWritersExclude
  <2> SUFFICES ASSUME TypeOK, IInv, NEW a \in Tasks, NEW b \in Tasks, <<a, b>> \in Overlap,
                      a # b, MayWrite(a), MayWrite(b)
               PROVE  FALSE
    BY DEF OverlappingWritersExclude
  <2>1. a \in live /\ b \in live
    BY DEF IInv, SlotInv
  <2>2. a \in Writers /\ b \in Writers
    BY OverlapAssumption
  <2>3. a \in claims /\ b \in claims
    BY <2>1, <2>2 DEF IInv, ClaimInv
  <2> QED BY <2>3 DEF IInv, ClaimInv
<1> QED BY <1>1, TypeCorrect, Invariant, PTL

\* A child's TMPDIR is never removed under a process that may use it.
THEOREM ScratchKept == Spec => []ScratchOutlivesGroup
<1>1. IInv => ScratchOutlivesGroup
  BY DEF IInv, SlotInv, ScratchOutlivesGroup
<1> QED BY <1>1, Invariant, PTL

\* Every finished task was reported exactly once and keeps no waiter.
THEOREM FinishReportedOnce == Spec => []ReportedOnce
<1>1. IInv => ReportedOnce
  BY DEF IInv
<1> QED BY <1>1, Invariant, PTL

\* Queued work and a free slot never meet without a pump on its way.
THEOREM WakeupNotLost == Spec => []NoLostWakeup
<1>1. IInv => NoLostWakeup
  BY DEF IInv
<1> QED BY <1>1, Invariant, PTL
----------------------------------------------------------------------------
(* Verdicts.                                                               *)

\* A task that waits for a slot, or was never handed in, carries no verdict:
\* what is refused or cancelled in the queue has nothing to contradict.
Unjudged == \A t \in Tasks : status[t] \in {"absent", "queued"} => terminal[t] = "none"

\* What a step may do to the verdict and the record of one task.
Final(t) ==
  /\ terminal[t] # "none" =>
       /\ terminal'[t] = terminal[t]
       /\ status'[t] # status[t] /\ isFinished(status'[t]) =>
            status'[t] \in {terminal[t], "failed"}
  /\ isFinished(status[t]) => status'[t] = status[t]

VerdictKept == Unjudged' /\ \A t \in Tasks : Final(t)

\* A step that leaves verdicts and records alone.
LEMMA NoVerdict == ASSUME Unjudged, UNCHANGED <<status, terminal>> PROVE VerdictKept
  BY DEF VerdictKept, Unjudged, Final

\* A step that touches one task: its verdict only while there was none, its
\* record only while it was open, and not against its verdict.
LEMMA OneTask ==
  ASSUME TypeOK, Unjudged, NEW t \in Tasks,
         \A u \in Tasks \ {t} : status'[u] = status[u] /\ terminal'[u] = terminal[u],
         terminal[t] # "none" => terminal'[t] = terminal[t],
         status'[t] \in {"absent", "queued"} => terminal'[t] = "none",
         \/ status'[t] = status[t]
         \/ /\ ~isFinished(status[t])
            /\ isFinished(status'[t]) /\ terminal[t] # "none" => status'[t] \in {terminal[t], "failed"}
  PROVE  VerdictKept
<1>1. Unjudged'
  BY DEF Unjudged
<1>2. ASSUME NEW u \in Tasks PROVE Final(u)
  <2>1. CASE u = t
    BY <2>1 DEF Final
  <2>2. CASE u # t
    BY <2>2 DEF Final
  <2> QED BY <2>1, <2>2
<1> QED BY <1>1, <1>2 DEF VerdictKept

\* A verdict on a running child, its record open before and after.
LEMMA Judged ==
  ASSUME TypeOK, IInv, Unjudged, NEW t \in Tasks, NEW s \in Finals, Running(t),
         \/ requestStop(t, s)
         \/ settleOrderly(t, s),
         status' = status \/ status' = [status EXCEPT ![t] = "running"]
  PROVE  VerdictKept
<1>1. status[t] \in {"running", "waiting"} /\ ~isFinished(status[t])
  BY RunningStatus, LiveStatus
<1>2. terminal' = [terminal EXCEPT ![t] = s] /\ terminal[t] = "none"
  BY DEF requestStop, settleOrderly, Running
<1>3. \A u \in Tasks \ {t} : status'[u] = status[u] /\ terminal'[u] = terminal[u]
  BY <1>2 DEF TypeOK
<1>4. status'[t] \in {"running", "waiting"}
  BY <1>1 DEF TypeOK
<1> QED BY <1>1, <1>2, <1>3, <1>4, OneTask DEF isFinished, Finals

\* A record that resumes or waits: it was open, and its verdict is not touched.
LEMMA Resumed ==
  ASSUME TypeOK, Unjudged, NEW t \in Tasks, NEW s \in {"running", "waiting"},
         status[t] \in {"running", "waiting"},
         status' = [status EXCEPT ![t] = s], UNCHANGED terminal
  PROVE  VerdictKept
<1>1. ~isFinished(status[t]) /\ ~isFinished(s) /\ s \notin {"absent", "queued"}
  BY DEF isFinished, Finals
<1>2. status'[t] = s /\ \A u \in Tasks \ {t} : status'[u] = status[u]
  BY DEF TypeOK
<1> QED BY <1>1, <1>2, OneTask

\* finish() with the verdict of the task, with "failed", or without a verdict.
LEMMA Finished ==
  ASSUME TypeOK, Unjudged, NEW t \in Tasks, NEW s \in Finals, NEW k \in BOOLEAN,
         finish(t, s, k), UNCHANGED terminal,
         terminal[t] # "none" => s \in {terminal[t], "failed"}
  PROVE  VerdictKept
<1>1. CASE isFinished(status[t])
  BY <1>1, NoVerdict DEF finish
<1>2. CASE ~isFinished(status[t])
  <2>1. status' = [status EXCEPT ![t] = s]
    BY <1>2 DEF finish
  <2>2. status'[t] = s /\ \A u \in Tasks \ {t} : status'[u] = status[u]
    BY <2>1 DEF TypeOK
  <2>3. s \notin {"absent", "queued"}
    BY DEF Finals
  <2> QED BY <1>2, <2>2, <2>3, OneTask
<1> QED BY <1>1, <1>2

\* completeExit(): a quarantined record stays, another ends with its verdict.
LEMMA Completed ==
  ASSUME TypeOK, Unjudged, NEW t \in Tasks, completeExit(t), UNCHANGED terminal
  PROVE  VerdictKept
<1>1. CASE quarantined[t]
  BY <1>1, NoVerdict DEF completeExit
<1>2. CASE ~quarantined[t]
  <2> DEFINE s == IF terminal[t] = "none" THEN "failed" ELSE terminal[t]
  <2>1. s \in Finals /\ (terminal[t] # "none" => s = terminal[t])
    BY DEF TypeOK, Finals
  <2>2. finish(t, s, FALSE)
    BY <1>2 DEF completeExit
  <2> HIDE DEF s
  <2> QED BY <2>1, <2>2, Finished
<1> QED BY <1>1, <1>2

\* The task at the head of the queue, or cancelled in it, is queued.
LEMMA QueuedTask ==
  ASSUME TypeOK, IInv, NEW i \in 1..Len(queue)
  PROVE  queue[i] \in Tasks /\ status[queue[i]] = "queued"
  BY ElementOfSeq DEF TypeOK, IInv, QueueInv

LEMMA TaskVerdict == ASSUME TypeOK, IInv, Unjudged, NEW t \in Tasks, TaskStep(t) PROVE VerdictKept
<1>1. CASE Run(t)
  <2>1. status' = [status EXCEPT ![t] = "queued"] /\ UNCHANGED terminal /\ status[t] = "absent"
    BY <1>1 DEF Run
  <2>2. terminal[t] = "none" /\ ~isFinished(status[t])
    BY <2>1 DEF Unjudged, isFinished, Finals
  <2>3. status'[t] = "queued" /\ \A u \in Tasks \ {t} : status'[u] = status[u]
    BY <2>1 DEF TypeOK
  <2> QED BY <2>1, <2>2, <2>3, OneTask
<1>2. CASE WaitFor(t)
  BY <1>2, NoVerdict DEF WaitFor
<1>3. CASE CancelQueued(t)
  <2>1. PICK i \in 1..Len(queue) : queue[i] = t
    BY <1>3 DEF CancelQueued
  <2>2. terminal[t] = "none"
    BY <2>1, QueuedTask DEF Unjudged
  <2> QED BY <1>3, <2>2, Finished DEF CancelQueued, Finals
<1>4. CASE CancelLive(t)
  BY <1>4, Judged DEF CancelLive, Finals
<1>5. CASE Steer(t)
  BY <1>5, Resumed DEF Steer
<1>6. CASE Answer(t)
  <2>1. CASE Running(t) /\ status[t] = "waiting"
    BY <1>6, <2>1, Resumed DEF Answer
  <2>2. CASE ~(Running(t) /\ status[t] = "waiting")
    BY <1>6, <2>2, NoVerdict DEF Answer
  <2> QED BY <2>1, <2>2
<1>7. CASE SpawnEvent(t)
  <2>1. CASE UNCHANGED <<terminal, grace>>
    BY <1>7, <2>1, NoVerdict DEF SpawnEvent
  <2>2. CASE requestStop(t, "failed") /\ Running(t)
    BY <1>7, <2>2, Judged DEF SpawnEvent, Finals
  <2>3. CASE requestStop(t, "failed") /\ ~Running(t)
    BY <1>7, <2>3, NoVerdict DEF SpawnEvent, requestStop
  <2> QED BY <1>7, <2>1, <2>2, <2>3 DEF SpawnEvent
<1>8. CASE SpawnError(t)
  BY <1>8, Finished DEF SpawnError, Finals
<1>9. CASE ChildError(t)
  BY <1>9, Judged DEF ChildError, Finals
<1>10. CASE PromptRejected(t)
  BY <1>10, Judged DEF PromptRejected, Finals
<1>11. CASE Ask(t)
  BY <1>11, RunningStatus, Resumed DEF Ask
<1>12. CASE Progress(t)
  BY <1>12, RunningStatus, Resumed DEF Progress
<1>13. CASE AgentSettled(t)
  <2>1. PICK s \in Finals : settleOrderly(t, s)
    BY <1>13 DEF AgentSettled, Finals
  <2> QED BY <1>13, <2>1, Judged DEF AgentSettled
<1>14. CASE Exited(t)
  <2>1. CASE probeGroup(t) = "present"
    <3>1. UNCHANGED status /\ t \in live
      BY <1>14, <2>1 DEF Exited
    <3>2. CASE Running(t)
      <4>1. requestStop(t, "failed")
        BY <1>14, <2>1, <3>2, RunningStatus DEF Exited
      <4> QED BY <3>1, <3>2, <4>1, Judged DEF Finals
    <3>3. CASE ~Running(t)
      <4>1. UNCHANGED terminal
        BY <1>14, <2>1, <3>3 DEF Exited, requestStop
      <4> QED BY <3>1, <4>1, NoVerdict
    <3> QED BY <3>2, <3>3
  <2>2. CASE probeGroup(t) # "present"
    BY <1>14, <2>2, Completed DEF Exited
  <2> QED BY <2>1, <2>2
<1>15. CASE Stall(t)
  BY <1>15, Judged DEF Stall, Finals
<1>16. CASE CleanupTimeout(t)
  BY <1>16, NoVerdict DEF CleanupTimeout
<1>17. CASE confirmGroupExit(t)
  <2>1. CASE completeExit(t) /\ UNCHANGED terminal
    BY <2>1, Completed
  <2>2. CASE quarantine(t) /\ UNCHANGED terminal
    BY <2>2, Finished DEF quarantine, Finals
  <2>3. CASE rearm(t) /\ UNCHANGED terminal
    BY <2>3, NoVerdict DEF rearm
  <2> QED BY <1>17, <2>1, <2>2, <2>3 DEF confirmGroupExit
<1>18. CASE awaitQuarantinedGroup(t)
  BY <1>18, Completed DEF awaitQuarantinedGroup
<1>19. CASE ChildDies(t)
  BY <1>19, NoVerdict DEF ChildDies
<1>20. CASE StrayDies(t)
  BY <1>20, NoVerdict DEF StrayDies
<1> QED
  BY <1>1, <1>2, <1>3, <1>4, <1>5, <1>6, <1>7, <1>8, <1>9, <1>10, <1>11, <1>12, <1>13,
     <1>14, <1>15, <1>16, <1>17, <1>18, <1>19, <1>20 DEF TaskStep

LEMMA StepVerdict == TypeOK /\ IInv /\ Unjudged /\ [Next]_vars => VerdictKept
<1> SUFFICES ASSUME TypeOK, IInv, Unjudged, [Next]_vars PROVE VerdictKept
  OBVIOUS
<1>1. CASE CancelAll
  <2> DEFINE queued == {queue[i] : i \in 1..Len(queue)}
             stopped == {t \in Tasks : Running(t)}
  <2>1. status' = [t \in Tasks |-> IF t \in queued THEN "cancelled" ELSE status[t]]
    BY <1>1 DEF CancelAll
  <2>2. terminal' = [t \in Tasks |-> IF t \in stopped THEN "cancelled" ELSE terminal[t]]
    BY <1>1 DEF CancelAll
  <2>3. \A t \in queued : t \in Tasks /\ status[t] = "queued"
    BY QueuedTask
  <2>4. \A t \in stopped : terminal[t] = "none" /\ status[t] \in {"running", "waiting"}
    BY RunningStatus DEF Running
  <2> HIDE DEF queued, stopped
  <2>5. Unjudged'
    BY <2>1, <2>2, <2>4 DEF Unjudged
  <2>6. ASSUME NEW t \in Tasks PROVE Final(t)
    <3>1. CASE t \in queued
      BY <2>1, <2>2, <2>3, <2>4, <3>1 DEF Final, Unjudged, isFinished, Finals
    <3>2. CASE t \notin queued
      BY <2>1, <2>2, <2>4, <3>2 DEF Final
    <3> QED BY <3>1, <3>2
  <2> QED BY <2>5, <2>6 DEF VerdictKept
<1>2. CASE LaunchRefused
  <2>1. Head(queue) = queue[1] /\ 1 \in 1..Len(queue)
    BY <1>2, QueueTail DEF LaunchRefused, CanLaunch, TypeOK
  <2>2. Head(queue) \in Tasks /\ terminal[Head(queue)] = "none"
    BY <2>1, QueuedTask DEF Unjudged
  <2> QED BY <1>2, <2>2, Finished DEF LaunchRefused, Finals
<1>3. CASE Launch
  <2> DEFINE t == Head(queue)
  <2>1. Head(queue) = queue[1] /\ 1 \in 1..Len(queue)
    BY <1>3, QueueTail DEF Launch, CanLaunch, TypeOK
  <2>2. t \in Tasks /\ terminal[t] = "none" /\ status[t] = "queued"
    BY <2>1, QueuedTask DEF Unjudged
  <2>3. status' = [status EXCEPT ![t] = "running"]
    BY <1>3 DEF Launch
  <2>4. terminal' = terminal \/ terminal' = [terminal EXCEPT ![t] = "failed"]
    BY <1>3 DEF Launch
  <2> HIDE DEF t
  <2>5. \A u \in Tasks \ {t} : status'[u] = status[u] /\ terminal'[u] = terminal[u]
    BY <2>3, <2>4 DEF TypeOK
  <2>6. status'[t] = "running" /\ ~isFinished(status[t]) /\ ~isFinished("running")
    BY <2>2, <2>3 DEF TypeOK, isFinished, Finals
  <2> QED BY <2>2, <2>5, <2>6, OneTask
<1>4. CASE PumpDone
  BY <1>4, NoVerdict DEF PumpDone
<1>5. ASSUME NEW t \in Tasks, TaskStep(t) PROVE VerdictKept
  BY <1>5, TaskVerdict
<1>6. CASE UNCHANGED vars
  BY <1>6, NoVerdict DEF vars
<1> QED BY <1>1, <1>2, <1>3, <1>4, <1>5, <1>6 DEF Next

\* The first verdict on a child is never replaced, its record ends with that
\* verdict or with "failed", and a finished record never changes again: of all
\* the ways out of a slot and out of the queue none rewrites what happened.
THEOREM VerdictsStand == Spec => VerdictsFinal
<1>1. Init => Unjudged
  BY DEF Init, Unjudged
<1>2. VerdictKept => Unjudged' /\ \A t \in Tasks :
        /\ terminal[t] # "none" =>
             /\ terminal'[t] = terminal[t]
             /\ status'[t] # status[t] /\ isFinished(status'[t]) =>
                  status'[t] \in {terminal[t], "failed"}
        /\ isFinished(status[t]) => status'[t] = status[t]
  BY DEF VerdictKept, Final
<1>3. Spec => [](TypeOK /\ IInv)
  BY TypeCorrect, Invariant, PTL
<1> QED BY <1>1, <1>2, <1>3, StepVerdict, PTL DEF Spec, VerdictsFinal

----------------------------------------------------------------------------
(* The runner implements the pool of slots of TaskSlots: every step of     *)
(* AgentRunner is a step of the pool or leaves it alone.                   *)

\* A step that keeps the slots and every phase is not seen by the pool.
LEMMA Unseen ==
  ASSUME live' = live, \A t \in Tasks : phase(status'[t]) = phase(status[t])
  PROVE  UNCHANGED Slots!slotVars
  BY DEF Slots!slotVars

\* A running task that gets its final status finishes in the pool.
LEMMA FinishSeen ==
  ASSUME TypeOK, NEW t \in Tasks, NEW s \in Finals, status[t] \in {"running", "waiting"},
         status' = [status EXCEPT ![t] = s], live' \in {live, live \ {t}}
  PROVE  Slots!Finish(t)
<1>1. phase(status[t]) = "running" /\ phase(s) = "finished"
  BY DEF phase, isFinished, Finals
<1>2. [u \in Tasks |-> phase(status'[u])]
        = [[u \in Tasks |-> phase(status[u])] EXCEPT ![t] = "finished"]
  BY <1>1 DEF TypeOK
<1> QED BY <1>1, <1>2 DEF Slots!Finish

\* A finished task that gives its slot back frees it in the pool.
LEMMA FreeSeen ==
  ASSUME NEW t \in Tasks, isFinished(status[t]), t \in live, status' = status, live' = live \ {t}
  PROVE  Slots!Free(t)
<1>1. phase(status[t]) = "finished"
  BY DEF phase, isFinished, Finals
<1> QED BY <1>1 DEF Slots!Free

\* Queued tasks that get a final status are dropped from the pool's queue.
LEMMA DropSeen ==
  ASSUME TypeOK, NEW S \in SUBSET Tasks, NEW s \in Finals, \A t \in S : status[t] = "queued",
         status' = [t \in Tasks |-> IF t \in S THEN s ELSE status[t]], live' = live
  PROVE  Slots!Drop(S)
<1>1. \A t \in S : phase(status[t]) = "queued"
  BY DEF phase, isFinished, Finals
<1>2. phase(s) = "finished"
  BY DEF phase, isFinished, Finals
<1>3. [u \in Tasks |-> phase(status'[u])]
        = [u \in Tasks |-> IF u \in S THEN "finished" ELSE [v \in Tasks |-> phase(status[v])][u]]
  BY <1>2
<1> QED BY <1>1, <1>3 DEF Slots!Drop

\* run() admits: the registry has no claim of an open task that overlaps.
LEMMA AdmitSeen ==
  ASSUME TypeOK, IInv, NEW t \in Tasks, Run(t)
  PROVE  Slots!Admit(t)
<1>1. phase(status[t]) = "absent" /\ phase("queued") = "queued"
  BY DEF Run, phase, isFinished, Finals
<1>2. [u \in Tasks |-> phase(status'[u])]
        = [[u \in Tasks |-> phase(status[u])] EXCEPT ![t] = "queued"]
  BY <1>1 DEF Run, TypeOK
<1>3. ASSUME NEW w \in Slots!Open
      PROVE  <<t, w>> \notin Overlap \ {<<v, v>> : v \in Writers}
  <2> SUFFICES ASSUME <<t, w>> \in Overlap PROVE FALSE
    OBVIOUS
  <2>1. t \in Writers /\ w \in Writers
    BY OverlapAssumption
  <2>2. w \in Tasks
    BY <2>1, WritersAssumption
  <2>3. status[w] = "queued" \/ w \in live
    BY <2>2 DEF Slots!Open, phase
  <2>4. w \in claims
    BY <2>1, <2>3 DEF IInv, ClaimInv
  <2> QED BY <2>1, <2>4 DEF Run, conflicts
<1> QED BY <1>1, <1>2, <1>3 DEF Slots!Admit, Run

\* The pump starts the head of the queue when a slot is free.  (The instance's
\* Cardinality is another symbol to the prover, with the same definition.)
LEMMA StartSeen ==
  ASSUME TypeOK, IInv, Launch
  PROVE  \E t \in Tasks : Slots!Start(t)
<1> DEFINE t == Head(queue)
<1>1. t \in Tasks /\ t = queue[1] /\ 1 \in 1..Len(queue)
  BY QueueTail DEF Launch, CanLaunch, TypeOK
<1>2. status[t] = "queued"
  BY <1>1 DEF IInv, QueueInv
<1>3. phase(status[t]) = "queued" /\ phase("running") = "running"
  BY <1>2 DEF phase, isFinished, Finals
<1>4. status' = [status EXCEPT ![t] = "running"] /\ live' = live \cup {t}
  BY DEF Launch
<1>5. [u \in Tasks |-> phase(status'[u])]
        = [[u \in Tasks |-> phase(status[u])] EXCEPT ![t] = "running"]
  BY <1>1, <1>3, <1>4 DEF TypeOK
<1>6. Slots!Cardinality(live) < MaxConcurrency
  BY DEF Launch, CanLaunch, Cardinality, Slots!Cardinality
<1> QED BY <1>1, <1>3, <1>4, <1>5, <1>6 DEF Slots!Start

\* completeExit() of a task with a slot frees a kept slot or finishes.
LEMMA CompleteSeen ==
  ASSUME TypeOK, IInv, NEW t \in Tasks, t \in live, completeExit(t)
  PROVE  Slots!Finish(t) \/ Slots!Free(t)
<1>1. CASE quarantined[t]
  <2>1. isFinished(status[t])
    BY <1>1 DEF IInv, SlotInv
  <2>2. status' = status /\ live' = live \ {t}
    BY <1>1 DEF completeExit
  <2> QED BY <2>1, <2>2, FreeSeen
<1>2. CASE ~quarantined[t]
  <2>1. status[t] \in {"running", "waiting"}
    BY <1>2 DEF IInv, SlotInv
  <2>2. ~isFinished(status[t])
    BY <2>1 DEF isFinished, Finals
  <2> DEFINE s == IF terminal[t] = "none" THEN "failed" ELSE terminal[t]
  <2>3. s \in Finals
    BY DEF TypeOK, Finals
  <2>4. status' = [status EXCEPT ![t] = s] /\ live' = live \ {t}
    BY <1>2, <2>2 DEF completeExit, finish
  <2> QED BY <2>1, <2>3, <2>4, FinishSeen
<1> QED BY <1>1, <1>2

\* Every step of the runner is one of the pool, or leaves it alone.
LEMMA StepSeen ==
  ASSUME TypeOK, IInv, [Next]_vars
  PROVE  [Slots!Next]_(Slots!slotVars)
<1>1. CASE UNCHANGED vars
  BY <1>1, Unseen DEF vars
<1>2. CASE CancelAll
  <2> DEFINE S == {queue[i] : i \in 1..Len(queue)}
  <2>1. S \in SUBSET Tasks /\ \A t \in S : status[t] = "queued"
    <3>1. queue \in Seq(Tasks) /\ \A i \in 1..Len(queue) : status[queue[i]] = "queued"
      BY DEF TypeOK, IInv, QueueInv
    <3>2. \A i \in 1..Len(queue) : queue[i] \in Tasks
      BY <3>1, ElementOfSeq
    <3> QED BY <3>1, <3>2
  <2>2. status' = [t \in Tasks |-> IF t \in S THEN "cancelled" ELSE status[t]] /\ live' = live
    BY <1>2 DEF CancelAll
  <2>3. Slots!Drop(S)
    BY <2>1, <2>2, DropSeen DEF Finals
  <2> QED BY <2>1, <2>3 DEF Slots!Next
<1>3. CASE LaunchRefused
  <2> DEFINE t == Head(queue)
  <2>1. t \in Tasks /\ status[t] = "queued"
    BY <1>3, QueueTail DEF LaunchRefused, CanLaunch, TypeOK, IInv, QueueInv
  <2>2. status' = [status EXCEPT ![t] = "failed"] /\ live' = live
    BY <1>3, <2>1 DEF LaunchRefused, finish, isFinished, Finals
  <2>3. status' = [u \in Tasks |-> IF u \in {t} THEN "failed" ELSE status[u]]
    BY <2>1, <2>2 DEF TypeOK
  <2>4. Slots!Drop({t})
    BY <2>1, <2>2, <2>3, DropSeen DEF Finals
  <2> QED BY <2>1, <2>4 DEF Slots!Next
<1>4. CASE Launch
  BY <1>4, StartSeen DEF Slots!Next
<1>5. CASE PumpDone
  BY <1>5, Unseen DEF PumpDone
<1>6. ASSUME NEW t \in Tasks, TaskStep(t)
      PROVE  [Slots!Next]_(Slots!slotVars)
  <2>1. CASE Run(t)
    BY <2>1, AdmitSeen DEF Slots!Next
  <2>2. CASE WaitFor(t)
    BY <2>2, Unseen DEF WaitFor
  <2>3. CASE CancelQueued(t)
    <3>1. status[t] = "queued"
      BY <2>3 DEF CancelQueued, IInv, QueueInv
    <3>2. status' = [status EXCEPT ![t] = "cancelled"] /\ live' = live
      BY <2>3, <3>1 DEF CancelQueued, finish, isFinished, Finals
    <3>3. status' = [u \in Tasks |-> IF u \in {t} THEN "cancelled" ELSE status[u]]
      BY <3>2 DEF TypeOK
    <3>4. Slots!Drop({t})
      BY <3>1, <3>2, <3>3, DropSeen DEF Finals
    <3> QED BY <3>4 DEF Slots!Next
  <2>4. CASE CancelLive(t) \/ ChildError(t) \/ PromptRejected(t) \/ Stall(t) \/ SpawnEvent(t)
    BY <2>4, Unseen DEF CancelLive, ChildError, PromptRejected, Stall, SpawnEvent
  <2>5. CASE CleanupTimeout(t) \/ ChildDies(t) \/ StrayDies(t)
    BY <2>5, Unseen DEF CleanupTimeout, ChildDies, StrayDies
  <2>6. CASE Steer(t) \/ Answer(t) \/ Ask(t) \/ Progress(t) \/ AgentSettled(t)
    <3>1. live' = live
      BY <2>6 DEF Steer, Answer, Ask, Progress, AgentSettled
    <3>2. \/ status' = status
          \/ /\ status[t] \in {"running", "waiting"}
             /\ \E s \in {"running", "waiting"} : status' = [status EXCEPT ![t] = s]
      <4>1. Running(t) => status[t] \in {"running", "waiting"}
        BY RunningStatus
      <4> QED BY <2>6, <4>1 DEF Steer, Answer, Ask, Progress, AgentSettled
    <3>3. \A u \in Tasks : phase(status'[u]) = phase(status[u])
      BY <3>2 DEF phase, TypeOK
    <3> QED BY <3>1, <3>3, Unseen
  <2>7. CASE SpawnError(t)
    <3>1. t \in live /\ ~quarantined[t]
      BY <2>7 DEF SpawnError, IInv, SlotInv, ProcessInv
    <3>2. status[t] \in {"running", "waiting"}
      BY <3>1 DEF IInv, SlotInv
    <3>3. status' = [status EXCEPT ![t] = "failed"] /\ live' = live \ {t}
      BY <2>7, <3>2 DEF SpawnError, finish, isFinished, Finals
    <3>4. Slots!Finish(t)
      BY <3>2, <3>3, FinishSeen DEF Finals
    <3> QED BY <3>4 DEF Slots!Next
  <2>8. CASE Exited(t)
    <3>1. CASE probeGroup(t) = "present"
      BY <2>8, <3>1, Unseen DEF Exited
    <3>2. CASE probeGroup(t) # "present"
      <4>1. t \in live /\ completeExit(t)
        BY <2>8, <3>2 DEF Exited
      <4> QED BY <4>1, CompleteSeen DEF Slots!Next
    <3> QED BY <3>1, <3>2
  <2>9. CASE confirmGroupExit(t)
    <3>1. CASE completeExit(t)
      BY <2>9, <3>1, CompleteSeen DEF confirmGroupExit, Slots!Next
    <3>2. CASE quarantine(t)
      <4>1. t \in live /\ ~quarantined[t]
        BY <2>9 DEF confirmGroupExit, IInv, ProcessInv
      <4>2. status[t] \in {"running", "waiting"}
        BY <4>1 DEF IInv, SlotInv
      <4>3. status' = [status EXCEPT ![t] = "failed"] /\ live' = live
        BY <3>2, <4>2 DEF quarantine, finish, isFinished, Finals
      <4>4. Slots!Finish(t)
        BY <4>2, <4>3, FinishSeen DEF Finals
      <4> QED BY <4>4 DEF Slots!Next
    <3>3. CASE rearm(t)
      BY <3>3, Unseen DEF rearm
    <3> QED BY <2>9, <3>1, <3>2, <3>3 DEF confirmGroupExit
  <2>10. CASE awaitQuarantinedGroup(t)
    BY <2>10, CompleteSeen DEF awaitQuarantinedGroup, Slots!Next
  <2> QED BY <1>6, <2>1, <2>2, <2>3, <2>4, <2>5, <2>6, <2>7, <2>8, <2>9, <2>10 DEF TaskStep
<1> QED BY <1>1, <1>2, <1>3, <1>4, <1>5, <1>6 DEF Next

\* The admission, the queue, the kill ladder and the quarantine of the runner
\* (lib/agents-runner.ts) are together a pool of MaxConcurrency slots in which no
\* two open tasks have overlapping writer surfaces.
THEOREM Refinement == Spec => ImplementsTaskSlots
<1>1. Init => Slots!Init
  BY DEF Init, Slots!Init, phase, isFinished, Finals
<1>2. TypeOK /\ IInv /\ [Next]_vars => [Slots!Next]_(Slots!slotVars)
  BY StepSeen
<1>3. Spec => [](TypeOK /\ IInv)
  BY TypeCorrect, Invariant, PTL
<1> QED BY <1>1, <1>2, <1>3, PTL DEF Spec, ImplementsTaskSlots, Slots!Spec
=============================================================================
