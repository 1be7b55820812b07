------------------------ MODULE RunnerServicesProofs ------------------------
(***************************************************************************)
(* Proofs about two services around a subagent.                            *)
(*                                                                         *)
(*  - ChildMessaging: what the IPC channel promises, for every set of      *)
(*    notifications and queries, every limit and window, and every frame   *)
(*    that a child sends twice.                                            *)
(*  - NotificationScheduler: for any events, priorities, windows and       *)
(*    intervals, and any number of schedulers that replace each other.     *)
(***************************************************************************)
EXTENDS ChildMessaging, NotificationScheduler, FiniteSetTheorems, TLAPS

(***************************************************************************)
(* The channel.                                                            *)
(***************************************************************************)
----------------------------------------------------------------------------
(* Members of a sequence.                                                  *)

\* A value stands at one place of a sequence at most.
Once(s, e) == \A i, j \in 1 .. Len(s) : s[i] = e /\ s[j] = e => i = j

\* What is appended is the one more member.
LEMMA AppendHas ==
  ASSUME NEW S, NEW s \in Seq(S), NEW x \in S, NEW e
  PROVE  /\ Append(s, x) \in Seq(S) /\ Append(s, x) # <<>>
         /\ Contains(Append(s, x), e) <=> Contains(s, e) \/ e = x
<1>1. /\ Len(s) \in Nat /\ Len(Append(s, x)) = Len(s) + 1 /\ Append(s, x)[Len(s) + 1] = x
      /\ \A i \in 1 .. Len(s) : Append(s, x)[i] = s[i]
  OBVIOUS
<1>2. \A i : i \in 1 .. (Len(s) + 1) <=> i \in 1 .. Len(s) \/ i = Len(s) + 1
  BY <1>1
<1> QED BY <1>1, <1>2 DEF Contains

LEMMA Appended ==
  ASSUME NEW S, NEW s \in Seq(S), NEW x \in S
  PROVE  Contains(Append(s, x), x)
BY AppendHas

\* A value that is appended for the first time stands once.
LEMMA AppendOnce ==
  ASSUME NEW S, NEW s \in Seq(S), NEW x \in S, NEW e, Once(s, e), e = x => ~Contains(s, e)
  PROVE  Once(Append(s, x), e)
<1>1. /\ Len(s) \in Nat /\ Len(Append(s, x)) = Len(s) + 1 /\ Append(s, x)[Len(s) + 1] = x
      /\ \A i \in 1 .. Len(s) : Append(s, x)[i] = s[i]
  OBVIOUS
<1>2. \A i : i \in 1 .. (Len(s) + 1) <=> i \in 1 .. Len(s) \/ i = Len(s) + 1
  BY <1>1
<1> QED BY <1>1, <1>2 DEF Contains, Once

\* The tail has the members of the sequence but, perhaps, its head.
LEMMA TailHas ==
  ASSUME NEW S, NEW s \in Seq(S), s # <<>>, NEW e
  PROVE  /\ Tail(s) \in Seq(S) /\ Head(s) \in S
         /\ Contains(Tail(s), e) => Contains(s, e)
         /\ Contains(s, e) => e = Head(s) \/ Contains(Tail(s), e)
         /\ Contains(s, Head(s))
         /\ Once(s, e) => Once(Tail(s), e) /\ (e = Head(s) => ~Contains(Tail(s), e))
<1>1. /\ Len(s) \in Nat \ {0} /\ Len(Tail(s)) = Len(s) - 1 /\ Head(s) = s[1]
      /\ \A i \in 1 .. (Len(s) - 1) : Tail(s)[i] = s[i + 1]
      /\ Tail(s) \in Seq(S) /\ Head(s) \in S
  OBVIOUS
<1>2. \A i \in 1 .. (Len(s) - 1) : i + 1 \in 1 .. Len(s) /\ i + 1 # 1
  BY <1>1
<1>3. \A i \in 1 .. Len(s) : i = 1 \/ (i - 1 \in 1 .. (Len(s) - 1) /\ (i - 1) + 1 = i)
  BY <1>1
<1>4. 1 \in 1 .. Len(s)
  BY <1>1
<1>5. Contains(Tail(s), e) => Contains(s, e)
  BY <1>1, <1>2 DEF Contains
<1>6. Contains(s, e) => e = Head(s) \/ Contains(Tail(s), e)
  BY <1>1, <1>3 DEF Contains
<1>7. ASSUME Once(s, e) PROVE Once(Tail(s), e)
  <2> SUFFICES ASSUME NEW i \in 1 .. Len(Tail(s)), NEW j \in 1 .. Len(Tail(s)),
                      Tail(s)[i] = e, Tail(s)[j] = e
               PROVE  i = j
    BY DEF Once
  <2>1. s[i + 1] = e /\ s[j + 1] = e /\ i + 1 \in 1 .. Len(s) /\ j + 1 \in 1 .. Len(s)
    BY <1>1, <1>2
  <2>2. i + 1 = j + 1
    BY <1>7, <2>1 DEF Once
  <2> QED BY <1>1, <2>2
<1>8. ASSUME Once(s, e), e = Head(s) PROVE ~Contains(Tail(s), e)
  BY <1>1, <1>2, <1>4, <1>8 DEF Once, Contains
<1> QED BY <1>1, <1>4, <1>5, <1>6, <1>7, <1>8 DEF Contains

\* A prefix has members of the sequence only, as often.
LEMMA PrefixHas ==
  ASSUME NEW S, NEW s \in Seq(S), NEW k \in 0 .. Len(s), NEW e
  PROVE  /\ SubSeq(s, 1, k) \in Seq(S)
         /\ Contains(SubSeq(s, 1, k), e) => Contains(s, e)
         /\ Once(s, e) => Once(SubSeq(s, 1, k), e)
<1>1. /\ SubSeq(s, 1, k) \in Seq(S) /\ Len(SubSeq(s, 1, k)) = k
      /\ \A i \in 1 .. k : SubSeq(s, 1, k)[i] = s[i]
  OBVIOUS
<1>2. \A i \in 1 .. k : i \in 1 .. Len(s)
  OBVIOUS
<1> QED BY <1>1, <1>2 DEF Contains, Once

\* A sequence whose members stand once each is as long as its members are many.
LEMMA DistinctCounts ==
  ASSUME NEW S, NEW s \in Seq(S), \A e \in S : Once(s, e),
         NEW T, IsFiniteSet(T), \A i \in 1 .. Len(s) : s[i] \in T
  PROVE  Len(s) <= Cardinality(T)
<1>1. Len(s) \in Nat /\ IsFiniteSet(1 .. Len(s)) /\ Cardinality(1 .. Len(s)) = Len(s)
  <2>1. Len(s) \in Nat
    OBVIOUS
  <2>2. /\ IsFiniteSet(1 .. Len(s))
        /\ Cardinality(1 .. Len(s)) = IF 1 > Len(s) THEN 0 ELSE Len(s) - 1 + 1
    BY <2>1, FS_Interval
  <2> QED BY <2>1, <2>2
<1>2. Cardinality(T) \in Nat
  BY FS_CardinalityType
<1>3. ASSUME Cardinality(T) < Len(s) PROVE FALSE
  <2> DEFINE f == [i \in 1 .. Len(s) |-> s[i]]
  <2>1. f \in [1 .. Len(s) -> T]
    OBVIOUS
  <2>2. \E x, y \in 1 .. Len(s) : x # y /\ f[x] = f[y]
    <3> HIDE DEF f
    <3> QED BY <1>1, <1>3, <2>1, FS_PigeonHole
  <2>3. \A i \in 1 .. Len(s) : s[i] \in S
    OBVIOUS
  <2> QED BY <2>2, <2>3 DEF Once
<1> QED BY <1>1, <1>2, <1>3

----------------------------------------------------------------------------
(* The ranges.                                                             *)

Frames == [id : Ids, ok : BOOLEAN]
Replies == [id : Queries, ok : BOOLEAN]

\* A frame is its id and its answer.
LEMMA FrameShape ==
  /\ \A i \in Ids, ok \in BOOLEAN : Frame(i, ok) \in Frames
  /\ \A q \in Queries, ok \in BOOLEAN : Frame(q, ok) \in Replies
  /\ \A i, ok : Frame(i, ok).id = i /\ Frame(i, ok).ok = ok
  /\ \A f \in Frames : f = Frame(f.id, f.ok) /\ f.id \in Ids /\ f.ok \in BOOLEAN
  /\ \A f \in Replies : f = Frame(f.id, f.ok) /\ f.id \in Queries /\ f.ok \in BOOLEAN
  /\ \A i, j, ok, no : Frame(i, ok) = Frame(j, no) <=> i = j /\ ok = no
  BY DEF Frame, Frames, Replies

\* The window forgets the oldest id when it is full.
LEMMA Remembered ==
  ASSUME TypeOK, NEW n \in Notes, NEW ok \in BOOLEAN, Acknowledge(n, ok)
  PROVE  /\ acked' \in Seq(Notes) /\ Len(acked') <= Window
         /\ down' \in Seq(Frames)
<1> DEFINE order == Append(acked, n)
<1>1. /\ acked \in Seq(Notes) /\ Len(acked) \in Nat /\ Len(acked) <= Window /\ Window \in Nat \ {0}
      /\ down \in Seq(Frames)
  BY MessagingAssumption DEF TypeOK, Frames
<1>2. order \in Seq(Notes) /\ Len(order) = Len(acked) + 1 /\ order # <<>>
  BY <1>1
<1>3. Tail(order) \in Seq(Notes) /\ Len(Tail(order)) = Len(acked)
  BY <1>2, <1>1
<1>4. Frame(n, ok) \in Frames
  BY FrameShape DEF Ids
<1>5. Append(down, Frame(n, ok)) \in Seq(Frames)
  BY <1>1, <1>4
<1>6. CASE Contains(acked, n)
  BY <1>1, <1>6 DEF Acknowledge
<1>7. CASE ~Contains(acked, n)
  <2>1. acked' = IF Len(order) > Window THEN Tail(order) ELSE order
    BY <1>7 DEF Acknowledge
  <2>2. down' \in Seq(Frames)
    BY <1>1, <1>5, <1>7 DEF Acknowledge
  <2> HIDE DEF order
  <2>3. CASE Len(order) > Window
    BY <1>1, <1>3, <2>1, <2>2, <2>3
  <2>4. CASE ~(Len(order) > Window)
    BY <1>1, <1>2, <2>1, <2>2, <2>4
  <2> QED BY <2>3, <2>4
<1> QED BY <1>6, <1>7

\* Every variable stays in its range.
LEMMA StepTyped == ASSUME TypeOK, [Next]_vars PROVE TypeOK'
<1>1. /\ Ids = Notes \cup Queries /\ MaxRepeats \in Nat
      /\ up \in Seq(Ids) /\ down \in Seq(Frames) /\ writes \in Seq(Replies)
  BY MessagingAssumption DEF TypeOK, Ids, Frames, Replies
<1>2. ASSUME NEW q \in Queries, NEW ok \in BOOLEAN, Answer(q, ok)
      PROVE  down' \in Seq(Frames) /\ answered' \in [Queries -> Nat]
  <2>1. Frame(q, ok) \in Frames
    BY <1>1, FrameShape
  <2>2. Append(down, Frame(q, ok)) \in Seq(Frames)
    BY <1>1, <2>1
  <2>3. answered[q] + 1 \in Nat
    BY DEF TypeOK
  <2> QED BY <1>1, <1>2, <2>2, <2>3 DEF Answer, TypeOK
<1>3. FailAll \in [Ids -> {"unsent", "pending", "kept", "refused", "failed"}]
  BY DEF FailAll, TypeOK
<1>4. ASSUME NEW i \in Ids PROVE Append(up, i) \in Seq(Ids)
  BY <1>1
<1>5. up # <<>> => Tail(up) \in Seq(Ids)
  BY <1>1
<1>6. ASSUME NEW i \in Ids, Send(i) PROVE TypeOK'
  BY <1>4, <1>6 DEF Send, TypeOK, runnerVars, parentVars, history
<1>7. ASSUME NEW i \in Ids, SendAgain(i) PROVE TypeOK'
  BY <1>1, <1>4, <1>7 DEF SendAgain, TypeOK, runnerVars, parentVars, history
<1>8. ASSUME NEW i \in Ids, TimeOut(i) PROVE TypeOK'
  BY <1>8 DEF TimeOut, TypeOK, runnerVars, parentVars, history
<1>9. CASE Receive
  <2>1. Tail(down) \in Seq(Frames) /\ Head(down) \in Frames
    BY <1>1, <1>9, TailHas DEF Receive
  <2>2. Head(down).id \in Ids
    BY <2>1, FrameShape
  <2>3. ask' \in [Ids -> {"unsent", "pending", "kept", "refused", "failed"}]
    BY <1>9, <2>2 DEF Receive, TypeOK
  <2> QED BY <1>9, <2>1, <2>3 DEF Receive, TypeOK, runnerVars, parentVars, history, Frames
<1>10. CASE ChildDisconnect
  BY <1>3, <1>10 DEF ChildDisconnect, TypeOK, runnerVars, parentVars, history
<1>11. CASE ChildGone
  <2>1. up' \in Seq(Ids)
    BY <1>1, <1>11, PrefixHas DEF ChildGone
  <2> QED BY <1>3, <1>11, <2>1 DEF ChildGone, TypeOK, runnerVars, parentVars, history
<1>12. ASSUME NEW n \in Notes, ReceiveNote(n) PROVE TypeOK'
  <2>1. acked' \in Seq(Notes) /\ Len(acked') <= Window /\ down' \in Seq(Frames)
    BY <1>1, <1>12, Remembered DEF ReceiveNote, TypeOK
  <2>2. entered' \in [Notes -> Nat]
    <3>1. entered[n] + 1 \in Nat
      BY DEF TypeOK
    <3> QED BY <1>12, <3>1 DEF ReceiveNote, TypeOK
  <2> QED BY <1>5, <1>12, <2>1, <2>2 DEF ReceiveNote, TypeOK, childVars, history, Frames
<1>13. ASSUME NEW q \in Queries, RefuseQuery(q) PROVE TypeOK'
  <2>1. down' \in Seq(Frames) /\ answered' \in [Queries -> Nat] /\ heard' \in [Queries -> Nat]
    <3>1. heard[q] + 1 \in Nat
      BY DEF TypeOK
    <3> QED BY <1>2, <1>13, <3>1 DEF RefuseQuery, TypeOK
  <2>2. shown' \subseteq Queries /\ spent' \subseteq Queries
    BY <1>13 DEF RefuseQuery, Settled, TypeOK
  <2> QED BY <1>5, <1>13, <2>1, <2>2 DEF RefuseQuery, TypeOK, childVars, runnerVars, Frames
<1>14. ASSUME NEW q \in Queries, OpenQuery(q) PROVE TypeOK'
  BY <1>5, <1>14 DEF OpenQuery, TypeOK, childVars
<1>15. ASSUME NEW q \in Queries, Reply(q) PROVE TypeOK'
  <2>1. down' \in Seq(Frames) /\ answered' \in [Queries -> Nat]
    BY <1>1, <1>2, <1>15 DEF Reply, TypeOK
  <2>2. writes' \in Seq(Replies)
    <3>1. \A ok \in BOOLEAN : Append(writes, Frame(q, ok)) \in Seq(Replies)
      BY <1>1, FrameShape
    <3> QED BY <1>15, <3>1 DEF Reply
  <2>3. query' \in [Queries -> {"none", "open", "replying"}]
        /\ told' \in [Queries -> {"nothing", "waiting", "accepted", "unavailable"}]
    BY <1>15 DEF Reply, TypeOK
  <2> QED BY <1>15, <2>1, <2>2, <2>3 DEF Reply, TypeOK, childVars, parentVars, Frames, Replies
<1>16. CASE Written
  <2>1. Tail(writes) \in Seq(Replies) /\ Head(writes) \in Replies
    BY <1>1, <1>16, TailHas DEF Written
  <2>2. Head(writes).id \in Queries
    BY <2>1, FrameShape
  <2>3. /\ told' \in [Queries -> {"nothing", "waiting", "accepted", "unavailable"}]
        /\ query' \in [Queries -> {"none", "open", "replying"}]
        /\ shown' \subseteq Queries /\ spent' \subseteq Queries
    <3>1. CASE told[Head(writes).id] = "waiting"
      <4>1. /\ told' = [told EXCEPT ![Head(writes).id] = IF Head(writes).ok THEN "accepted" ELSE "unavailable"]
            /\ query' = [query EXCEPT ![Head(writes).id] = "none"]
            /\ shown' = shown \ {Head(writes).id} /\ spent' = spent \union {Head(writes).id}
        BY <1>16, <3>1 DEF Written, Settled
      <4> QED BY <2>2, <4>1 DEF TypeOK
    <3>2. CASE told[Head(writes).id] # "waiting"
      BY <1>16, <3>2 DEF Written, TypeOK
    <3> QED BY <3>1, <3>2
  <2> QED BY <1>16, <2>1, <2>3 DEF Written, TypeOK, childVars, history, Replies
<1>17. ASSUME NEW q \in Queries, Expire(q) PROVE TypeOK'
  <2>1. down' \in Seq(Frames) /\ answered' \in [Queries -> Nat]
    BY <1>1, <1>2, <1>17 DEF Expire, TypeOK
  <2>2. /\ told' \in [Queries -> {"nothing", "waiting", "accepted", "unavailable"}]
        /\ query' \in [Queries -> {"none", "open", "replying"}]
        /\ shown' \subseteq Queries /\ spent' \subseteq Queries
    BY <1>17 DEF Expire, Settled, TypeOK
  <2> QED BY <1>17, <2>1, <2>2 DEF Expire, TypeOK, childVars, Frames
<1>18. CASE CloseIpc
  BY <1>18 DEF CloseIpc, TypeOK, childVars, parentVars, history
<1>19. CASE SwitchSession
  BY <1>19 DEF SwitchSession, TypeOK, childVars, runnerVars, parentVars, history
<1>20. CASE UNCHANGED vars
  BY <1>20 DEF vars, TypeOK, childVars, runnerVars, parentVars, history
<1> QED BY <1>6, <1>7, <1>8, <1>9, <1>10, <1>11, <1>12, <1>13, <1>14, <1>15, <1>16, <1>17,
          <1>18, <1>19, <1>20 DEF Next

----------------------------------------------------------------------------
(* One answer, and no question left behind.                                *)

\* The steps that neither hear nor answer a query, nor open or close it.
Elsewhere ==
  \/ \E i \in Ids : Send(i) \/ SendAgain(i) \/ TimeOut(i)
  \/ Receive \/ ChildDisconnect \/ ChildGone
  \/ \E n \in Notes : ReceiveNote(n)
  \/ SwitchSession \/ UNCHANGED vars

LEMMA ElsewhereKeeps ==
  ASSUME Elsewhere
  PROVE  UNCHANGED <<query, told, writes, heard, answered, shown, spent, ipc>>
  BY DEF Elsewhere, Send, SendAgain, TimeOut, Receive, ChildDisconnect, ChildGone, ReceiveNote,
         SwitchSession, vars, runnerVars, parentVars, history

LEMMA OneAnswerStep == ASSUME TypeOK, OneAnswer, [Next]_vars PROVE OneAnswer'
<1> DEFINE Open(q) == IF query[q] = "open" THEN 1 ELSE 0
<1>1. CASE Elsewhere
  BY <1>1, ElsewhereKeeps DEF OneAnswer
<1>2. SUFFICES ASSUME NEW q \in Queries,
                      \/ \E p \in Queries : RefuseQuery(p) \/ OpenQuery(p) \/ Reply(p) \/ Expire(p)
                      \/ Written \/ CloseIpc
               PROVE  answered'[q] + (IF query'[q] = "open" THEN 1 ELSE 0) <= heard'[q]
  BY <1>1 DEF OneAnswer, Next, Elsewhere
<1>3. /\ answered \in [Queries -> Nat] /\ heard \in [Queries -> Nat]
      /\ DOMAIN query = Queries /\ answered[q] \in Nat /\ heard[q] \in Nat
      /\ answered[q] + Open(q) <= heard[q]
  BY DEF TypeOK, OneAnswer
<1>4. ASSUME NEW p \in Queries, RefuseQuery(p)
      PROVE  answered'[q] + (IF query'[q] = "open" THEN 1 ELSE 0) <= heard'[q]
  BY <1>3, <1>4 DEF RefuseQuery, Answer, runnerVars
<1>5. ASSUME NEW p \in Queries, OpenQuery(p)
      PROVE  answered'[q] + (IF query'[q] = "open" THEN 1 ELSE 0) <= heard'[q]
  BY <1>3, <1>5 DEF OpenQuery
<1>6. ASSUME NEW p \in Queries, Reply(p)
      PROVE  answered'[q] + (IF query'[q] = "open" THEN 1 ELSE 0) <= heard'[q]
  <2>1. heard' = heard /\ query[p] = "open" /\ query' = [query EXCEPT ![p] = "replying"]
    BY <1>6 DEF Reply
  <2>2. answered' = answered \/ answered' = [answered EXCEPT ![p] = @ + 1]
    BY <1>6 DEF Reply, Answer
  <2> QED BY <1>3, <2>1, <2>2
<1>7. ASSUME NEW p \in Queries, Expire(p)
      PROVE  answered'[q] + (IF query'[q] = "open" THEN 1 ELSE 0) <= heard'[q]
  <2>1. heard' = heard /\ query' = [query EXCEPT ![p] = "none"]
    BY <1>7 DEF Expire
  <2>2. \/ answered' = answered
        \/ query[p] = "open" /\ answered' = [answered EXCEPT ![p] = @ + 1]
    BY <1>7 DEF Expire, Answer, TypeOK
  <2> QED BY <1>3, <2>1, <2>2
<1>8. CASE Written \/ CloseIpc
  <2>1. answered' = answered /\ heard' = heard
    BY <1>8 DEF Written, CloseIpc, history
  <2>2. query'[q] = "open" => query[q] = "open"
    BY <1>3, <1>8 DEF Written, CloseIpc
  <2> QED BY <1>3, <2>1, <2>2
<1> QED BY <1>2, <1>4, <1>5, <1>6, <1>7, <1>8

LEMMA ShownStep == ASSUME TypeOK, ShownIsOpen, [Next]_vars PROVE ShownIsOpen'
<1>1. CASE Elsewhere
  BY <1>1, ElsewhereKeeps DEF ShownIsOpen
<1>2. SUFFICES ASSUME ipc', NEW q \in shown',
                      \/ \E p \in Queries : RefuseQuery(p) \/ OpenQuery(p) \/ Reply(p) \/ Expire(p)
                      \/ Written \/ CloseIpc
               PROVE  query'[q] # "none"
  BY <1>1 DEF ShownIsOpen, Next, Elsewhere
<1>3. /\ DOMAIN query = Queries /\ shown \subseteq Queries
      /\ \A p \in shown : ipc => query[p] # "none"
  BY DEF TypeOK, ShownIsOpen
<1>4. ASSUME NEW p \in Queries, RefuseQuery(p) PROVE query'[q] # "none"
  BY <1>2, <1>3, <1>4 DEF RefuseQuery, Settled, runnerVars
<1>5. ASSUME NEW p \in Queries, OpenQuery(p) PROVE query'[q] # "none"
  BY <1>2, <1>3, <1>5 DEF OpenQuery
<1>6. ASSUME NEW p \in Queries, Reply(p) PROVE query'[q] # "none"
  BY <1>2, <1>3, <1>6 DEF Reply, parentVars
<1>7. ASSUME NEW p \in Queries, Expire(p) PROVE query'[q] # "none"
  BY <1>2, <1>3, <1>7 DEF Expire, Settled
<1>8. CASE Written
  <2>1. CASE told[Head(writes).id] = "waiting"
    <3>1. /\ query' = [query EXCEPT ![Head(writes).id] = "none"]
          /\ shown' = shown \ {Head(writes).id} /\ ipc' = ipc
      BY <1>8, <2>1 DEF Written, Settled
    <3> QED BY <1>2, <1>3, <3>1
  <2>2. CASE told[Head(writes).id] # "waiting"
    BY <1>2, <1>3, <1>8, <2>2 DEF Written
  <2> QED BY <2>1, <2>2
<1>9. CASE CloseIpc
  BY <1>2, <1>9 DEF CloseIpc
<1> QED BY <1>2, <1>4, <1>5, <1>6, <1>7, <1>8, <1>9

----------------------------------------------------------------------------
(* What the child has sent.                                                *)

Sent == {i \in Ids : ask[i] # "unsent"}

\* Frames, acknowledgements and queries are of ids that were sent; they are
\* finitely many; and nobody waits in a child that has ended.
SendInv ==
  /\ IsFiniteSet(Sent)
  /\ \A i \in Ids : Contains(up, i) \/ Contains(acked, i) => i \in Sent
  /\ \A q \in Queries : heard[q] > 0 => q \in Sent
  /\ gone => \A i \in Ids : ask[i] # "pending"

\* The child's promises change by its own steps only.
ChildSteps ==
  \/ \E i \in Ids : Send(i) \/ SendAgain(i) \/ TimeOut(i)
  \/ Receive \/ ChildDisconnect \/ ChildGone

\* What becomes of a promise: it is made once, and settled once.
LEMMA Promises ==
  ASSUME TypeOK, [Next]_vars, NEW i \in Ids
  PROVE  /\ \/ ask'[i] = ask[i]
            \/ ask[i] = "unsent" /\ Send(i)
            \/ ask[i] = "pending" /\ ask'[i] = "failed"
            \/ /\ ask[i] = "pending" /\ Receive /\ down # <<>> /\ i = Head(down).id
               /\ ask'[i] = IF Head(down).ok THEN "kept" ELSE "refused"
         /\ ~gone /\ gone' => ask'[i] # "pending"
         /\ gone => gone'
         /\ i \in Sent => i \in Sent'
<1>1. DOMAIN ask = Ids
  BY DEF TypeOK
<1>2. SUFFICES /\ \/ ask'[i] = ask[i]
                  \/ ask[i] = "unsent" /\ Send(i)
                  \/ ask[i] = "pending" /\ ask'[i] = "failed"
                  \/ /\ ask[i] = "pending" /\ Receive /\ down # <<>> /\ i = Head(down).id
                     /\ ask'[i] = IF Head(down).ok THEN "kept" ELSE "refused"
               /\ ~gone /\ gone' => ask'[i] # "pending"
               /\ gone => gone'
  BY DEF Sent
<1>3. CASE ~ChildSteps
  <2>1. ask' = ask /\ gone' = gone
    BY <1>3 DEF Next, ChildSteps, ReceiveNote, RefuseQuery, OpenQuery, Reply, Written, Expire,
                CloseIpc, SwitchSession, vars, childVars
  <2> QED BY <2>1
<1>4. CASE \E j \in Ids : Send(j) \/ SendAgain(j) \/ TimeOut(j)
  BY <1>1, <1>4 DEF Send, SendAgain, TimeOut
<1>5. CASE Receive
  BY <1>1, <1>5 DEF Receive
<1>6. CASE ChildDisconnect \/ ChildGone
  BY <1>6 DEF ChildDisconnect, ChildGone, FailAll
<1> QED BY <1>3, <1>4, <1>5, <1>6 DEF ChildSteps

\* A frame comes into the channel by a send, and leaves it from the front or with
\* the child.
LEMMA UpMoves ==
  ASSUME TypeOK, [Next]_vars, NEW i \in Ids
  PROVE  /\ Contains(up', i) => Contains(up, i) \/ Send(i) \/ SendAgain(i)
         /\ Once(up, i) /\ (Send(i) \/ SendAgain(i) => ~Contains(up, i)) => Once(up', i)
<1>1. up \in Seq(Ids)
  BY DEF TypeOK
<1>2. CASE up' = up
  BY <1>2
<1>3. ASSUME NEW j \in Ids, Send(j) \/ SendAgain(j)
      PROVE  /\ Contains(up', i) => Contains(up, i) \/ i = j
             /\ Once(up, i) /\ (i = j => ~Contains(up, i)) => Once(up', i)
  <2>1. up' = up \/ up' = Append(up, j)
    BY <1>3 DEF Send, SendAgain
  <2>2. Contains(Append(up, j), i) => Contains(up, i) \/ i = j
    BY <1>1, AppendHas
  <2>3. Once(up, i) /\ (i = j => ~Contains(up, i)) => Once(Append(up, j), i)
    BY <1>1, AppendOnce
  <2> QED BY <2>1, <2>2, <2>3
<1>4. CASE up # <<>> /\ up' = Tail(up)
  BY <1>1, <1>4, TailHas
<1>5. CASE ChildGone
  <2>1. PICK k \in 0 .. Len(up) : up' = SubSeq(up, 1, k)
    BY <1>5 DEF ChildGone
  <2> QED BY <1>1, <2>1, PrefixHas
<1>6. \/ up' = up \/ (up # <<>> /\ up' = Tail(up)) \/ ChildGone
      \/ \E j \in Ids : Send(j) \/ SendAgain(j)
  BY DEF Next, TimeOut, Receive, ChildDisconnect, ReceiveNote, RefuseQuery, OpenQuery, Reply,
         Written, Expire, CloseIpc, SwitchSession, vars
<1> QED BY <1>2, <1>3, <1>4, <1>5, <1>6

\* The runner receives the frame that comes first.
LEMMA Arrives ==
  ASSUME TypeOK, NEW i \in Ids, up # <<>>, Head(up) = i, up' = Tail(up)
  PROVE  Contains(up, i) /\ (Once(up, i) => ~Contains(up', i))
  BY TailHas DEF TypeOK

\* A query is heard when its frame comes first.
LEMMA Hears ==
  ASSUME TypeOK, [Next]_vars, NEW q \in Queries
  PROVE  \/ heard'[q] = heard[q]
         \/ /\ heard'[q] = heard[q] + 1 /\ (RefuseQuery(q) \/ OpenQuery(q))
            /\ up # <<>> /\ Head(up) = q /\ up' = Tail(up)
<1>1. DOMAIN heard = Queries
  BY DEF TypeOK
<1>2. ASSUME NEW p \in Queries, RefuseQuery(p) \/ OpenQuery(p)
      PROVE  /\ heard' = [heard EXCEPT ![p] = @ + 1]
             /\ up # <<>> /\ Head(up) = p /\ up' = Tail(up)
  BY <1>2 DEF RefuseQuery, OpenQuery
<1>3. CASE ~\E p \in Queries : RefuseQuery(p) \/ OpenQuery(p)
  BY <1>3 DEF Next, Send, SendAgain, TimeOut, Receive, ChildDisconnect, ChildGone, ReceiveNote,
              Reply, Written, Expire, CloseIpc, SwitchSession, vars, history
<1>4. CASE RefuseQuery(q) \/ OpenQuery(q)
  BY <1>1, <1>2, <1>4
<1>5. CASE ~(RefuseQuery(q) \/ OpenQuery(q)) /\ \E p \in Queries : RefuseQuery(p) \/ OpenQuery(p)
  <2>1. PICK p \in Queries : RefuseQuery(p) \/ OpenQuery(p)
    BY <1>5
  <2>2. p # q /\ heard' = [heard EXCEPT ![p] = @ + 1]
    BY <1>2, <1>5, <2>1
  <2> QED BY <1>1, <2>2
<1> QED BY <1>3, <1>4, <1>5

\* What the window remembers was remembered before, or has just come.
LEMMA Acknowledges ==
  ASSUME TypeOK, [Next]_vars
  PROVE  \/ acked' = acked
         \/ \E n \in Notes :
              /\ ReceiveNote(n) /\ ~Contains(acked, n) /\ Contains(up, n)
              /\ \A i : Contains(acked', i) => Contains(acked, i) \/ i = n
<1>1. CASE \E n \in Notes : ReceiveNote(n) /\ ~Contains(acked, n)
  <2>1. PICK n \in Notes : ReceiveNote(n) /\ ~Contains(acked, n)
    BY <1>1
  <2>2. acked' = LET order == Append(acked, n) IN IF Len(order) > Window THEN Tail(order) ELSE order
    BY <2>1 DEF ReceiveNote, Acknowledge
  <2>3. Append(acked, n) \in Seq(Notes) /\ Append(acked, n) # <<>>
    BY AppendHas DEF TypeOK
  <2>4. \A i : Contains(acked', i) => Contains(Append(acked, n), i)
    BY <2>2, <2>3, TailHas
  <2>5. \A i : Contains(acked', i) => Contains(acked, i) \/ i = n
    <3>1. \A i : Contains(Append(acked, n), i) => Contains(acked, i) \/ i = n
      BY AppendHas DEF TypeOK
    <3> QED BY <2>4, <3>1
  <2>6. Contains(up, n)
    <3>1. n \in Ids /\ up # <<>> /\ Head(up) = n /\ up' = Tail(up)
      BY <2>1 DEF ReceiveNote, Ids
    <3> QED BY <3>1, Arrives
  <2> QED BY <2>1, <2>5, <2>6
<1>2. CASE ~\E n \in Notes : ReceiveNote(n) /\ ~Contains(acked, n)
  BY <1>2 DEF Next, Send, SendAgain, TimeOut, Receive, ChildDisconnect, ChildGone, ReceiveNote,
              RefuseQuery, OpenQuery, Reply, Written, Expire, CloseIpc, SwitchSession, vars,
              runnerVars
<1> QED BY <1>1, <1>2

LEMMA SendStep == ASSUME TypeOK, SendInv, [Next]_vars PROVE SendInv'
<1>1. IsFiniteSet(Sent')
  <2>1. CASE \E i \in Ids : Send(i)
    <3>1. PICK i \in Ids : Send(i)
      BY <2>1
    <3>2. Sent' \subseteq Sent \cup {i}
      BY <3>1 DEF Send, Sent, TypeOK
    <3> QED BY <3>2, FS_AddElement, FS_Subset DEF SendInv
  <2>2. CASE ~\E i \in Ids : Send(i)
    <3>1. Sent' \subseteq Sent
      BY <2>2, Promises DEF Sent
    <3> QED BY <3>1, FS_Subset DEF SendInv
  <2> QED BY <2>1, <2>2
<1>2. ASSUME NEW i \in Ids, Contains(up', i) PROVE i \in Sent'
  <2>1. CASE Contains(up, i)
    BY <2>1, Promises DEF SendInv
  <2>2. CASE ~Contains(up, i) /\ Send(i)
    BY <1>2, <2>2 DEF Send, Sent, TypeOK
  <2>3. CASE SendAgain(i)
    BY <2>3 DEF SendAgain, Sent
  <2> QED BY <1>2, <2>1, <2>2, <2>3, UpMoves
<1>3. ASSUME NEW i \in Ids, Contains(acked', i) PROVE i \in Sent'
  <2>1. Contains(acked, i) \/ Contains(up, i)
    BY <1>3, Acknowledges
  <2> QED BY <2>1, Promises DEF SendInv
<1>4. ASSUME NEW q \in Queries, heard'[q] > 0 PROVE q \in Sent'
  <2>1. q \in Ids
    BY DEF Ids
  <2>2. CASE heard'[q] = heard[q]
    BY <1>4, <2>1, <2>2, Promises DEF SendInv
  <2>3. CASE heard'[q] # heard[q]
    <3>1. up # <<>> /\ Head(up) = q /\ up' = Tail(up)
      BY <2>3, Hears
    <3>2. Contains(up, q)
      BY <2>1, <3>1, Arrives
    <3> QED BY <2>1, <3>2, Promises DEF SendInv
  <2> QED BY <2>2, <2>3
<1>5. ASSUME gone', NEW i \in Ids PROVE ask'[i] # "pending"
  <2>1. CASE gone
    BY <2>1, Promises DEF SendInv, Send
  <2>2. CASE ~gone
    BY <1>5, <2>2, Promises
  <2> QED BY <2>1, <2>2
<1> QED BY <1>1, <1>2, <1>3, <1>4, <1>5 DEF SendInv

----------------------------------------------------------------------------
(* The frames for the child.                                               *)

\* A frame comes into the channel by an acknowledgement or an answer, and leaves it
\* when the child receives it or ends.
LEMMA DownMoves ==
  ASSUME TypeOK, [Next]_vars, NEW f \in Frames
  PROVE  /\ Contains(down', f) =>
              \/ Contains(down, f)
              \/ \E n \in Notes : ReceiveNote(n) /\ ~Contains(acked, n) /\ f = Frame(n, active)
              \/ \E q \in Queries : RefuseQuery(q) /\ f = Frame(q, FALSE)
              \/ \E q \in Queries : Expire(q) /\ query[q] # "replying" /\ f = Frame(q, FALSE)
              \/ \E q \in Queries : Reply(q) /\ f = Frame(q, TRUE)
         /\ Contains(down, f) =>
              Contains(down', f) \/ ChildGone \/ (Receive /\ f = Head(down))
<1>1. down \in Seq(Frames) /\ active \in BOOLEAN /\ Notes \subseteq Ids /\ Queries \subseteq Ids
  BY DEF TypeOK, Frames, Ids
<1>2. ASSUME NEW g \in Frames, down' = IF gone THEN down ELSE Append(down, g)
      PROVE  Contains(down', f) <=> Contains(down, f) \/ (~gone /\ f = g)
  BY <1>1, <1>2, AppendHas
<1>3. CASE down' = down
  BY <1>3
<1>4. CASE Receive
  <2>1. down # <<>> /\ down' = Tail(down)
    BY <1>4 DEF Receive
  <2> QED BY <1>1, <1>4, <2>1, TailHas
<1>5. CASE ChildGone
  BY <1>5 DEF ChildGone, Contains
<1>6. ASSUME NEW n \in Notes, ReceiveNote(n), ~Contains(acked, n)
      PROVE  Contains(down', f) <=> Contains(down, f) \/ (~gone /\ f = Frame(n, active))
  <2>1. Frame(n, active) \in Frames /\ down' = IF gone THEN down ELSE Append(down, Frame(n, active))
    BY <1>1, <1>6, FrameShape DEF ReceiveNote, Acknowledge
  <2> QED BY <2>1, <1>2
<1>7. ASSUME NEW q \in Queries, NEW ok \in BOOLEAN, Answer(q, ok)
      PROVE  Contains(down', f) <=> Contains(down, f) \/ (~gone /\ f = Frame(q, ok))
  <2>1. Frame(q, ok) \in Frames /\ down' = IF gone THEN down ELSE Append(down, Frame(q, ok))
    BY <1>1, <1>7, FrameShape DEF Answer
  <2> QED BY <2>1, <1>2
<1>8. ASSUME NEW q \in Queries, RefuseQuery(q)
      PROVE  Contains(down', f) <=> Contains(down, f) \/ (~gone /\ f = Frame(q, FALSE))
  BY <1>7, <1>8 DEF RefuseQuery
<1>9. ASSUME NEW q \in Queries, Expire(q), query[q] # "replying"
      PROVE  Contains(down', f) <=> Contains(down, f) \/ (~gone /\ f = Frame(q, FALSE))
  BY <1>7, <1>9 DEF Expire
<1>10. ASSUME NEW q \in Queries, Reply(q), down' # down
       PROVE  Contains(down', f) <=> Contains(down, f) \/ (~gone /\ f = Frame(q, TRUE))
  BY <1>7, <1>10 DEF Reply
<1>11. \/ down' = down \/ Receive \/ ChildGone
       \/ \E n \in Notes : ReceiveNote(n) /\ ~Contains(acked, n)
       \/ \E q \in Queries : RefuseQuery(q)
       \/ \E q \in Queries : Expire(q) /\ query[q] # "replying"
       \/ \E q \in Queries : Reply(q) /\ down' # down
  <2>1. ASSUME NEW n \in Notes, ReceiveNote(n), Contains(acked, n) PROVE down' = down
    BY <2>1 DEF ReceiveNote
  <2>2. ASSUME NEW q \in Queries, Expire(q), query[q] = "replying" PROVE down' = down
    BY <2>2 DEF Expire
  <2>3. ASSUME \/ \E i \in Ids : Send(i) \/ SendAgain(i) \/ TimeOut(i)
               \/ ChildDisconnect \/ Written \/ CloseIpc \/ SwitchSession \/ UNCHANGED vars
               \/ \E q \in Queries : OpenQuery(q)
        PROVE  down' = down
    BY <2>3 DEF Send, SendAgain, TimeOut, ChildDisconnect, OpenQuery, Written, CloseIpc, SwitchSession,
           vars
  <2> QED BY <2>1, <2>2, <2>3 DEF Next
<1>12. CASE \E n \in Notes : ReceiveNote(n) /\ ~Contains(acked, n)
  BY <1>6, <1>12
<1>13. CASE \E q \in Queries : RefuseQuery(q)
  BY <1>8, <1>13
<1>14. CASE \E q \in Queries : Expire(q) /\ query[q] # "replying"
  BY <1>9, <1>14
<1>15. CASE \E q \in Queries : Reply(q) /\ down' # down
  BY <1>10, <1>15
<1> QED BY <1>3, <1>4, <1>5, <1>11, <1>12, <1>13, <1>14, <1>15

----------------------------------------------------------------------------
(* Notifications.                                                          *)

Others(n) == {m \in Notes \ {n} : ask[m] # "unsent"}

\* A notification that entered the parent's queue, and has not been followed by a
\* window of others, is in the window.
NoteInv ==
  \A n \in Notes :
    /\ Once(acked, n)
    /\ Contains(down, Frame(n, TRUE)) \/ ask[n] = "kept" => entered[n] > 0
    /\ Cardinality(Others(n)) < Window /\ entered[n] > 0 => entered[n] = 1 /\ Contains(acked, n)

\* The window does not forget a notification as long as less than a window of others
\* was sent.
LEMMA NotForgotten ==
  ASSUME TypeOK, SendInv, SendInv', NoteInv, NEW m \in Notes, ReceiveNote(m), ~Contains(acked, m),
         NEW n \in Notes, Contains(acked, n) \/ n = m, Cardinality(Others(n)') < Window
  PROVE  Contains(acked', n)
<1> DEFINE order == Append(acked, m)
<1>1. /\ acked \in Seq(Notes) /\ Window \in Nat \ {0} /\ Len(acked) \in Nat /\ Len(acked) <= Window
      /\ Notes \subseteq Ids
  BY MessagingAssumption DEF TypeOK, Ids
<1>2. acked' = IF Len(order) > Window THEN Tail(order) ELSE order
  BY DEF ReceiveNote, Acknowledge
<1>3. /\ order \in Seq(Notes) /\ order # <<>> /\ Len(order) = Len(acked) + 1
      /\ Contains(order, n)
  BY <1>1, AppendHas
<1>4. \A k \in Notes : Once(order, k)
  BY <1>1, AppendOnce DEF NoteInv
<1> HIDE DEF order
<1>5. CASE ~(Len(order) > Window)
  BY <1>2, <1>3, <1>5
<1>6. CASE Len(order) > Window /\ Head(order) # n
  BY <1>2, <1>3, <1>6, TailHas
<1>7. CASE Len(order) > Window /\ Head(order) = n
  <2>1. acked' = Tail(order) /\ Len(Tail(order)) = Window /\ Tail(order) \in Seq(Notes)
    BY <1>1, <1>2, <1>3, <1>7
  <2>2. \A k \in Notes : Once(Tail(order), k)
    BY <1>3, <1>4, TailHas
  <2>3. ~Contains(Tail(order), n)
    BY <1>3, <1>4, <1>7, TailHas
  <2>4. IsFiniteSet(Others(n)')
    <3>1. Others(n)' \subseteq Sent'
      BY <1>1 DEF Others, Sent
    <3> QED BY <3>1, FS_Subset DEF SendInv
  <2>5. ASSUME NEW i \in 1 .. Len(Tail(order)) PROVE Tail(order)[i] \in Others(n)'
    <3>1. Tail(order)[i] \in Notes /\ Contains(Tail(order), Tail(order)[i])
      BY <2>1 DEF Contains
    <3>2. Tail(order)[i] # n /\ Tail(order)[i] \in Sent'
      BY <1>1, <2>1, <2>3, <3>1 DEF SendInv
    <3> QED BY <3>1, <3>2 DEF Others, Sent
  <2>6. Len(Tail(order)) <= Cardinality(Others(n)')
    BY <2>1, <2>2, <2>4, <2>5, DistinctCounts
  <2>7. Cardinality(Others(n)') \in Nat
    BY <2>4, FS_CardinalityType
  <2> QED BY <1>1, <2>1, <2>6, <2>7
<1> QED BY <1>5, <1>6, <1>7

LEMMA NoteStep ==
  ASSUME TypeOK, SendInv, SendInv', NoteInv, [Next]_vars PROVE NoteInv'
<1> SUFFICES ASSUME NEW n \in Notes
             PROVE  /\ Once(acked', n)
                    /\ Contains(down', Frame(n, TRUE)) \/ ask'[n] = "kept" => entered'[n] > 0
                    /\ Cardinality(Others(n)') < Window /\ entered'[n] > 0 =>
                         entered'[n] = 1 /\ Contains(acked', n)
  BY DEF NoteInv
<1>1. /\ n \in Ids /\ acked \in Seq(Notes) /\ down \in Seq(Frames) /\ Frame(n, TRUE) \in Frames
      /\ entered \in [Notes -> Nat] /\ entered[n] \in Nat
  BY FrameShape DEF TypeOK, Ids, Frames
<1>2. \/ acked' = acked /\ entered'[n] = entered[n]
      \/ \E m \in Notes :
           /\ ReceiveNote(m) /\ ~Contains(acked, m)
           /\ entered' = IF active THEN [entered EXCEPT ![m] = @ + 1] ELSE entered
  <2>1. CASE \E m \in Notes : ReceiveNote(m) /\ ~Contains(acked, m)
    BY <2>1 DEF ReceiveNote
  <2>2. CASE ~\E m \in Notes : ReceiveNote(m) /\ ~Contains(acked, m)
    BY <2>2 DEF Next, Send, SendAgain, TimeOut, Receive, ChildDisconnect, ChildGone, ReceiveNote,
                RefuseQuery, OpenQuery, Reply, Written, Expire, CloseIpc, SwitchSession, vars,
                runnerVars, parentVars
  <2> QED BY <2>1, <2>2
<1>3. entered'[n] >= entered[n]
  BY <1>1, <1>2
<1>4. Once(acked', n)
  <2>1. CASE acked' = acked
    BY <2>1 DEF NoteInv
  <2>2. ASSUME NEW m \in Notes, ReceiveNote(m), ~Contains(acked, m) PROVE Once(acked', n)
    <3>1. acked' = IF Len(Append(acked, m)) > Window THEN Tail(Append(acked, m)) ELSE Append(acked, m)
      BY <2>2 DEF ReceiveNote, Acknowledge
    <3>2. Once(Append(acked, m), n)
      BY <1>1, <2>2, AppendOnce DEF NoteInv
    <3>3. Append(acked, m) \in Seq(Notes) /\ Append(acked, m) # <<>>
      BY <1>1, AppendHas
    <3> QED BY <3>1, <3>2, <3>3, TailHas
  <2> QED BY <1>2, <2>1, <2>2
<1>5. ASSUME Contains(down', Frame(n, TRUE)) \/ ask'[n] = "kept" PROVE entered'[n] > 0
  <2>1. CASE Contains(down, Frame(n, TRUE)) \/ ask[n] = "kept"
    <3>1. entered[n] > 0
      BY <2>1 DEF NoteInv
    <3> QED BY <1>1, <1>2, <3>1
  <2>2. CASE ~Contains(down, Frame(n, TRUE)) /\ Contains(down', Frame(n, TRUE))
    <3>1. PICK m \in Notes : ReceiveNote(m) /\ ~Contains(acked, m) /\ Frame(n, TRUE) = Frame(m, active)
      <4>1. \A q \in Queries : Frame(n, TRUE) # Frame(q, TRUE) /\ Frame(n, TRUE) # Frame(q, FALSE)
        <5>1. n \notin Queries
          BY MessagingAssumption
        <5> QED BY <5>1 DEF Frame
      <4> QED BY <1>1, <2>2, <4>1, DownMoves
    <3>2. m = n /\ active = TRUE
      BY <3>1 DEF Frame
    <3>3. entered' = [entered EXCEPT ![n] = @ + 1]
      BY <3>1, <3>2 DEF ReceiveNote
    <3> QED BY <1>1, <3>3
  <2>3. CASE ask[n] # "kept" /\ ask'[n] = "kept"
    <3>1. Receive /\ down # <<>> /\ n = Head(down).id /\ Head(down).ok
      BY <1>1, <2>3, Promises DEF Send, TypeOK
    <3>2. Head(down) \in Frames /\ Contains(down, Head(down))
      BY <1>1, <3>1, TailHas
    <3>3. Head(down) = Frame(n, TRUE)
      BY <3>1, <3>2, FrameShape
    <3>4. entered[n] > 0
      BY <3>2, <3>3 DEF NoteInv
    <3> QED BY <1>1, <1>2, <3>4
  <2> QED BY <1>5, <2>1, <2>2, <2>3
<1>6. ASSUME Cardinality(Others(n)') < Window, entered'[n] > 0
      PROVE  entered'[n] = 1 /\ Contains(acked', n)
  <2>1. Cardinality(Others(n)) < Window
    <3>1. Others(n) \subseteq Others(n)'
      BY Promises DEF Others, Sent, Ids
    <3>2. IsFiniteSet(Others(n)')
      <4>1. Others(n)' \subseteq Sent'
        BY DEF Others, Sent, Ids
      <4> QED BY <4>1, FS_Subset DEF SendInv
    <3>3. /\ Cardinality(Others(n)) <= Cardinality(Others(n)')
          /\ Cardinality(Others(n)) \in Nat /\ Cardinality(Others(n)') \in Nat
      BY <3>1, <3>2, FS_Subset, FS_CardinalityType
    <3> QED BY <1>6, <3>3, MessagingAssumption
  <2>2. CASE acked' = acked /\ entered'[n] = entered[n]
    BY <1>6, <2>1, <2>2 DEF NoteInv
  <2>3. ASSUME NEW m \in Notes, ReceiveNote(m), ~Contains(acked, m),
               entered' = IF active THEN [entered EXCEPT ![m] = @ + 1] ELSE entered
        PROVE  entered'[n] = 1 /\ Contains(acked', n)
    <3>1. CASE m = n
      <4>1. entered[n] = 0
        <5>1. ~(entered[n] > 0)
          BY <2>1, <2>3, <3>1 DEF NoteInv
        <5> QED BY <1>1, <5>1
      <4>2. entered'[n] = 1
        BY <1>1, <1>6, <2>3, <3>1, <4>1
      <4> QED BY <1>6, <2>3, <3>1, <4>2, NotForgotten
    <3>2. CASE m # n
      <4>1. entered'[n] = entered[n]
        BY <1>1, <2>3, <3>2
      <4>2. entered[n] = 1 /\ Contains(acked, n)
        BY <1>6, <2>1, <4>1 DEF NoteInv
      <4> QED BY <1>6, <2>3, <4>1, <4>2, NotForgotten
    <3> QED BY <3>1, <3>2
  <2> QED BY <1>2, <2>2, <2>3
<1> QED BY <1>4, <1>5, <1>6

----------------------------------------------------------------------------
(* Replies.                                                                *)

\* The reply frames of q whose callback is still to come.
Writing(q, ok) == Contains(writes, Frame(q, ok))

\* Answers are not taken back.
LEMMA AnswersGrow ==
  ASSUME TypeOK, [Next]_vars, NEW q \in Queries
  PROVE  answered[q] \in Nat /\ answered'[q] >= answered[q]
<1>1. DOMAIN answered = Queries /\ answered[q] \in Nat
  BY DEF TypeOK
<1>2. answered' = answered \/ \E p \in Queries : answered' = [answered EXCEPT ![p] = @ + 1]
  <2>1. CASE \E p \in Queries : RefuseQuery(p) \/ Reply(p) \/ Expire(p)
    BY <2>1 DEF RefuseQuery, Reply, Expire, Answer
  <2>2. CASE ~\E p \in Queries : RefuseQuery(p) \/ Reply(p) \/ Expire(p)
    BY <2>2, ElsewhereKeeps DEF Next, Elsewhere, OpenQuery, Written, CloseIpc, history
  <2> QED BY <2>1, <2>2
<1> QED BY <1>1, <1>2

\* What a step does to a query, its reply() call and its reply frames.
LEMMA Replying ==
  ASSUME TypeOK, [Next]_vars, NEW q \in Queries
  PROVE  /\ query'[q] = "open" => query[q] = "open" \/ OpenQuery(q)
         /\ query'[q] = "replying" => query[q] = "replying" \/ Reply(q)
         /\ \/ told'[q] = told[q]
            \/ Reply(q) /\ told'[q] = "waiting"
            \/ /\ told[q] = "waiting" \/ query[q] = "replying"
               /\ told'[q] = "unavailable" /\ query'[q] # "replying"
            \/ /\ told[q] = "waiting" /\ told'[q] = "accepted" /\ query'[q] # "replying"
               /\ Writing(q, TRUE)
         /\ \A ok \in BOOLEAN : Writing(q, ok)' =>
              Writing(q, ok) \/ (Reply(q) /\ (ok => Answer(q, TRUE)))
<1>1. /\ DOMAIN query = Queries /\ DOMAIN told = Queries
      /\ writes \in Seq(Replies)
  BY DEF TypeOK, Replies
<1> DEFINE Moved ==
             /\ query'[q] = "open" => query[q] = "open" \/ OpenQuery(q)
             /\ query'[q] = "replying" => query[q] = "replying" \/ Reply(q)
             /\ \/ told'[q] = told[q]
                \/ Reply(q) /\ told'[q] = "waiting"
                \/ /\ told[q] = "waiting" \/ query[q] = "replying"
                   /\ told'[q] = "unavailable" /\ query'[q] # "replying"
                \/ /\ told[q] = "waiting" /\ told'[q] = "accepted" /\ query'[q] # "replying"
                   /\ Writing(q, TRUE)
           Wrote == \A ok \in BOOLEAN : Writing(q, ok)' =>
                      Writing(q, ok) \/ (Reply(q) /\ (ok => Answer(q, TRUE)))
<1>2. CASE Elsewhere
  <2>1. Moved
    BY <1>1, <1>2, ElsewhereKeeps
  <2> QED BY <2>1, <1>2, ElsewhereKeeps DEF Writing
<1>3. ASSUME NEW p \in Queries, RefuseQuery(p) PROVE Moved /\ Wrote
  <2>1. Moved
    BY <1>3 DEF RefuseQuery, runnerVars
  <2> QED BY <2>1, <1>3 DEF RefuseQuery, runnerVars, Writing
<1>4. ASSUME NEW p \in Queries, OpenQuery(p) PROVE Moved /\ Wrote
  <2>1. /\ query' = [query EXCEPT ![p] = "open"] /\ told' = told /\ writes' = writes
    BY <1>4 DEF OpenQuery
  <2> QED BY <1>1, <1>4, <2>1 DEF Writing
<1>5. ASSUME NEW p \in Queries, Expire(p) PROVE Moved /\ Wrote
  <2>1. /\ query' = [query EXCEPT ![p] = "none"] /\ writes' = writes
        /\ told' = told \/ (told' = [told EXCEPT ![p] = "unavailable"] /\ query[p] = "replying")
    BY <1>5 DEF Expire
  <2>2. Moved
    BY <1>1, <2>1
  <2> QED BY <2>1, <2>2 DEF Writing
<1>6. ASSUME NEW p \in Queries, Reply(p) PROVE Moved /\ Wrote
  <2>1. /\ query' = [query EXCEPT ![p] = "replying"]
        /\ told' = [told EXCEPT ![p] = "waiting"]
    BY <1>6 DEF Reply
  <2>2. Moved
    BY <1>1, <1>6, <2>1
  <2>3. PICK ok \in BOOLEAN : writes' = Append(writes, Frame(p, ok)) /\ (ok => Answer(p, TRUE))
    BY <1>6 DEF Reply
  <2>4. ASSUME NEW no \in BOOLEAN, Writing(q, no)'
        PROVE  Writing(q, no) \/ (Reply(q) /\ (no => Answer(q, TRUE)))
    <3>1. Contains(writes, Frame(q, no)) \/ Frame(q, no) = Frame(p, ok)
      BY <1>1, <2>3, <2>4, AppendHas, FrameShape DEF Writing
    <3>2. CASE Frame(q, no) = Frame(p, ok)
      <4>1. p = q /\ no = ok
        BY <3>2 DEF Frame
      <4> QED BY <1>6, <2>3, <4>1
    <3> QED BY <3>1, <3>2 DEF Writing
  <2> QED BY <2>2, <2>4
<1>7. CASE Written
  <2>1. /\ writes' = Tail(writes) /\ writes # <<>>
        /\ Head(writes) \in Replies /\ Contains(writes, Head(writes))
    BY <1>1, <1>7, TailHas DEF Written
  <2>2. Head(writes) = Frame(Head(writes).id, Head(writes).ok) /\ Head(writes).id \in Queries
        /\ Head(writes).ok \in BOOLEAN
    BY <2>1, FrameShape
  <2>3. Wrote
    BY <1>1, <2>1, TailHas DEF Writing
  <2>4. CASE told[Head(writes).id] = "waiting"
    <3>1. /\ query' = [query EXCEPT ![Head(writes).id] = "none"]
          /\ told' = [told EXCEPT ![Head(writes).id] = IF Head(writes).ok THEN "accepted" ELSE "unavailable"]
      BY <1>7, <2>4 DEF Written
    <3>2. Head(writes).id = q /\ Head(writes).ok => Writing(q, TRUE)
      BY <2>1, <2>2 DEF Writing
    <3>3. Moved
      BY <1>1, <2>1, <2>2, <2>4, <3>1, <3>2
    <3> QED BY <2>3, <3>3
  <2>5. CASE told[Head(writes).id] # "waiting"
    <3>1. told' = told /\ query' = query
      BY <1>7, <2>5 DEF Written
    <3> QED BY <1>1, <2>1, <2>3, <3>1
  <2> QED BY <2>4, <2>5
<1>8. CASE CloseIpc
  <2>1. /\ query' = [p \in Queries |-> "none"]
        /\ told' = [p \in Queries |-> IF told[p] = "waiting" THEN "unavailable" ELSE told[p]]
        /\ writes' = writes
    BY <1>8 DEF CloseIpc
  <2>2. Moved
    BY <1>1, <2>1
  <2> QED BY <2>1, <2>2 DEF Writing
<1> QED BY <1>2, <1>3, <1>4, <1>5, <1>6, <1>7, <1>8 DEF Next, Elsewhere

Refused(q) == Contains(down, Frame(q, FALSE)) \/ ask[q] = "refused"

\* A query whose frame comes once is heard once and answered once: its reply is the
\* answer, or there is none.
ReplyInv ==
  \A q \in Queries \ Repeatable :
    /\ Once(up, q) /\ heard[q] <= 1
    /\ Contains(up, q) => heard[q] = 0
    /\ query[q] = "replying" => told[q] = "waiting"
    /\ told[q] # "nothing" => heard[q] = 1 /\ query[q] # "open"
    /\ Contains(down, Frame(q, TRUE)) \/ ask[q] = "kept" \/ Writing(q, TRUE) \/ Writing(q, FALSE) =>
         told[q] # "nothing"
    /\ (told[q] = "accepted" \/ Writing(q, TRUE)) /\ ask[q] = "pending" =>
         Contains(down, Frame(q, TRUE))
    /\ Refused(q) => answered[q] = 1 /\ told[q] # "accepted" /\ ~Writing(q, TRUE)

\* The conjuncts of ReplyInv for one query, and what the other invariants say of it.
LEMMA OfQuery ==
  ASSUME TypeOK, SendInv, OneAnswer, NEW q \in Queries
  PROVE  /\ q \in Ids /\ q \notin Notes
         /\ heard[q] \in Nat /\ answered[q] \in Nat /\ answered[q] <= heard[q]
         /\ query[q] = "open" => answered[q] + 1 <= heard[q]
         /\ ask[q] = "unsent" => heard[q] = 0 /\ ~Contains(up, q)
         /\ gone => ask[q] # "pending"
         /\ Frame(q, TRUE) \in Frames /\ Frame(q, FALSE) \in Frames
         /\ down \in Seq(Frames)
<1>1. q \in Ids /\ q \notin Notes
  BY MessagingAssumption DEF Ids
<1>2. heard[q] \in Nat /\ answered[q] \in Nat
  BY DEF TypeOK
<1>3. answered[q] + (IF query[q] = "open" THEN 1 ELSE 0) <= heard[q]
  BY DEF OneAnswer
<1>4. ask[q] = "unsent" => heard[q] = 0 /\ ~Contains(up, q)
  BY <1>1, <1>2 DEF SendInv, Sent
<1>5. gone => ask[q] # "pending"
  BY <1>1 DEF SendInv
<1>6. /\ Frame(q, TRUE) \in Frames /\ Frame(q, FALSE) \in Frames
      /\ down \in Seq(Frames)
  BY <1>1, FrameShape DEF TypeOK, Frames
<1>7. answered[q] <= heard[q] /\ (query[q] = "open" => answered[q] + 1 <= heard[q])
  BY <1>2, <1>3
<1> QED BY <1>1, <1>2, <1>4, <1>5, <1>6, <1>7

LEMMA ReplyStep ==
  ASSUME TypeOK, TypeOK', SendInv, OneAnswer, OneAnswer', ReplyInv, [Next]_vars
  PROVE  ReplyInv'
<1> SUFFICES ASSUME NEW q \in Queries \ Repeatable
             PROVE  /\ Once(up', q) /\ heard'[q] <= 1
                    /\ Contains(up', q) => heard'[q] = 0
                    /\ query'[q] = "replying" => told'[q] = "waiting"
                    /\ told'[q] # "nothing" => heard'[q] = 1 /\ query'[q] # "open"
                    /\ Contains(down', Frame(q, TRUE)) \/ ask'[q] = "kept"
                         \/ Writing(q, TRUE)' \/ Writing(q, FALSE)' => told'[q] # "nothing"
                    /\ (told'[q] = "accepted" \/ Writing(q, TRUE)') /\ ask'[q] = "pending" =>
                         Contains(down', Frame(q, TRUE))
                    /\ Refused(q)' => /\ answered'[q] = 1 /\ told'[q] # "accepted"
                                      /\ ~Writing(q, TRUE)'
  BY DEF ReplyInv
<1>1. q \in Queries /\ q \in Ids /\ q \notin Notes /\ ~SendAgain(q)
  BY OfQuery DEF SendAgain
<1>2. /\ heard[q] \in Nat /\ answered[q] \in Nat /\ answered[q] <= heard[q]
      /\ query[q] = "open" => answered[q] + 1 <= heard[q]
      /\ ask[q] = "unsent" => heard[q] = 0 /\ ~Contains(up, q)
      /\ gone => ask[q] # "pending"
  BY OfQuery
<1>3. /\ Once(up, q) /\ heard[q] <= 1
      /\ Contains(up, q) => heard[q] = 0
      /\ query[q] = "replying" => told[q] = "waiting"
      /\ told[q] # "nothing" => heard[q] = 1 /\ query[q] # "open"
      /\ Contains(down, Frame(q, TRUE)) \/ ask[q] = "kept" \/ Writing(q, TRUE) \/ Writing(q, FALSE) =>
           told[q] # "nothing"
      /\ (told[q] = "accepted" \/ Writing(q, TRUE)) /\ ask[q] = "pending" =>
           Contains(down, Frame(q, TRUE))
      /\ Refused(q) => answered[q] = 1 /\ told[q] # "accepted" /\ ~Writing(q, TRUE)
  BY DEF ReplyInv
<1>4. Send(q) => ask[q] = "unsent" /\ heard' = heard
  BY ElsewhereKeeps, <1>1 DEF Send, Elsewhere
<1>5. Once(up', q)
  BY <1>1, <1>2, <1>3, <1>4, UpMoves
<1>6. /\ heard'[q] = heard[q] \/ (heard[q] = 0 /\ heard'[q] = 1 /\ ~Contains(up', q))
      /\ heard'[q] <= 1
  <2>1. CASE heard'[q] = heard[q]
    BY <1>3, <2>1
  <2>2. CASE heard'[q] # heard[q]
    <3>1. heard'[q] = heard[q] + 1 /\ up # <<>> /\ Head(up) = q /\ up' = Tail(up)
      BY <1>1, <2>2, Hears
    <3>2. Contains(up, q) /\ ~Contains(up', q)
      BY <1>1, <1>3, <3>1, Arrives
    <3> QED BY <1>3, <3>1, <3>2
  <2> QED BY <2>1, <2>2
<1>7. Contains(up', q) => heard'[q] = 0
  <2>1. Contains(up', q) => Contains(up, q) \/ Send(q)
    BY <1>1, UpMoves
  <2> QED BY <2>1, <1>2, <1>3, <1>4, <1>6
<1>8. /\ answered'[q] >= answered[q] /\ answered'[q] <= 1 /\ answered'[q] \in Nat
  <2>1. answered'[q] + (IF query'[q] = "open" THEN 1 ELSE 0) <= heard'[q]
    BY <1>1 DEF OneAnswer
  <2>2. answered'[q] \in Nat /\ heard'[q] \in Nat
    BY <1>1 DEF TypeOK
  <2>3. answered'[q] >= answered[q]
    BY <1>1, AnswersGrow
  <2> QED BY <2>1, <2>2, <2>3, <1>6
<1>9. Reply(q) => query[q] = "open" /\ answered[q] = 0 /\ heard[q] = 1 /\ told[q] = "nothing"
  BY <1>2, <1>3 DEF Reply
<1>10. Reply(q) => query'[q] = "replying" /\ told'[q] = "waiting"
  BY <1>1 DEF Reply, TypeOK
<1>11. query'[q] = "replying" => told'[q] = "waiting"
  BY <1>1, <1>3, <1>10, Replying
<1>12. told'[q] # "nothing" => heard'[q] = 1 /\ query'[q] # "open"
  <2>1. ASSUME told'[q] # "nothing" PROVE told[q] # "nothing" \/ Reply(q)
    BY <1>1, <1>3, <2>1, Replying
  <2>2. OpenQuery(q) => heard[q] = 0
    <3>1. OpenQuery(q) => Contains(up, q)
      BY <1>1, Arrives DEF OpenQuery
    <3> QED BY <1>3, <3>1
  <2>3. query'[q] = "open" => query[q] = "open" \/ OpenQuery(q)
    BY <1>1, Replying
  <2> QED BY <1>3, <1>6, <1>9, <1>10, <2>1, <2>2, <2>3
<1>13. /\ Frame(q, TRUE) \in Frames /\ Frame(q, FALSE) \in Frames /\ down \in Seq(Frames)
       /\ \A n \in Notes : Frame(q, TRUE) # Frame(n, active) /\ Frame(q, FALSE) # Frame(n, active)
       /\ \A p \in Queries : /\ Frame(q, TRUE) # Frame(p, FALSE)
                             /\ Frame(q, FALSE) # Frame(p, TRUE)
                             /\ Frame(q, TRUE) = Frame(p, TRUE) => p = q
                             /\ Frame(q, FALSE) = Frame(p, FALSE) => p = q
  <2>1. Frame(q, TRUE) \in Frames /\ Frame(q, FALSE) \in Frames /\ down \in Seq(Frames)
    BY <1>1, OfQuery
  <2> QED BY <1>1, <2>1 DEF Frame
<1>14. Contains(down', Frame(q, TRUE)) => Contains(down, Frame(q, TRUE)) \/ Reply(q)
  BY <1>1, <1>13, DownMoves
<1>15. Contains(down', Frame(q, FALSE)) =>
         \/ Contains(down, Frame(q, FALSE)) \/ RefuseQuery(q)
         \/ Expire(q) /\ query[q] # "replying"
  BY <1>1, <1>13, DownMoves
<1>16. /\ ask'[q] = "kept" => ask[q] = "kept" \/ Contains(down, Frame(q, TRUE))
       /\ ask'[q] = "refused" => Refused(q)
       /\ ask'[q] = "pending" => ask[q] = "pending" \/ Send(q)
  <2>1. ASSUME Receive, down # <<>>, q = Head(down).id
        PROVE  Contains(down, Frame(q, Head(down).ok)) /\ Head(down).ok \in BOOLEAN
    <3>1. Head(down) \in Frames /\ Contains(down, Head(down))
      BY <1>13, <2>1, TailHas
    <3>2. Head(down) = Frame(q, Head(down).ok) /\ Head(down).ok \in BOOLEAN
      BY <2>1, <3>1, FrameShape
    <3> QED BY <3>1, <3>2
  <2>2. Send(q) => ask'[q] \in {"pending", "failed"}
    BY <1>1 DEF Send, TypeOK
  <2> QED BY <1>1, <2>1, <2>2, Promises DEF Refused
<1>17. Contains(down', Frame(q, TRUE)) \/ ask'[q] = "kept" \/ Writing(q, TRUE)' \/ Writing(q, FALSE)' =>
         told'[q] # "nothing"
  <2>1. told[q] # "nothing" \/ Reply(q) => told'[q] # "nothing"
    BY <1>1, <1>10, Replying
  <2>2. /\ Writing(q, TRUE)' => Writing(q, TRUE) \/ Reply(q)
        /\ Writing(q, FALSE)' => Writing(q, FALSE) \/ Reply(q)
    BY <1>1, Replying
  <2> QED BY <1>3, <1>14, <1>16, <2>1, <2>2
<1>18. ASSUME told'[q] = "accepted" \/ Writing(q, TRUE)', ask'[q] = "pending"
       PROVE  Contains(down', Frame(q, TRUE))
  <2>1. \/ told[q] = "accepted" \/ Writing(q, TRUE)
        \/ Reply(q) /\ Answer(q, TRUE)
    BY <1>1, <1>10, <1>18, Replying
  <2>2. heard[q] = 1
    BY <1>3, <1>9, <2>1
  <2>3. ask[q] = "pending" /\ ~gone
    BY <1>2, <1>4, <1>16, <1>18, <2>2
  <2>4. CASE Reply(q) /\ Answer(q, TRUE)
    <3>1. down' = Append(down, Frame(q, TRUE))
      BY <2>3, <2>4 DEF Answer
    <3>2. Contains(Append(down, Frame(q, TRUE)), Frame(q, TRUE))
      <4>1. down \in Seq(Frames) /\ Frame(q, TRUE) \in Frames
        BY <1>13
      <4> QED BY ONLY <4>1, Appended
    <3> QED BY <3>1, <3>2
  <2>5. CASE told[q] = "accepted" \/ Writing(q, TRUE)
    <3>1. Contains(down, Frame(q, TRUE))
      BY <1>3, <2>3, <2>5
    <3>2. ~ChildGone
      BY <1>1, <1>18 DEF ChildGone, FailAll
    <3>3. ~(Receive /\ Frame(q, TRUE) = Head(down))
      <4>1. ASSUME Receive, Frame(q, TRUE) = Head(down) PROVE FALSE
        <5>1. Head(down).id = q /\ Head(down).ok = TRUE
          BY <4>1 DEF Frame
        <5>2. ask'[q] = "kept"
          BY <1>1, <2>3, <4>1, <5>1 DEF Receive, TypeOK
        <5> QED BY <1>18, <5>2
      <4> QED BY <4>1
    <3> QED BY <1>13, <3>1, <3>2, <3>3, DownMoves
  <2> QED BY <2>1, <2>4, <2>5
<1>19. ASSUME Refused(q)'
       PROVE  answered'[q] = 1 /\ told'[q] # "accepted" /\ ~Writing(q, TRUE)'
  <2>1. Refused(q) \/ RefuseQuery(q) \/ (Expire(q) /\ query[q] # "replying")
    BY <1>15, <1>16, <1>19 DEF Refused
  <2>2. CASE Refused(q)
    <3>1. answered[q] = 1 /\ told[q] # "accepted" /\ ~Writing(q, TRUE)
      BY <1>3, <2>2
    <3>3. ~Reply(q)
      BY <1>9, <3>1
    <3>2. answered'[q] = 1
      BY <1>8, <3>1
    <3> QED BY <1>1, <3>1, <3>2, <3>3, Replying
  <2>3. CASE RefuseQuery(q)
    <3>1. Contains(up, q)
      <4>1. up # <<>> /\ Head(up) = q /\ up' = Tail(up)
        BY <2>3 DEF RefuseQuery
      <4> QED BY <1>1, <4>1, Arrives
    <3>2. told[q] = "nothing" /\ ~Writing(q, TRUE)
      <4>1. heard[q] # 1
        BY <1>3, <3>1
      <4> QED BY <1>3, <4>1
    <3>3. told' = told /\ writes' = writes /\ answered' = [answered EXCEPT ![q] = @ + 1]
      BY <2>3 DEF RefuseQuery, runnerVars, Answer
    <3>4. answered'[q] = answered[q] + 1
      BY <1>1, <3>3 DEF TypeOK
    <3>5. answered'[q] = 1
      BY <1>2, <1>8, <3>4
    <3> QED BY <3>2, <3>3, <3>5 DEF Writing
  <2>4. CASE Expire(q) /\ query[q] # "replying"
    <3>1. query[q] = "open"
      BY <1>1, <2>4 DEF Expire, TypeOK
    <3>2. told[q] = "nothing" /\ ~Writing(q, TRUE)
      BY <1>3, <3>1
    <3>3. told' = told /\ writes' = writes /\ answered' = [answered EXCEPT ![q] = @ + 1]
      BY <2>4 DEF Expire, Answer
    <3>4. answered'[q] = answered[q] + 1
      BY <1>1, <3>3 DEF TypeOK
    <3>5. answered'[q] = 1
      BY <1>2, <1>8, <3>4
    <3> QED BY <3>2, <3>3, <3>5 DEF Writing
  <2> QED BY <2>1, <2>2, <2>3, <2>4
<1> QED BY <1>5, <1>6, <1>7, <1>11, <1>12, <1>17, <1>18, <1>19

----------------------------------------------------------------------------
(* The theorems.                                                           *)

ChannelIInv == TypeOK /\ OneAnswer /\ ShownIsOpen /\ SendInv /\ NoteInv /\ ReplyInv

LEMMA InitInv == Init => ChannelIInv
<1> SUFFICES ASSUME Init PROVE ChannelIInv
  OBVIOUS
<1>1. TypeOK
  <2>1. /\ up = <<>> /\ down = <<>> /\ acked = <<>> /\ writes = <<>> /\ Len(<<>>) = 0
        /\ Window \in Nat /\ MaxRepeats \in Nat
    BY MessagingAssumption DEF Init
  <2>2. up \in Seq(Ids) /\ acked \in Seq(Notes) /\ Len(acked) <= Window
    BY <2>1
  <2>3. down \in Seq([id : Ids, ok : BOOLEAN]) /\ writes \in Seq([id : Queries, ok : BOOLEAN])
    BY <2>1
  <2>4. repeats \in 0 .. MaxRepeats
    BY <2>1 DEF Init
  <2> QED BY <2>2, <2>3, <2>4 DEF Init, TypeOK
<1>2. OneAnswer /\ ShownIsOpen
  BY DEF Init, OneAnswer, ShownIsOpen
<1>3. /\ \A e : ~Contains(up, e) /\ ~Contains(down, e) /\ ~Contains(acked, e) /\ ~Contains(writes, e)
      /\ \A e : Once(up, e) /\ Once(acked, e)
  BY DEF Init, Contains, Once
<1>4. Sent = {}
  BY DEF Init, Sent
<1>5. SendInv
  BY <1>3, <1>4, FS_EmptySet DEF Init, SendInv, Ids
<1>6. NoteInv
  <2>1. \A n \in Notes : ask[n] = "unsent" /\ ~(entered[n] > 0)
    BY DEF Init, Ids
  <2> QED BY <1>3, <2>1 DEF NoteInv
<1>7. ReplyInv
  <2>1. \A q \in Queries : /\ ask[q] = "unsent" /\ heard[q] = 0 /\ query[q] = "none"
                            /\ told[q] = "nothing"
    BY DEF Init, Ids
  <2>2. \A q \in Queries : ~Refused(q) /\ ~Writing(q, TRUE) /\ ~Writing(q, FALSE)
    BY <1>3, <2>1 DEF Refused, Writing
  <2>3. \A q \in Queries : heard[q] <= 1
    BY <2>1
  <2> QED BY <1>3, <2>1, <2>2, <2>3 DEF ReplyInv
<1> QED BY <1>1, <1>2, <1>5, <1>6, <1>7 DEF ChannelIInv

\* Whatever order the frames, the callbacks, the timers and the ends come in
\* (agents-runner.ts receiveChildMessage, reply, expireQuery, closeIpc).
THEOREM ChannelInvariant == Spec => []ChannelIInv
<1>1. ChannelIInv /\ [Next]_vars => ChannelIInv'
  BY StepTyped, OneAnswerStep, ShownStep, SendStep, NoteStep, ReplyStep DEF ChannelIInv
<1> QED BY <1>1, InitInv, PTL DEF Spec

\* One answer to a query, no question left behind, and what the child and the
\* parent's model are told is what became of the frame.
THEOREM ChannelKept == Spec => []ChannelInv
<1>1. ChannelIInv => ChannelInv
  <2> SUFFICES ASSUME ChannelIInv PROVE ChannelInv
    OBVIOUS
  <2>1. NoticeOnce
    <3>1. ASSUME NEW n \in Notes, Cardinality(Others(n)) < Window PROVE entered[n] <= 1
      <4>1. entered[n] \in Nat
        BY DEF ChannelIInv, TypeOK
      <4>2. entered[n] > 0 => entered[n] = 1
        BY <3>1 DEF ChannelIInv, NoteInv
      <4> QED BY <4>1, <4>2
    <3> QED BY <3>1 DEF ChannelIInv, NoteInv, NoticeOnce, Others
  <2>2. ReplyIsTrue
    BY DEF ChannelIInv, ReplyInv, ReplyIsTrue, Refused
  <2> QED BY <2>1, <2>2 DEF ChannelIInv, ChannelInv
<1> QED BY <1>1, ChannelInvariant, PTL

(***************************************************************************)
(* The sounds.                                                             *)
(***************************************************************************)
----------------------------------------------------------------------------
(* The optional parts of a scheduler, and the times they hold              *)

\* At most one element.
One(S) == \A x, y \in S : x = y

LEMMA OneIsSmall ==
  ASSUME NEW S, One(S)
  PROVE  IsFiniteSet(S) /\ Cardinality(S) <= 1
<1>1. CASE S = {}
  BY <1>1, FS_EmptySet
<1>2. ASSUME NEW x \in S PROVE IsFiniteSet(S) /\ Cardinality(S) <= 1
  <2>1. S = {x}
    BY One(S) DEF One
  <2>2. IsFiniteSet({x}) /\ Cardinality({x}) = 1
    BY FS_Singleton
  <2> QED BY <2>1, <2>2
<1> QED BY <1>1, <1>2

LEMMA MaxOfTwo ==
  ASSUME NEW a \in Int, NEW b \in Int
  PROVE  /\ Max({a, b}) \in {a, b}
         /\ Max({a, b}) >= a
         /\ Max({a, b}) >= b
<1>1. \E x \in {a, b} : \A y \in {a, b} : x >= y
  BY SMT
<1> QED BY <1>1 DEF Max

LEMMA MinOfTwo ==
  ASSUME NEW a \in Int, NEW b \in Int
  PROVE  /\ Min({a, b}) \in {a, b}
         /\ Min({a, b}) <= a
         /\ Min({a, b}) <= b
<1>1. \E x \in {a, b} : \A y \in {a, b} : x <= y
  BY SMT
<1> QED BY <1>1 DEF Min

LEMMA MaxOfOne ==
  ASSUME NEW S \in SUBSET Int, NEW t \in S, One(S)
  PROVE  Max(S) = t
<1>1. \A y \in S : t >= y
  BY DEF One
<1>2. \A x \in S : x = t
  BY DEF One
<1>3. Max(S) \in S
  BY <1>1 DEF Max
<1> QED BY <1>2, <1>3

----------------------------------------------------------------------------
(* The inductive invariant                                                 *)

Phases == {"called", "detecting", "sounding", "over"}
Candidates == [at : Int, held : Int, expires : Int, priority : Int, ready : Int,
               paused : SUBSET Int]
Playbacks == [at : Int, held : Int, expires : Int, auto : BOOLEAN, aborted : BOOLEAN,
              phase : Phases]
States == [on : BOOLEAN, disposed : BOOLEAN, pending : SUBSET Candidates,
           active : SUBSET Playbacks, timer : SUBSET Int, expiry : SUBSET Int, last : Int]

\* A candidate will expire, paused or not, before it is older than its time to
\* live plus what it was held behind sounds.
CandidateInTime(p) ==
  /\ p.expires >= 0 /\ p.ready >= 0
  /\ One(p.paused)
  /\ p.paused = {} => (p.expires <= now + TTL /\ p.expires <= p.at + p.held + TTL)
  /\ \A t \in p.paused :
       /\ t \in 0 .. now
       /\ p.expires <= t + TTL
       /\ p.expires + (now - t) <= p.at + p.held + TTL

\* So will an automatic playback that has not started, and the interval since
\* the last start is over.
PlaybackInTime(r, a) ==
  a.auto => /\ a.expires <= a.at + a.held + TTL
            /\ a.phase \in {"called", "detecting"} => now >= r.last + Interval

\* What holds of a scheduler before schedule() looks at its candidate.
Loose(r) ==
  /\ r \in States
  /\ One(r.pending) /\ One(r.active) /\ One(r.timer) /\ One(r.expiry)
  /\ r.timer \subseteq Times /\ r.expiry \subseteq Times
  /\ -Interval <= r.last /\ r.last <= now
  /\ \A p \in r.pending : CandidateInTime(p)
  /\ \A a \in r.active : PlaybackInTime(r, a)
  /\ r.pending # {} => r.on
  /\ r.disposed => ~r.on
  /\ \A a \in r.active : (r.disposed \/ (a.auto /\ ~r.on)) => a.aborted

\* And after: only behind a sound is a candidate paused, and it has a wake.
Sound(r) ==
  /\ Loose(r)
  /\ \A p \in r.pending : p.paused # {} => Started(r)
  /\ r.pending # {} => (r.timer # {} \/ Started(r))

SchedulersInv == \A s \in Schedulers : Sound(sch[s])

\* The backend is at work for one scheduler at most.
Playing(r) == \E a \in r.active : a.phase \in {"detecting", "sounding"}
PlaybackInv ==
  \A s \in Schedulers : /\ Playing(sch[s]) => playback = s
                        /\ \A a \in sch[s].active : a.phase # "called"

Ranges ==
  /\ now \in 0 .. MaxTime /\ cur \in Schedulers /\ playback \in {0} \union Schedulers
  /\ seen \subseteq Occurrences
  /\ sch \in [Schedulers -> States]
  /\ ~sch[cur].disposed

SoundsIInv == Ranges /\ SchedulersInv /\ PlaybackInv

----------------------------------------------------------------------------
(* schedule()                                                              *)

\* Fields of a scheduler, replaced.
LEMMA Changed ==
  ASSUME NEW r \in States
  PROVE  /\ \A x \in SUBSET Candidates : [r EXCEPT !.pending = x] \in States
         /\ \A x \in SUBSET Playbacks : [r EXCEPT !.active = x] \in States
         /\ \A x \in SUBSET Int : [r EXCEPT !.timer = x] \in States
         /\ \A x \in SUBSET Int : [r EXCEPT !.expiry = x] \in States
         /\ \A x \in Int : [r EXCEPT !.last = x] \in States
         /\ \A x \in BOOLEAN : [r EXCEPT !.on = x] \in States
BY DEF States

\* A candidate that is no longer behind a sound has its time back.
LEMMA Resuming ==
  ASSUME LimitsOK, now \in 0 .. MaxTime, NEW r, Loose(r), NEW p \in r.pending
  PROVE  LET q == Resumed(r, p) IN
         /\ q \in Candidates /\ CandidateInTime(q)
         /\ q.paused # {} => Started(r)
<1> DEFINE q == Resumed(r, p)
<1>1. /\ p \in Candidates /\ CandidateInTime(p)
      /\ now \in Int /\ TTL \in Int /\ now >= 0
  BY DEF Loose, States, LimitsOK
<1>2. CASE p.paused = {} \/ Started(r)
  BY <1>1, <1>2 DEF Resumed
<1>3. CASE ~(p.paused = {} \/ Started(r))
  <2>1. PICK t \in p.paused : TRUE
    BY <1>3
  <2>2. Max(p.paused) = t /\ t \in Int
    BY <1>1, <2>1, MaxOfOne DEF CandidateInTime, Candidates
  <2>3. q = [p EXCEPT !.expires = @ + now - t, !.paused = {}]
    BY <1>3, <2>2 DEF Resumed
  <2>4. q \in Candidates /\ q.paused = {} /\ q.expires = p.expires + now - t
        /\ q.at = p.at /\ q.held = p.held /\ q.ready = p.ready
    <3> DEFINE u == [p EXCEPT !.expires = @ + now - t]
    <3>1. u \in Candidates /\ u.expires = p.expires + now - t
          /\ u.at = p.at /\ u.held = p.held /\ u.ready = p.ready
      BY <1>1, <2>2 DEF Candidates
    <3>2. q = [u EXCEPT !.paused = {}]
      BY <1>1, <2>3 DEF Candidates
    <3> HIDE DEF u, q
    <3> QED BY <3>1, <3>2 DEF Candidates
  <2>5. /\ t <= now /\ p.expires <= t + TTL /\ p.expires + (now - t) <= p.at + p.held + TTL
        /\ p.expires >= 0 /\ p.ready >= 0
    BY <1>1, <2>1 DEF CandidateInTime
  <2>6. CandidateInTime(q)
    BY <1>1, <2>2, <2>4, <2>5 DEF CandidateInTime, One, Candidates
  <2> QED BY <2>4, <2>6
<1> QED BY <1>2, <1>3

LEMMA Scheduling ==
  ASSUME LimitsOK, now \in 0 .. MaxTime, NEW r, Loose(r)
  PROVE  LET q == Scheduled(r) IN
         /\ Sound(q)
         /\ q.disposed = r.disposed /\ q.on = r.on /\ q.last = r.last
         /\ Started(q) <=> Started(r)
         /\ \/ q.active = r.active
            \/ r.active = {} /\ \A a \in q.active : a.phase = "called"
<1> DEFINE q == Scheduled(r)
<1>1. /\ r \in States /\ now \in Int /\ now >= 0 /\ now <= MaxTime
      /\ TTL \in Nat /\ Interval \in Nat /\ MaxTime \in Nat
  BY DEF Loose, LimitsOK
<1>2. CASE ~r.on \/ r.pending = {}
  <2>1. q = [r EXCEPT !.timer = {}] /\ r.pending = {}
    BY <1>2 DEF Scheduled, Loose
  <2>2. q \in States /\ q.timer = {} /\ q.pending = {} /\ q.active = r.active /\ q.expiry = r.expiry
        /\ q.on = r.on /\ q.disposed = r.disposed /\ q.last = r.last
    BY <1>1, <2>1 DEF States
  <2> QED BY <2>2 DEF Loose, Sound, One, PlaybackInTime, Started
<1>3. CASE r.on /\ r.pending # {}
  <2>1. PICK p \in r.pending : r.pending = {p}
    BY <1>3 DEF Loose, One
  <2> DEFINE w == Resumed(r, p)
             kept == {x \in {w} : x.paused # {} \/ now < x.expires}
  <2>2. w \in Candidates /\ CandidateInTime(w) /\ (w.paused # {} => Started(r))
    BY Resuming
  <2>3. {x \in {Resumed(r, y) : y \in r.pending} : x.paused # {} \/ now < x.expires} = kept
    BY <2>1
  <2> HIDE DEF w, kept
  <2>4. CASE kept = {}
    <3>1. q = [r EXCEPT !.timer = {}, !.pending = {}]
      BY <1>3, <2>3, <2>4 DEF Scheduled
    <3>2. q \in States /\ q.timer = {} /\ q.pending = {} /\ q.active = r.active /\ q.expiry = r.expiry
          /\ q.on = r.on /\ q.disposed = r.disposed /\ q.last = r.last
      BY <1>1, <3>1 DEF States
    <3> QED BY <3>2 DEF Loose, Sound, One, PlaybackInTime, Started
  <2>5. CASE kept # {}
    <3>1. kept = {w}
      BY <2>5 DEF kept
    <3>2. q = IF Started(r)
              THEN [r EXCEPT !.timer = {},
                             !.pending = {[w EXCEPT !.paused = IF @ = {} THEN {now} ELSE @]}]
              ELSE IF r.active = {} /\ now >= Due(r, w) THEN Played(r, w)
              ELSE [r EXCEPT !.pending = {w},
                             !.timer = {IF r.active # {} THEN w.expires
                                        ELSE Min({Due(r, w), w.expires})}]
      <4> DEFINE G(x) == IF Started(r)
              THEN [r EXCEPT !.timer = {},
                             !.pending = {[x EXCEPT !.paused = IF @ = {} THEN {now} ELSE @]}]
              ELSE IF r.active = {} /\ now >= Due(r, x) THEN Played(r, x)
              ELSE [r EXCEPT !.pending = {x},
                             !.timer = {IF r.active # {} THEN x.expires
                                        ELSE Min({Due(r, x), x.expires})}]
           raw == {x \in {Resumed(r, y) : y \in r.pending} : x.paused # {} \/ now < x.expires}
      <4>1. q = G(CHOOSE x \in kept : TRUE)
        <5>1. raw # {} => q = G(CHOOSE x \in raw : TRUE)
          BY <1>3 DEF Scheduled
        <5> HIDE DEF G, q, raw
        <5> QED BY <2>3, <2>5, <5>1 DEF raw
      <4>2. (CHOOSE x \in kept : TRUE) = w
        BY <3>1
      <4> HIDE DEF G, q
      <4>3. q = G(w)
        BY <4>1, <4>2
      <4> QED BY <4>3 DEF G
    <3>3. Due(r, w) \in Int /\ Due(r, w) >= 0 /\ Due(r, w) >= r.last + Interval
      <4>1. w.ready \in Int /\ w.ready >= 0 /\ r.last + Interval \in Int
        BY <1>1, <2>2 DEF Candidates, CandidateInTime, States
      <4>2. /\ Max({w.ready, r.last + Interval}) \in {w.ready, r.last + Interval}
            /\ Max({w.ready, r.last + Interval}) >= w.ready
            /\ Max({w.ready, r.last + Interval}) >= r.last + Interval
        BY ONLY <4>1, MaxOfTwo
      <4> QED BY <4>1, <4>2 DEF Due
    <3>4. /\ w.expires \in Int /\ w.at \in Int /\ w.held \in Int /\ w.expires >= 0
          /\ w.paused = {} => (w.expires <= now + TTL /\ w.expires <= w.at + w.held + TTL)
      BY <1>1, <2>2 DEF Candidates, CandidateInTime
    <3>5. CASE Started(r)
      <4> DEFINE v == [w EXCEPT !.paused = IF @ = {} THEN {now} ELSE @]
      <4>1. /\ v \in Candidates /\ v.at = w.at /\ v.held = w.held /\ v.expires = w.expires
            /\ v.ready = w.ready /\ v.paused = IF w.paused = {} THEN {now} ELSE w.paused
        BY <1>1, <2>2 DEF Candidates
      <4>2. CandidateInTime(v)
        <5>1. CASE w.paused = {}
          BY <1>1, <2>2, <3>4, <4>1, <5>1 DEF CandidateInTime, One
        <5>2. CASE w.paused # {}
          BY <1>1, <2>2, <3>4, <4>1, <5>2 DEF CandidateInTime, One
        <5> QED BY <5>1, <5>2
      <4> HIDE DEF v
      <4>3. q = [r EXCEPT !.timer = {}, !.pending = {v}]
        BY <3>2, <3>5 DEF v
      <4>4. q \in States /\ q.timer = {} /\ q.pending = {v} /\ q.active = r.active
            /\ q.expiry = r.expiry /\ q.on = r.on /\ q.disposed = r.disposed /\ q.last = r.last
        BY <1>1, <4>1, <4>3 DEF States
      <4> QED BY <1>3, <3>5, <4>2, <4>4 DEF Loose, Sound, One, PlaybackInTime, Started
    <3>6. CASE ~Started(r) /\ r.active = {} /\ now >= Due(r, w)
      <4> DEFINE a == [at |-> w.at, held |-> w.held, expires |-> w.expires, auto |-> TRUE,
                       aborted |-> FALSE, phase |-> "called"]
      <4>1. a \in Playbacks /\ a.phase = "called"
        BY <3>4 DEF Playbacks, Phases
      <4>2. q = [r EXCEPT !.pending = {}, !.timer = {}, !.expiry = {w.expires}, !.active = {a}]
        BY <3>2, <3>6 DEF Played
      <4>3. q \in States /\ q.timer = {} /\ q.pending = {} /\ q.active = {a}
            /\ q.expiry = {w.expires} /\ q.on = r.on /\ q.disposed = r.disposed /\ q.last = r.last
        <5> DEFINE r1 == [r EXCEPT !.pending = {}]
                   r2 == [r1 EXCEPT !.timer = {}]
                   r3 == [r2 EXCEPT !.expiry = {w.expires}]
        <5>1. r1 \in States /\ r2 \in States /\ r3 \in States
          BY <1>1, <3>4, Changed
        <5>2. q = [r3 EXCEPT !.active = {a}]
          BY <1>1, <4>2 DEF States
        <5> HIDE DEF a
        <5>3. q \in States
          <6> HIDE DEF r3, q
          <6> QED BY <4>1, <5>1, <5>2, Changed
        <5> QED BY <1>1, <4>2, <5>3 DEF States
      <4>4. PlaybackInTime(q, a)
        BY <1>1, <2>2, <3>3, <3>4, <3>6, <4>3 DEF PlaybackInTime, States
      <4>5. w.expires \in Times
        BY <1>1, <2>2, <3>4, <3>6 DEF Times
      <4>6. ~(q.disposed \/ (a.auto /\ ~q.on))
        BY <1>3, <4>3 DEF Loose
      <4>7. ~Started(q)
        BY <4>1, <4>3 DEF Started
      <4> HIDE DEF a
      <4> QED BY <3>6, <4>1, <4>3, <4>4, <4>5, <4>6, <4>7 DEF Loose, Sound, One
    <3>7. CASE ~Started(r) /\ ~(r.active = {} /\ now >= Due(r, w))
      <4> DEFINE t == IF r.active # {} THEN w.expires ELSE Min({Due(r, w), w.expires})
      <4>1. t \in Int /\ t >= 0 /\ t <= w.expires
        <5>1. /\ Min({Due(r, w), w.expires}) \in {Due(r, w), w.expires}
              /\ Min({Due(r, w), w.expires}) <= w.expires
          BY ONLY <3>3, <3>4, MinOfTwo
        <5> QED BY <3>3, <3>4, <5>1
      <4>2. t \in Times
        BY <1>1, <2>2, <3>4, <3>7, <4>1 DEF Times
      <4> HIDE DEF t
      <4>3. q = [r EXCEPT !.pending = {w}, !.timer = {t}]
        BY <3>2, <3>7 DEF t
      <4>4. q \in States /\ q.timer = {t} /\ q.pending = {w} /\ q.active = r.active
            /\ q.expiry = r.expiry /\ q.on = r.on /\ q.disposed = r.disposed /\ q.last = r.last
        <5>1. [r EXCEPT !.pending = {w}] \in States
          BY <1>1, <2>2, Changed
        <5>2. q = [[r EXCEPT !.pending = {w}] EXCEPT !.timer = {t}]
          BY <1>1, <4>3 DEF States
        <5>3. q \in States
          BY <4>1, <5>1, <5>2, Changed
        <5> QED BY <1>1, <4>3, <5>3 DEF States
      <4> QED BY <1>3, <2>2, <3>7, <4>2, <4>4 DEF Loose, Sound, One, PlaybackInTime, Started
    <3> QED BY <3>5, <3>6, <3>7
  <2> QED BY <2>4, <2>5
<1> QED BY <1>2, <1>3

----------------------------------------------------------------------------
(* The steps                                                               *)

\* No scheduler starts a sound.
Quiet == \A z \in Schedulers : Started(sch[z])' => Started(sch[z])

\* A player that is called takes the backend if that is free.
Answered(s, r) ==
  [r EXCEPT !.active = {IF a.phase # "called" THEN a
                        ELSE [a EXCEPT !.phase = IF Free(s) THEN "detecting" ELSE "over"] : a \in @}]

LEMMA Answering ==
  ASSUME NEW s \in Schedulers, NEW r, Sound(r)
  PROVE  LET q == Answered(s, r) IN
         /\ Sound(q)
         /\ q.disposed = r.disposed
         /\ Started(q) <=> Started(r)
         /\ \A b \in q.active :
              /\ b.phase # "called"
              /\ b.phase \in {"detecting", "sounding"} =>
                   \E a \in r.active : a.phase \in {b.phase, "called"} /\ (a.phase = "called" => Free(s))
<1> DEFINE f(a) == IF a.phase # "called" THEN a
                   ELSE [a EXCEPT !.phase = IF Free(s) THEN "detecting" ELSE "over"]
           q == Answered(s, r)
<1>1. r \in States
  BY DEF Sound, Loose
<1>2. \A a \in r.active :
        /\ f(a) \in Playbacks /\ f(a).phase # "called"
        /\ f(a).at = a.at /\ f(a).held = a.held /\ f(a).expires = a.expires
        /\ f(a).phase \in {"detecting", "sounding"} =>
             (a.phase \in {f(a).phase, "called"} /\ (a.phase = "called" => Free(s)))
        /\ f(a).phase = "sounding" <=> a.phase = "sounding"
        /\ f(a).phase = "detecting" => a.phase \in {"called", "detecting"}
  BY <1>1 DEF States, Playbacks, Phases
<1>3. \A a \in r.active : f(a).auto = a.auto /\ f(a).aborted = a.aborted
  BY <1>1 DEF States, Playbacks
<1>4. q = [r EXCEPT !.active = {f(a) : a \in r.active}]
  BY <1>1 DEF Answered, States
<1> HIDE DEF f, q
<1>5. {f(a) : a \in r.active} \in SUBSET Playbacks
  BY <1>2
<1>6. q \in States
  BY <1>1, <1>4, <1>5, Changed
<1>7. /\ q.active = {f(a) : a \in r.active} /\ q.pending = r.pending /\ q.timer = r.timer
      /\ q.expiry = r.expiry /\ q.on = r.on /\ q.disposed = r.disposed /\ q.last = r.last
  BY <1>1, <1>4 DEF States
<1>8. Started(q) <=> Started(r)
  BY <1>2, <1>7 DEF Started
<1>9. One(q.active)
  BY <1>7 DEF One, Sound, Loose
<1>10. \A b \in q.active : PlaybackInTime(q, b)
  BY <1>2, <1>3, <1>7 DEF Sound, Loose, PlaybackInTime
<1>11. \A b \in q.active : (q.disposed \/ (b.auto /\ ~q.on)) => b.aborted
  BY <1>3, <1>7 DEF Sound, Loose
<1>12. Sound(q)
  BY <1>6, <1>7, <1>8, <1>9, <1>10, <1>11 DEF Sound, Loose
<1>13. \A b \in q.active :
         /\ b.phase # "called"
         /\ b.phase \in {"detecting", "sounding"} =>
              \E a \in r.active : a.phase \in {b.phase, "called"} /\ (a.phase = "called" => Free(s))
  BY <1>2, <1>7
<1> QED BY <1>7, <1>8, <1>12, <1>13 DEF q

LEMMA ZeroIsNone == 0 \notin Schedulers
BY DEF Schedulers

\* Scheduler s goes on as r.
LEMMA Becoming ==
  ASSUME LimitsOK, SoundsIInv, NEW s \in Schedulers, NEW r, Sound(r), Becomes(s, r),
         s = cur => ~r.disposed,
         \A a \in r.active : a.phase \in {"detecting", "sounding"} => playback = s,
         UNCHANGED <<now, cur>>, seen' \subseteq Occurrences
  PROVE  /\ SoundsIInv'
         /\ Started(sch[s])' <=> Started(r)
         /\ \A z \in Schedulers \ {s} : Started(sch[z])' <=> Started(sch[z])
<1> DEFINE q == Answered(s, r)
<1>1. sch' = [sch EXCEPT ![s] = q]
  BY DEF Becomes, Answered
<1>2. /\ Sound(q)
      /\ q.disposed = r.disposed
      /\ Started(q) <=> Started(r)
      /\ \A b \in q.active :
           /\ b.phase # "called"
           /\ b.phase \in {"detecting", "sounding"} =>
                \E a \in r.active : a.phase \in {b.phase, "called"} /\ (a.phase = "called" => Free(s))
  BY Answering
<1> HIDE DEF q
<1>3. /\ sch \in [Schedulers -> States] /\ playback \in {0} \union Schedulers /\ 0 \notin Schedulers
      /\ \A z \in Schedulers : Sound(sch[z])
      /\ \A z \in Schedulers : (Playing(sch[z]) => playback = z) /\ \A a \in sch[z].active : a.phase # "called"
      /\ now \in 0 .. MaxTime /\ cur \in Schedulers /\ ~sch[cur].disposed
  BY ZeroIsNone DEF SoundsIInv, Ranges, SchedulersInv, PlaybackInv
<1>4. /\ sch' \in [Schedulers -> States] /\ sch'[s] = q
      /\ \A z \in Schedulers \ {s} : sch'[z] = sch[z]
  BY <1>1, <1>2, <1>3 DEF Sound, Loose
<1>5. \A z \in Schedulers : Sound(sch'[z])
  BY <1>2, <1>3, <1>4
<1>6. playback' = IF (\E a \in r.active : a.phase = "called") /\ Free(s) THEN s
                  ELSE IF playback = s /\ r.active = {} THEN 0 ELSE playback
  BY DEF Becomes
<1>7. Playing(q) => playback' = s
  <2>1. SUFFICES ASSUME NEW a \in r.active, a.phase \in {"detecting", "sounding", "called"},
                        a.phase = "called" => Free(s)
                 PROVE  playback' = s
    BY <1>2 DEF Playing
  <2> QED BY <1>6, <2>1
<1>8. \A z \in Schedulers \ {s} : Playing(sch[z]) => playback' = z
  BY <1>3, <1>6 DEF Free
<1>9. playback' \in {0} \union Schedulers
  BY <1>3, <1>6
<1>10. \A z \in Schedulers : Sound(sch[z])'
  <2> SUFFICES ASSUME NEW z \in Schedulers PROVE Sound(sch[z])'
    OBVIOUS
  <2>1. Sound(sch'[z]) /\ now' = now
    BY <1>5
  <2> QED BY <2>1 DEF Sound, Loose, CandidateInTime, PlaybackInTime, Started
<1>11. PlaybackInv'
  BY <1>2, <1>3, <1>4, <1>7, <1>8 DEF PlaybackInv, Playing
<1>12. Ranges'
  BY <1>2, <1>3, <1>4, <1>9 DEF Ranges
<1>13. SoundsIInv'
  BY <1>10, <1>11, <1>12 DEF SoundsIInv, SchedulersInv
<1>14. /\ Started(sch[s])' <=> Started(r)
       /\ \A z \in Schedulers \ {s} : Started(sch[z])' <=> Started(sch[z])
  BY <1>2, <1>4 DEF Started
<1> QED BY <1>13, <1>14

LEMMA InvInit == LimitsOK /\ SoundsInit => SoundsIInv
<1> SUFFICES ASSUME LimitsOK, SoundsInit PROVE SoundsIInv
  OBVIOUS
<1>1. /\ Interval \in Nat /\ MaxTime \in Nat /\ TTL \in Nat /\ Replacements \in Nat
      /\ 0 - Interval = -Interval
  BY DEF LimitsOK
<1>2. \A b \in BOOLEAN :
        /\ Fresh(b) \in States /\ ~Fresh(b).disposed
        /\ Fresh(b).pending = {} /\ Fresh(b).active = {} /\ Fresh(b).timer = {}
        /\ Fresh(b).expiry = {} /\ Fresh(b).last = -Interval
  BY <1>1 DEF Fresh, States
<1>3. now = 0
  BY DEF SoundsInit
<1>4. \A b \in BOOLEAN : Sound(Fresh(b))
  BY <1>1, <1>2, <1>3 DEF Sound, Loose, One
<1>5. 1 \in Schedulers /\ \A s \in Schedulers : (s = 1) \in BOOLEAN
  BY <1>1 DEF Schedulers
<1>6. \A s \in Schedulers : sch[s] = Fresh(s = 1)
  BY DEF SoundsInit
<1>7. Ranges
  <2>1. sch \in [Schedulers -> States]
    BY <1>2, <1>5 DEF SoundsInit
  <2>2. ~sch[cur].disposed
    BY <1>2, <1>5, <1>6 DEF SoundsInit
  <2> QED BY <1>1, <1>5, <2>1, <2>2 DEF Ranges, SoundsInit
<1>8. SchedulersInv
  BY <1>4, <1>5, <1>6 DEF SchedulersInv
<1>9. PlaybackInv
  BY <1>2, <1>5, <1>6 DEF PlaybackInv, Playing
<1> QED BY <1>7, <1>8, <1>9 DEF SoundsIInv

\* What SoundsIInv says of one scheduler.
LEMMA Has ==
  ASSUME LimitsOK, SoundsIInv, NEW s \in Schedulers
  PROVE  /\ Sound(sch[s]) /\ Loose(sch[s]) /\ sch[s] \in States
         /\ \A a \in sch[s].active :
              /\ a \in Playbacks /\ a.phase # "called"
              /\ a.phase \in {"detecting", "sounding"} => playback = s
         /\ s = cur => ~sch[s].disposed
         /\ now \in 0 .. MaxTime /\ now \in Int /\ cur \in Schedulers
  BY DEF SoundsIInv, Ranges, SchedulersInv, PlaybackInv, Playing, Sound, Loose, States, LimitsOK

\* A scheduler goes on as schedule() leaves it.
LEMMA Rescheduled ==
  ASSUME LimitsOK, SoundsIInv, NEW s \in Schedulers, NEW r, Loose(r), Becomes(s, Scheduled(r)),
         s = cur => ~r.disposed,
         \A a \in r.active : a.phase \in {"detecting", "sounding"} => playback = s,
         UNCHANGED <<now, cur>>, seen' \subseteq Occurrences
  PROVE  /\ SoundsIInv'
         /\ Started(sch[s])' <=> Started(r)
         /\ \A z \in Schedulers \ {s} : Started(sch[z])' <=> Started(sch[z])
<1> DEFINE q == Scheduled(r)
<1>1. now \in 0 .. MaxTime
  BY DEF SoundsIInv, Ranges
<1>2. /\ Sound(q)
      /\ q.disposed = r.disposed /\ q.on = r.on /\ q.last = r.last
      /\ Started(q) <=> Started(r)
      /\ \/ q.active = r.active
         \/ r.active = {} /\ \A a \in q.active : a.phase = "called"
  BY <1>1, Scheduling
<1>3. \A a \in q.active : a.phase \in {"detecting", "sounding"} => playback = s
  BY <1>2
<1> HIDE DEF q
<1>4. Becomes(s, q) /\ (s = cur => ~q.disposed)
  BY <1>2 DEF q
<1>5. /\ SoundsIInv'
      /\ Started(sch[s])' <=> Started(q)
      /\ \A z \in Schedulers \ {s} : Started(sch[z])' <=> Started(sch[z])
  BY <1>2, <1>3, <1>4, Becoming
<1> QED BY <1>2, <1>5

LEMMA NothingMoves ==
  ASSUME SoundsIInv, UNCHANGED <<now, cur, sch, playback>>, seen' \subseteq Occurrences
  PROVE  SoundsIInv' /\ Quiet
<1>1. SoundsIInv'
  BY DEF SoundsIInv, Ranges, SchedulersInv, PlaybackInv, Playing, Sound, Loose, CandidateInTime,
         PlaybackInTime, Started
<1> QED BY <1>1 DEF Quiet, Started

LEMMA EnqueueStep ==
  ASSUME LimitsOK, SoundsIInv, NEW o \in Occurrences, NEW d \in 0 .. TTL, Enqueue(o, d)
  PROVE  SoundsIInv' /\ Quiet
<1> DEFINE r    == sch[cur]
           held == {p \in r.pending : p.paused # {} \/ now < p.expires}
           p    == [at |-> now - d, held |-> 0, expires |-> now - d + TTL, priority |-> Priority[o],
                    ready |-> IF held = {} THEN now + Coalesce ELSE (CHOOSE x \in held : TRUE).ready,
                    paused |-> IF Started(r) THEN {now} ELSE {}]
           q    == [r EXCEPT !.pending = {p}]
<1>1. /\ cur \in Schedulers /\ Sound(r) /\ Loose(r) /\ r \in States /\ ~r.disposed
      /\ \A a \in r.active : a.phase \in {"detecting", "sounding"} => playback = cur
      /\ now \in 0 .. MaxTime /\ now \in Int /\ seen \subseteq Occurrences
      /\ TTL \in Nat /\ Coalesce \in Nat /\ Interval \in Nat /\ MaxTime \in Nat /\ d \in Int
      /\ Priority[o] \in Int
  <2>1. cur \in Schedulers /\ seen \subseteq Occurrences
    BY DEF SoundsIInv, Ranges
  <2> QED BY <2>1, Has DEF LimitsOK
<1>2. seen' \subseteq Occurrences /\ UNCHANGED <<now, cur>> /\ d <= now
  BY <1>1 DEF Enqueue
<1>3. CASE UNCHANGED <<sch, playback>>
  BY <1>2, <1>3, NothingMoves
<1>4. CASE Becomes(cur, Scheduled(q)) /\ r.on /\ now < now - d + TTL
  <2>1. p.ready \in Int /\ p.ready >= 0
    <3>1. CASE held = {}
      BY <1>1, <3>1
    <3>2. CASE held # {}
      <4>1. (CHOOSE x \in held : TRUE) \in r.pending
        BY <3>2
      <4>2. \A x \in r.pending : x.ready \in Int /\ x.ready >= 0
        BY <1>1 DEF Loose, CandidateInTime, States, Candidates
      <4> QED BY <3>2, <4>1, <4>2
    <3> QED BY <3>1, <3>2
  <2>2. p.paused = (IF Started(r) THEN {now} ELSE {}) /\ p.paused \in SUBSET Int
    BY <1>1
  <2>3. /\ p.at = now - d /\ p.held = 0 /\ p.expires = now - d + TTL
        /\ p \in Candidates
    BY <1>1, <2>1, <2>2 DEF Candidates
  <2> HIDE DEF p
  <2>4. CandidateInTime(p)
    <3>1. CASE Started(r)
      BY <1>1, <1>2, <2>1, <2>2, <2>3, <3>1 DEF CandidateInTime, One
    <3>2. CASE ~Started(r)
      BY <1>1, <1>2, <2>1, <2>2, <2>3, <3>2 DEF CandidateInTime, One
    <3> QED BY <3>1, <3>2
  <2>5. /\ q \in States /\ q.pending = {p} /\ q.active = r.active /\ q.timer = r.timer
        /\ q.expiry = r.expiry /\ q.on = r.on /\ q.disposed = r.disposed /\ q.last = r.last
    BY <1>1, <2>3 DEF States
  <2> HIDE DEF q
  <2>6. Loose(q)
    BY <1>1, <1>4, <2>4, <2>5 DEF Loose, One, PlaybackInTime
  <2>7. Started(q) <=> Started(r)
    BY <2>5 DEF Started
  <2>8. /\ SoundsIInv'
        /\ Started(sch[cur])' <=> Started(q)
        /\ \A z \in Schedulers \ {cur} : Started(sch[z])' <=> Started(sch[z])
    <3>1. /\ Becomes(cur, Scheduled(q)) /\ ~q.disposed
          /\ \A a \in q.active : a.phase \in {"detecting", "sounding"} => playback = cur
      BY <1>1, <1>4, <2>5
    <3> DEFINE c == cur
    <3>2. c \in Schedulers /\ Becomes(c, Scheduled(q)) /\ c = cur
      BY <1>1, <3>1
    <3> HIDE DEF c
    <3> QED BY <1>2, <2>6, <3>1, <3>2, Rescheduled
  <2> QED BY <1>2, <2>7, <2>8 DEF Quiet
<1>5. UNCHANGED <<sch, playback>> \/ (Becomes(cur, Scheduled(q)) /\ r.on /\ now < now - d + TTL)
  <2>1. \/ UNCHANGED <<sch, playback>>
        \/ /\ Becomes(cur, Scheduled([r EXCEPT !.pending = Candidate([r EXCEPT !.pending = held], p)]))
           /\ ~(~r.on \/ now >= now - d + TTL)
    BY DEF Enqueue
  <2> QED BY <1>1, <2>1 DEF Candidate
<1> QED BY <1>3, <1>4, <1>5

\* What invalidate() leaves behind.
LEMMA Invalidating ==
  ASSUME NEW r \in States, One(r.active), \A a \in r.active : PlaybackInTime(r, a)
  PROVE  LET v == Invalidated(r) IN
         /\ v \in States
         /\ v.pending = {} /\ v.timer = {} /\ v.expiry = {}
         /\ v.disposed = r.disposed /\ v.on = r.on /\ v.last = r.last
         /\ One(v.active)
         /\ \A b \in v.active : PlaybackInTime(v, b) /\ b.aborted
         /\ \A b \in v.active : \E a \in r.active : b.phase = a.phase
         /\ Started(v) <=> Started(r)
<1> DEFINE v == Invalidated(r)
           f(a) == [a EXCEPT !.aborted = TRUE]
<1>1. \A a \in r.active :
        /\ f(a) \in Playbacks /\ f(a).phase = a.phase
        /\ f(a).at = a.at /\ f(a).held = a.held /\ f(a).expires = a.expires
  BY DEF States, Playbacks
<1>2. \A a \in r.active : f(a).auto = a.auto /\ f(a).aborted
  BY DEF States, Playbacks
<1>3. v = [r EXCEPT !.pending = {}, !.timer = {}, !.expiry = {}, !.active = {f(a) : a \in r.active}]
  BY DEF Invalidated, States
<1> HIDE DEF f, v
<1>4. /\ v.pending = {} /\ v.active = {f(a) : a \in r.active} /\ v.timer = {} /\ v.expiry = {}
      /\ v.disposed = r.disposed /\ v.last = r.last /\ v.on = r.on
  BY <1>3 DEF States
<1>5. v \in States
  <2> DEFINE v1 == [r EXCEPT !.pending = {}]
             v2 == [v1 EXCEPT !.timer = {}]
             v3 == [v2 EXCEPT !.expiry = {}]
  <2>1. v1 \in States /\ v2 \in States /\ v3 \in States
    BY Changed
  <2>2. v = [v3 EXCEPT !.active = {f(a) : a \in r.active}]
    BY <1>3 DEF States
  <2>3. {f(a) : a \in r.active} \in SUBSET Playbacks
    BY <1>1
  <2> HIDE DEF v3
  <2> QED BY <2>1, <2>2, <2>3, Changed
<1>6. Started(v) <=> Started(r)
  BY <1>1, <1>4 DEF Started
<1>7. \A b \in v.active : PlaybackInTime(v, b) /\ b.aborted
  BY <1>1, <1>2, <1>4 DEF PlaybackInTime
<1>8. One(v.active)
  BY <1>4 DEF One
<1>9. \A b \in v.active : \E a \in r.active : b.phase = a.phase
  BY <1>1, <1>4
<1> QED BY <1>4, <1>5, <1>6, <1>7, <1>8, <1>9 DEF v

LEMMA ConfigureStep ==
  ASSUME LimitsOK, SoundsIInv, NEW on \in BOOLEAN, Configure(on)
  PROVE  SoundsIInv' /\ Quiet
<1> DEFINE r == sch[cur]
           q == [r EXCEPT !.on = on]
           v == Invalidated(q)
<1>1. /\ cur \in Schedulers /\ Sound(r) /\ Loose(r) /\ r \in States /\ ~r.disposed
      /\ \A a \in r.active : a.phase \in {"detecting", "sounding"} => playback = cur
      /\ seen \subseteq Occurrences
  <2>1. cur \in Schedulers /\ seen \subseteq Occurrences
    BY DEF SoundsIInv, Ranges
  <2> QED BY <2>1, Has
<1>2. /\ q \in States /\ q.pending = r.pending /\ q.active = r.active /\ q.timer = r.timer
      /\ q.expiry = r.expiry /\ q.disposed = r.disposed /\ q.last = r.last
  BY <1>1 DEF States
<1>3. q.on = on
  BY <1>1 DEF States
<1>4. /\ seen' \subseteq Occurrences /\ UNCHANGED <<now, cur>>
      /\ on => Becomes(cur, Scheduled(q))
      /\ ~on => Becomes(cur, v)
  BY <1>1 DEF Configure
<1>5. Started(q) <=> Started(r)
  BY <1>2 DEF Started
<1> HIDE DEF q
<1>6. CASE on
  <2>1. Loose(q)
    BY <1>1, <1>2, <1>3, <1>6 DEF Loose, PlaybackInTime
  <2>2. /\ SoundsIInv'
        /\ Started(sch[cur])' <=> Started(q)
        /\ \A z \in Schedulers \ {cur} : Started(sch[z])' <=> Started(sch[z])
    <3> DEFINE c == cur
    <3>1. /\ c \in Schedulers /\ Becomes(c, Scheduled(q)) /\ c = cur /\ ~q.disposed
          /\ \A a \in q.active : a.phase \in {"detecting", "sounding"} => playback = c
      BY <1>1, <1>2, <1>4, <1>6
    <3> HIDE DEF c
    <3> QED BY <1>4, <2>1, <3>1, Rescheduled
  <2> QED BY <1>4, <1>5, <2>2 DEF Quiet
<1>7. CASE ~on
  <2>1. One(q.active) /\ \A a \in q.active : PlaybackInTime(q, a)
    BY <1>1, <1>2 DEF Loose, PlaybackInTime
  <2>2. /\ v \in States
        /\ v.pending = {} /\ v.timer = {} /\ v.expiry = {}
        /\ v.disposed = q.disposed /\ v.on = q.on /\ v.last = q.last
        /\ One(v.active)
        /\ \A b \in v.active : PlaybackInTime(v, b) /\ b.aborted
        /\ \A b \in v.active : \E a \in q.active : b.phase = a.phase
        /\ Started(v) <=> Started(q)
    BY <1>2, <2>1, Invalidating
  <2> HIDE DEF v
  <2>3. Sound(v)
    BY <1>1, <1>2, <1>3, <1>7, <2>2 DEF Loose, Sound, One
  <2>4. /\ SoundsIInv'
        /\ Started(sch[cur])' <=> Started(v)
        /\ \A z \in Schedulers \ {cur} : Started(sch[z])' <=> Started(sch[z])
    <3> DEFINE c == cur
    <3>1. /\ c \in Schedulers /\ Becomes(c, v) /\ c = cur /\ ~v.disposed
          /\ \A a \in v.active : a.phase \in {"detecting", "sounding"} => playback = c
      BY <1>1, <1>2, <1>4, <1>7, <2>2
    <3> HIDE DEF c
    <3> QED BY <1>4, <2>3, <3>1, Becoming
  <2> QED BY <1>4, <1>5, <2>2, <2>4 DEF Quiet
<1> QED BY <1>6, <1>7

LEMMA ReplaceStep ==
  ASSUME LimitsOK, SoundsIInv, NEW on \in BOOLEAN, Replace(on)
  PROVE  SoundsIInv' /\ Quiet
<1> DEFINE r == sch[cur]
           w == Invalidated(r)
           v == [w EXCEPT !.on = FALSE, !.disposed = TRUE]
           n == Fresh(on)
<1>1. /\ cur \in Schedulers /\ cur + 1 \in Schedulers /\ cur + 1 # cur /\ cur' = cur + 1
      /\ Sound(r) /\ Loose(r) /\ r \in States
      /\ sch \in [Schedulers -> States]
      /\ now \in 0 .. MaxTime /\ UNCHANGED <<now, playback, seen>>
  <2>1. cur \in Schedulers /\ cur \in Int /\ cur + 1 # cur
    BY DEF SoundsIInv, Ranges, Schedulers
  <2> QED BY <2>1, Has DEF Replace, SoundsIInv, Ranges
<1>2. /\ w \in States
      /\ w.pending = {} /\ w.timer = {} /\ w.expiry = {}
      /\ w.disposed = r.disposed /\ w.on = r.on /\ w.last = r.last
      /\ One(w.active)
      /\ \A b \in w.active : PlaybackInTime(w, b) /\ b.aborted
      /\ \A b \in w.active : \E a \in r.active : b.phase = a.phase
      /\ Started(w) <=> Started(r)
  BY <1>1, Invalidating DEF Loose
<1> HIDE DEF w
<1>3. /\ v.pending = {} /\ v.timer = {} /\ v.expiry = {} /\ v.last = r.last /\ v.active = w.active
      /\ v.disposed /\ ~v.on
  BY <1>2 DEF States
<1>4. v \in States
  BY <1>2 DEF States
<1>5. /\ n \in States /\ ~n.disposed /\ n.pending = {} /\ n.active = {} /\ n.timer = {}
      /\ n.expiry = {} /\ n.last = -Interval
  BY DEF Fresh, States, LimitsOK
<1>6. sch' = [sch EXCEPT ![cur] = v, ![cur + 1] = n]
  <2>1. sch' = [sch EXCEPT ![cur] = [Invalidated(r) EXCEPT !.on = FALSE, !.disposed = TRUE],
                           ![cur + 1] = Fresh(on)]
    BY <1>1 DEF Replace
  <2> QED BY <2>1 DEF w
<1> HIDE DEF v, n
<1>7. /\ sch' \in [Schedulers -> States] /\ sch'[cur] = v /\ sch'[cur + 1] = n
      /\ \A z \in Schedulers \ {cur, cur + 1} : sch'[z] = sch[z]
  BY <1>1, <1>4, <1>5, <1>6
<1>8. Sound(v)
  <2>1. \A b \in v.active : PlaybackInTime(v, b) /\ b.aborted
    BY <1>2, <1>3 DEF PlaybackInTime
  <2> QED BY <1>1, <1>2, <1>3, <1>4, <2>1 DEF Loose, Sound, One
<1>9. Sound(n)
  BY <1>1, <1>5 DEF Loose, Sound, One, LimitsOK
<1>10. \A z \in Schedulers : Sound(sch'[z])
  BY <1>7, <1>8, <1>9 DEF SoundsIInv, SchedulersInv
<1>11. SchedulersInv'
  <2> SUFFICES ASSUME NEW z \in Schedulers PROVE Sound(sch[z])'
    BY DEF SchedulersInv
  <2>1. Sound(sch'[z]) /\ now' = now
    BY <1>1, <1>10
  <2> QED BY <2>1 DEF Sound, Loose, CandidateInTime, PlaybackInTime, Started
<1>12. PlaybackInv'
  <2>1. Playing(v) => playback = cur
    BY <1>1, <1>2, <1>3, Has DEF Playing
  <2>2. \A a \in v.active : a.phase # "called"
    BY <1>1, <1>2, <1>3, Has
  <2> QED BY <1>1, <1>5, <1>7, <2>1, <2>2 DEF SoundsIInv, PlaybackInv, Playing
<1>13. Ranges'
  BY <1>1, <1>5, <1>7 DEF SoundsIInv, Ranges
<1>14. Quiet
  <2>1. Started(v) <=> Started(r)
    BY <1>2, <1>3 DEF Started
  <2> QED BY <1>5, <1>7, <2>1 DEF Quiet, Started
<1> QED BY <1>11, <1>12, <1>13, <1>14 DEF SoundsIInv

LEMMA PreviewStep ==
  ASSUME LimitsOK, SoundsIInv, Preview
  PROVE  SoundsIInv' /\ Quiet
<1> DEFINE r == sch[cur]
           a == [at |-> now, held |-> 0, expires |-> MaxTime + TTL, auto |-> FALSE,
                 aborted |-> FALSE, phase |-> "called"]
           q == [r EXCEPT !.active = {a}]
           c == cur
<1>1. /\ c \in Schedulers /\ Sound(r) /\ Loose(r) /\ r \in States /\ ~r.disposed
      /\ now \in Int /\ MaxTime \in Int /\ TTL \in Int
      /\ seen' \subseteq Occurrences /\ UNCHANGED <<now, cur>>
      /\ r.active = {} /\ r.pending = {} /\ Becomes(c, q) /\ c = cur
  <2>1. cur \in Schedulers /\ seen \subseteq Occurrences
    BY DEF SoundsIInv, Ranges
  <2> QED BY <2>1, Has DEF Preview, LimitsOK
<1>2. a \in Playbacks /\ a.phase = "called"
  BY <1>1 DEF Playbacks, Phases
<1>3. ~a.auto
  OBVIOUS
<1> HIDE DEF a
<1>4. /\ q \in States /\ q.pending = r.pending /\ q.active = {a} /\ q.timer = r.timer
      /\ q.expiry = r.expiry /\ q.disposed = r.disposed /\ q.last = r.last /\ q.on = r.on
  BY <1>1, <1>2 DEF States
<1> HIDE DEF q, c
<1>5. Sound(q)
  BY <1>1, <1>3, <1>4 DEF Sound, Loose, One, PlaybackInTime
<1>6. ~Started(q) /\ \A b \in q.active : b.phase \notin {"detecting", "sounding"}
  BY <1>2, <1>4 DEF Started
<1>7. /\ SoundsIInv'
      /\ Started(sch[cur])' <=> Started(q)
      /\ \A z \in Schedulers \ {cur} : Started(sch[z])' <=> Started(sch[z])
  BY <1>1, <1>4, <1>5, <1>6, Becoming
<1> QED BY <1>1, <1>6, <1>7 DEF Quiet

LEMMA TimerStep ==
  ASSUME LimitsOK, SoundsIInv, NEW s \in Schedulers, TimerFires(s)
  PROVE  SoundsIInv' /\ Quiet
<1> DEFINE r == sch[s]
           q == [r EXCEPT !.timer = {}]
<1>1. /\ Loose(r) /\ r \in States /\ (s = cur => ~r.disposed)
      /\ \A a \in r.active : a.phase \in {"detecting", "sounding"} => playback = s
      /\ seen' \subseteq Occurrences /\ UNCHANGED <<now, cur>>
      /\ Becomes(s, Scheduled(q))
  BY Has DEF TimerFires, SoundsIInv, Ranges
<1>2. /\ q \in States /\ q.pending = r.pending /\ q.active = r.active /\ q.timer = {}
      /\ q.expiry = r.expiry /\ q.disposed = r.disposed /\ q.last = r.last /\ q.on = r.on
  BY <1>1 DEF States
<1> HIDE DEF q
<1>3. Loose(q) /\ (Started(q) <=> Started(r))
  BY <1>1, <1>2 DEF Loose, One, PlaybackInTime, Started
<1>4. /\ SoundsIInv'
      /\ Started(sch[s])' <=> Started(q)
      /\ \A z \in Schedulers \ {s} : Started(sch[z])' <=> Started(sch[z])
  BY <1>1, <1>2, <1>3, Rescheduled
<1> QED BY <1>3, <1>4 DEF Quiet

LEMMA SettleStep ==
  ASSUME LimitsOK, SoundsIInv, NEW s \in Schedulers, Settle(s)
  PROVE  SoundsIInv' /\ Quiet
<1> DEFINE r == sch[s]
           q == [r EXCEPT !.active = {}, !.expiry = {}]
<1>1. /\ Loose(r) /\ r \in States /\ (s = cur => ~r.disposed)
      /\ seen' \subseteq Occurrences /\ UNCHANGED <<now, cur>>
      /\ Becomes(s, Scheduled(q))
  BY Has DEF Settle, Finished, SoundsIInv, Ranges
<1>2. /\ q \in States /\ q.pending = r.pending /\ q.active = {} /\ q.timer = r.timer
      /\ q.expiry = {} /\ q.disposed = r.disposed /\ q.last = r.last /\ q.on = r.on
  BY <1>1 DEF States
<1> HIDE DEF q
<1>3. Loose(q) /\ ~Started(q)
  BY <1>1, <1>2 DEF Loose, One, Started
<1>4. /\ SoundsIInv'
      /\ Started(sch[s])' <=> Started(q)
      /\ \A z \in Schedulers \ {s} : Started(sch[z])' <=> Started(sch[z])
  BY <1>1, <1>2, <1>3, Rescheduled
<1> QED BY <1>3, <1>4 DEF Quiet

LEMMA ExpiryStep ==
  ASSUME LimitsOK, SoundsIInv, NEW s \in Schedulers, ExpiryFires(s)
  PROVE  SoundsIInv' /\ Quiet
<1> DEFINE r == sch[s]
           f(a) == IF a.phase = "sounding" THEN a ELSE [a EXCEPT !.aborted = TRUE]
           q == [r EXCEPT !.expiry = {}, !.active = {f(a) : a \in r.active}]
<1>1. /\ Sound(r) /\ Loose(r) /\ r \in States /\ (s = cur => ~r.disposed)
      /\ \A a \in r.active : a \in Playbacks /\ a.phase # "called"
      /\ sch \in [Schedulers -> States]
      /\ UNCHANGED <<now, cur, playback, seen>>
  BY Has DEF ExpiryFires, SoundsIInv, Ranges
<1>2. sch' = [sch EXCEPT ![s] = q]
  BY <1>1 DEF ExpiryFires, States
<1>3. \A a \in r.active :
        /\ f(a) \in Playbacks /\ f(a).phase = a.phase
        /\ f(a).at = a.at /\ f(a).held = a.held /\ f(a).expires = a.expires
  BY <1>1 DEF Playbacks
<1>4. \A a \in r.active : f(a).auto = a.auto /\ (a.aborted => f(a).aborted)
  BY <1>1 DEF Playbacks
<1> HIDE DEF f
<1>5. /\ q.pending = r.pending /\ q.active = {f(a) : a \in r.active} /\ q.timer = r.timer
      /\ q.expiry = {} /\ q.disposed = r.disposed /\ q.last = r.last /\ q.on = r.on
  BY <1>1 DEF States
<1>6. q \in States
  <2>1. [r EXCEPT !.expiry = {}] \in States
    BY <1>1 DEF States
  <2>2. q = [[r EXCEPT !.expiry = {}] EXCEPT !.active = {f(a) : a \in r.active}]
    BY <1>1 DEF States
  <2>3. {f(a) : a \in r.active} \in SUBSET Playbacks
    BY <1>3
  <2> HIDE DEF q
  <2> QED BY <2>1, <2>2, <2>3, Changed
<1> HIDE DEF q
<1>7. Started(q) <=> Started(r)
  BY <1>3, <1>5 DEF Started
<1>8. One(q.active)
  BY <1>1, <1>5 DEF Loose, One
<1>9. \A b \in q.active :
        /\ PlaybackInTime(q, b)
        /\ (q.disposed \/ (b.auto /\ ~q.on)) => b.aborted
  BY <1>1, <1>3, <1>4, <1>5 DEF Loose, PlaybackInTime
<1>10. Sound(q)
  BY <1>1, <1>5, <1>6, <1>7, <1>8, <1>9 DEF Sound, Loose, One
<1>11. /\ sch' \in [Schedulers -> States] /\ sch'[s] = q
       /\ \A z \in Schedulers \ {s} : sch'[z] = sch[z]
  BY <1>1, <1>2, <1>6
<1>12. SchedulersInv'
  <2> SUFFICES ASSUME NEW z \in Schedulers PROVE Sound(sch[z])'
    BY DEF SchedulersInv
  <2>1. Sound(sch'[z]) /\ now' = now
    BY <1>1, <1>10, <1>11 DEF SoundsIInv, SchedulersInv
  <2> QED BY <2>1 DEF Sound, Loose, CandidateInTime, PlaybackInTime, Started
<1>13. PlaybackInv'
  <2>1. \A b \in q.active : b.phase # "called"
    BY <1>1, <1>3, <1>5
  <2>2. Playing(q) <=> Playing(r)
    BY <1>3, <1>5 DEF Playing
  <2> QED BY <1>1, <1>11, <2>1, <2>2 DEF SoundsIInv, PlaybackInv, Playing
<1>14. Ranges'
  BY <1>1, <1>5, <1>11 DEF SoundsIInv, Ranges
<1>15. Quiet
  BY <1>7, <1>11 DEF Quiet, Started
<1> QED BY <1>12, <1>13, <1>14, <1>15 DEF SoundsIInv

\* A scheduler after a tick.
Ticked(r) ==
  IF Started(r) THEN [r EXCEPT !.pending = {[p EXCEPT !.held = @ + 1] : p \in @}] ELSE r

LEMMA Ticking ==
  ASSUME LimitsOK, now \in Int, now' = now + 1, NEW r, Sound(r)
  PROVE  /\ Ticked(r) \in States /\ Ticked(r).active = r.active
         /\ Ticked(r).disposed = r.disposed
         /\ Sound(Ticked(r))'
<1> DEFINE q == Ticked(r)
<1>1. Loose(r) /\ r \in States /\ TTL \in Nat /\ Interval \in Nat
  BY DEF Sound, Loose, LimitsOK
<1>2. /\ \A p \in r.pending : CandidateInTime(p) /\ p \in Candidates
      /\ \A a \in r.active : PlaybackInTime(r, a)'
      /\ -Interval <= r.last /\ r.last <= now'
  BY <1>1 DEF Loose, PlaybackInTime, States
<1>3. CASE ~Started(r)
  <2>1. q = r
    BY <1>3 DEF Ticked
  <2>2. \A p \in r.pending : p.paused = {}
    BY <1>3 DEF Sound
  <2>3. \A p \in r.pending : CandidateInTime(p)'
    BY <1>1, <1>2, <2>2 DEF CandidateInTime, Candidates
  <2>4. Sound(r)'
    BY <1>1, <1>2, <2>3 DEF Sound, Loose, Started
  <2> QED BY <1>1, <2>1, <2>4
<1>4. CASE Started(r)
  <2> DEFINE f(p) == [p EXCEPT !.held = @ + 1]
  <2>1. \A p \in r.pending :
          /\ f(p) \in Candidates /\ f(p).held = p.held + 1 /\ f(p).at = p.at
          /\ f(p).expires = p.expires /\ f(p).ready = p.ready /\ f(p).paused = p.paused
    BY <1>2 DEF Candidates
  <2>2. q = [r EXCEPT !.pending = {f(p) : p \in r.pending}]
    BY <1>1, <1>4 DEF Ticked, States
  <2> HIDE DEF f, q
  <2>3. \A p \in r.pending : CandidateInTime(f(p))'
    <3> SUFFICES ASSUME NEW p \in r.pending PROVE CandidateInTime(f(p))'
      OBVIOUS
    <3>1. /\ p.held \in Int /\ p.at \in Int /\ p.expires \in Int /\ p.paused \in SUBSET Int
          /\ CandidateInTime(p)
      BY <1>2 DEF Candidates
    <3>2. \A t \in p.paused : t \in 0 .. now' /\ p.expires + (now' - t) <= p.at + f(p).held + TTL
      BY <1>1, <2>1, <3>1 DEF CandidateInTime
    <3>3. p.paused = {} => (p.expires <= now' + TTL /\ p.expires <= p.at + f(p).held + TTL)
      BY <1>1, <2>1, <3>1 DEF CandidateInTime
    <3> QED BY <2>1, <3>1, <3>2, <3>3 DEF CandidateInTime
  <2>4. {f(p) : p \in r.pending} \in SUBSET Candidates
    BY <2>1
  <2>5. q \in States
    BY <1>1, <2>2, <2>4, Changed
  <2>6. /\ q.pending = {f(p) : p \in r.pending} /\ q.active = r.active
        /\ q.timer = r.timer /\ q.expiry = r.expiry /\ q.disposed = r.disposed
        /\ q.last = r.last /\ q.on = r.on
    BY <1>1, <2>2 DEF States
  <2>7. \A p \in q.pending : CandidateInTime(p)'
    BY <2>3, <2>6
  <2>8. One(q.pending) /\ Started(q)
    BY <1>1, <1>4, <2>6 DEF Loose, One, Started
  <2>9. Sound(q)'
    BY <1>1, <1>2, <2>5, <2>6, <2>7, <2>8 DEF Sound, Loose, PlaybackInTime, Started
  <2> QED BY <2>5, <2>6, <2>9 DEF q
<1> QED BY <1>3, <1>4

LEMMA TickStep ==
  ASSUME LimitsOK, SoundsIInv, Tick
  PROVE  SoundsIInv' /\ Quiet
<1>1. /\ now' \in 0 .. MaxTime /\ now' = now + 1 /\ now \in Int
      /\ UNCHANGED <<cur, playback, seen>> /\ cur \in Schedulers
  BY DEF Tick, SoundsIInv, Ranges, LimitsOK
<1>2. sch' = [s \in Schedulers |-> Ticked(sch[s])]
  BY DEF Tick, Ticked
<1>3. ASSUME NEW s \in Schedulers
      PROVE  /\ Ticked(sch[s]) \in States /\ Ticked(sch[s]).active = sch[s].active
             /\ Ticked(sch[s]).disposed = sch[s].disposed
             /\ Sound(sch[s])'
  <2>1. Sound(sch[s])
    BY Has
  <2>2. \A r : Sound(r) => (/\ Ticked(r) \in States /\ Ticked(r).active = r.active
                            /\ Ticked(r).disposed = r.disposed)
    BY <1>1, Ticking
  <2>3. \A r, q : Sound(r) /\ q = Ticked(r) => Sound(q)'
    BY <1>1, Ticking
  <2>4. sch'[s] = Ticked(sch[s])
    BY <1>2
  <2>5. \A q : q = sch'[s] => Sound(q)'
    BY <2>1, <2>3, <2>4
  <2>6. Sound(sch[s])'
    BY <2>5 DEF Sound, Loose, CandidateInTime, PlaybackInTime, Started
  <2> QED BY <2>1, <2>2, <2>6
<1>4. SchedulersInv'
  BY <1>3 DEF SchedulersInv
<1>5. PlaybackInv'
  BY <1>1, <1>2, <1>3 DEF SoundsIInv, PlaybackInv, Playing
<1>6. Ranges'
  BY <1>1, <1>2, <1>3 DEF SoundsIInv, Ranges
<1>7. Quiet
  BY <1>2, <1>3 DEF Quiet, Started
<1> QED BY <1>4, <1>5, <1>6, <1>7 DEF SoundsIInv

\* The one step that starts a sound: an automatic one is fresh and throttled.
InTime(s) ==
  \A a \in sch[s].active :
    a.auto => now - a.at - a.held < TTL /\ now - sch[s].last >= Interval

LEMMA PermitStep ==
  ASSUME LimitsOK, SoundsIInv, NEW s \in Schedulers, PermitStart(s)
  PROVE  /\ SoundsIInv'
         /\ \A z \in Schedulers : StartsNow(z) => InTime(z)
<1> DEFINE r == sch[s]
           q(p) == [r EXCEPT !.active = {p}]
<1>1. PICK a \in r.active : /\ a.phase = "detecting"
                            /\ IF Permitted(s, a)
                               THEN Becomes(s, Scheduled([r EXCEPT !.active = {[a EXCEPT !.phase = "sounding"]},
                                                                   !.last = now, !.expiry = {}]))
                               ELSE Becomes(s, [r EXCEPT !.active = {[a EXCEPT !.phase = "over"]}])
  BY DEF PermitStart
<1>2. /\ Sound(r) /\ Loose(r) /\ r \in States /\ (s = cur => ~r.disposed)
      /\ a \in Playbacks /\ playback = s /\ now \in Int /\ now \in 0 .. MaxTime
      /\ seen' \subseteq Occurrences /\ UNCHANGED <<now, cur>> /\ TTL \in Nat /\ Interval \in Nat
  BY <1>1, Has DEF PermitStart, SoundsIInv, Ranges, LimitsOK
<1>3. \A b \in r.active : b = a
  BY <1>1, <1>2 DEF Loose, One
<1>4. ~Started(r)
  BY <1>1, <1>3 DEF Started
<1>5. CASE Permitted(s, a)
  <2> DEFINE b == [a EXCEPT !.phase = "sounding"]
             v == [r EXCEPT !.active = {b}, !.last = now, !.expiry = {}]
  <2>1. /\ b \in Playbacks /\ b.phase = "sounding" /\ b.at = a.at /\ b.held = a.held
        /\ b.expires = a.expires
    BY <1>2 DEF Playbacks, Phases
  <2>2. b.auto = a.auto /\ b.aborted = a.aborted
    BY <1>2 DEF Playbacks
  <2> HIDE DEF b
  <2>3. v \in States
    <3>1. [r EXCEPT !.active = {b}] \in States
      BY <1>2, <2>1, Changed
    <3>2. [[r EXCEPT !.active = {b}] EXCEPT !.last = now] \in States
      BY <1>2, <3>1, Changed
    <3>3. v = [[[r EXCEPT !.active = {b}] EXCEPT !.last = now] EXCEPT !.expiry = {}]
      BY <1>2 DEF States
    <3> HIDE DEF v
    <3> QED BY <3>2, <3>3, Changed
  <2>4. /\ v.pending = r.pending /\ v.active = {b} /\ v.timer = r.timer
        /\ v.expiry = {} /\ v.disposed = r.disposed /\ v.last = now /\ v.on = r.on
    BY <1>2 DEF States
  <2> HIDE DEF v
  <2>5. PlaybackInTime(v, b)
    BY <1>2, <2>1, <2>2, <2>4 DEF PlaybackInTime, Loose
  <2>6. (v.disposed \/ (b.auto /\ ~v.on)) => b.aborted
    BY <1>2, <2>2, <2>4 DEF Loose
  <2>7. Loose(v)
    BY <1>2, <2>3, <2>4, <2>5, <2>6 DEF Loose, One, LimitsOK
  <2>8. Becomes(s, Scheduled(v))
    BY <1>1, <1>5 DEF v, b
  <2>9. /\ SoundsIInv'
        /\ \A z \in Schedulers \ {s} : Started(sch[z])' <=> Started(sch[z])
    BY <1>2, <2>4, <2>7, <2>8, Rescheduled
  <2>10. InTime(s)
    <3>1. a.auto => now < a.expires
      BY <1>5 DEF Permitted
    <3>2. a.auto => a.expires <= a.at + a.held + TTL /\ now >= r.last + Interval
      BY <1>1, <1>2 DEF Loose, PlaybackInTime
    <3>3. a.at \in Int /\ a.held \in Int /\ a.expires \in Int /\ r.last \in Int
      BY <1>2 DEF Playbacks, States
    <3>4. a.auto => now - a.at - a.held < TTL /\ now - r.last >= Interval
      BY <1>2, <3>1, <3>2, <3>3
    <3> QED BY <1>3, <3>4 DEF InTime
  <2> QED BY <2>9, <2>10 DEF StartsNow
<1>6. CASE ~Permitted(s, a)
  <2> DEFINE b == [a EXCEPT !.phase = "over"]
             v == [r EXCEPT !.active = {b}]
  <2>1. /\ b \in Playbacks /\ b.phase = "over" /\ b.at = a.at /\ b.held = a.held
        /\ b.expires = a.expires
    BY <1>2 DEF Playbacks, Phases
  <2>2. b.auto = a.auto /\ b.aborted = a.aborted
    BY <1>2 DEF Playbacks
  <2> HIDE DEF b
  <2>3. v \in States
    BY <1>2, <2>1, Changed
  <2>4. /\ v.pending = r.pending /\ v.active = {b} /\ v.timer = r.timer
        /\ v.expiry = r.expiry /\ v.disposed = r.disposed /\ v.last = r.last /\ v.on = r.on
    BY <1>2 DEF States
  <2> HIDE DEF v
  <2>5. PlaybackInTime(v, b)
    BY <1>2, <2>1, <2>2, <2>4 DEF PlaybackInTime, Loose
  <2>6. (v.disposed \/ (b.auto /\ ~v.on)) => b.aborted
    BY <1>2, <2>2, <2>4 DEF Loose
  <2>7. ~Started(v)
    BY <2>1, <2>4 DEF Started
  <2>8. Sound(v)
    BY <1>2, <1>4, <2>3, <2>4, <2>5, <2>6, <2>7 DEF Loose, Sound, One
  <2>9. Becomes(s, v)
    BY <1>1, <1>6 DEF v, b
  <2>10. /\ SoundsIInv'
         /\ Started(sch[s])' <=> Started(v)
         /\ \A z \in Schedulers \ {s} : Started(sch[z])' <=> Started(sch[z])
    BY <1>2, <2>1, <2>4, <2>8, <2>9, Becoming
  <2> QED BY <2>7, <2>10 DEF StartsNow
<1> QED BY <1>5, <1>6

LEMMA Steps ==
  ASSUME LimitsOK, SoundsIInv, [SoundsNext]_soundVars
  PROVE  /\ SoundsIInv'
         /\ \A z \in Schedulers : StartsNow(z) => InTime(z)
<1>1. Quiet => \A z \in Schedulers : StartsNow(z) => InTime(z)
  BY DEF Quiet, StartsNow
<1>2. CASE UNCHANGED soundVars
  <2>1. seen' \subseteq Occurrences
    BY <1>2 DEF soundVars, SoundsIInv, Ranges
  <2> QED BY <1>1, <1>2, <2>1, NothingMoves DEF soundVars
<1>3. CASE \E o \in Occurrences, d \in 0 .. TTL : Enqueue(o, d)
  BY <1>1, <1>3, EnqueueStep
<1>4. CASE \E on \in BOOLEAN : Configure(on) \/ Replace(on)
  BY <1>1, <1>4, ConfigureStep, ReplaceStep
<1>5. CASE Preview
  BY <1>1, <1>5, PreviewStep
<1>6. CASE \E s \in Schedulers : TimerFires(s) \/ ExpiryFires(s) \/ Settle(s)
  BY <1>1, <1>6, TimerStep, ExpiryStep, SettleStep
<1>7. CASE \E s \in Schedulers : PermitStart(s)
  BY <1>7, PermitStep
<1>8. CASE Tick
  BY <1>1, <1>8, TickStep
<1> QED BY <1>2, <1>3, <1>4, <1>5, <1>6, <1>7, <1>8 DEF SoundsNext

----------------------------------------------------------------------------
(* The theorems                                                            *)

\* The invariant of the scheduler, the service that replaces it and its backend
\* (enqueue(), schedule(), finish(), configure() and play()).
THEOREM SoundsInvariant == SoundsSpec => []SoundsIInv
<1> USE LimitsFit
<1>1. SoundsInit => SoundsIInv
  BY InvInit
<1>2. SoundsIInv /\ [SoundsNext]_soundVars => SoundsIInv'
  BY Steps
<1> QED BY <1>1, <1>2, PTL DEF SoundsSpec

LEMMA InvImplies == LimitsOK /\ SoundsIInv => SoundsInv
<1> SUFFICES ASSUME LimitsOK, SoundsIInv PROVE SoundsInv
  OBVIOUS
<1>1. \A s \in Schedulers : Sound(sch[s]) /\ Loose(sch[s]) /\ sch[s] \in States
  BY Has
<1>2. SoundsTypeOK
  <2>1. ASSUME NEW s \in Schedulers
        PROVE  /\ sch[s].on \in BOOLEAN /\ sch[s].disposed \in BOOLEAN
               /\ sch[s].last \in Times
               /\ \A part \in {"pending", "active", "timer", "expiry"} : Cardinality(sch[s][part]) <= 1
               /\ sch[s].timer \subseteq Times /\ sch[s].expiry \subseteq Times
    <3>1. sch[s].on \in BOOLEAN /\ sch[s].disposed \in BOOLEAN
      BY <1>1 DEF States
    <3>2. sch[s].last \in Times
      <4>1. now \in 0 .. MaxTime
        BY DEF SoundsIInv, Ranges
      <4> QED BY <1>1, <4>1 DEF Loose, States, Times, LimitsOK
    <3>3. /\ Cardinality(sch[s].pending) <= 1 /\ Cardinality(sch[s].active) <= 1
          /\ Cardinality(sch[s].timer) <= 1 /\ Cardinality(sch[s].expiry) <= 1
      BY <1>1, OneIsSmall DEF Loose
    <3>4. sch[s].timer \subseteq Times /\ sch[s].expiry \subseteq Times
      BY <1>1 DEF Loose
    <3> QED BY <3>1, <3>2, <3>3, <3>4
  <2> QED BY <2>1 DEF SoundsTypeOK, SoundsIInv, Ranges
<1>3. OneSound
  <2>1. \A s \in Schedulers : Started(sch[s]) => playback = s
    BY DEF SoundsIInv, PlaybackInv, Playing, Started
  <2>2. One({s \in Schedulers : Started(sch[s])})
    BY <2>1 DEF One
  <2> QED BY <2>2, OneIsSmall DEF OneSound
<1>4. CandidateHasWake
  BY <1>1 DEF CandidateHasWake, Sound, Loose
<1>5. SilencedIsAborted
  BY <1>1 DEF SilencedIsAborted, Loose
<1> QED BY <1>2, <1>3, <1>4, <1>5 DEF SoundsInv

\* Sounds never overlap, no candidate is forgotten, and a playback whose
\* settings, session or owner went is told to stop (the holder of the service,
\* the timer of schedule(), invalidate()).
THEOREM SoundsKept == SoundsSpec => []SoundsInv
<1> USE LimitsFit
<1>1. SoundsIInv => SoundsInv
  BY InvImplies
<1> QED BY <1>1, SoundsInvariant, PTL

\* A sound that starts is fresh and a minimum interval after the last start
\* (the permit that the player asks for).
THEOREM StartsKept == SoundsSpec => StartsInTime
<1> USE LimitsFit
<1>1. SoundsIInv /\ [SoundsNext]_soundVars =>
        [\A s \in Schedulers : StartsNow(s) =>
           \A a \in sch[s].active : a.auto => now - a.at - a.held < TTL]_soundVars
  BY Steps DEF InTime
<1>2. SoundsIInv /\ [SoundsNext]_soundVars =>
        [\A s \in Schedulers : StartsNow(s) =>
           \A a \in sch[s].active : a.auto => now - sch[s].last >= Interval]_soundVars
  BY Steps DEF InTime
<1> QED BY <1>1, <1>2, SoundsInvariant, PTL DEF StartsInTime, FreshWhenStarted, StartsThrottled, SoundsSpec
=============================================================================
