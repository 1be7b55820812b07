--------------------------- MODULE ChildMessaging ---------------------------
(***************************************************************************)
(* One subagent's IPC channel: the child's messenger, which sends its      *)
(* notifications and queries and times them out, and the runner's side,    *)
(* which hands them to the parent session, answers each frame, and sends   *)
(* the parent's reply to a query.  An id stands for the frame that carries *)
(* it: the frames' validation, sizes and texts are left out.               *)
(***************************************************************************)
EXTENDS Naturals, Sequences, FiniteSets, SequencesExt

CONSTANTS Notes,        \* ids of the notifications the child may send
          Queries,      \* ids of the queries the child may ask
          MaxNotes,     \* notifications pending at once in the child
          MaxQueries,   \* queries pending at once, in the child and in the runner
          Window,       \* acknowledged notification ids the runner remembers
          Repeatable,   \* ids a child may send twice (no ChildMessenger does)
          MaxRepeats    \* bound on the frames sent twice

Ids == Notes \union Queries

ASSUME MessagingAssumption ==
    /\ Notes \intersect Queries = {}
    /\ Repeatable \subseteq Ids
    /\ MaxNotes \in Nat \ {0} /\ MaxQueries \in Nat \ {0} /\ Window \in Nat \ {0}
    /\ MaxRepeats \in Nat

VARIABLES
    ask,       \* the child's promise for each id
    closed,    \* ChildMessenger.closed
    gone,      \* the child process has ended
    up, down,  \* the frames on their way to the parent, to the child
    repeats,   \* frames sent twice so far
    ipc,       \* the runner has not closed the channel (not live.ipcClosed)
    active,    \* the task's parent session is the active one
    acked,     \* live.acknowledgedIpcOrder, the newest last
    query,     \* live.queries
    writes,    \* reply frames whose send callback is still to come
    told,      \* the last reply() call for a query: waiting in live.replies, or
               \* what it returned
    shown,     \* questions the parent session was shown, not yet settled
    spent,     \* queries consumed or expired in the parent's message queue
    entered,   \* times a notification entered the parent's message queue
    heard,     \* query frames the runner received, per id
    answered   \* answers (replies and errors) the runner sent, per id

childVars  == <<ask, closed, gone, repeats>>
runnerVars == <<ipc, acked, query, writes, told>>
parentVars == <<shown, spent, entered>>
history    == <<heard, answered>>
vars == <<childVars, up, down, runnerVars, active, parentVars, history>>

Pending(ids) == {i \in ids : ask[i] = "pending"}
OpenQueries == {q \in Queries : query[q] # "none"}
Frame(i, ok) == [id |-> i, ok |-> ok]

Init ==
    /\ ask = [i \in Ids |-> "unsent"]
    /\ closed = FALSE /\ gone = FALSE /\ repeats = 0
    /\ up = <<>> /\ down = <<>>
    /\ ipc = TRUE /\ active = TRUE
    /\ acked = <<>>
    /\ query = [q \in Queries |-> "none"]
    /\ writes = <<>>
    /\ told = [q \in Queries |-> "nothing"]
    /\ shown = {} /\ spent = {}
    /\ entered = [n \in Notes |-> 0]
    /\ heard = [q \in Queries |-> 0]
    /\ answered = [q \in Queries |-> 0]

---------------------------------------------------------------------------
(* The child: ChildMessenger. *)

\* notify() and query(): the promise and its timer exist before the frame
\* is sent; the send may fail.
Send(i) ==
    /\ ask[i] = "unsent" /\ ~closed /\ ~gone
    /\ Cardinality(Pending(Notes)) < MaxNotes \/ i \notin Notes
    /\ Cardinality(Pending(Queries)) < MaxQueries \/ i \notin Queries
    /\ \/ ask' = [ask EXCEPT ![i] = "pending"] /\ up' = Append(up, i)
       \/ ask' = [ask EXCEPT ![i] = "failed"] /\ UNCHANGED up
    /\ UNCHANGED <<closed, gone, repeats, down, runnerVars, active, parentVars, history>>

\* Another child's code sends a frame a second time.
SendAgain(i) ==
    /\ i \in Repeatable /\ ask[i] # "unsent" /\ ~gone
    /\ repeats < MaxRepeats
    /\ repeats' = repeats + 1
    /\ up' = Append(up, i)
    /\ UNCHANGED <<ask, closed, gone, down, runnerVars, active, parentVars, history>>

\* The child's own timer: 2 s for a notification, 30 s for a query.
TimeOut(i) ==
    /\ ask[i] = "pending"
    /\ ask' = [ask EXCEPT ![i] = "failed"]
    /\ UNCHANGED <<closed, gone, repeats, up, down, runnerVars, active, parentVars, history>>

\* An acknowledgement or a reply settles the promise it names, if it is there.
Receive ==
    /\ down # <<>> /\ ~gone
    /\ LET f == Head(down) IN
         ask' = IF ask[f.id] = "pending"
                THEN [ask EXCEPT ![f.id] = IF f.ok THEN "kept" ELSE "refused"]
                ELSE ask
    /\ down' = Tail(down)
    /\ UNCHANGED <<closed, gone, repeats, up, runnerVars, active, parentVars, history>>

FailAll == [i \in Ids |-> IF ask[i] = "pending" THEN "failed" ELSE ask[i]]

\* The child sees the channel end, after the frames that were still in it.
ChildDisconnect ==
    /\ ~ipc /\ down = <<>> /\ ~closed
    /\ closed' = TRUE
    /\ ask' = FailAll
    /\ UNCHANGED <<gone, repeats, up, down, runnerVars, active, parentVars, history>>

\* The child process ends; what it was sent is lost, and so is any suffix
\* of what it was still writing.
ChildGone ==
    /\ ~gone
    /\ gone' = TRUE /\ closed' = TRUE /\ ask' = FailAll
    /\ down' = <<>>
    /\ \E k \in 0 .. Len(up) : up' = SubSeq(up, 1, k)
    /\ UNCHANGED <<repeats, runnerVars, active, parentVars, history>>

---------------------------------------------------------------------------
(* The runner's side: receiveChildMessage, reply, expireQuery, closeIpc. *)

Answer(q, ok) ==
    /\ down' = IF gone THEN down ELSE Append(down, Frame(q, ok))
    /\ answered' = [answered EXCEPT ![q] = @ + 1]

\* acknowledge: at most one acknowledgement per id within the window.
Acknowledge(n, ok) ==
    IF Contains(acked, n)
    THEN UNCHANGED <<acked, down>>
    ELSE /\ acked' = LET order == Append(acked, n) IN
                     IF Len(order) > Window THEN Tail(order) ELSE order
         /\ down' = IF gone THEN down ELSE Append(down, Frame(n, ok))

\* A notification: one whose id was acknowledged is dropped, and one for a
\* session that is not the active one is rejected.
ReceiveNote(n) ==
    /\ ipc /\ up # <<>> /\ Head(up) = n
    /\ up' = Tail(up)
    /\ IF Contains(acked, n)
       THEN UNCHANGED <<acked, down, entered>>
       ELSE /\ entered' = IF active THEN [entered EXCEPT ![n] = @ + 1] ELSE entered
            /\ Acknowledge(n, active)
    /\ UNCHANGED <<childVars, ipc, query, writes, told, active, shown, spent, history>>

\* onQuerySettled: the parent's queue consumes or expires the question.
Settled(q) == shown' = shown \ {q} /\ spent' = spent \union {q}

\* A query the runner refuses: a second frame for an open one, one too many,
\* a session that is not the active one, or a flush of the parent's queue
\* that throws.  The last two had been entered, and are taken back.
RefuseQuery(q) ==
    /\ ipc /\ up # <<>> /\ Head(up) = q
    /\ up' = Tail(up)
    /\ heard' = [heard EXCEPT ![q] = @ + 1]
    /\ Answer(q, FALSE)
    /\ \/ /\ query[q] # "none" \/ Cardinality(OpenQueries) >= MaxQueries \/ ~active
          /\ UNCHANGED <<shown, spent>>
       \/ /\ query[q] = "none" /\ Cardinality(OpenQueries) < MaxQueries /\ active
          /\ Settled(q)
    /\ UNCHANGED <<childVars, runnerVars, active, entered>>

\* A query the runner opens, with its timer.  The message queue takes no
\* question it has seen settled: such a query is open, and not shown.
OpenQuery(q) ==
    /\ ipc /\ up # <<>> /\ Head(up) = q
    /\ query[q] = "none" /\ Cardinality(OpenQueries) < MaxQueries /\ active
    /\ up' = Tail(up)
    /\ heard' = [heard EXCEPT ![q] = @ + 1]
    /\ query' = [query EXCEPT ![q] = "open"]
    /\ shown' = IF q \in spent THEN shown ELSE shown \union {q}
    /\ UNCHANGED <<childVars, down, ipc, acked, writes, told, active, spent,
                   entered, answered>>

\* reply() up to its await: the query is marked, the frame handed to the
\* channel; a send that fails reports it in its callback.
Reply(q) ==
    /\ ipc /\ active /\ query[q] = "open"
    /\ query' = [query EXCEPT ![q] = "replying"]
    /\ told' = [told EXCEPT ![q] = "waiting"]
    /\ \/ /\ Answer(q, TRUE)
          /\ writes' = Append(writes, Frame(q, TRUE))
       \/ /\ writes' = Append(writes, Frame(q, FALSE))
          /\ UNCHANGED <<down, answered>>
    /\ UNCHANGED <<childVars, up, ipc, acked, active, parentVars, heard>>

\* The send's callback settles the promise that is registered for the id; the
\* rest of reply() runs before anything else, and ends the query.
Written ==
    /\ writes # <<>>
    /\ writes' = Tail(writes)
    /\ LET f == Head(writes) IN
         IF told[f.id] = "waiting"
         THEN /\ told' = [told EXCEPT ![f.id] = IF f.ok THEN "accepted" ELSE "unavailable"]
              /\ query' = [query EXCEPT ![f.id] = "none"]
              /\ Settled(f.id)
         ELSE UNCHANGED <<told, query, shown, spent>>
    /\ UNCHANGED <<childVars, up, down, ipc, acked, active, entered, history>>

\* Mutants: the expiry answers a query whose reply is being sent; it leaves the
\* reply() call waiting.
Expire_AnswersReplied(q) ==
    /\ query[q] # "none"
    /\ query' = [query EXCEPT ![q] = "none"]
    /\ Settled(q) /\ Answer(q, FALSE)
    /\ told' = IF told[q] = "waiting" THEN [told EXCEPT ![q] = "unavailable"] ELSE told
    /\ UNCHANGED <<childVars, up, ipc, acked, writes, active, entered, heard>>
Expire_KeepsReply(q) ==
    /\ query[q] # "none"
    /\ query' = [query EXCEPT ![q] = "none"]
    /\ Settled(q)
    /\ IF query[q] = "open" THEN Answer(q, FALSE) ELSE UNCHANGED <<down, answered>>
    /\ UNCHANGED <<childVars, up, ipc, acked, writes, told, active, entered, heard>>

\* expireQuery: an open query is answered with an error; one whose reply is
\* being sent is not, and its reply() call returns false.
Expire(q) ==
    /\ query[q] # "none"
    /\ query' = [query EXCEPT ![q] = "none"]
    /\ Settled(q)
    /\ IF query[q] = "replying"
       THEN told' = [told EXCEPT ![q] = "unavailable"] /\ UNCHANGED <<down, answered>>
       ELSE Answer(q, FALSE) /\ UNCHANGED told
    /\ UNCHANGED <<childVars, up, ipc, acked, writes, active, entered, heard>>

\* closeIpc: on the end of the task, or when the child's end of the channel
\* has closed; queries and their timers go, and every reply() call returns.
CloseIpc ==
    /\ ipc
    /\ ipc' = FALSE
    /\ query' = [q \in Queries |-> "none"]
    /\ told' = [q \in Queries |-> IF told[q] = "waiting" THEN "unavailable" ELSE told[q]]
    /\ UNCHANGED <<childVars, up, down, acked, writes, active, parentVars, history>>

\* The user leaves the task's parent session, or comes back to it.
SwitchSession ==
    /\ active' = ~active
    /\ UNCHANGED <<childVars, up, down, runnerVars, parentVars, history>>

Next ==
    \/ \E i \in Ids : Send(i) \/ SendAgain(i) \/ TimeOut(i)
    \/ Receive \/ ChildDisconnect \/ ChildGone
    \/ \E n \in Notes : ReceiveNote(n)
    \/ \E q \in Queries : RefuseQuery(q) \/ OpenQuery(q) \/ Reply(q) \/ Expire(q)
    \/ Written \/ CloseIpc \/ SwitchSession

\* Timers fire.  Nothing is assumed of the channel, the child or the parent.
Fairness ==
    /\ \A i \in Ids : WF_vars(TimeOut(i))
    /\ \A q \in Queries : WF_vars(Expire(q))

Spec == Init /\ [][Next]_vars /\ Fairness

---------------------------------------------------------------------------
(* What the channel promises. *)

TypeOK ==
    /\ ask \in [Ids -> {"unsent", "pending", "kept", "refused", "failed"}]
    /\ closed \in BOOLEAN /\ gone \in BOOLEAN /\ repeats \in 0 .. MaxRepeats
    /\ up \in Seq(Ids)
    /\ down \in Seq([id : Ids, ok : BOOLEAN])
    /\ ipc \in BOOLEAN /\ active \in BOOLEAN
    /\ acked \in Seq(Notes) /\ Len(acked) <= Window
    /\ query \in [Queries -> {"none", "open", "replying"}]
    /\ writes \in Seq([id : Queries, ok : BOOLEAN])
    /\ told \in [Queries -> {"nothing", "waiting", "accepted", "unavailable"}]
    /\ shown \subseteq Queries /\ spent \subseteq Queries
    /\ entered \in [Notes -> Nat]
    /\ heard \in [Queries -> Nat] /\ answered \in [Queries -> Nat]

\* Every query frame is answered at most once: a reply, an error, or the
\* expiry's error, never two of them, whatever the order in which the reply's
\* send, its callback, the timer and the channel's end come
\* (agents-runner.ts reply, expireQuery, sendReply).
OneAnswer ==
    \A q \in Queries : answered[q] + (IF query[q] = "open" THEN 1 ELSE 0) <= heard[q]

\* A question the parent's session is still shown is one the runner can
\* still answer, as long as the channel is open: no path that ends a query
\* forgets to settle it in the message queue.
ShownIsOpen == ipc => \A q \in shown : query[q] # "none"

\* A child told that its notification was accepted had it entered in the
\* parent's queue; and a frame that comes twice enters once, unless a whole
\* window of other notifications came in between.
NoticeOnce ==
    \A n \in Notes :
        /\ ask[n] = "kept" => entered[n] > 0
        /\ Cardinality({m \in Notes \ {n} : ask[m] # "unsent"}) < Window => entered[n] <= 1

\* The parent's model is told that its reply was accepted only when the reply
\* was the query's one answer, still on its way, delivered, or too late for
\* the child; and a child gets a reply only when the parent sent one.
ReplyIsTrue ==
    \A q \in Queries \ Repeatable :
        /\ told[q] = "accepted" /\ ask[q] = "pending" => Contains(down, Frame(q, TRUE))
        /\ told[q] = "accepted" => ask[q] # "refused"
        /\ ask[q] = "kept" => told[q] # "nothing"

\* One answer to a query, no question left behind, and two ends that agree: what
\* the child or the parent's model is told of a frame is what became of it.
ChannelInv == TypeOK /\ OneAnswer /\ ShownIsOpen /\ NoticeOnce /\ ReplyIsTrue

\* Every promise of the child's messenger settles, and every reply() call of
\* the parent returns, though frames, callbacks and peers may be lost.
PromisesSettle ==
    /\ \A i \in Ids : ask[i] = "pending" ~> ask[i] # "pending"
    /\ \A q \in Queries : told[q] = "waiting" ~> told[q] # "waiting"
=============================================================================
