------------------------- MODULE StandingPermission -------------------------
(***************************************************************************)
(* The standing review permission of a session: the registry of            *)
(* lib/review-session-standing-permission.ts, the consent of one           *)
(* gentle_review call in extensions/gentle-ai.ts, and the channel on which *)
(* a child asks its parent, lib/review-session-standing-permission-ipc.ts. *)
(*                                                                         *)
(* A call awaits Git (the identity), the user (the dialog), Git again and  *)
(* the provider; the session may be replaced, and the permission revoked,  *)
(* during each of these.  The lines of the channel arrive in order.        *)
(***************************************************************************)
EXTENDS Naturals, Sequences

CONSTANTS
  Sessions,
  Repos,        \* repository identities
  ChildRepo,    \* the repository of the child's task
  MaxRequests,  \* requests a broker accepts
  MaxIds,       \* bound: requests of the child
  MaxRevokes    \* bound: epochs of a session

VARIABLES
  session,   \* the session of the parent
  granted,   \* the registry's permissions
  epoch,     \* its revocation epochs
  call,      \* a gentle_review call with a pending consent
  revoking,  \* a revoke command that awaits the identity
  client,    \* ChildStandingReviewPermissionClient
  broker,    \* ParentStandingReviewPermissionBroker and its task
  asking, answering   \* lines on the channel

permVars == <<session, granted, epoch, call, revoking, client, broker, asking, answering>>

NoCall == [pc |-> "idle"]

\* client.held: whether the permission existed at some time since the request.
PermissionInit ==
  /\ session \in Sessions
  /\ granted = {}
  /\ epoch = [s \in Sessions |-> 0]
  /\ call = NoCall
  /\ revoking = {}
  /\ client = [pending |-> 0, nextId |-> 0, open |-> TRUE, last |-> "none", held |-> FALSE]
  /\ broker = [for |-> session, accepted |-> 0, open |-> TRUE, live |-> TRUE]
  /\ asking = <<>>
  /\ answering = <<>>

\* What the child's task may be granted now.
Authorized == broker.live /\ session = broker.for /\ <<broker.for, ChildRepo>> \in granted

askVars == <<client, broker, asking, answering>>

----------------------------------------------------------------------------
(* The parent's calls.  Each step runs until the next await.               *)

\* captureReviewSessionIdentity() reads the session id, then awaits Git.
Begin ==
  /\ call = NoCall
  /\ \E r \in Repos :
       call' = [pc |-> "capturing", for |-> session, repo |-> r, stale |-> FALSE]
  /\ UNCHANGED <<session, granted, epoch, revoking, askVars>>

\* The permission is found, and no dialog is needed, or the user is asked.
Captured ==
  /\ call.pc = "capturing"
  /\ LET active == <<call.for, call.repo>> \in granted IN
     call' = [pc |-> IF active THEN "chosen" ELSE "asking", for |-> call.for, repo |-> call.repo,
              stale |-> FALSE, epoch |-> epoch[call.for], active |-> active, choice |-> "host-session"]
  /\ UNCHANGED <<session, granted, epoch, revoking, askVars>>

\* The dialog: this session, this review only, or no.  It may be dismissed.
Choose ==
  /\ call.pc = "asking"
  /\ \/ \E c \in {"host-session", "granted", "declined"} :
          call' = [call EXCEPT !.pc = "chosen", !.choice = c]
     \/ call' = NoCall
  /\ UNCHANGED <<session, granted, epoch, revoking, askVars>>

\* The identity is captured again: the session id now, Git later.
Recapture ==
  /\ call.pc = "chosen"
  /\ call' = IF session = call.for THEN [call EXCEPT !.pc = "confirming"] ELSE NoCall
  /\ UNCHANGED <<session, granted, epoch, revoking, askVars>>

\* A revocation since the first capture stops the call; otherwise the answer
\* is sent to the provider.
Confirm ==
  /\ call.pc = "confirming"
  /\ call' = IF epoch[call.for] = call.epoch THEN [call EXCEPT !.pc = "answering"] ELSE NoCall
  /\ UNCHANGED <<session, granted, epoch, revoking, askVars>>

\* Mutant: grantReviewSessionPermission() without the expected epoch.
Grantable_Always(c) == TRUE

\* grantReviewSessionPermission() with the epoch of the first capture.
Grantable(c) == epoch[c.for] = c.epoch

\* The provider completed the review's consent, or not.
ConsentAnswered ==
  /\ call.pc = "answering"
  /\ \E completed \in BOOLEAN :
       granted' = IF completed /\ ~call.active /\ call.choice = "host-session" /\ Grantable(call)
                  THEN granted \cup {<<call.for, call.repo>>} ELSE granted
  /\ call' = NoCall
  /\ client' = [client EXCEPT !.held = @ \/ (session = broker.for /\ <<broker.for, ChildRepo>> \in granted')]
  /\ UNCHANGED <<session, epoch, revoking, broker, asking, answering>>

----------------------------------------------------------------------------
(* Revocation.                                                             *)

\* The epochs of these sessions advance whether or not there was a permission.
Revoke(sessions, pairs) ==
  /\ \A s \in sessions : epoch[s] < MaxRevokes
  /\ epoch' = [s \in Sessions |-> IF s \in sessions THEN epoch[s] + 1 ELSE epoch[s]]
  /\ granted' = granted \ pairs
  /\ call' = IF call # NoCall /\ <<call.for, call.repo>> \in pairs
             THEN [call EXCEPT !.stale = TRUE] ELSE call

\* /gentle:review-session-permission revoke: the session is read before Git is
\* awaited.  The user gives one command at a time.
RevokeCommand ==
  /\ revoking = {}
  /\ \E r \in Repos : revoking' = {<<session, r>>}
  /\ UNCHANGED <<session, granted, epoch, call, askVars>>

RevokeRepo ==
  /\ \E p \in revoking : Revoke({p[1]}, {p})
  /\ revoking' = {}
  /\ UNCHANGED <<session, askVars>>

\* session_shutdown revokes for the session that ends, session_start for the one
\* that begins, perhaps the same; a reload revokes nothing.
ReplaceSession ==
  /\ \E next \in Sessions :
       /\ Revoke({session, next}, {session, next} \X Repos)
       /\ session' = next
  /\ UNCHANGED <<revoking, askVars>>

----------------------------------------------------------------------------
(* The child's side.                                                       *)

\* One request at a time.  A write that reports back pressure was sent, but
\* fails the request.
Request ==
  /\ client.open
  /\ client.pending = 0
  /\ client.nextId < MaxIds
  /\ \E written \in BOOLEAN :
       client' = [client EXCEPT !.nextId = @ + 1, !.last = "none", !.held = Authorized,
                    !.pending = IF written THEN client.nextId + 1 ELSE 0]
  /\ asking' = Append(asking, client.nextId + 1)
  /\ UNCHANGED <<session, granted, epoch, call, revoking, broker, answering>>

\* The five seconds are over.
ExpireRequest ==
  /\ client.pending # 0
  /\ client' = [client EXCEPT !.pending = 0]
  /\ UNCHANGED <<session, granted, epoch, call, revoking, broker, asking, answering>>

\* Mutant: any answer is taken for the pending request.
Matches_Any(line) == client.pending # 0

Matches(line) == line.id = client.pending

ReceiveAnswer ==
  /\ client.open
  /\ answering # <<>>
  /\ answering' = Tail(answering)
  /\ client' = IF Matches(Head(answering))
               THEN [client EXCEPT !.pending = 0, !.last = IF Head(answering).granted THEN "granted" ELSE "denied"]
               ELSE client
  /\ UNCHANGED <<session, granted, epoch, call, revoking, broker, asking>>

\* Every request is authorized again when it arrives.
Handle ==
  /\ broker.open
  /\ asking # <<>>
  /\ asking' = Tail(asking)
  /\ answering' = Append(answering, [id |-> Head(asking),
                           granted |-> broker.accepted < MaxRequests /\ Authorized])
  /\ broker' = IF broker.accepted < MaxRequests
               THEN [broker EXCEPT !.accepted = @ + 1] ELSE broker
  /\ UNCHANGED <<session, granted, epoch, call, revoking, client>>

TaskEnds ==
  /\ broker.live
  /\ broker' = [broker EXCEPT !.live = FALSE]
  /\ UNCHANGED <<session, granted, epoch, call, revoking, client, asking, answering>>

\* The pipe ended or failed on one side; what was written before arrives.
CloseBroker ==
  /\ broker.open
  /\ broker' = [broker EXCEPT !.open = FALSE]
  /\ UNCHANGED <<session, granted, epoch, call, revoking, client, asking, answering>>

CloseClient ==
  /\ client.open
  /\ client' = [client EXCEPT !.open = FALSE, !.pending = 0]
  /\ UNCHANGED <<session, granted, epoch, call, revoking, broker, asking, answering>>

PermissionNext ==
  \/ Begin \/ Captured \/ Choose \/ Recapture \/ Confirm \/ ConsentAnswered
  \/ RevokeCommand \/ RevokeRepo \/ ReplaceSession
  \/ Request \/ ExpireRequest \/ ReceiveAnswer \/ Handle \/ TaskEnds
  \/ CloseBroker \/ CloseClient

PermissionSpec == PermissionInit /\ [][PermissionNext]_permVars

----------------------------------------------------------------------------
(* Properties.                                                             *)

\* No permission outlives its session, and a child is told "granted" only if
\* the permission existed while it was asking, however late answers come.
PermissionInv ==
  /\ granted \subseteq {session} \X Repos
  /\ client.last = "granted" => client.held

\* A revocation is final for what was under way: a call that was revoked while
\* it waited for Git, the user or the provider grants nothing any more, and no
\* review is answered without a dialog once the permission it saw is gone.
RevocationHolds ==
  [][/\ granted' \ granted # {} => ~call.stale
     /\ call.pc = "confirming" /\ call'.pc = "answering" /\ call.active =>
          <<call.for, call.repo>> \in granted]_permVars
=============================================================================
