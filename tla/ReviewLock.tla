----------------------------- MODULE ReviewLock -----------------------------
(***************************************************************************)
(* The mutation lock of lib/review-lock.ts: processes that share one       *)
(* repository take turns through a directory `authority.lock' holding an   *)
(* owner.json.  An acquisition writes a durable intent, makes the          *)
(* directory, creates owner.json exclusively and drops the intent.  A      *)
(* release and a recovery move the directory away: they reserve the        *)
(* destination's name with mkdir and rename onto it, so a destination      *)
(* named after a token can be taken once.                                  *)
(*                                                                         *)
(* One action is one call of the system (fsync changes nothing here): the  *)
(* record of an owner is read in one step, and its process looked up in a  *)
(* later one.  Calls are synchronous: a process is inside one of them at a *)
(* time, and may die, or be told of an I/O error, between any two steps.   *)
(***************************************************************************)
EXTENDS Naturals

CONSTANTS
  Attempts,            \* calls of acquire(); an attempt is also its token
  Processes,           \* the processes that make them
  Pid,                 \* Pid[a] is the process of attempt a
  Recoveries,          \* calls of recover() or recoverIncomplete()
  NoOne,               \* no attempt
  IncompleteRecovery   \* whether recoverIncomplete() is ever called

ASSUME PidAssumption == Pid \in [Attempts -> Processes]
ASSUME NoOneAssumption == NoOne \notin Attempts
ASSUME IncompleteRecoveryAssumption == IncompleteRecovery \in BOOLEAN

VARIABLES
  dir,      \* the lock path: absent, empty, a torn or a complete owner.json
  by,       \* whose directory or file that is
  intents,  \* the acquisition intents on disk
  dests,    \* the names taken next to the lock and in its quarantine
  alive,    \* the processes that exist
  pc,       \* how far each attempt is
  rpc,      \* how far each recovery is
  target    \* the attempt a recovery read from owner.json or an intent

vars == <<dir, by, intents, dests, alive, pc, rpc, target>>

\* The steps of acquire(), the critical section, the steps of release(); "left" is
\* a release that threw when the lock was gone.
Steps == {"idle", "intended", "made", "opened", "written", "held",
          "releasing", "reserved", "moved", "done", "left", "failed"}
\* "tookOther" is a recovery that is done and moved another attempt's lock than the
\* one it had read: the properties tell it from "done".
RecoverySteps == {"idle", "read", "observed", "reserved", "incomplete", "intentRead",
                  "intent", "intentReserved", "done", "tookOther", "failed"}
Kinds == {"released", "stale", "incomplete"}

TypeOK ==
  /\ dir \in {"absent", "empty", "torn", "owned"}
  /\ by \in Attempts \cup {NoOne}
  /\ intents \subseteq Attempts
  /\ dests \subseteq Kinds \X Attempts
  /\ alive \subseteq Processes
  /\ pc \in [Attempts -> Steps]
  /\ rpc \in [Recoveries -> RecoverySteps]
  /\ target \in [Recoveries -> Attempts \cup {NoOne}]
  /\ dir = "absent" <=> by = NoOne
  /\ \A r \in Recoveries :
       rpc[r] \in {"read", "observed", "reserved", "intentRead", "intent", "intentReserved"} =>
         target[r] \in Attempts

Init ==
  /\ dir = "absent"
  /\ by = NoOne
  /\ intents = {}
  /\ dests = {}
  /\ alive = Processes
  /\ pc = [a \in Attempts |-> "idle"]
  /\ rpc = [r \in Recoveries |-> "idle"]
  /\ target = [r \in Recoveries |-> NoOne]

Live(a) == Pid[a] \in alive
Calling == Steps \ {"idle", "held", "done", "left", "failed"}
\* The attempt gave its lock back.
Released(a) == pc[a] \in {"moved", "left", "done"}

\* A call may start when its process is inside no other one.
MayCall(a) ==
  /\ Live(a)
  /\ \A b \in Attempts : Pid[b] = Pid[a] => pc[b] \notin Calling

To(a, s) == pc' = [pc EXCEPT ![a] = s]
RTo(r, s) == rpc' = [rpc EXCEPT ![r] = s]

\* rename(path, destination): whatever directory is there goes.
MoveAway == dir # "absent" /\ dir' = "absent" /\ by' = NoOne

----------------------------------------------------------------------------
(* acquire()                                                               *)

WriteIntent(a) ==
  /\ pc[a] = "idle"
  /\ MayCall(a)
  /\ intents' = intents \cup {a}
  /\ To(a, "intended")
  /\ UNCHANGED <<dir, by, dests, alive, rpc, target>>

\* Mutant: the intent is dropped before there is an owner file.
MakeDir_DropsIntent(a) ==
  /\ pc[a] = "intended"
  /\ Live(a)
  /\ IF dir = "absent"
     THEN dir' = "empty" /\ by' = a /\ intents' = intents \ {a} /\ To(a, "made")
     ELSE UNCHANGED <<dir, by, intents>> /\ To(a, "failed")
  /\ UNCHANGED <<dests, alive, rpc, target>>

\* The loser's intent stays on disk.
MakeDir(a) ==
  /\ pc[a] = "intended"
  /\ Live(a)
  /\ IF dir = "absent"
     THEN dir' = "empty" /\ by' = a /\ To(a, "made")
     ELSE UNCHANGED <<dir, by>> /\ To(a, "failed")
  /\ UNCHANGED <<intents, dests, alive, rpc, target>>

\* open(owner.json, "wx"): in whatever directory the path names now.
OpenOwner(a) ==
  /\ pc[a] = "made"
  /\ Live(a)
  /\ IF dir = "empty"
     THEN dir' = "torn" /\ by' = a /\ To(a, "opened")
     ELSE UNCHANGED <<dir, by>> /\ To(a, "failed")
  /\ UNCHANGED <<intents, dests, alive, rpc, target>>

\* The content reaches the file that was opened, wherever it is.
FillOwner(a) ==
  /\ pc[a] = "opened"
  /\ Live(a)
  /\ dir' = IF dir = "torn" /\ by = a THEN "owned" ELSE dir
  /\ To(a, "written")
  /\ UNCHANGED <<by, intents, dests, alive, rpc, target>>

\* fsync reopens owner.json by its path; then the intent is dropped.
DropIntent(a) ==
  /\ pc[a] = "written"
  /\ Live(a)
  /\ IF dir \in {"torn", "owned"}
     THEN intents' = intents \ {a} /\ To(a, "held")
     ELSE UNCHANGED intents /\ To(a, "failed")
  /\ UNCHANGED <<dir, by, dests, alive, rpc, target>>

----------------------------------------------------------------------------
(* release()                                                               *)

CheckOwner(a) ==
  /\ pc[a] = "held"
  /\ MayCall(a)
  /\ To(a, IF dir = "owned" /\ by = a THEN "releasing" ELSE "failed")
  /\ UNCHANGED <<dir, by, intents, dests, alive, rpc, target>>

Reserve(a) ==
  /\ pc[a] = "releasing"
  /\ Live(a)
  /\ <<"released", a>> \notin dests
  /\ dests' = dests \cup {<<"released", a>>}
  /\ To(a, "reserved")
  /\ UNCHANGED <<dir, by, intents, alive, rpc, target>>

Move(a) ==
  /\ pc[a] = "reserved"
  /\ Live(a)
  /\ MoveAway
  /\ To(a, "moved")
  /\ UNCHANGED <<intents, dests, alive, rpc, target>>

RemoveMoved(a) ==
  /\ pc[a] = "moved"
  /\ Live(a)
  /\ dests' = dests \ {<<"released", a>>}
  /\ To(a, "done")
  /\ UNCHANGED <<dir, by, intents, alive, rpc, target>>

\* A call of the file system fails and the method throws.  A reserved
\* destination is removed if that works.
Fail(a) ==
  /\ pc[a] \in Calling
  /\ Live(a)
  /\ To(a, IF pc[a] = "moved" THEN "left" ELSE "failed")
  /\ dests' \in {dests, dests \ IF pc[a] = "reserved" THEN {<<"released", a>>} ELSE {}}
  /\ UNCHANGED <<dir, by, intents, alive, rpc, target>>

----------------------------------------------------------------------------
(* recover(): a complete owner file whose process is proven dead.          *)

\* readOwner(), whoever that is and lives.
ReadOwner(r) ==
  /\ rpc[r] = "idle"
  /\ dir = "owned"
  /\ target' = [target EXCEPT ![r] = by]
  /\ RTo(r, "read")
  /\ UNCHANGED <<dir, by, intents, dests, alive, pc>>

\* Mutant: the owner's process is not looked up.
ProveOwnerDead_Unchecked(r) ==
  /\ rpc[r] = "read"
  /\ RTo(r, "observed")
  /\ UNCHANGED <<dir, by, intents, dests, alive, pc, target>>

\* proveOwnerDead(): a signal to the process of the record, which may have ended
\* since, and the lock be another's by now.
ProveOwnerDead(r) ==
  /\ rpc[r] = "read"
  /\ RTo(r, IF Live(target[r]) THEN "failed" ELSE "observed")
  /\ UNCHANGED <<dir, by, intents, dests, alive, pc, target>>

\* Mutant: the destination may exist already.
ReserveStale_Replaces(r) ==
  /\ rpc[r] = "observed"
  /\ dests' = dests \cup {<<"stale", target[r]>>}
  /\ RTo(r, "reserved")
  /\ UNCHANGED <<dir, by, intents, alive, pc, target>>

ReserveStale(r) ==
  /\ rpc[r] = "observed"
  /\ IF <<"stale", target[r]>> \in dests
     THEN UNCHANGED dests /\ RTo(r, "failed")
     ELSE dests' = dests \cup {<<"stale", target[r]>>} /\ RTo(r, "reserved")
  /\ UNCHANGED <<dir, by, intents, alive, pc, target>>

MoveStale(r) ==
  /\ rpc[r] = "reserved"
  /\ MoveAway
  /\ RTo(r, IF by = target[r] THEN "done" ELSE "tookOther")
  /\ UNCHANGED <<intents, dests, alive, pc, target>>

----------------------------------------------------------------------------
(* recoverIncomplete(): no owner file, and a dead process's intent.        *)

CheckIncomplete(r) ==
  /\ IncompleteRecovery
  /\ rpc[r] = "idle"
  /\ dir \in {"absent", "empty"}
  /\ RTo(r, "incomplete")
  /\ UNCHANGED <<dir, by, intents, dests, alive, pc, target>>

ReadIntent(r) ==
  /\ rpc[r] = "incomplete"
  /\ \E a \in intents : target' = [target EXCEPT ![r] = a]
  /\ RTo(r, "intentRead")
  /\ UNCHANGED <<dir, by, intents, dests, alive, pc>>

ProveIntentDead(r) ==
  /\ rpc[r] = "intentRead"
  /\ RTo(r, IF Live(target[r]) THEN "failed" ELSE "intent")
  /\ UNCHANGED <<dir, by, intents, dests, alive, pc, target>>

ReserveIncomplete(r) ==
  /\ rpc[r] = "intent"
  /\ IF <<"incomplete", target[r]>> \in dests
     THEN UNCHANGED dests /\ RTo(r, "failed")
     ELSE dests' = dests \cup {<<"incomplete", target[r]>>} /\ RTo(r, "intentReserved")
  /\ UNCHANGED <<dir, by, intents, alive, pc, target>>

MoveIncomplete(r) ==
  /\ rpc[r] = "intentReserved"
  /\ MoveAway
  /\ RTo(r, "done")
  /\ UNCHANGED <<intents, dests, alive, pc, target>>

\* A recovery throws, or its process dies: the reserved name may stay.
RecoveryFails(r) ==
  /\ rpc[r] \notin {"idle", "done", "tookOther", "failed"}
  /\ RTo(r, "failed")
  /\ dests' \in {dests, dests \ CASE rpc[r] = "reserved" -> {<<"stale", target[r]>>}
                                  [] rpc[r] = "intentReserved" -> {<<"incomplete", target[r]>>}
                                  [] OTHER -> {}}
  /\ UNCHANGED <<dir, by, intents, alive, pc, target>>

\* A process dies at any point of its calls, or in its critical section.
Crash(p) ==
  /\ p \in alive
  /\ alive' = alive \ {p}
  /\ UNCHANGED <<dir, by, intents, dests, pc, rpc, target>>

----------------------------------------------------------------------------
AttemptStep(a) ==
  \/ WriteIntent(a) \/ MakeDir(a) \/ OpenOwner(a) \/ FillOwner(a) \/ DropIntent(a)
  \/ CheckOwner(a) \/ Reserve(a) \/ Move(a) \/ RemoveMoved(a) \/ Fail(a)

RecoveryStep(r) ==
  \/ ReadOwner(r) \/ ProveOwnerDead(r) \/ ReserveStale(r) \/ MoveStale(r)
  \/ CheckIncomplete(r) \/ ReadIntent(r) \/ ProveIntentDead(r)
  \/ ReserveIncomplete(r) \/ MoveIncomplete(r)
  \/ RecoveryFails(r)

Next ==
  \/ \E a \in Attempts : AttemptStep(a)
  \/ \E r \in Recoveries : RecoveryStep(r)
  \/ \E p \in Processes : Crash(p)

Spec == Init /\ [][Next]_vars

----------------------------------------------------------------------------
(* Properties.                                                             *)

Holds(a) == Live(a) /\ pc[a] = "held"

\* No recovery has moved another attempt's lock than the one it had read.
Undisturbed == \A r \in Recoveries : rpc[r] # "tookOther"

\* Two live processes are never inside withLock() at once, whatever died, failed or
\* was recovered before, until a recovery moves a lock that it had not read.
MutualExclusion ==
  Undisturbed => \A a, b \in Attempts : Holds(a) /\ Holds(b) => a = b

\* The recovery read the record of an owner that gave the lock back and ended
\* before its process was looked up.
Misled(r) == Released(target[r]) /\ ~Live(target[r])

\* The lock of a live owner goes away by that owner's own release, or, in one case
\* only, by a recovery: one that was misled.  A recovery that read the record of an
\* owner that died with the lock never moves its successor's.
LiveLockKept ==
  [][Undisturbed /\ dir = "owned" /\ Live(by) /\ (dir' # "owned" \/ by' # by) =>
       \/ pc[by] = "reserved" /\ pc'[by] = "moved"
       \/ \E r \in Recoveries : MoveStale(r) /\ Misled(r)]_vars

\* tests/review-lock.test.ts:51: "stale recovery moves only the observed owner into a
\* persistent token-fenced quarantine".
MovesOnlyObserved == [][\A r \in Recoveries : MoveStale(r) => by = target[r]]_vars

\* A directory without an owner file can be attributed: the intent of the
\* attempt that made it is on disk.
IncompleteHasIntent == dir = "empty" => by \in intents

\* tests/review-lock.test.ts:172: "incomplete acquisition may be quarantined only with a
\* dead durable intent".  It does not hold either: recoverIncomplete() moves whatever
\* is there by then, as recover() does.
QuarantinesDeadIncomplete ==
  [][\A r \in Recoveries : MoveIncomplete(r) => dir = "empty" /\ ~Live(by)]_vars

----------------------------------------------------------------------------
(* The inductive invariant behind mutual exclusion, without                *)
(* recoverIncomplete().                                                    *)

\* Where an attempt is tells what is at the lock path.
AttemptInv ==
  \A a \in Attempts :
    /\ pc[a] \in {"intended", "made"} => a \in intents
    /\ pc[a] = "made" => dir = "empty" /\ by = a
    /\ pc[a] = "opened" => dir = "torn" /\ by = a
    /\ Live(a) /\ pc[a] \in {"written", "held", "releasing", "reserved"} =>
         dir = "owned" /\ by = a

\* What a recovery read stays at the lock path until its owner gives it back or its
\* one destination is taken.
RecoveryInv ==
  \A r \in Recoveries :
    /\ rpc[r] \in {"idle", "read", "observed", "reserved", "done", "failed"}
    /\ rpc[r] \in {"observed", "reserved"} => ~Live(target[r])
    /\ rpc[r] \in {"read", "observed"} =>
         \/ dir = "owned" /\ by = target[r]
         \/ Released(target[r])
         \/ <<"stale", target[r]>> \in dests
    /\ rpc[r] = "reserved" =>
         /\ (dir = "owned" /\ by = target[r]) \/ Released(target[r])
         /\ <<"stale", target[r]>> \in dests
         /\ \A q \in Recoveries :
              rpc[q] = "reserved" /\ target[q] = target[r] => q = r

LockInv == Undisturbed => AttemptInv /\ RecoveryInv
=============================================================================
