----------------------------- MODULE ReviewProofs -----------------------------
(*****************************************************************************)
(* What holds of four parts of the review for every value of their           *)
(* constants.  The lock, for every set of attempts, processes and recoveries:*)
(* without recoverIncomplete(), mutual exclusion until a recovery moves a    *)
(* lock that it had not read, and how that comes about the first time; with  *)
(* it or without, that a directory without an owner can be attributed.  The  *)
(* policy, for every set of findings and every budget: no severe finding is  *)
(* lost on the way to an approval.  The standing permission, for every set of*)
(* sessions and repositories, however many requests, revocations and         *)
(* replacements there are: it dies with its session, and a revocation holds. *)
(* The graph store, for every set of lineages, keys and requests: it is a    *)
(* ledger until an operation ends while no two of its slots agree.           *)
(*****************************************************************************)
EXTENDS ReviewLock, ReviewPolicy, StandingPermission, ReviewStore, FiniteSetTheorems, TLAPS

----------------------------------------------------------------------------
(* ReviewLock                                                             *)

\* Every variable stays in its range, whatever dies, fails or is recovered.
THEOREM LockTypeCorrect == Spec => []TypeOK
<1>1. Init => TypeOK
  BY NoOneAssumption DEF Init, TypeOK, Steps, RecoverySteps
<1>2. TypeOK /\ [Next]_vars => TypeOK'
  <2> SUFFICES ASSUME TypeOK, [Next]_vars PROVE TypeOK'
    OBVIOUS
  <2> USE NoOneAssumption DEF TypeOK, To, RTo
  <2>1. ASSUME NEW a \in Attempts, AttemptStep(a) PROVE TypeOK'
    <3>1. CASE WriteIntent(a)
      BY <3>1 DEF WriteIntent, Steps
    <3>2. CASE MakeDir(a)
      BY <3>2 DEF MakeDir, Steps
    <3>3. CASE OpenOwner(a)
      BY <3>3 DEF OpenOwner, Steps
    <3>4. CASE FillOwner(a)
      BY <3>4 DEF FillOwner, Steps
    <3>5. CASE DropIntent(a)
      BY <3>5 DEF DropIntent, Steps
    <3>6. CASE CheckOwner(a)
      BY <3>6 DEF CheckOwner, Steps
    <3>7. CASE Reserve(a)
      BY <3>7 DEF Reserve, Steps, Kinds
    <3>8. CASE Move(a)
      BY <3>8 DEF Move, MoveAway, Steps
    <3>9. CASE RemoveMoved(a)
      BY <3>9 DEF RemoveMoved, Steps
    <3>10. CASE Fail(a)
      BY <3>10 DEF Fail, Steps
    <3> QED
      BY <2>1, <3>1, <3>2, <3>3, <3>4, <3>5, <3>6, <3>7, <3>8, <3>9, <3>10 DEF AttemptStep
  <2>2. ASSUME NEW r \in Recoveries, RecoveryStep(r) PROVE TypeOK'
    <3>1. CASE ReadOwner(r)
      BY <3>1 DEF ReadOwner, RecoverySteps
    <3>9. CASE ProveOwnerDead(r)
      BY <3>9 DEF ProveOwnerDead, RecoverySteps
    <3>10. CASE ProveIntentDead(r)
      BY <3>10 DEF ProveIntentDead, RecoverySteps
    <3>2. CASE ReserveStale(r)
      BY <3>2 DEF ReserveStale, RecoverySteps, Kinds
    <3>3. CASE MoveStale(r)
      BY <3>3 DEF MoveStale, MoveAway, RecoverySteps
    <3>4. CASE CheckIncomplete(r)
      BY <3>4 DEF CheckIncomplete, RecoverySteps
    <3>5. CASE ReadIntent(r)
      BY <3>5 DEF ReadIntent, RecoverySteps
    <3>6. CASE ReserveIncomplete(r)
      BY <3>6 DEF ReserveIncomplete, RecoverySteps, Kinds
    <3>7. CASE MoveIncomplete(r)
      BY <3>7 DEF MoveIncomplete, MoveAway, RecoverySteps
    <3>8. CASE RecoveryFails(r)
      BY <3>8 DEF RecoveryFails, RecoverySteps
    <3> QED
      BY <2>2, <3>1, <3>2, <3>3, <3>4, <3>5, <3>6, <3>7, <3>8, <3>9, <3>10 DEF RecoveryStep
  <2>3. ASSUME NEW p \in Processes, Crash(p) PROVE TypeOK'
    BY <2>3 DEF Crash
  <2>4. CASE UNCHANGED vars
    BY <2>4 DEF vars
  <2> QED BY <2>1, <2>2, <2>3, <2>4 DEF Next
<1> QED BY <1>1, <1>2, PTL DEF Spec

\* A new repository has no lock, no intent and no recovery.
LEMMA LockInitInv == Init => LockInv
  BY DEF Init, LockInv, AttemptInv, RecoveryInv

\* A step of acquire() or release(): only the attempt that the lock path
\* belongs to, or one that finds it free, changes what is there.
LEMMA AttemptKeeps ==
  ASSUME TypeOK, AttemptInv, RecoveryInv, NEW a \in Attempts, AttemptStep(a)
  PROVE  AttemptInv' /\ RecoveryInv'
<1> USE DEF TypeOK, To, Live, Released, AttemptInv, RecoveryInv
<1>1. CASE WriteIntent(a)
  BY <1>1 DEF WriteIntent
<1>2. CASE MakeDir(a)
  BY <1>2, NoOneAssumption DEF MakeDir
<1>3. CASE OpenOwner(a)
  BY <1>3 DEF OpenOwner
<1>4. CASE FillOwner(a)
  BY <1>4 DEF FillOwner
<1>5. CASE DropIntent(a)
  BY <1>5 DEF DropIntent
<1>6. CASE CheckOwner(a)
  BY <1>6 DEF CheckOwner
<1>7. CASE Reserve(a)
  BY <1>7 DEF Reserve
<1>8. CASE Move(a)
  BY <1>8, NoOneAssumption DEF Move, MoveAway
<1>9. CASE RemoveMoved(a)
  BY <1>9 DEF RemoveMoved
<1>10. CASE Fail(a)
  <2>1. /\ pc'[a] \in {"left", "failed"} /\ \A b \in Attempts \ {a} : pc'[b] = pc[b]
        /\ pc'[a] = "left" <=> pc[a] = "moved"
        /\ UNCHANGED <<dir, by, intents, alive, rpc, target>>
    BY <1>10 DEF Fail, Calling, Steps
  <2>2. pc[a] \in Calling /\ Live(a)
    BY <1>10 DEF Fail
  <2>3. \A b : <<"stale", b>> \in dests <=> <<"stale", b>> \in dests'
    BY <1>10 DEF Fail
  <2>4. AttemptInv'
    BY <2>1
  <2>5. \A b \in Attempts : Released(b) => Released(b)'
    BY <2>1, <2>2 DEF Calling
  <2> HIDE DEF Released
  <2> QED BY <2>1, <2>3, <2>4, <2>5
<1> QED
  BY <1>1, <1>2, <1>3, <1>4, <1>5, <1>6, <1>7, <1>8, <1>9, <1>10 DEF AttemptStep

\* A step of recover() that does not move another attempt's lock: what it moves
\* away belongs to the dead owner that it read, because it alone took that
\* owner's destination.
LEMMA RecoveryKeeps ==
  ASSUME TypeOK, AttemptInv, RecoveryInv, Undisturbed', ~IncompleteRecovery,
         NEW r \in Recoveries, RecoveryStep(r)
  PROVE  AttemptInv' /\ RecoveryInv'
<1> USE DEF TypeOK, RTo, Live, Released, AttemptInv, RecoveryInv
<1>1. CASE ReadOwner(r)
  BY <1>1 DEF ReadOwner
<1>2. CASE ProveOwnerDead(r)
  BY <1>2 DEF ProveOwnerDead
<1>3. CASE ReserveStale(r)
  BY <1>3 DEF ReserveStale
<1>4. CASE MoveStale(r)
  <2>1. by = target[r] /\ ~Live(target[r])
    BY <1>4 DEF MoveStale, Undisturbed
  <2> QED BY <1>4, <2>1, NoOneAssumption DEF MoveStale, MoveAway
<1>5. CASE RecoveryFails(r)
  BY <1>5 DEF RecoveryFails
<1>6. /\ ~CheckIncomplete(r) /\ ~ReadIntent(r) /\ ~ProveIntentDead(r)
      /\ ~ReserveIncomplete(r) /\ ~MoveIncomplete(r)
  BY DEF CheckIncomplete, ReadIntent, ProveIntentDead, ReserveIncomplete, MoveIncomplete
<1> QED BY <1>1, <1>2, <1>3, <1>4, <1>5, <1>6 DEF RecoveryStep

\* A recovery that moved a lock it had not read has ended: it stays known.
LEMMA DisturbedForGood == ASSUME TypeOK, [Next]_vars, Undisturbed' PROVE Undisturbed
<1> SUFFICES ASSUME NEW r \in Recoveries, rpc[r] = "tookOther" PROVE rpc'[r] = "tookOther"
  BY DEF Undisturbed
<1>1. ASSUME NEW a \in Attempts, AttemptStep(a) PROVE rpc' = rpc
  BY <1>1 DEF AttemptStep, WriteIntent, MakeDir, OpenOwner, FillOwner, DropIntent, CheckOwner,
     Reserve, Move, RemoveMoved, Fail
<1>2. ASSUME NEW q \in Recoveries, RecoveryStep(q) PROVE rpc'[r] = "tookOther"
  BY <1>2 DEF RecoveryStep, ReadOwner, ProveOwnerDead, ReserveStale, MoveStale,
     CheckIncomplete, ReadIntent, ProveIntentDead, ReserveIncomplete, MoveIncomplete,
     RecoveryFails, RTo, TypeOK
<1>3. ASSUME NEW p \in Processes, Crash(p) PROVE rpc' = rpc
  BY <1>3 DEF Crash
<1> QED BY <1>1, <1>2, <1>3 DEF Next, vars

\* Every step keeps the inductive invariant.
LEMMA LockStepInv == ~IncompleteRecovery /\ TypeOK /\ LockInv /\ [Next]_vars => LockInv'
<1> SUFFICES ASSUME ~IncompleteRecovery, TypeOK, LockInv, [Next]_vars, Undisturbed'
             PROVE  AttemptInv' /\ RecoveryInv'
  BY DEF LockInv
<1>1. AttemptInv /\ RecoveryInv
  BY DisturbedForGood DEF LockInv
<1>2. ASSUME NEW p \in Processes, Crash(p) PROVE AttemptInv' /\ RecoveryInv'
  BY <1>1, <1>2 DEF Crash, AttemptInv, RecoveryInv, Live, Released
<1>3. CASE UNCHANGED vars
  BY <1>1, <1>3 DEF vars, AttemptInv, RecoveryInv, Live, Released
<1> QED BY <1>1, <1>2, <1>3, AttemptKeeps, RecoveryKeeps DEF Next

\* Until a recovery moves a lock that it had not read, the lock path tells where
\* every attempt is, as long as recoverIncomplete() is not used.
THEOREM LockInvariant == ~IncompleteRecovery => (Spec => []LockInv)
<1> SUFFICES ASSUME ~IncompleteRecovery PROVE Spec => []LockInv
  OBVIOUS
<1>1. TypeOK /\ LockInv /\ [Next]_vars => LockInv'
  BY LockStepInv
<1> QED BY <1>1, LockInitInv, LockTypeCorrect, PTL DEF Spec

\* Two live processes never hold the review lock at once before a recovery has
\* moved a lock that it had not read.
THEOREM Exclusion == ~IncompleteRecovery => (Spec => []MutualExclusion)
<1>1. LockInv => MutualExclusion
  BY DEF LockInv, AttemptInv, MutualExclusion, Holds
<1> QED BY <1>1, LockInvariant, PTL

\* The first time that a live owner's lock goes away otherwise than by its own
\* release, a recovery was misled: it had read the record of an owner that gave
\* the lock back and ended before its process was looked up.
THEOREM OwnerKept == ~IncompleteRecovery => (Spec => LiveLockKept)
<1> SUFFICES ASSUME ~IncompleteRecovery PROVE Spec => LiveLockKept
  OBVIOUS
<1> DEFINE Given == \/ pc[by] = "reserved" /\ pc'[by] = "moved"
                    \/ \E r \in Recoveries : MoveStale(r) /\ Misled(r)
           Kept == Undisturbed /\ dir = "owned" /\ Live(by) /\ (dir' # "owned" \/ by' # by)
                     => Given
<1>1. TypeOK /\ LockInv /\ [Next]_vars => [Kept]_vars
  <2> SUFFICES ASSUME TypeOK, AttemptInv, RecoveryInv, Next,
                      dir = "owned", Live(by), dir' # "owned" \/ by' # by
               PROVE  Given
    BY DEF LockInv
  <2>1. ASSUME NEW a \in Attempts, AttemptStep(a) PROVE pc[by] = "reserved" /\ pc'[by] = "moved"
    BY <2>1 DEF AttemptStep, WriteIntent, MakeDir, OpenOwner, FillOwner, DropIntent, CheckOwner,
       Reserve, Move, MoveAway, RemoveMoved, Fail, To, TypeOK, AttemptInv
  <2>2. ASSUME NEW r \in Recoveries, RecoveryStep(r) PROVE MoveStale(r) /\ Misled(r)
    <3>1. MoveStale(r)
      BY <2>2 DEF RecoveryStep, ReadOwner, ProveOwnerDead, ReserveStale, MoveStale, MoveAway,
         CheckIncomplete, ReadIntent, ProveIntentDead, ReserveIncomplete, MoveIncomplete,
         RecoveryFails, RecoveryInv
    <3>2. ~Live(target[r]) /\ (by = target[r] \/ Released(target[r]))
      BY <3>1 DEF MoveStale, RecoveryInv
    <3> QED BY <3>1, <3>2 DEF Misled
  <2>3. ASSUME NEW p \in Processes, Crash(p) PROVE FALSE
    BY <2>3 DEF Crash
  <2> QED BY <2>1, <2>2, <2>3 DEF Next
<1> QED BY <1>1, LockInvariant, LockTypeCorrect, PTL DEF Spec, LiveLockKept

\* An attempt that is about to make the directory has its intent on disk.
Announced == \A a \in Attempts : pc[a] = "intended" => a \in intents

\* A directory without an owner file can be attributed to the attempt that made
\* it, whoever died, failed or was recovered, and by which of the recoveries:
\* the intent is written before the directory and dropped after the owner file.
THEOREM Attributed == Spec => []IncompleteHasIntent
<1> DEFINE Inv == Announced /\ IncompleteHasIntent
<1>1. Init => Inv
  BY DEF Init, Announced, IncompleteHasIntent
<1>2. TypeOK /\ Inv /\ [Next]_vars => Inv'
  <2> SUFFICES ASSUME TypeOK, Inv, [Next]_vars PROVE Inv'
    OBVIOUS
  <2> USE DEF Announced, IncompleteHasIntent, To, TypeOK
  <2>1. ASSUME NEW a \in Attempts, AttemptStep(a) PROVE Inv'
    <3>1. CASE WriteIntent(a)
      BY <3>1 DEF WriteIntent
    <3>2. CASE MakeDir(a)
      BY <3>2 DEF MakeDir
    <3>3. CASE OpenOwner(a)
      BY <3>3 DEF OpenOwner
    <3>4. CASE FillOwner(a)
      BY <3>4 DEF FillOwner
    <3>5. CASE DropIntent(a)
      BY <3>5 DEF DropIntent
    <3>6. CASE CheckOwner(a)
      BY <3>6 DEF CheckOwner
    <3>7. CASE Reserve(a)
      BY <3>7 DEF Reserve
    <3>8. CASE Move(a)
      BY <3>8 DEF Move, MoveAway
    <3>9. CASE RemoveMoved(a)
      BY <3>9 DEF RemoveMoved
    <3>10. CASE Fail(a)
      BY <3>10 DEF Fail
    <3> QED
      BY <2>1, <3>1, <3>2, <3>3, <3>4, <3>5, <3>6, <3>7, <3>8, <3>9, <3>10 DEF AttemptStep
  <2>2. ASSUME NEW r \in Recoveries, RecoveryStep(r) PROVE Inv'
    BY <2>2 DEF RecoveryStep, ReadOwner, ProveOwnerDead, ReserveStale, MoveStale, MoveAway,
       CheckIncomplete, ReadIntent, ProveIntentDead, ReserveIncomplete, MoveIncomplete, RecoveryFails
  <2>3. ASSUME NEW p \in Processes, Crash(p) PROVE Inv'
    BY <2>3 DEF Crash
  <2>4. CASE UNCHANGED vars
    BY <2>4 DEF vars
  <2> QED BY <2>1, <2>2, <2>3, <2>4 DEF Next
<1> QED BY <1>1, <1>2, LockTypeCorrect, PTL DEF Spec

----------------------------------------------------------------------------
(* ReviewPolicy                                                           *)

PolicyTypeOK ==
  /\ mode \in {"ordinary", "judgment"}
  /\ budget \in [refuter : 0 .. 1, fix : 0 .. 1, validator : 0 .. 1]
  /\ phase \in Phases
  /\ class \in [Findings -> Classes]
  /\ outcome \in [Findings -> {"none", "corroborated", "refuted", "inconclusive"}]
  /\ active \subseteq Findings
  /\ fixed \subseteq Findings
  /\ fixes \in Nat
  /\ rounds \in Nat
  /\ verified \in [Findings -> Nat]
  /\ escalated \in BOOLEAN
  /\ terminal \in {"none", "approved", "escalated"}

\* An ordinary lineage that goes on to a fix has an answer for each severe
\* finding, and the fix is for exactly the corroborated ones.
OrdinaryInv ==
  mode = "ordinary" =>
    /\ phase \in {"refutation-complete", "fix-complete"} =>
         \A f \in Severe : outcome[f] \in {"corroborated", "refuted"}
    /\ phase = "fix-complete" => fixed = Corroborated /\ fixes > 0

\* In a judgment round a severe finding is active or was verified by both
\* judges after a fix.
JudgmentInv ==
  mode = "judgment" =>
    /\ phase \in {"judgment-complete", "fix-complete"} =>
         \A f \in Severe : f \in active \/ verified[f] > 0
    /\ phase = "fix-complete" => fixes > 0

\* A verdict is given once, in the last phase.
TerminalInv == terminal # "none" => phase = "terminal"

PolicyIInv == OrdinaryInv /\ JudgmentInv /\ TerminalInv /\ NoFindingLost

----------------------------------------------------------------------------
\* Every variable stays in its range.
THEOREM PolicyTypeCorrect == PolicySpec => []PolicyTypeOK
<1>1. PolicyInit => PolicyTypeOK
  <2> SUFFICES ASSUME PolicyInit PROVE PolicyTypeOK
    OBVIOUS
  <2>1. class \in [Findings -> Classes] /\ verified \in [Findings -> Nat]
    BY DEF PolicyInit, Classes
  <2>2. outcome \in [Findings -> {"none", "corroborated", "refuted", "inconclusive"}]
    BY DEF PolicyInit
  <2> QED BY <2>1, <2>2 DEF PolicyInit, PolicyTypeOK, Phases
<1>2. PolicyTypeOK /\ [PolicyNext]_policyVars => PolicyTypeOK'
  <2> SUFFICES ASSUME PolicyTypeOK, [PolicyNext]_policyVars PROVE PolicyTypeOK'
    OBVIOUS
  <2>1. CASE Discover
    BY <2>1 DEF Discover, PolicyTypeOK, Phases
  <2>2. CASE Resolve
    <3>1. /\ phase' \in Phases
          /\ outcome' \in [Findings -> {"none", "corroborated", "refuted", "inconclusive"}]
          /\ escalated' \in BOOLEAN
      BY <2>2 DEF Resolve, Reasons, PolicyTypeOK, Phases, Severe
    <3> QED BY <2>2, <3>1 DEF Resolve, PolicyTypeOK
  <2>3. CASE Fix
    BY <2>3 DEF Fix, PolicyTypeOK, Phases, Corroborated, Severe
  <2>4. CASE DeclineFix
    BY <2>4 DEF DeclineFix, Reasons, PolicyTypeOK, Phases
  <2>5. CASE Validate
    BY <2>5 DEF Validate, Reasons, PolicyTypeOK, Phases
  <2>6. CASE JudgmentDiscover
    BY <2>6 DEF JudgmentDiscover, PolicyTypeOK, Phases
  <2>7. CASE JudgmentFix
    BY <2>7 DEF JudgmentFix, PolicyTypeOK, Phases
  <2>8. CASE Rejudge
    <3>1. /\ phase' \in Phases /\ rounds' \in Nat
          /\ active' \subseteq Findings
          /\ verified' \in [Findings -> Nat]
          /\ escalated' \in BOOLEAN
      BY <2>8 DEF Rejudge, Reasons, Survivors, PolicyTypeOK, Phases
    <3> QED BY <2>8, <3>1 DEF Rejudge, PolicyTypeOK
  <2>9. CASE FinalVerification
    BY <2>9 DEF FinalVerification, Reasons, PolicyTypeOK, Phases
  <2>10. CASE UNCHANGED policyVars
    BY <2>10 DEF policyVars, PolicyTypeOK
  <2> QED BY <2>1, <2>2, <2>3, <2>4, <2>5, <2>6, <2>7, <2>8, <2>9, <2>10 DEF PolicyNext
<1> QED BY <1>1, <1>2, PTL DEF PolicySpec

----------------------------------------------------------------------------
\* A lineage that reaches its final verification settled or escalated.
LEMMA ReachesFinal ==
  ASSUME terminal' = "none", phase' = "final-verification",
         escalated' \/ \A f \in Severe' : Settled(f)'
  PROVE  PolicyIInv'
  BY DEF PolicyIInv, OrdinaryInv, JudgmentInv, TerminalInv, NoFindingLost

\* The answers to an ordinary ledger.
LEMMA ResolveInv == ASSUME PolicyTypeOK, PolicyIInv, Resolve PROVE PolicyIInv'
<1>1. PICK answer \in [Severe -> {"corroborated", "refuted", "inconclusive"}],
           dropped \in BOOLEAN :
        /\ outcome' = [f \in Findings |-> IF f \in Severe THEN answer[f] ELSE "none"]
        /\ Reasons(\/ Defects(answer, dropped)
                   \/ (\E f \in Severe : answer[f] = "corroborated") /\ budget.fix = 0)
        /\ phase' = IF /\ ~Defects(answer, dropped)
                       /\ \E f \in Severe : answer[f] = "corroborated"
                       /\ budget.fix = 1
                    THEN "refutation-complete" ELSE "final-verification"
  BY DEF Resolve
<1>2. UNCHANGED <<mode, budget, class, active, fixed, fixes, rounds, verified, terminal>>
      /\ mode = "ordinary" /\ terminal = "none"
  BY DEF Resolve, Ordinary
<1>3. Severe' = Severe /\ Severe \subseteq Findings
  BY <1>2 DEF Severe
<1>4. \A f \in Severe : outcome'[f] = answer[f]
  BY <1>1, <1>3
<1>5. ~Defects(answer, dropped) => \A f \in Severe : answer[f] \in {"corroborated", "refuted"}
  BY <1>1 DEF Defects
<1>6. CASE phase' = "refutation-complete"
  <2>1. ~Defects(answer, dropped)
    BY <1>1, <1>6
  <2>2. \A f \in Severe' : outcome'[f] \in {"corroborated", "refuted"}
    BY <1>3, <1>4, <1>5, <2>1
  <2> QED BY <1>2, <1>6, <2>2 DEF PolicyIInv, OrdinaryInv, JudgmentInv, TerminalInv, NoFindingLost
<1>7. CASE phase' = "final-verification"
  <2>1. CASE escalated'
    BY <1>2, <1>7, <2>1, ReachesFinal
  <2>2. CASE ~escalated'
    <3>1. ~Defects(answer, dropped)
          /\ ~((\E f \in Severe : answer[f] = "corroborated") /\ budget.fix = 0)
      BY <1>1, <2>2 DEF Reasons
    <3>2. budget.fix \in {0, 1}
      BY DEF PolicyTypeOK
    <3>3. ~\E f \in Severe : answer[f] = "corroborated"
      BY <1>1, <1>7, <3>1, <3>2
    <3>4. \A f \in Severe : outcome'[f] = "refuted"
      BY <1>4, <1>5, <3>1, <3>3
    <3>5. \A f \in Severe' : Settled(f)'
      BY <1>2, <1>3, <3>4 DEF Settled
    <3> QED BY <1>2, <1>7, <3>5, ReachesFinal
  <2> QED BY <2>1, <2>2
<1> QED BY <1>1, <1>6, <1>7

\* The validator's answers to the fix.
LEMMA ValidateInv == ASSUME PolicyTypeOK, PolicyIInv, Validate PROVE PolicyIInv'
<1>1. PICK answer \in [fixed -> {"verified", "regression", "missing"}],
           dropped \in BOOLEAN, regressions \in BOOLEAN :
        /\ verified' = [f \in Findings |->
             IF f \in fixed /\ answer[f] = "verified" THEN fixes ELSE verified[f]]
        /\ Reasons(dropped \/ regressions \/ \E f \in fixed : answer[f] # "verified")
  BY DEF Validate
<1>2. UNCHANGED <<mode, class, outcome, active, fixed, fixes, terminal>>
      /\ mode = "ordinary" /\ terminal = "none" /\ phase = "fix-complete"
      /\ phase' = "final-verification"
  BY DEF Validate, Ordinary
<1>3. CASE escalated'
  BY <1>2, <1>3, ReachesFinal
<1>4. CASE ~escalated'
  <2>1. \A f \in fixed : answer[f] = "verified"
    BY <1>1, <1>4 DEF Reasons
  <2>2. \A f \in fixed : verified'[f] = fixes
    BY <1>1, <2>1 DEF PolicyTypeOK
  <2>3. /\ \A f \in Severe : outcome[f] \in {"corroborated", "refuted"}
        /\ fixed = Corroborated /\ fixes > 0
    BY <1>2 DEF PolicyIInv, OrdinaryInv
  <2>4. Severe' = Severe
    BY <1>2 DEF Severe
  <2>5. \A f \in Severe' : Settled(f)'
    BY <1>2, <2>2, <2>3, <2>4 DEF Settled, Corroborated
  <2> QED BY <1>2, <2>5, ReachesFinal
<1> QED BY <1>3, <1>4

\* A judgment round: what survives goes on, or the rounds are used up.
LEMMA RejudgeInv == ASSUME PolicyTypeOK, PolicyIInv, Rejudge PROVE PolicyIInv'
<1>1. PICK a \in [active -> {"verified", "unverified", "missing"}],
           b \in [active -> {"verified", "unverified", "missing"}], dropped \in BOOLEAN :
        /\ active' = Survivors(a, b)
        /\ verified' = [f \in Findings |->
             IF f \in active \ Survivors(a, b) THEN fixes ELSE verified[f]]
        /\ Reasons(\/ dropped
                   \/ \E f \in active : "missing" \in {a[f], b[f]}
                   \/ active' # {} /\ rounds' >= 2)
  BY DEF Rejudge
<1>2. UNCHANGED <<mode, class, fixes, terminal>>
      /\ mode = "judgment" /\ terminal = "none" /\ phase = "fix-complete"
      /\ rounds' = rounds + 1
      /\ phase' = IF active' # {} /\ rounds' < 2 THEN "judgment-complete" ELSE "final-verification"
  BY DEF Rejudge, Judgment
<1>3. fixes > 0 /\ \A f \in Severe : f \in active \/ verified[f] > 0
  BY <1>2 DEF PolicyIInv, JudgmentInv
<1>4. Severe' = Severe /\ Severe \subseteq Findings
  BY <1>2 DEF Severe
<1>5. \A f \in Severe' : f \in active' \/ verified'[f] > 0
  BY <1>1, <1>3, <1>4
<1>6. CASE phase' = "judgment-complete"
  BY <1>2, <1>5, <1>6 DEF PolicyIInv, OrdinaryInv, JudgmentInv, TerminalInv, NoFindingLost
<1>7. CASE phase' = "final-verification"
  <2>1. CASE active' = {}
    <3>1. \A f \in Severe' : Settled(f)'
      BY <1>2, <1>5, <2>1 DEF Settled
    <3> QED BY <1>2, <1>7, <3>1, ReachesFinal
  <2>2. CASE active' # {}
    <3>1. rounds' >= 2
      BY <1>2, <1>7, <2>2 DEF PolicyTypeOK
    <3>2. escalated'
      BY <1>1, <2>2, <3>1 DEF Reasons
    <3> QED BY <1>2, <1>7, <3>2, ReachesFinal
  <2> QED BY <2>1, <2>2
<1> QED BY <1>2, <1>6, <1>7

\* Every step keeps the inductive invariant.
LEMMA PolicyStepInv == PolicyTypeOK /\ PolicyIInv /\ [PolicyNext]_policyVars => PolicyIInv'
<1> SUFFICES ASSUME PolicyTypeOK, PolicyIInv, [PolicyNext]_policyVars PROVE PolicyIInv'
  OBVIOUS
<1> USE DEF OrdinaryInv, JudgmentInv, TerminalInv, NoFindingLost
<1>1. CASE Discover
  BY <1>1 DEF Discover, Ordinary, PolicyIInv
<1>2. CASE Resolve
  BY <1>2, ResolveInv
<1>3. CASE Fix
  <2>1. /\ UNCHANGED <<mode, class, outcome, terminal>> /\ mode = "ordinary"
        /\ phase = "refutation-complete" /\ phase' = "fix-complete" /\ terminal = "none"
        /\ fixed' = Corroborated /\ fixes' = fixes + 1
    BY <1>3 DEF Fix, Ordinary
  <2>2. Severe' = Severe /\ Corroborated' = Corroborated /\ fixes' > 0
    BY <2>1 DEF Severe, Corroborated, PolicyTypeOK
  <2> QED BY <2>1, <2>2 DEF PolicyIInv
<1>4. CASE DeclineFix
  BY <1>4, ReachesFinal DEF DeclineFix, Ordinary, Reasons
<1>5. CASE Validate
  BY <1>5, ValidateInv
<1>6. CASE JudgmentDiscover
  <2>1. /\ UNCHANGED <<mode, terminal>> /\ mode = "judgment" /\ terminal = "none"
        /\ phase' \in {"judgment-complete", "final-verification"}
        /\ active' = Severe'
        /\ phase' = "final-verification" => active' = {}
    BY <1>6 DEF JudgmentDiscover, Judgment, Severe
  <2>2. CASE phase' = "judgment-complete"
    BY <2>1, <2>2 DEF PolicyIInv
  <2>3. CASE phase' = "final-verification"
    BY <2>1, <2>3, ReachesFinal
  <2> QED BY <2>1, <2>2, <2>3
<1>7. CASE JudgmentFix
  <2>1. /\ UNCHANGED <<mode, class, active, verified, terminal>> /\ mode = "judgment"
        /\ phase = "judgment-complete" /\ phase' = "fix-complete" /\ terminal = "none"
        /\ fixes' = fixes + 1
    BY <1>7 DEF JudgmentFix, Judgment
  <2>2. Severe' = Severe /\ fixes' > 0
    BY <2>1 DEF Severe, PolicyTypeOK
  <2> QED BY <2>1, <2>2 DEF PolicyIInv
<1>8. CASE Rejudge
  BY <1>8, RejudgeInv
<1>9. CASE FinalVerification
  <2>1. /\ UNCHANGED <<mode, class, outcome, active, fixed, fixes, verified>>
        /\ phase = "final-verification" /\ phase' = "terminal" /\ terminal = "none"
        /\ terminal' = "approved" => ~escalated /\ ~escalated'
    BY <1>9 DEF FinalVerification, Reasons
  <2>2. Severe' = Severe /\ \A f \in Findings : Settled(f)' <=> Settled(f)
    BY <2>1 DEF Severe, Settled
  <2>3. terminal' = "approved" => \A f \in Severe' : Settled(f)'
    BY <2>1, <2>2 DEF PolicyIInv, Severe
  <2> QED BY <2>1, <2>3 DEF PolicyIInv
<1>10. CASE UNCHANGED policyVars
  BY <1>10 DEF policyVars, PolicyIInv, Severe, Corroborated, Settled
<1> QED BY <1>1, <1>2, <1>3, <1>4, <1>5, <1>6, <1>7, <1>8, <1>9, <1>10 DEF PolicyNext

\* The inductive invariant holds in every behaviour.
THEOREM PolicyInvariant == PolicySpec => []PolicyIInv
<1>1. PolicyInit => PolicyIInv
  BY DEF PolicyInit, PolicyIInv, OrdinaryInv, JudgmentInv, TerminalInv, NoFindingLost
<1> QED BY <1>1, PolicyStepInv, PolicyTypeCorrect, PTL DEF PolicySpec

\* No severe finding is lost: a lineage that waits for its final verification, or
\* is approved, has settled each of them or is escalated, whatever the actors
\* omit, repeat or leave undecided.
THEOREM FindingsSettled == PolicySpec => []NoFindingLost
<1>1. PolicyIInv => NoFindingLost
  BY DEF PolicyIInv
<1> QED BY <1>1, PolicyInvariant, PTL

----------------------------------------------------------------------------
(* StandingPermission                                                     *)

Waiting == {"asking", "chosen", "confirming", "answering"}
Begun == [pc : {"capturing"}, for : Sessions, repo : Repos, stale : BOOLEAN]
Captures == [pc : Waiting, for : Sessions, repo : Repos, stale : BOOLEAN, epoch : Nat,
             active : BOOLEAN, choice : {"host-session", "granted", "declined"}]
Lines == [id : Nat, granted : BOOLEAN]

\* The range of every variable.
PermissionTypeOK ==
  /\ session \in Sessions
  /\ granted \subseteq Sessions \X Repos
  /\ epoch \in [Sessions -> Nat]
  /\ call \in {NoCall} \cup Begun \cup Captures
  /\ revoking \subseteq Sessions \X Repos
  /\ client \in [pending : Nat, nextId : Nat, open : BOOLEAN,
                 last : {"none", "granted", "denied"}, held : BOOLEAN]
  /\ broker \in [for : Sessions, accepted : Nat, open : BOOLEAN, live : BOOLEAN]
  /\ asking \in Seq(Nat)
  /\ answering \in Seq(Lines)

\* While the epoch of a call's capture lasts, nothing it relies on was revoked:
\* neither the permission it found, nor the session it belongs to.
CallInv ==
  call.pc \in Waiting =>
    /\ call.epoch <= epoch[call.for]
    /\ call.epoch = epoch[call.for] =>
         /\ ~call.stale
         /\ call.active => <<call.for, call.repo>> \in granted
         /\ call.pc \in {"confirming", "answering"} => call.for = session

\* A request on the channel has been made, and only an answer to the last one
\* may reach a child that waits; that it is granted was true since it asked.
LineInv ==
  /\ client.pending \in {0, client.nextId}
  /\ \A i \in 1 .. Len(asking) : asking[i] \in 1 .. client.nextId
  /\ \A i \in 1 .. Len(answering) :
       /\ answering[i].id \in 1 .. client.nextId
       /\ answering[i].granted /\ answering[i].id = client.nextId => client.held
  /\ Authorized => client.held

PermissionIInv == PermissionTypeOK /\ CallInv /\ LineInv /\ PermissionInv

\* A session starts with no permission, no call and an empty channel.
LEMMA PermissionInitInv == PermissionInit => PermissionIInv
  BY DEF PermissionInit, PermissionIInv, PermissionTypeOK, CallInv, LineInv, PermissionInv, Authorized, NoCall, Waiting

----------------------------------------------------------------------------
(* Ranges.                                                                 *)

\* The program point of a call tells which record it is.
LEMMA CallShape ==
  ASSUME PermissionTypeOK
  PROVE  /\ call.pc = "capturing" => call \in Begun
         /\ call.pc \in Waiting => call \in Captures
         /\ call # NoCall => call.pc # "idle" /\ call.for \in Sessions /\ call.repo \in Repos
<1>1. NoCall.pc = "idle"
  BY DEF NoCall
<1>2. \A c \in Begun : c.pc = "capturing" /\ c.for \in Sessions /\ c.repo \in Repos
  BY DEF Begun
<1>3. \A c \in Captures : c.pc \in Waiting /\ c.for \in Sessions /\ c.repo \in Repos
  BY DEF Captures
<1> QED
  BY <1>1, <1>2, <1>3 DEF PermissionTypeOK, Waiting

\* A revocation keeps the ranges of what it changes.
LEMMA RevokeTyped ==
  ASSUME PermissionTypeOK, NEW sessions \in SUBSET Sessions, NEW pairs, Revoke(sessions, pairs)
  PROVE  /\ epoch' \in [Sessions -> Nat]
         /\ granted' \subseteq granted
         /\ call' \in {NoCall} \cup Begun \cup Captures
<1>1. epoch' \in [Sessions -> Nat]
  BY DEF PermissionTypeOK, Revoke
<1>2. granted' \subseteq granted
  BY DEF Revoke
<1>3. call' \in {NoCall} \cup Begun \cup Captures
  <2>1. CASE call \in Begun
    BY <2>1 DEF Revoke, Begun
  <2>2. CASE call \in Captures
    BY <2>2 DEF Revoke, Captures
  <2>3. CASE call = NoCall
    BY <2>3 DEF Revoke
  <2> QED BY <2>1, <2>2, <2>3 DEF PermissionTypeOK
<1> QED BY <1>1, <1>2, <1>3

\* No step of a call leaves its range.
LEMMA CallTyped ==
  ASSUME PermissionTypeOK, Begin \/ Captured \/ Choose \/ Recapture \/ Confirm \/ ConsentAnswered
  PROVE  PermissionTypeOK'
<1>1. CASE Begin
  <2>1. call' \in Begun
    BY <1>1 DEF Begin, PermissionTypeOK, Begun
  <2> QED BY <1>1, <2>1 DEF Begin, PermissionTypeOK, askVars
<1>2. CASE Captured
  <2>1. call \in Begun
    BY <1>2, CallShape DEF Captured
  <2>2. call' \in Captures
    BY <1>2, <2>1 DEF Captured, Begun, Captures, PermissionTypeOK, Waiting
  <2> QED BY <1>2, <2>2 DEF Captured, PermissionTypeOK, askVars
<1>3. CASE Choose
  <2>1. call \in Captures
    BY <1>3, CallShape DEF Choose, Waiting
  <2>2. call' \in {NoCall} \cup Captures
    BY <1>3, <2>1 DEF Choose, Captures, Waiting
  <2> QED BY <1>3, <2>2 DEF Choose, PermissionTypeOK, askVars
<1>4. CASE Recapture
  <2>1. call \in Captures
    BY <1>4, CallShape DEF Recapture, Waiting
  <2>2. call' \in {NoCall} \cup Captures
    BY <1>4, <2>1 DEF Recapture, Captures, Waiting
  <2> QED BY <1>4, <2>2 DEF Recapture, PermissionTypeOK, askVars
<1>5. CASE Confirm
  <2>1. call \in Captures
    BY <1>5, CallShape DEF Confirm, Waiting
  <2>2. call' \in {NoCall} \cup Captures
    BY <1>5, <2>1 DEF Confirm, Captures, Waiting
  <2> QED BY <1>5, <2>2 DEF Confirm, PermissionTypeOK, askVars
<1>6. CASE ConsentAnswered
  <2>1. call.for \in Sessions /\ call.repo \in Repos
    BY <1>6, CallShape DEF ConsentAnswered, Waiting, Captures
  <2>2. granted' \subseteq Sessions \X Repos
    BY <1>6, <2>1 DEF ConsentAnswered, PermissionTypeOK
  <2>3. client' \in [pending : Nat, nextId : Nat, open : BOOLEAN,
                     last : {"none", "granted", "denied"}, held : BOOLEAN]
    <3> DEFINE has == session = broker.for /\ <<broker.for, ChildRepo>> \in granted'
    <3>1. has \in BOOLEAN
      OBVIOUS
    <3>2. client' = [client EXCEPT !.held = @ \/ has]
      BY <1>6 DEF ConsentAnswered
    <3> HIDE DEF has
    <3> QED BY <3>1, <3>2 DEF PermissionTypeOK
  <2>4. call' = NoCall
    BY <1>6 DEF ConsentAnswered
  <2> QED BY <1>6, <2>2, <2>3, <2>4 DEF ConsentAnswered, PermissionTypeOK
<1> QED BY <1>1, <1>2, <1>3, <1>4, <1>5, <1>6

\* No step of the channel leaves the range of what it changes.
LEMMA ChannelTyped ==
  ASSUME PermissionTypeOK,
         Request \/ ExpireRequest \/ ReceiveAnswer \/ Handle \/ TaskEnds \/ CloseBroker \/ CloseClient
  PROVE  PermissionTypeOK'
<1>1. CASE Request
  <2>1. Authorized \in BOOLEAN
    BY DEF Authorized, PermissionTypeOK
  <2>0. client.nextId + 1 \in Nat
    BY DEF PermissionTypeOK
  <2>2. client' \in [pending : Nat, nextId : Nat, open : BOOLEAN,
                     last : {"none", "granted", "denied"}, held : BOOLEAN]
    <3>1. PICK p \in Nat :
            client' = [client EXCEPT !.nextId = @ + 1, !.last = "none", !.held = Authorized,
                                     !.pending = p]
      BY <1>1, <2>0 DEF Request
    <3> QED BY <2>0, <2>1, <3>1 DEF PermissionTypeOK
  <2>3. asking' \in Seq(Nat)
    <3>1. asking \in Seq(Nat) /\ asking' = Append(asking, client.nextId + 1)
      BY <1>1 DEF Request, PermissionTypeOK
    <3> QED BY <2>0, <3>1
  <2> QED BY <1>1, <2>2, <2>3 DEF Request, PermissionTypeOK
<1>2. CASE ExpireRequest
  BY <1>2 DEF ExpireRequest, PermissionTypeOK
<1>3. CASE ReceiveAnswer
  <2>1. Head(answering) \in Lines /\ Tail(answering) \in Seq(Lines)
    BY <1>3 DEF ReceiveAnswer, PermissionTypeOK
  <2>2. client' \in [pending : Nat, nextId : Nat, open : BOOLEAN,
                     last : {"none", "granted", "denied"}, held : BOOLEAN]
    BY <1>3, <2>1 DEF ReceiveAnswer, PermissionTypeOK, Lines
  <2> QED BY <1>3, <2>1, <2>2 DEF ReceiveAnswer, PermissionTypeOK
<1>4. CASE Handle
  <2>1. Head(asking) \in Nat /\ Tail(asking) \in Seq(Nat)
    BY <1>4 DEF Handle, PermissionTypeOK
  <2> DEFINE yes == broker.accepted < MaxRequests /\ Authorized
             line == [id |-> Head(asking), granted |-> yes]
  <2>2. yes \in BOOLEAN
    OBVIOUS
  <2>3. line \in Lines
    <3> HIDE DEF yes
    <3> QED BY <2>1, <2>2 DEF Lines
  <2>4. answering' = Append(answering, line)
    BY <1>4 DEF Handle
  <2>5. answering' \in Seq(Lines)
    <3> HIDE DEF line
    <3> QED BY <2>3, <2>4 DEF PermissionTypeOK
  <2>6. broker' \in [for : Sessions, accepted : Nat, open : BOOLEAN, live : BOOLEAN]
    <3>1. broker.accepted + 1 \in Nat
      BY DEF PermissionTypeOK
    <3>2. broker' \in {broker, [broker EXCEPT !.accepted = broker.accepted + 1]}
      BY <1>4 DEF Handle
    <3> QED BY <3>1, <3>2 DEF PermissionTypeOK
  <2> QED BY <1>4, <2>1, <2>5, <2>6 DEF Handle, PermissionTypeOK
<1>5. CASE TaskEnds
  BY <1>5 DEF TaskEnds, PermissionTypeOK
<1>6. CASE CloseBroker
  BY <1>6 DEF CloseBroker, PermissionTypeOK
<1>7. CASE CloseClient
  BY <1>7 DEF CloseClient, PermissionTypeOK
<1> QED BY <1>1, <1>2, <1>3, <1>4, <1>5, <1>6, <1>7

\* No step leaves the range of a variable.
LEMMA StepTyped == ASSUME PermissionTypeOK, [PermissionNext]_permVars PROVE PermissionTypeOK'
<1>1. CASE RevokeCommand
  BY <1>1 DEF RevokeCommand, PermissionTypeOK, askVars
<1>2. CASE RevokeRepo
  <2>1. PICK p \in revoking : Revoke({p[1]}, {p})
    BY <1>2 DEF RevokeRepo
  <2>2. {p[1]} \in SUBSET Sessions
    BY <2>1 DEF PermissionTypeOK
  <2> QED BY <1>2, <2>1, <2>2, RevokeTyped DEF RevokeRepo, PermissionTypeOK, askVars
<1>3. CASE ReplaceSession
  <2>1. PICK next \in Sessions : /\ Revoke({session, next}, {session, next} \X Repos)
                                 /\ session' = next
    BY <1>3 DEF ReplaceSession
  <2>2. {session, next} \in SUBSET Sessions
    BY DEF PermissionTypeOK
  <2> QED BY <1>3, <2>1, <2>2, RevokeTyped DEF ReplaceSession, PermissionTypeOK, askVars
<1>4. CASE UNCHANGED permVars
  BY <1>4 DEF permVars, PermissionTypeOK
<1> QED BY <1>1, <1>2, <1>3, <1>4, CallTyped, ChannelTyped DEF PermissionNext
----------------------------------------------------------------------------
(* The parent's calls and revocations.                                     *)

\* A call only ever grants to the session that is open, and only while no
\* revocation has met it.
LEMMA CallStep ==
  ASSUME PermissionIInv, Begin \/ Captured \/ Choose \/ Recapture \/ Confirm \/ ConsentAnswered
  PROVE  CallInv' /\ LineInv' /\ PermissionInv'
<1> USE DEF PermissionIInv
<1>1. CASE ConsentAnswered
  <2>1. call \in Captures /\ call' = NoCall
    BY <1>1, CallShape DEF ConsentAnswered, Waiting
  <2>2. granted' \subseteq {session} \X Repos
    BY <1>1, <2>1 DEF ConsentAnswered, Grantable, CallInv, PermissionInv, Captures, Waiting
  <2>3. CallInv'
    BY <2>1 DEF CallInv, NoCall, Waiting
  <2>4. client.held => client'.held
    BY <1>1 DEF ConsentAnswered, PermissionTypeOK
  <2>5. Authorized' => client'.held
    BY <1>1 DEF ConsentAnswered, Authorized, PermissionTypeOK
  <2>6. /\ client'.pending = client.pending /\ client'.nextId = client.nextId
        /\ client'.last = client.last /\ asking' = asking /\ answering' = answering
    BY <1>1 DEF ConsentAnswered, PermissionTypeOK
  <2>7. LineInv'
    BY <2>4, <2>5, <2>6 DEF LineInv
  <2>8. PermissionInv'
    BY <1>1, <2>2, <2>4, <2>6 DEF ConsentAnswered, PermissionInv
  <2> QED BY <2>3, <2>7, <2>8
<1>2. CASE Begin \/ Captured \/ Choose \/ Recapture \/ Confirm
  <2>1. UNCHANGED <<session, granted, epoch, askVars>>
    BY <1>2 DEF Begin, Captured, Choose, Recapture, Confirm
  <2>2. LineInv' /\ PermissionInv'
    BY <2>1 DEF LineInv, PermissionInv, Authorized, askVars
  <2>3. CASE Begin
    BY <2>2, <2>3 DEF Begin, CallInv, Waiting
  <2>4. CASE Captured
    <3>1. call \in Begun
      BY <2>4, CallShape DEF Captured
    <3>2. epoch[call.for] \in Nat
      BY <3>1 DEF PermissionTypeOK, Begun
    <3>3. /\ call'.epoch = epoch[call.for] /\ call'.for = call.for /\ call'.repo = call.repo
          /\ call'.stale = FALSE /\ call'.pc \in {"chosen", "asking"}
          /\ call'.active => <<call.for, call.repo>> \in granted
      BY <2>4 DEF Captured
    <3> QED BY <2>1, <2>2, <3>2, <3>3 DEF CallInv
  <2>5. CASE Choose
    <3>1. call \in Captures
      BY <2>5, CallShape DEF Choose, Waiting
    <3>2. CASE call' = NoCall
      BY <2>2, <3>2 DEF CallInv, NoCall, Waiting
    <3>3. CASE call' # NoCall
      <4>1. /\ call'.epoch = call.epoch /\ call'.for = call.for /\ call'.repo = call.repo
            /\ call'.stale = call.stale /\ call'.pc = "chosen" /\ call'.active = call.active
        BY <2>5, <3>1, <3>3 DEF Choose, Captures
      <4>2. call.pc \in Waiting
        BY <3>1 DEF Captures
      <4> QED BY <2>1, <2>2, <4>1, <4>2 DEF CallInv
    <3> QED BY <3>2, <3>3
  <2>6. CASE Recapture
    <3>1. call \in Captures
      BY <2>6, CallShape DEF Recapture, Waiting
    <3> QED BY <2>2, <2>6, <3>1 DEF Recapture, CallInv, Captures, Waiting, NoCall
  <2>7. CASE Confirm
    <3>1. call \in Captures
      BY <2>7, CallShape DEF Confirm, Waiting
    <3> QED BY <2>2, <2>7, <3>1 DEF Confirm, CallInv, Captures, Waiting, NoCall
  <2> QED BY <1>2, <2>2, <2>3, <2>4, <2>5, <2>6, <2>7
<1> QED BY <1>1, <1>2

\* A revocation advances the epoch of every call it concerns.
LEMMA RevokeCalls ==
  ASSUME PermissionTypeOK, CallInv, NEW sessions \in SUBSET Sessions, NEW pairs,
         Revoke(sessions, pairs), \A p \in pairs : p[1] \in sessions,
         session' = session \/ session \in sessions
  PROVE  CallInv'
<1> SUFFICES ASSUME call'.pc \in Waiting PROVE CallInv'
  BY DEF CallInv
<1>1. call \in Captures
  <2>1. call.pc \in Waiting
    BY DEF Revoke, PermissionTypeOK, Begun, Captures, NoCall, Waiting
  <2> QED BY <2>1, CallShape
<1>2. /\ call' \in {call, [call EXCEPT !.stale = TRUE]}
      /\ call'.pc = call.pc /\ call'.for = call.for /\ call'.repo = call.repo
      /\ call'.epoch = call.epoch /\ call'.active = call.active
  BY <1>1 DEF Revoke, Captures
<1>3. call.for \in Sessions /\ call.epoch \in Nat /\ epoch[call.for] \in Nat
  BY <1>1 DEF Captures, PermissionTypeOK
<1>4. call.epoch <= epoch[call.for]
  BY <1>1 DEF CallInv, Captures
<1>5. CASE call.for \in sessions
  <2>1. epoch'[call.for] = epoch[call.for] + 1
    BY <1>3, <1>5 DEF Revoke
  <2> QED BY <1>2, <1>3, <1>4, <2>1 DEF CallInv
<1>6. CASE call.for \notin sessions
  <2>1. epoch'[call.for] = epoch[call.for]
    BY <1>3, <1>6 DEF Revoke
  <2>2. <<call.for, call.repo>> \notin pairs
    BY <1>6
  <2>3. call' = call
    BY <2>2 DEF Revoke
  <2>4. <<call.for, call.repo>> \in granted => <<call.for, call.repo>> \in granted'
    BY <2>2 DEF Revoke
  <2>5. call.for = session => call.for = session'
    BY <1>6
  <2> QED BY <1>1, <2>1, <2>3, <2>4, <2>5 DEF CallInv, Captures
<1> QED BY <1>5, <1>6

\* Revocations only take permissions away, and a session begins without any.
LEMMA RevokeStep ==
  ASSUME PermissionIInv, RevokeCommand \/ RevokeRepo \/ ReplaceSession
  PROVE  CallInv' /\ LineInv' /\ PermissionInv'
<1> USE DEF PermissionIInv
<1>1. CASE RevokeCommand
  BY <1>1 DEF RevokeCommand, CallInv, LineInv, PermissionInv, Authorized, askVars
<1>2. CASE RevokeRepo
  <2>1. PICK p \in revoking : Revoke({p[1]}, {p})
    BY <1>2 DEF RevokeRepo
  <2>2. {p[1]} \in SUBSET Sessions
    BY <2>1 DEF PermissionTypeOK
  <2>3. session' = session /\ UNCHANGED askVars
    BY <1>2 DEF RevokeRepo
  <2>4. CallInv'
    BY <2>1, <2>2, <2>3, RevokeCalls
  <2>5. granted' \subseteq granted
    BY <2>1 DEF Revoke
  <2> QED BY <2>3, <2>4, <2>5 DEF LineInv, PermissionInv, Authorized, askVars
<1>3. CASE ReplaceSession
  <2>1. PICK next \in Sessions : /\ Revoke({session, next}, {session, next} \X Repos)
                                 /\ session' = next
    BY <1>3 DEF ReplaceSession
  <2>2. {session, next} \in SUBSET Sessions
    BY DEF PermissionTypeOK
  <2>3. UNCHANGED askVars
    BY <1>3 DEF ReplaceSession
  <2>4. CallInv'
    BY <2>1, <2>2, RevokeCalls
  <2>5. granted' = {}
    BY <2>1 DEF Revoke, PermissionInv
  <2> QED BY <2>3, <2>4, <2>5 DEF LineInv, PermissionInv, Authorized, askVars
<1> QED BY <1>1, <1>2, <1>3

----------------------------------------------------------------------------
(* The channel.                                                            *)

\* A child that is told "granted" was, at some time since it asked.
LEMMA ChannelStep ==
  ASSUME PermissionIInv,
         Request \/ ExpireRequest \/ ReceiveAnswer \/ Handle \/ TaskEnds \/ CloseBroker \/ CloseClient
  PROVE  CallInv' /\ LineInv' /\ PermissionInv'
<1> USE DEF PermissionIInv
<1>1. UNCHANGED <<session, granted, epoch, call>>
  BY DEF Request, ExpireRequest, ReceiveAnswer, Handle, TaskEnds, CloseBroker, CloseClient
<1>2. CallInv'
  BY <1>1 DEF CallInv
<1>3. client.nextId \in Nat
  BY DEF PermissionTypeOK
<1>4. CASE Request
  <2>1. /\ client'.nextId = client.nextId + 1 /\ client'.pending \in {0, client'.nextId}
        /\ client'.last = "none" /\ client'.held = Authorized
    BY <1>4 DEF Request, PermissionTypeOK
  <2>2. Authorized' = Authorized /\ answering' = answering
    BY <1>1, <1>4 DEF Request, Authorized
  <2>3. \A i \in 1 .. Len(answering) : answering[i].id \in 1 .. client.nextId
    BY DEF LineInv
  <2>4. \A i \in 1 .. Len(asking') : asking'[i] \in 1 .. client'.nextId
    <3>1. asking \in Seq(Nat) /\ client.nextId + 1 \in Nat /\ asking' = Append(asking, client.nextId + 1)
      <4>1. client.nextId + 1 \in Nat
        BY <1>3
      <4> QED BY <1>4, <4>1 DEF Request, PermissionTypeOK
    <3>2. \A i \in 1 .. Len(asking) : asking[i] \in 1 .. client.nextId
      BY DEF LineInv
    <3> QED BY <1>3, <2>1, <3>1, <3>2
  <2>5. LineInv'
    BY <1>3, <2>1, <2>2, <2>3, <2>4 DEF LineInv
  <2> QED BY <1>1, <1>2, <2>1, <2>5 DEF PermissionInv
<1>5. CASE ReceiveAnswer
  <2>1. /\ answering \in Seq(Lines) /\ answering # <<>> /\ answering' = Tail(answering) /\ asking' = asking
        /\ UNCHANGED broker
    BY <1>5 DEF ReceiveAnswer, PermissionTypeOK
  <2>2. /\ client'.nextId = client.nextId /\ client'.held = client.held
        /\ client'.pending \in {0, client.pending}
    BY <1>5 DEF ReceiveAnswer, PermissionTypeOK
  <2>3. \A i \in 1 .. Len(answering') : answering'[i] = answering[i + 1] /\ i + 1 \in 1 .. Len(answering)
    BY <2>1
  <2>4. LineInv'
    BY <1>1, <1>3, <2>1, <2>2, <2>3 DEF LineInv, Authorized
  <2>5. Head(answering) = answering[1] /\ 1 \in 1 .. Len(answering)
    BY <2>1
  <2>6. client'.last = "granted" => client'.held
    <3>1. CASE Matches(Head(answering))
      <4>1. Head(answering).id = client.nextId
        BY <1>3, <2>5, <3>1 DEF Matches, LineInv
      <4>2. client'.last = "granted" => Head(answering).granted
        BY <1>5, <3>1 DEF ReceiveAnswer, PermissionTypeOK
      <4> QED BY <2>2, <2>5, <4>1, <4>2 DEF LineInv
    <3>2. CASE ~Matches(Head(answering))
      BY <1>5, <3>2 DEF ReceiveAnswer, PermissionInv
    <3> QED BY <3>1, <3>2
  <2> QED BY <1>1, <1>2, <2>4, <2>6 DEF PermissionInv
<1>6. CASE Handle
  <2> DEFINE yes == broker.accepted < MaxRequests /\ Authorized
             line == [id |-> Head(asking), granted |-> yes]
  <2>1. asking \in Seq(Nat) /\ asking # <<>> /\ asking' = Tail(asking) /\ answering' = Append(answering, line)
    BY <1>6 DEF Handle, PermissionTypeOK
  <2>2. line.id = Head(asking) /\ (line.granted <=> yes) /\ (yes => client.held)
    BY DEF LineInv
  <2>3. line \in Lines
    <3>1. yes \in BOOLEAN
      OBVIOUS
    <3>2. Head(asking) \in Nat
      BY <2>1
    <3> HIDE DEF yes
    <3> QED BY <3>1, <3>2 DEF Lines
  <2>4. UNCHANGED client
    BY <1>6 DEF Handle
  <2>5. Head(asking) \in 1 .. client.nextId
    BY <2>1 DEF LineInv
  <2>6. \A i \in 1 .. Len(asking') : asking'[i] \in 1 .. client.nextId
    BY <2>1 DEF LineInv
  <2>7. answering \in Seq(Lines)
    BY DEF PermissionTypeOK
  <2> HIDE DEF yes, line
  <2>8. \A i \in 1 .. Len(answering') :
          /\ answering'[i].id \in 1 .. client.nextId
          /\ answering'[i].granted /\ answering'[i].id = client.nextId => client.held
    <3> SUFFICES ASSUME NEW i \in 1 .. Len(answering')
                 PROVE  /\ answering'[i].id \in 1 .. client.nextId
                        /\ answering'[i].granted /\ answering'[i].id = client.nextId => client.held
      OBVIOUS
    <3>1. Len(answering') = Len(answering) + 1 /\ Len(answering) \in Nat
      BY <2>1, <2>3, <2>7
    <3>2. CASE i \in 1 .. Len(answering)
      <4>1. answering'[i] = answering[i]
        BY <2>1, <2>3, <2>7, <3>2
      <4> QED BY <3>2, <4>1 DEF LineInv
    <3>3. CASE i = Len(answering) + 1
      <4>1. answering'[i] = line
        BY <2>1, <2>3, <2>7, <3>3
      <4> QED BY <2>2, <2>5, <4>1
    <3> QED BY <3>1, <3>2, <3>3
  <2>9. Authorized' = Authorized
    BY <1>1, <1>6 DEF Handle, Authorized, PermissionTypeOK
  <2>10. LineInv'
    BY <2>4, <2>6, <2>8, <2>9 DEF LineInv
  <2> QED BY <1>1, <1>2, <2>4, <2>10 DEF PermissionInv
<1>7. CASE ExpireRequest
  BY <1>1, <1>2, <1>7 DEF ExpireRequest, LineInv, PermissionInv, Authorized, PermissionTypeOK
<1>8. CASE TaskEnds
  BY <1>1, <1>2, <1>8 DEF TaskEnds, LineInv, PermissionInv, Authorized, PermissionTypeOK
<1>9. CASE CloseBroker
  BY <1>1, <1>2, <1>9 DEF CloseBroker, LineInv, PermissionInv, Authorized, PermissionTypeOK
<1>10. CASE CloseClient
  BY <1>1, <1>2, <1>10 DEF CloseClient, LineInv, PermissionInv, Authorized, PermissionTypeOK
<1> QED BY <1>4, <1>5, <1>6, <1>7, <1>8, <1>9, <1>10

LEMMA PermissionStepInv == ASSUME PermissionIInv, [PermissionNext]_permVars PROVE PermissionIInv'
<1>1. PermissionTypeOK'
  BY StepTyped DEF PermissionIInv
<1>2. CASE UNCHANGED permVars
  BY <1>1, <1>2 DEF permVars, PermissionIInv, CallInv, LineInv, PermissionInv, Authorized
<1> QED BY <1>1, <1>2, CallStep, RevokeStep, ChannelStep DEF PermissionNext, PermissionIInv

----------------------------------------------------------------------------
(* The theorems.                                                           *)

\* Calls, lines and permissions agree, whatever is revoked, replaced or late
\* (review-session-standing-permission.ts and its IPC).
THEOREM PermissionInvariant == PermissionSpec => []PermissionIInv
<1> QED BY PermissionInitInv, PermissionStepInv, PTL DEF PermissionSpec

\* No permission outlives its session, and no child is told of one that was
\* gone when it asked.
THEOREM PermissionsHold == PermissionSpec => []PermissionInv
<1>1. PermissionIInv => PermissionInv
  BY DEF PermissionIInv
<1> QED BY <1>1, PermissionInvariant, PTL

\* Of the steps, only the end of a call that met no revocation grants, and a
\* call that saw a permission answers for it only while it is there.
LEMMA StepRevocation ==
  ASSUME PermissionIInv, [PermissionNext]_permVars
  PROVE  /\ granted' \ granted # {} => ~call.stale
         /\ call.pc = "confirming" /\ call'.pc = "answering" /\ call.active =>
              <<call.for, call.repo>> \in granted
<1> USE DEF PermissionIInv
<1>1. granted' \ granted # {} => ~call.stale
  <2>1. CASE ConsentAnswered
    <3>1. call \in Captures
      BY <2>1, CallShape DEF ConsentAnswered, Waiting
    <3> QED BY <2>1, <3>1 DEF ConsentAnswered, Grantable, CallInv, Captures
  <2>2. CASE ~ConsentAnswered
    <3>1. granted' \subseteq granted
      BY <2>2 DEF PermissionNext, Begin, Captured, Choose, Recapture, Confirm, RevokeCommand, RevokeRepo,
           ReplaceSession, Revoke, Request, ExpireRequest, ReceiveAnswer, Handle, TaskEnds, CloseBroker,
           CloseClient, permVars
    <3> QED BY <3>1
  <2> QED BY <2>1, <2>2
<1>2. ASSUME call.pc = "confirming", call'.pc = "answering", call.active
      PROVE  <<call.for, call.repo>> \in granted
  <2>1. call \in Captures
    BY <1>2, CallShape DEF Waiting
  <2>2. CASE Confirm
    BY <1>2, <2>1, <2>2 DEF Confirm, CallInv, Captures, Waiting, NoCall
  <2>3. CASE ~Confirm
    <3>1. CASE Begin \/ Captured \/ Choose \/ Recapture \/ ConsentAnswered
      BY <1>2, <3>1 DEF Begin, Captured, Choose, Recapture, ConsentAnswered, NoCall
    <3>2. CASE RevokeRepo \/ ReplaceSession
      <4>1. call' \in {call, [call EXCEPT !.stale = TRUE]}
        BY <3>2 DEF RevokeRepo, ReplaceSession, Revoke
      <4> QED BY <1>2, <2>1, <4>1 DEF Captures
    <3>3. CASE UNCHANGED call
      BY <1>2, <3>3
    <3> QED
      BY <2>3, <3>1, <3>2, <3>3 DEF PermissionNext, RevokeCommand, Request, ExpireRequest, ReceiveAnswer, Handle,
         TaskEnds, CloseBroker, CloseClient, permVars
  <2> QED BY <2>2, <2>3
<1> QED BY <1>1, <1>2

\* A revocation is final for the call that was under way.
THEOREM RevokedForGood == PermissionSpec => RevocationHolds
<1>1. PermissionIInv /\ [PermissionNext]_permVars =>
        [/\ granted' \ granted # {} => ~call.stale
         /\ call.pc = "confirming" /\ call'.pc = "answering" /\ call.active =>
              <<call.for, call.repo>> \in granted]_permVars
  BY StepRevocation
<1> QED BY <1>1, PermissionInvariant, PTL DEF PermissionSpec, RevocationHolds

----------------------------------------------------------------------------
(* ReviewStore.                                                            *)

Histories == Seq(Entries)

----------------------------------------------------------------------------
(* What three slots agree on.                                              *)

Agreed(f) == IF Quorum(f) # {} THEN CHOOSE h \in Quorum(f) : TRUE ELSE <<>>

\* The current authority is that of the three slots.
LEMMA CurrentOf == Current = Agreed(slot) /\ (Readable <=> Quorum(slot) # {})
  BY DEF Current, Agreed, Readable

\* A value is agreed on when two slots hold it.
LEMMA QuorumMember ==
  ASSUME NEW f, DOMAIN f = Slots, NEW h
  PROVE  h \in Quorum(f) <=>
           /\ h # <<>>
           /\ \/ f[0] = h /\ f[1] = h
              \/ f[0] = h /\ f[2] = h
              \/ f[1] = h /\ f[2] = h
<1>1. Slots = {0, 1, 2}
  BY DEF Slots
<1>2. h \in Quorum(f) <=> /\ h # <<>> /\ \E s \in Slots : f[s] = h
                          /\ \E s, t \in Slots : s # t /\ f[s] = h /\ f[t] = h
  BY DEF Quorum
<1> QED BY <1>1, <1>2

\* Two slots out of three agree on one value only.
LEMMA OneAuthority ==
  ASSUME NEW f, DOMAIN f = Slots, NEW h \in Quorum(f)
  PROVE  Quorum(f) = {h} /\ Agreed(f) = h
<1>1. ASSUME NEW g \in Quorum(f) PROVE g = h
  BY <1>1, QuorumMember
<1>2. Quorum(f) = {h}
  BY <1>1
<1> QED BY <1>2 DEF Agreed

\* Without an agreement there is no authority.
LEMMA NoAuthority == ASSUME NEW f, Quorum(f) = {} PROVE Agreed(f) = <<>>
  BY DEF Agreed

----------------------------------------------------------------------------
(* Histories.                                                              *)

\* What an entry adds to a history.
LEMMA Appended ==
  ASSUME NEW h \in Histories, NEW e \in Entries
  PROVE  /\ Append(h, e) \in Histories /\ Append(h, e) # <<>>
         /\ Len(Append(h, e)) = Len(h) + 1
         /\ DOMAIN h = 1 .. Len(h) /\ DOMAIN Append(h, e) = 1 .. (Len(h) + 1)
         /\ Append(h, e)[Len(h) + 1] = e
         /\ \A i \in 1 .. Len(h) : Append(h, e)[i] = h[i]
  BY DEF Histories

\* A history of one entry begins with nothing.
LEMMA FirstEntry ==
  ASSUME NEW h \in Histories, Len(h) = 1
  PROVE  h[1] \in Entries /\ h = Append(<<>>, h[1])
  BY DEF Histories

\* The revision of an entry does not change when others follow.
LEMMA RevisionStands ==
  ASSUME NEW h \in Histories, NEW e \in Entries, NEW i \in DOMAIN h, NEW l
  PROVE  Revision(Append(h, e), l, i) = Revision(h, l, i)
<1> DEFINE g == Append(h, e)
<1>1. {j \in Of(g, l) : j < i} = {j \in Of(h, l) : j < i}
  <2>1. \A j : j \in Of(g, l) <=> j \in 1 .. (Len(h) + 1) /\ g[j].lin = l
    BY Appended DEF Of
  <2>2. \A j : j \in Of(h, l) <=> j \in 1 .. Len(h) /\ h[j].lin = l
    BY Appended DEF Of
  <2>3. i \in 1 .. Len(h) /\ Len(h) \in Nat
    BY Appended DEF Histories
  <2>4. \A j \in 1 .. Len(h) : g[j] = h[j]
    BY Appended
  <2>5. \A j : j \in 1 .. (Len(h) + 1) /\ j < i <=> j \in 1 .. Len(h) /\ j < i
    BY <2>3
  <2> HIDE DEF g
  <2> QED BY <2>1, <2>2, <2>4, <2>5
<1> QED BY <1>1 DEF Revision

Single(S) == \A i, j \in S : i = j

\* A set whose members are all one has at most one.
LEMMA SingleCounts == ASSUME NEW S, Single(S) PROVE Cardinality(S) <= 1
<1>1. CASE S = {}
  BY <1>1, FS_EmptySet
<1>2. CASE S # {}
  <2>1. PICK x \in S : TRUE
    BY <1>2
  <2>2. S = {x}
    BY <2>1 DEF Single
  <2> QED BY <2>2, FS_Singleton
<1> QED BY <1>1, <1>2

\* A history in which each key took effect once, one operation at a time.
WellFormed(h) ==
  \A l, k : Single(Journal(h, l, k)) /\ Single(Ended(h, l, k)) /\ Single(Pending(h, l))

\* An operation is published only where its key and its lineage allow it.
LEMMA StaysWellFormed ==
  ASSUME NEW h \in Histories, NEW e \in Entries, WellFormed(h), Applies(e, h)
  PROVE  WellFormed(Append(h, e))
<1> DEFINE g == Append(h, e)
           n == Len(h) + 1
<1>1. /\ DOMAIN h = 1 .. Len(h) /\ DOMAIN g = 1 .. n /\ g[n] = e /\ Len(h) \in Nat
      /\ \A i \in 1 .. Len(h) : g[i] = h[i]
  BY Appended DEF Histories
<1>2. e.kind \in {"start", "run", "begin", "end"} /\ e.lin \in Lineages /\ e.key \in Keys
  BY DEF Entries
<1> HIDE DEF g, n
<1>3. \A i : i \in 1 .. n <=> i \in 1 .. Len(h) \/ i = n
  BY <1>1 DEF n
<1>4. n \notin 1 .. Len(h)
  BY <1>1 DEF n
<1>5. \A l, i : i \in Of(g, l) <=> i \in Of(h, l) \/ (i = n /\ e.lin = l)
  BY <1>1, <1>3, <1>4 DEF Of
<1>6. \A l, i : i \in Of(h, l) => i # n /\ g[i] = h[i]
  BY <1>1, <1>4 DEF Of
<1>7. ASSUME NEW l, NEW k PROVE Single(Journal(g, l, k))
  <2>1. \A i : i \in Journal(g, l, k) =>
          i \in Journal(h, l, k) \/ (i = n /\ e.lin = l /\ e.key = k /\ e.kind # "end")
    BY <1>1, <1>5, <1>6 DEF Journal
  <2>2. e.lin = l /\ e.key = k /\ e.kind # "end" => Journal(h, l, k) = {}
    BY <1>2 DEF Applies, Journal
  <2>3. Single(Journal(h, l, k))
    BY DEF WellFormed
  <2> QED BY <2>1, <2>2, <2>3 DEF Single
<1>8. ASSUME NEW l, NEW k PROVE Single(Ended(g, l, k))
  <2>1. \A i : i \in Ended(g, l, k) =>
          i \in Ended(h, l, k) \/ (i = n /\ e.lin = l /\ e.key = k /\ e.kind = "end")
    BY <1>1, <1>5, <1>6 DEF Ended
  <2>2. e.lin = l /\ e.key = k /\ e.kind = "end" => Ended(h, l, k) = {}
    BY DEF Applies
  <2>3. Single(Ended(h, l, k))
    BY DEF WellFormed
  <2> QED BY <2>1, <2>2, <2>3 DEF Single
<1>9. ASSUME NEW l PROVE Single(Pending(g, l))
  <2>1. \A k : Ended(h, l, k) \subseteq Ended(g, l, k)
    BY <1>5, <1>6 DEF Ended
  <2>2. \A i : i \in Pending(g, l) =>
          i \in Pending(h, l) \/ (i = n /\ e.lin = l /\ e.kind = "begin")
    BY <1>1, <1>5, <1>6, <2>1 DEF Pending
  <2>3. e.lin = l /\ e.kind = "begin" => Pending(h, l) = {}
    BY DEF Applies
  <2>4. Single(Pending(h, l))
    BY DEF WellFormed
  <2> QED BY <2>2, <2>3, <2>4 DEF Single
<1> QED BY <1>7, <1>8, <1>9 DEF WellFormed, g

\* Nothing is well formed.
LEMMA EmptyWellFormed == WellFormed(<<>>)
  BY DEF WellFormed, Single, Journal, Ended, Pending, Of
----------------------------------------------------------------------------
(* The inductive invariant.                                                *)

Installs == [pc : {"install"}, call : Entries, next : Histories]
Writes == [pc : {"write"}, call : Entries \cup {Repair}, next : Histories, at : 0 .. 3]
Reads == [at : 1 .. 3, got : Seq(Histories), during : SUBSET Histories]

\* The range of every variable but the answers, which AnswersStand is about.
StoreTypeOK ==
  /\ slot \in [Slots -> Histories]
  /\ roots \subseteq Histories
  /\ op \in {NoOp} \cup Installs \cup Writes
  /\ reader \in {NoRead} \cup Reads
  /\ faults \in Nat
  /\ lost \in BOOLEAN

\* A publication writes the slots in their order.
Written == op.pc = "write" => \A s \in Slots : s < op.at => slot[s] = op.next

\* The second slot holds the authority: an operation extends what it holds, and but
\* between the first two writes of a publication another slot agrees with it.  The
\* last slot may be older, for no repair is needed before the next operation.
SlotInv ==
  /\ Len(slot[2]) <= Len(slot[1])
  /\ slot[1] = <<>> => Len(slot[0]) <= 1
  /\ \/ op.pc = "write" /\ op.at = 1
     \/ slot[1] = <<>>
     \/ slot[1] = slot[0] \/ slot[1] = slot[2]
  /\ op.pc = "install" => op.next = Append(slot[1], op.call)
  /\ op.pc = "write" =>
       /\ op.next # <<>>
       /\ op.at < 2 => op.next = slot[1] \/ \E e \in Entries : op.next = Append(slot[1], e)
       /\ op.call # Repair => op.next[Len(op.next)] = op.call

\* What is, or may become, the authority lets each key take effect once.
WellInv ==
  /\ WellFormed(slot[1])
  /\ \A h \in roots : WellFormed(h)
  /\ op.pc \in {"install", "write"} => WellFormed(op.next)

\* An answer and the entry of a history that it was given for.
StandsIn(a, h) == \E i \in DOMAIN h : h[i] = a.call /\ Revision(h, a.call.lin, i) = a.revision

AnswersIn == \A a \in answers : StandsIn(a, slot[1])

\* Without an interruption the slots that are not written yet are alike.
FaultInv ==
  /\ lost => faults >= 2
  /\ faults = 0 => \A s \in Slots : slot[s] = slot[2] \/ (op.pc = "write" /\ s < op.at)

\* A value that two of the slots read so far hold, or that one of them and a slot
\* still to be read hold, was the authority at some time of the reading.
ReadInv ==
  reader.at # 0 =>
    /\ Len(reader.got) = reader.at
    /\ reader.at < 3 => Quorum(slot) \subseteq reader.during
    /\ \A i \in 1 .. reader.at : reader.got[i] # <<>> =>
         /\ reader.at < 3 =>
              \A s \in Slots : s >= i /\ slot[s] = reader.got[i] => reader.got[i] \in reader.during
         /\ \A j \in 1 .. reader.at :
              i < j /\ reader.got[j] = reader.got[i] => reader.got[i] \in reader.during

IInv ==
  /\ StoreTypeOK /\ Written /\ ReadInv /\ FaultInv
  /\ ~lost => SlotInv /\ WellInv /\ AnswersIn

\* The program point of an operation tells which record it is.
LEMMA OpShape ==
  ASSUME StoreTypeOK
  PROVE  /\ op.pc = "install" => op \in Installs
         /\ op.pc = "write" => op \in Writes
         /\ NoOp.pc = "idle"
<1>1. NoOp.pc = "idle"
  BY DEF NoOp
<1>2. \A o \in Installs : o.pc = "install"
  BY DEF Installs
<1>3. \A o \in Writes : o.pc = "write"
  BY DEF Writes
<1> QED BY <1>1, <1>2, <1>3 DEF StoreTypeOK

\* A reading that has begun has its record.
LEMMA ReadShape ==
  ASSUME StoreTypeOK PROVE (reader.at # 0 => reader \in Reads) /\ (reader.at = 0 => reader = NoRead)
<1>1. NoRead.at = 0
  BY DEF NoRead
<1>2. \A r \in Reads : r.at # 0
  BY DEF Reads
<1> QED BY <1>1, <1>2 DEF StoreTypeOK

\* A repository begins without an authority.
LEMMA InitInv == StoreInit => IInv
<1> SUFFICES ASSUME StoreInit PROVE IInv
  OBVIOUS
<1>1. slot \in [Slots -> Histories] /\ DOMAIN slot = Slots
  BY DEF StoreInit, Histories
<1>2. \A s \in Slots : slot[s] = <<>>
  BY DEF StoreInit
<1>3. slot[0] = <<>> /\ slot[1] = <<>> /\ slot[2] = <<>>
  BY DEF StoreInit, Slots
<1>4. StoreTypeOK
  BY <1>1 DEF StoreInit, StoreTypeOK
<1>5. op.pc = "idle" /\ reader.at = 0 /\ answers = {} /\ roots = {} /\ lost = FALSE
  BY DEF StoreInit, NoOp, NoRead
<1>6. SlotInv /\ WellInv /\ AnswersIn
  BY <1>3, <1>5, EmptyWellFormed DEF SlotInv, WellInv, AnswersIn
<1>7. Written /\ ReadInv /\ FaultInv
  BY <1>2, <1>3, <1>5 DEF Written, ReadInv, FaultInv
<1> QED BY <1>4, <1>5, <1>6, <1>7 DEF IInv

----------------------------------------------------------------------------
(* The ranges.                                                             *)

\* The authority is a history.
LEMMA CurrentTyped ==
  ASSUME StoreTypeOK
  PROVE  /\ DOMAIN slot = Slots /\ Current \in Histories
         /\ Readable => Current # <<>> /\ Quorum(slot) = {Current}
         /\ ~Readable => Current = <<>>
<1>1. DOMAIN slot = Slots /\ slot[0] \in Histories /\ slot[1] \in Histories /\ slot[2] \in Histories
  BY DEF StoreTypeOK, Slots
<1>2. CASE Readable
  <2>1. PICK h \in Quorum(slot) : TRUE
    BY <1>2, CurrentOf
  <2>2. h # <<>> /\ h \in Histories
    BY <1>1, <2>1, QuorumMember
  <2> QED BY <1>1, <1>2, <2>1, <2>2, OneAuthority, CurrentOf
<1>3. CASE ~Readable
  <2>1. Current = <<>>
    BY <1>3, NoAuthority, CurrentOf
  <2> QED BY <1>1, <1>3, <2>1 DEF Histories
<1> QED BY <1>2, <1>3

LEMMA StoreStepTyped == ASSUME StoreTypeOK, [StoreNext]_storeVars PROVE StoreTypeOK'
<1> USE OpShape, ReadShape
<1>1. CASE Decide
  <2>1. op' \in {NoOp} \cup Installs
    <3>1. PICK c \in Entries :
            \/ op' = [pc |-> "install", call |-> c, next |-> Append(Current, c)]
            \/ op' = NoOp
      BY <1>1 DEF Decide, Return
    <3>2. Append(Current, c) \in Histories
      BY CurrentTyped, Appended
    <3>3. [pc |-> "install", call |-> c, next |-> Append(Current, c)] \in Installs
      BY <3>2 DEF Installs
    <3> QED BY <3>1, <3>3
  <2> QED BY <1>1, <2>1 DEF Decide, StoreTypeOK
<1>2. CASE DecideRepair
  <2>1. op' \in Writes
    <3>1. PICK h \in Candidates : op' = [pc |-> "write", call |-> Repair, next |-> h, at |-> 0]
      BY <1>2 DEF DecideRepair
    <3>2. h \in Histories
      BY CurrentTyped DEF Candidates, StoreTypeOK
    <3> QED BY <3>1, <3>2 DEF Writes
  <2> QED BY <1>2, <2>1 DEF DecideRepair, StoreTypeOK
<1>3. CASE Install
  <2>1. op \in Installs
    BY <1>3 DEF Install
  <2>2. op' \in Writes /\ op.next \in Histories
    BY <1>3, <2>1 DEF Install, Installs, Writes
  <2> QED BY <1>3, <2>2 DEF Install, StoreTypeOK
<1>4. CASE WriteSlot
  <2>1. op \in Writes /\ op.at \in 0 .. 2
    BY <1>4 DEF WriteSlot, Writes
  <2>2. op' \in Writes
    BY <1>4, <2>1 DEF WriteSlot, Writes
  <2>3. slot' \in [Slots -> Histories]
    BY <1>4, <2>1 DEF WriteSlot, Writes, StoreTypeOK
  <2>4. Quorum(slot') \subseteq Histories
    BY <2>3 DEF Quorum
  <2>5. reader' \in {NoRead} \cup Reads
    <3>1. CASE reader.at \in 1 .. 2
      <4>1. reader \in Reads
        BY <3>1
      <4>2. reader.during \cup Quorum(slot') \in SUBSET Histories
        BY <2>4, <4>1 DEF Reads
      <4>3. reader' = [reader EXCEPT !.during = reader.during \cup Quorum(slot')]
        BY <1>4, <3>1 DEF WriteSlot
      <4> HIDE DEF Histories
      <4> QED BY <4>1, <4>2, <4>3 DEF Reads
    <3>2. CASE reader.at \notin 1 .. 2
      BY <1>4, <3>2 DEF WriteSlot, StoreTypeOK
    <3> QED BY <3>1, <3>2
  <2> QED BY <1>4, <2>2, <2>3, <2>5 DEF WriteSlot, StoreTypeOK
<1>5. CASE Publish \/ Interrupt
  <2>1. UNCHANGED <<slot, roots, reader>> /\ op' = NoOp
    BY <1>5 DEF Publish, Return, Interrupt
  <2>2. faults' \in Nat
    BY <1>5 DEF Publish, Interrupt, StoreTypeOK
  <2>3. lost' \in BOOLEAN
    <3>1. lost' = lost \/ lost' = (lost \/ Split)
      BY <1>5 DEF Publish, Interrupt
    <3> QED BY <3>1 DEF StoreTypeOK
  <2> QED BY <2>1, <2>2, <2>3 DEF StoreTypeOK
<1>6. CASE ReadSlot
  <2>1. slot \in [Slots -> Histories] /\ slot[0] \in Histories
    BY DEF StoreTypeOK, Slots
  <2>2. Quorum(slot) \subseteq Histories
    BY <2>1 DEF Quorum
  <2>3. reader' \in Reads
    <3>1. CASE reader.at = 0
      BY <1>6, <2>1, <2>2, <3>1 DEF ReadSlot, Reads
    <3>2. CASE reader.at # 0
      <4>1. reader \in Reads /\ reader.at \in Slots
        BY <1>6, <3>2 DEF ReadSlot, Reads, Slots
      <4>2. slot[reader.at] \in Histories /\ reader.got \in Seq(Histories)
        BY <2>1, <4>1 DEF Reads
      <4>3. Append(reader.got, slot[reader.at]) \in Seq(Histories) /\ reader.at + 1 \in 1 .. 3
        BY <1>6, <4>1, <4>2 DEF ReadSlot, Slots
      <4> QED BY <1>6, <3>2, <4>1, <4>3 DEF ReadSlot, Reads
    <3> QED BY <3>1, <3>2
  <2> QED BY <1>6, <2>3 DEF ReadSlot, StoreTypeOK
<1>7. CASE UNCHANGED storeVars
  BY <1>7 DEF storeVars, StoreTypeOK
<1> QED BY <1>1, <1>2, <1>3, <1>4, <1>5, <1>6, <1>7 DEF StoreNext

----------------------------------------------------------------------------
(* The slots.                                                              *)

\* What the second slot holds is what the store says, and what an operation reads.
LEMMA SecondSlot ==
  ASSUME StoreTypeOK, Written, SlotInv
  PROVE  /\ Authority = slot[1]
         /\ ~(op.pc = "write" /\ op.at = 1) => Current = slot[1] /\ (Readable <=> slot[1] # <<>>)
<1>1. /\ DOMAIN slot = Slots /\ Slots = {0, 1, 2}
      /\ slot[0] \in Histories /\ slot[1] \in Histories /\ slot[2] \in Histories
  BY CurrentTyped DEF StoreTypeOK, Slots
<1>2. CASE slot[1] # <<>> /\ (slot[1] = slot[0] \/ slot[1] = slot[2])
  <2>1. slot[1] \in Quorum(slot)
    BY <1>1, <1>2, QuorumMember
  <2>2. Readable /\ Current = slot[1]
    BY <1>1, <2>1, OneAuthority, CurrentOf
  <2> QED BY <1>2, <2>2 DEF Authority
<1>3. CASE slot[1] = <<>>
  <2>1. slot[2] = <<>>
    BY <1>1, <1>3 DEF SlotInv, Histories
  <2>2. ~Readable /\ Current = <<>>
    BY <1>1, <1>3, <2>1, QuorumMember, NoAuthority, CurrentOf
  <2>3. CASE op.pc = "write" /\ op.at = 1
    <3>1. slot[0] = op.next /\ op.next \in Histories /\ op.next # <<>> /\ Len(op.next) <= 1
      BY <1>1, <1>3, <2>3 DEF Written, SlotInv
    <3>2. Len(op.next) = 1
      <4>1. Len(op.next) \in Nat /\ (Len(op.next) = 0 => op.next = <<>>)
        BY <3>1 DEF Histories
      <4> QED BY <3>1, <4>1
    <3>3. SubSeq(op.next, 1, Len(op.next) - 1) = <<>>
      BY <3>1, <3>2 DEF Histories
    <3> QED BY <1>3, <2>2, <2>3, <3>3 DEF Authority
  <2>4. CASE ~(op.pc = "write" /\ op.at = 1)
    BY <1>3, <2>2, <2>4 DEF Authority
  <2> QED BY <2>3, <2>4
<1>4. CASE slot[1] # <<>> /\ slot[1] # slot[0] /\ slot[1] # slot[2]
  <2>1. op.pc = "write" /\ op.at = 1 /\ slot[0] = op.next
    BY <1>1, <1>4 DEF SlotInv, Written
  <2>2. PICK e \in Entries : op.next = Append(slot[1], e)
    BY <1>4, <2>1 DEF SlotInv
  <2>3. Len(op.next) = Len(slot[1]) + 1 /\ Len(slot[1]) \in Nat
    BY <1>1, <2>2, Appended DEF Histories
  <2>4. slot[2] # slot[0]
    BY <1>1, <2>1, <2>3 DEF SlotInv, Histories
  <2>5. ~Readable
    BY <1>1, <1>4, <2>4, QuorumMember, CurrentOf
  <2>6. SubSeq(op.next, 1, Len(op.next) - 1) = slot[1]
    BY <1>1, <2>2, <2>3 DEF Histories
  <2> QED BY <2>1, <2>5, <2>6 DEF Authority
<1> QED BY <1>2, <1>3, <1>4

\* The writes of a publication, in order, whatever became of earlier ones.
LEMMA WrittenStep == ASSUME StoreTypeOK, Written, [StoreNext]_storeVars PROVE Written'
<1>1. CASE Decide \/ DecideRepair \/ Install
  BY <1>1, OpShape DEF Decide, Return, DecideRepair, Install, Written, NoOp, Slots
<1>2. CASE WriteSlot
  <2>1. op \in Writes /\ op.at \in 0 .. 2 /\ DOMAIN slot = Slots
    BY <1>2, OpShape, CurrentTyped DEF WriteSlot, Writes
  <2>2. /\ op'.next = op.next /\ op'.at = op.at + 1 /\ slot'[op.at] = op.next
        /\ \A s \in Slots : s # op.at => slot'[s] = slot[s]
    BY <1>2, <2>1 DEF WriteSlot, Writes, Slots
  <2>3. \A s \in Slots : s < op.at + 1 => s = op.at \/ s < op.at
    BY <2>1 DEF Slots
  <2> QED BY <1>2, <2>2, <2>3 DEF Written, WriteSlot
<1>3. CASE Publish \/ Interrupt
  BY <1>3 DEF Publish, Return, Interrupt, NoOp, Written
<1>4. CASE ReadSlot \/ UNCHANGED storeVars
  BY <1>4 DEF ReadSlot, storeVars, Written
<1> QED BY <1>1, <1>2, <1>3, <1>4 DEF StoreNext

\* The write of a slot leaves the old authority or publishes the new one.
LEMMA WriteMoves ==
  ASSUME StoreTypeOK, Written, SlotInv, WriteSlot
  PROVE  /\ SlotInv'
         /\ \/ slot'[1] = slot[1]
            \/ slot'[1] = op.next /\ \E e \in Entries : op.next = Append(slot[1], e)
<1> DEFINE n == op.next
<1>1. op \in Writes /\ op.pc = "write" /\ op.at \in 0 .. 2 /\ n # <<>>
  BY OpShape DEF WriteSlot, Writes, SlotInv
<1>2. /\ DOMAIN slot = Slots /\ Slots = {0, 1, 2} /\ n \in Histories
      /\ slot[0] \in Histories /\ slot[1] \in Histories /\ slot[2] \in Histories
  BY <1>1, CurrentTyped DEF StoreTypeOK, Slots, Writes
<1>3. /\ slot'[op.at] = n
      /\ \A s \in Slots : s # op.at => slot'[s] = slot[s]
  BY <1>1, <1>2 DEF WriteSlot
<1>4. op'.pc = "write" /\ op'.next = n /\ op'.call = op.call /\ op'.at = op.at + 1
  BY <1>1 DEF WriteSlot, Writes
<1>5. \A s \in Slots : s < op.at => slot[s] = n
  BY <1>1 DEF Written
<1>6. op'.call # Repair => op'.next[Len(op'.next)] = op'.call
  BY <1>1, <1>4 DEF SlotInv
<1>7. op.at < 2 => n = slot[1] \/ \E e \in Entries : n = Append(slot[1], e)
  BY <1>1 DEF SlotInv
<1>8. Len(slot[2]) <= Len(slot[1]) /\ Len(slot[1]) \in Nat /\ Len(slot[2]) \in Nat
  BY <1>2 DEF SlotInv, Histories
<1>9. op.at < 2 => Len(slot[1]) <= Len(n) /\ (slot[1] = <<>> => Len(n) = 1)
  <2>1. CASE n = slot[1]
    BY <1>1, <1>8, <2>1
  <2>4. SUFFICES ASSUME op.at < 2 PROVE Len(slot[1]) <= Len(n) /\ (slot[1] = <<>> => Len(n) = 1)
    OBVIOUS
  <2>2. ASSUME NEW e \in Entries, n = Append(slot[1], e) PROVE Len(n) = Len(slot[1]) + 1
    BY <1>2, <2>2, Appended
  <2>3. slot[1] = <<>> => Len(slot[1]) = 0
    OBVIOUS
  <2>5. CASE \E e \in Entries : n = Append(slot[1], e)
    BY <1>8, <2>2, <2>3, <2>5
  <2> QED BY <1>7, <2>1, <2>4, <2>5
<1> HIDE DEF n
<1>10. CASE op.at = 0
  <2>1. slot'[0] = n /\ slot'[1] = slot[1] /\ slot'[2] = slot[2] /\ op'.at = 1
    BY <1>2, <1>3, <1>4, <1>10
  <2> QED BY <1>1, <1>4, <1>6, <1>7, <1>8, <1>9, <1>10, <2>1 DEF SlotInv
<1>11. CASE op.at = 1
  <2>1. slot'[0] = n /\ slot'[1] = n /\ slot'[2] = slot[2] /\ op'.at = 2
    BY <1>2, <1>3, <1>4, <1>5, <1>11
  <2>2. Len(n) \in Nat
    BY <1>2 DEF Histories
  <2>3. SlotInv'
    BY <1>1, <1>4, <1>6, <1>8, <1>9, <1>11, <2>1, <2>2 DEF SlotInv
  <2> QED BY <1>7, <1>11, <2>1, <2>3 DEF n
<1>12. CASE op.at = 2
  <2>1. slot'[0] = n /\ slot'[1] = n /\ slot'[2] = n /\ slot[1] = n /\ op'.at = 3
    BY <1>2, <1>3, <1>4, <1>5, <1>12
  <2>2. Len(n) \in Nat
    BY <1>2 DEF Histories
  <2> QED BY <1>1, <1>4, <1>6, <2>1, <2>2 DEF SlotInv
<1> QED BY <1>1, <1>10, <1>11, <1>12

\* What an operation decides on rests on the authority it read, torn or not.
LEMMA DecideInv == ASSUME StoreTypeOK, Written, SlotInv, Decide PROVE SlotInv'
<1>1. slot' = slot /\ op = NoOp /\ op.pc = "idle"
  BY DEF Decide, NoOp
<1>2. CASE op' = NoOp
  BY <1>1, <1>2 DEF SlotInv
<1>3. CASE op' # NoOp
  <2>1. PICK c \in Entries : op' = [pc |-> "install", call |-> c, next |-> Append(Current, c)]
    BY <1>3 DEF Decide, Return
  <2>2. op'.pc = "install" /\ op'.next = Append(slot[1], op'.call)
    BY <1>1, <2>1, SecondSlot
  <2> QED BY <1>1, <2>2 DEF SlotInv
<1> QED BY <1>2, <1>3

\* A repair writes the authority, or the only genesis there is.
LEMMA RepairInv == ASSUME StoreTypeOK, Written, SlotInv, DecideRepair PROVE SlotInv'
<1>1. PICK h \in Candidates : op' = [pc |-> "write", call |-> Repair, next |-> h, at |-> 0]
  BY DEF DecideRepair
<1>2. slot' = slot /\ op.pc = "idle"
  BY DEF DecideRepair, NoOp
<1>3. Current = slot[1] /\ (Readable <=> slot[1] # <<>>)
  BY <1>2, SecondSlot
<1>4. h # <<>> /\ (h = slot[1] \/ \E e \in Entries : h = Append(slot[1], e))
  <2>1. CASE Readable
    BY <1>3, <2>1 DEF Candidates
  <2>2. CASE ~Readable
    <3>1. h \in Histories /\ Len(h) = 1 /\ slot[1] = <<>>
      BY <1>3, <2>2 DEF Candidates, StoreTypeOK
    <3>2. h[1] \in Entries /\ h = Append(<<>>, h[1])
      BY <3>1, FirstEntry
    <3>3. h # <<>>
      <4>1. Append(<<>>, h[1]) # <<>>
        BY <3>1, <3>2, Appended DEF Histories
      <4> QED BY <3>2, <4>1
    <3> QED BY <3>1, <3>2, <3>3
  <2> QED BY <2>1, <2>2
<1>5. op'.pc = "write" /\ op'.next = h /\ op'.call = Repair /\ op'.at = 0
  BY <1>1
<1> QED BY <1>2, <1>4, <1>5 DEF SlotInv

\* The root set is installed before a slot names it.
LEMMA InstallInv == ASSUME StoreTypeOK, SlotInv, Install PROVE SlotInv'
<1>1. op \in Installs /\ op.pc = "install" /\ slot' = slot
  BY OpShape DEF Install
<1>2. /\ op'.pc = "write" /\ op'.next = op.next /\ op'.call = op.call /\ op'.at = 0
      /\ op.call \in Entries /\ op.next = Append(slot[1], op.call)
  BY <1>1 DEF Install, Installs, SlotInv
<1>3. slot[1] \in Histories
  BY DEF StoreTypeOK, Slots
<1>4. op.next # <<>> /\ op.next[Len(op.next)] = op.call
  BY <1>2, <1>3, Appended
<1> QED BY <1>1, <1>2, <1>4 DEF SlotInv

\* An operation that ends while two slots agree leaves the authority.
LEMMA InterruptInv ==
  ASSUME StoreTypeOK, Written, SlotInv, Interrupt, ~Split PROVE SlotInv'
<1>1. slot' = slot /\ op' = NoOp /\ op'.pc = "idle"
  BY DEF Interrupt, NoOp
<1>2. SUFFICES slot[1] = <<>> \/ slot[1] = slot[0] \/ slot[1] = slot[2]
  BY <1>1 DEF SlotInv
<1>3. SUFFICES ASSUME op.pc = "write", op.at = 1, slot[1] # <<>>, slot[1] # slot[0]
               PROVE  slot[1] = slot[2]
  BY DEF SlotInv
<1>4. slot[0] = op.next /\ slot[1] \in Histories /\ slot[2] \in Histories
  BY <1>3 DEF Written, StoreTypeOK, Slots
<1>5. PICK e \in Entries : op.next = Append(slot[1], e)
  BY <1>3, <1>4 DEF SlotInv
<1>6. Len(slot[0]) = Len(slot[1]) + 1 /\ Len(slot[2]) <= Len(slot[1])
      /\ Len(slot[1]) \in Nat /\ Len(slot[2]) \in Nat
  BY <1>4, <1>5, Appended DEF SlotInv, Histories
<1>7. slot[2] # slot[0]
  BY <1>6
<1> QED BY <1>3, <1>7 DEF Split, Slots

\* Until it is lost, the authority grows by one entry or not at all.
LEMMA SlotStep ==
  ASSUME StoreTypeOK, Written, SlotInv, ~lost', [StoreNext]_storeVars
  PROVE  /\ SlotInv'
         /\ \/ slot'[1] = slot[1]
            \/ /\ op.pc = "write" /\ slot'[1] = op.next
               /\ \E e \in Entries : op.next = Append(slot[1], e)
<1>1. CASE WriteSlot
  BY <1>1, WriteMoves DEF WriteSlot
<1>2. CASE Decide
  BY <1>2, DecideInv DEF Decide
<1>3. CASE DecideRepair
  BY <1>3, RepairInv DEF DecideRepair
<1>4. CASE Install
  BY <1>4, InstallInv DEF Install
<1>5. CASE Publish
  <2>1. slot' = slot /\ op'.pc = "idle" /\ op.pc = "write" /\ op.at = 3
    BY <1>5 DEF Publish, Return, NoOp
  <2> QED BY <2>1 DEF SlotInv
<1>6. CASE Interrupt
  BY <1>6, InterruptInv DEF Interrupt
<1>7. CASE ReadSlot \/ UNCHANGED storeVars
  <2>1. slot' = slot /\ op' = op
    BY <1>7 DEF ReadSlot, storeVars
  <2> QED BY <2>1 DEF SlotInv
<1> QED BY <1>1, <1>2, <1>3, <1>4, <1>5, <1>6, <1>7 DEF StoreNext

\* The slots come apart by an interruption, and no two agree after a second one only.
LEMMA FaultStep ==
  ASSUME StoreTypeOK, Written, FaultInv, [StoreNext]_storeVars PROVE FaultInv'
<1>1. CASE Interrupt
  <2>1. faults' = faults + 1 /\ faults \in Nat /\ lost' = (lost \/ Split)
    BY <1>1 DEF Interrupt, StoreTypeOK
  <2>2. ASSUME Split, faults = 0 PROVE FALSE
    <3>1. slot[0] # slot[1] /\ slot[1] # slot[2] /\ slot[0] # slot[2]
      BY <2>2 DEF Split, Slots
    <3>2. op.pc = "write" /\ 1 < op.at
      BY <2>2, <3>1 DEF FaultInv, Slots
    <3>3. op.at \in 0 .. 3
      BY <3>2, OpShape DEF Writes
    <3>4. slot[0] = op.next /\ slot[1] = op.next
      BY <3>2, <3>3 DEF Written, Slots
    <3> QED BY <3>1, <3>4
  <2>3. lost' => faults' >= 2
    <3>1. CASE lost
      BY <2>1, <3>1 DEF FaultInv
    <3>2. CASE Split
      BY <2>1, <2>2, <3>2
    <3> QED BY <2>1, <3>1, <3>2
  <2>4. faults' # 0
    BY <2>1
  <2> QED BY <2>3, <2>4 DEF FaultInv
<1>2. CASE ~Interrupt
  <2>1. faults' = faults /\ lost' = lost
    BY <1>2 DEF StoreNext, Decide, DecideRepair, Install, WriteSlot, Publish, ReadSlot, storeVars
  <2>2. SUFFICES ASSUME faults = 0, NEW s \in Slots
                 PROVE  slot'[s] = slot'[2] \/ (op'.pc = "write" /\ s < op'.at)
    BY <2>1 DEF FaultInv
  <2>3. slot[s] = slot[2] \/ (op.pc = "write" /\ s < op.at)
    BY <2>2 DEF FaultInv
  <2>4. CASE WriteSlot
    <3>1. op \in Writes /\ op.at \in 0 .. 2 /\ DOMAIN slot = Slots /\ Slots = {0, 1, 2}
      BY <2>4, OpShape, CurrentTyped DEF WriteSlot, Writes, Slots
    <3>2. op'.pc = "write" /\ op'.at = op.at + 1 /\ slot' = [slot EXCEPT ![op.at] = op.next]
      BY <2>4, <3>1 DEF WriteSlot, Writes
    <3>3. CASE s < op.at + 1
      BY <3>2, <3>3
    <3>4. CASE ~(s < op.at + 1)
      BY <2>3, <3>1, <3>2, <3>4
    <3> QED BY <3>3, <3>4
  <2>5. CASE Publish
    <3>1. op.at = 3 /\ op.pc = "write" /\ slot' = slot
      BY <2>5 DEF Publish
    <3>2. slot[s] = op.next /\ slot[2] = op.next
      BY <3>1 DEF Written, Slots
    <3> QED BY <3>1, <3>2
  <2>6. CASE Decide \/ DecideRepair \/ Install
    <3>1. slot' = slot /\ op.pc # "write"
      BY <2>6 DEF Decide, DecideRepair, Install, NoOp
    <3> QED BY <2>3, <3>1
  <2>7. CASE ReadSlot \/ UNCHANGED storeVars
    BY <2>3, <2>7 DEF ReadSlot, storeVars
  <2> QED BY <1>2, <2>4, <2>5, <2>6, <2>7 DEF StoreNext
<1> QED BY <1>1, <1>2

----------------------------------------------------------------------------
(* The journal and the answers.                                            *)

LEMMA WellStep ==
  ASSUME StoreTypeOK, Written, SlotInv, WellInv, ~lost', [StoreNext]_storeVars
  PROVE  WellInv'
<1>1. WellFormed(slot'[1])
  <2>1. slot'[1] = slot[1] \/ (op.pc = "write" /\ slot'[1] = op.next)
    BY SlotStep
  <2> QED BY <2>1 DEF WellInv
<1>2. \A h \in roots' : WellFormed(h)
  <2>1. roots' \subseteq roots \/ (op.pc = "install" /\ roots' = roots \cup {op.next})
    BY DEF StoreNext, Decide, DecideRepair, Install, WriteSlot, Publish, Interrupt, ReadSlot, storeVars
  <2> QED BY <2>1 DEF WellInv
<1>3. op'.pc \in {"install", "write"} => WellFormed(op'.next)
  <2>1. CASE Decide
    <3>1. CASE op' = NoOp
      BY <3>1 DEF NoOp
    <3>2. CASE op' # NoOp
      <4>1. PICK c \in Entries :
              /\ Applies(c, Current)
              /\ op' = [pc |-> "install", call |-> c, next |-> Append(Current, c)]
        BY <2>1, <3>2 DEF Decide, Return
      <4>2. Current = slot[1]
        BY <2>1, SecondSlot DEF Decide, NoOp
      <4>3. WellFormed(Append(Current, c))
        BY <4>1, <4>2, CurrentTyped, StaysWellFormed DEF WellInv
      <4> QED BY <4>1, <4>3
    <3> QED BY <3>1, <3>2
  <2>2. CASE DecideRepair
    <3>1. PICK h \in Candidates : op' = [pc |-> "write", call |-> Repair, next |-> h, at |-> 0]
      BY <2>2 DEF DecideRepair
    <3>2. Current = slot[1]
      BY <2>2, SecondSlot DEF DecideRepair, NoOp
    <3>3. WellFormed(h)
      BY <3>2 DEF Candidates, WellInv
    <3> QED BY <3>1, <3>3
  <2>3. CASE Install
    BY <2>3 DEF Install, WellInv
  <2>4. CASE WriteSlot
    <3>1. op \in Writes
      BY <2>4, OpShape DEF WriteSlot
    <3>2. op'.next = op.next
      BY <2>4, <3>1 DEF WriteSlot, Writes
    <3> QED BY <2>4, <3>2 DEF WriteSlot, WellInv
  <2>5. CASE Publish \/ Interrupt
    BY <2>5 DEF Publish, Return, Interrupt, NoOp
  <2>6. CASE ReadSlot \/ UNCHANGED storeVars
    BY <2>6 DEF ReadSlot, storeVars, WellInv
  <2> QED BY <2>1, <2>2, <2>3, <2>4, <2>5, <2>6 DEF StoreNext
<1> QED BY <1>1, <1>2, <1>3 DEF WellInv

\* An answer that stands in a history stands in every later one.
LEMMA StillStands ==
  ASSUME NEW h \in Histories, NEW e \in Entries, NEW a, StandsIn(a, h)
  PROVE  StandsIn(a, Append(h, e))
<1>1. PICK i \in DOMAIN h : h[i] = a.call /\ Revision(h, a.call.lin, i) = a.revision
  BY DEF StandsIn
<1>2. Revision(Append(h, e), a.call.lin, i) = a.revision
  BY <1>1, RevisionStands
<1>3. i \in DOMAIN Append(h, e) /\ Append(h, e)[i] = a.call
  BY <1>1, Appended DEF Histories
<1> QED BY <1>2, <1>3 DEF StandsIn

\* What a retry is answered with is the result of the operation it repeats.
LEMMA StoredStands ==
  ASSUME NEW h \in Histories, NEW c \in Entries, NEW i \in Stored(c, h)
  PROVE  StandsIn(Answered(c, h, i), h)
<1>1. i \in DOMAIN h /\ h[i].lin = c.lin /\ h[i].kind = c.kind /\ h[i].key = c.key /\ h[i].req = c.req
  BY DEF Stored, Of
<1>2. h[i] \in Entries
  BY <1>1 DEF Histories
<1>3. h[i] = c
  BY <1>1, <1>2 DEF Entries
<1>4. Answered(c, h, i).call = c /\ Answered(c, h, i).revision = Revision(h, c.lin, i)
  BY DEF Answered
<1> QED BY <1>1, <1>3, <1>4 DEF StandsIn

\* An operation is answered from the authority only.
LEMMA AnswersGiven ==
  ASSUME StoreTypeOK, Written, SlotInv, [StoreNext]_storeVars, NEW a, a \in answers', a \notin answers
  PROVE  StandsIn(a, slot'[1])
<1>1. CASE Decide
  <2>1. PICK c \in Entries : \E i \in Stored(c, Current) : a = Answered(c, Current, i)
    BY <1>1 DEF Decide, Return
  <2>2. StandsIn(a, Current)
    BY <2>1, CurrentTyped, StoredStands
  <2>3. Current = slot[1] /\ slot' = slot
    BY <1>1, SecondSlot DEF Decide, NoOp
  <2> QED BY <2>2, <2>3
<1>2. CASE Publish
  <2>1. /\ Quorum(slot) = {op.next} /\ op.call # Repair /\ slot' = slot
        /\ a = Answered(op.call, op.next, Len(op.next))
    BY <1>2 DEF Publish, Return
  <2>2. slot'[1] = op.next /\ op.pc = "write"
    BY <1>2, <2>1 DEF Publish, Written, Slots
  <2>3. op.next # <<>> /\ op.next[Len(op.next)] = op.call
    BY <1>2, <2>1 DEF Publish, SlotInv
  <2>4. op.next \in Histories /\ Len(op.next) \in DOMAIN op.next
    <3>1. op.next \in Histories
      BY <2>2, OpShape DEF Writes
    <3> QED BY <3>1, <2>3 DEF Histories
  <2>5. a.call = op.call /\ a.revision = Revision(op.next, op.call.lin, Len(op.next))
    BY <2>1 DEF Answered
  <2>6. StandsIn(a, op.next)
    BY <2>3, <2>4, <2>5 DEF StandsIn
  <2> QED BY <2>2, <2>6
<1>3. CASE ~Decide /\ ~Publish
  <2>1. answers' = answers
    BY <1>3 DEF StoreNext, DecideRepair, Install, WriteSlot, Interrupt, ReadSlot, storeVars
  <2> QED BY <2>1
<1> QED BY <1>1, <1>2, <1>3

LEMMA AnswersStep ==
  ASSUME StoreTypeOK, Written, SlotInv, AnswersIn, ~lost', [StoreNext]_storeVars
  PROVE  AnswersIn'
<1> SUFFICES ASSUME NEW a, a \in answers' PROVE StandsIn(a, slot'[1])
  BY DEF AnswersIn
<1>1. CASE a \in answers
  <2>1. StandsIn(a, slot[1]) /\ slot[1] \in Histories
    BY <1>1 DEF AnswersIn, StoreTypeOK, Slots
  <2>2. slot'[1] = slot[1] \/ \E e \in Entries : slot'[1] = Append(slot[1], e)
    BY SlotStep
  <2> QED BY <2>1, <2>2, StillStands
<1>2. CASE a \notin answers
  BY <1>2, AnswersGiven
<1> QED BY <1>1, <1>2

----------------------------------------------------------------------------
(* The readings.                                                           *)

\* A slot that is read later is compared with what was read earlier.
LEMMA ReadSlotInv == ASSUME StoreTypeOK, ReadInv, ReadSlot PROVE ReadInv'
<1>1. /\ DOMAIN slot = Slots /\ slot' = slot /\ Slots = {0, 1, 2}
      /\ \A s, t \in Slots : s # t /\ slot[s] = slot[t] /\ slot[s] # <<>> => slot[s] \in Quorum(slot)
  BY CurrentTyped DEF ReadSlot, Quorum, Slots
<1>2. CASE reader.at = 0
  <2>1. reader' = [at |-> 1, got |-> <<slot[0]>>, during |-> Quorum(slot)]
    BY <1>2 DEF ReadSlot
  <2>2. /\ reader'.at = 1 /\ Len(reader'.got) = 1 /\ reader'.got[1] = slot[0]
        /\ reader'.during = Quorum(slot)
    BY <2>1
  <2>3. ASSUME slot[0] # <<>>, NEW s \in Slots, s >= 1, slot[s] = slot[0]
        PROVE  slot[0] \in Quorum(slot)
    BY <1>1, <2>3
  <2> QED BY <1>1, <2>2, <2>3 DEF ReadInv
<1>3. CASE reader.at # 0
  <2>1. reader \in Reads /\ reader.at \in 1 .. 2
    BY <1>3, ReadShape DEF ReadSlot, Reads
  <2> DEFINE n == reader.at
             g == reader.got
  <2>2. g \in Seq(Histories) /\ Len(g) = n
    BY <2>1, <1>3 DEF Reads, ReadInv
  <2>3. /\ reader'.at = n + 1 /\ reader'.got = Append(g, slot[n])
        /\ reader'.during = reader.during
    BY <1>3, <2>1 DEF ReadSlot, Reads
  <2>4. /\ Len(reader'.got) = n + 1 /\ reader'.got[n + 1] = slot[n]
        /\ \A i \in 1 .. n : reader'.got[i] = g[i]
    BY <2>2, <2>3
  <2>5. Quorum(slot) \subseteq reader.during
    BY <1>3, <2>1 DEF ReadInv
  <2>6. ASSUME NEW i \in 1 .. n, g[i] # <<>>
        PROVE  /\ \A s \in Slots : s >= i /\ slot[s] = g[i] => g[i] \in reader.during
               /\ \A j \in 1 .. n : i < j /\ g[j] = g[i] => g[i] \in reader.during
    BY <1>3, <2>1, <2>6 DEF ReadInv
  <2> HIDE DEF n, g
  <2>7. n \in Slots /\ n \in 1 .. 2
    BY <2>1, <1>1 DEF n
  <2>8. ASSUME NEW i \in 1 .. (n + 1), reader'.got[i] # <<>>
        PROVE  /\ \A s \in Slots : s >= i /\ slot[s] = reader'.got[i] => reader'.got[i] \in reader.during
               /\ \A j \in 1 .. (n + 1) :
                    i < j /\ reader'.got[j] = reader'.got[i] => reader'.got[i] \in reader.during
    <3>1. CASE i \in 1 .. n
      <4>1. reader'.got[i] = g[i]
        BY <3>1, <2>4
      <4>2. \A s \in Slots : s >= i /\ slot[s] = g[i] => g[i] \in reader.during
        BY <2>6, <2>8, <3>1, <4>1
      <4>3. ASSUME NEW j \in 1 .. (n + 1), i < j, reader'.got[j] = g[i]
            PROVE  g[i] \in reader.during
        <5>1. CASE j \in 1 .. n
          BY <2>4, <2>6, <2>8, <3>1, <4>1, <4>3, <5>1
        <5>2. CASE j = n + 1
          BY <2>4, <2>7, <3>1, <4>2, <4>3, <5>2
        <5> QED BY <5>1, <5>2, <2>7
      <4> QED BY <4>1, <4>2, <4>3
    <3>2. CASE i = n + 1
      <4>1. reader'.got[i] = slot[n]
        BY <3>2, <2>4
      <4>2. ASSUME NEW s \in Slots, s >= i, slot[s] = slot[n] PROVE slot[n] \in reader.during
        <5>1. s # n
          BY <3>2, <4>2, <2>7, <1>1
        <5>2. slot[n] \in Quorum(slot)
          BY <1>1, <2>7, <2>8, <4>1, <4>2, <5>1
        <5> QED BY <5>2, <2>5
      <4> QED BY <3>2, <4>1, <4>2, <2>7
    <3> QED BY <3>1, <3>2, <2>7
  <2> QED BY <1>1, <2>3, <2>4, <2>5, <2>7, <2>8 DEF ReadInv, n
<1> QED BY <1>2, <1>3

\* A slot that is written during a reading ends a value or completes one: what was
\* read of the new authority was read from a slot that stays.
LEMMA WriteSlotRead ==
  ASSUME StoreTypeOK, Written, ReadInv, WriteSlot
  PROVE  ReadInv'
<1>1. CASE reader.at \in 1 .. 2
  <2> DEFINE n == op.next
  <2>1. op \in Writes /\ op.pc = "write" /\ op.at \in 0 .. 2
    BY OpShape DEF WriteSlot, Writes
  <2>2. DOMAIN slot = Slots /\ Slots = {0, 1, 2}
    BY CurrentTyped DEF Slots
  <2>3. /\ DOMAIN slot' = Slots /\ slot'[op.at] = n
        /\ \A s \in Slots : s # op.at => slot'[s] = slot[s]
    BY <2>1, <2>2 DEF WriteSlot
  <2>4. reader \in Reads
    BY <1>1, ReadShape
  <2>5. /\ reader'.at = reader.at /\ reader'.got = reader.got
        /\ reader'.during = reader.during \cup Quorum(slot')
    BY <1>1, <2>4 DEF WriteSlot, Reads
  <2>6. ASSUME NEW i \in 1 .. reader.at, reader.got[i] # <<>>,
               NEW s \in Slots, s >= i, slot'[s] = reader.got[i]
        PROVE  reader.got[i] \in reader'.during
    <3>1. CASE s # op.at
      BY <1>1, <2>3, <2>5, <2>6, <3>1 DEF ReadInv
    <3>2. CASE s = op.at
      <4>1. 0 \in Slots /\ 0 < op.at
        BY <1>1, <2>1, <2>2, <2>6, <3>2
      <4>2. slot[0] = n
        BY <2>1, <4>1 DEF Written
      <4>3. slot'[0] = n /\ slot'[op.at] = n /\ n = reader.got[i]
        BY <2>3, <2>6, <3>2, <4>1, <4>2
      <4>4. n \in Quorum(slot')
        BY <2>1, <2>3, <2>6, <4>1, <4>3 DEF Quorum
      <4> QED BY <2>5, <4>3, <4>4
    <3> QED BY <3>1, <3>2
  <2>7. \A i \in 1 .. reader.at : reader.got[i] # <<>> =>
          \A j \in 1 .. reader.at : i < j /\ reader.got[j] = reader.got[i] => reader.got[i] \in reader'.during
    BY <1>1, <2>5 DEF ReadInv
  <2>8. Len(reader'.got) = reader'.at /\ Quorum(slot') \subseteq reader'.during
    BY <1>1, <2>5 DEF ReadInv
  <2> QED BY <2>5, <2>6, <2>7, <2>8 DEF ReadInv
<1>2. CASE reader.at = 3 \/ reader.at = 0
  <2>1. reader' = reader
    BY <1>2 DEF WriteSlot
  <2> QED BY <1>2, <2>1 DEF ReadInv
<1>3. reader.at \in 0 .. 3
  BY ReadShape DEF Reads, NoRead
<1> QED BY <1>1, <1>2, <1>3

LEMMA ReadStep == ASSUME StoreTypeOK, Written, ReadInv, [StoreNext]_storeVars PROVE ReadInv'
<1>1. CASE ReadSlot
  BY <1>1, ReadSlotInv
<1>2. CASE WriteSlot
  BY <1>2, WriteSlotRead
<1>3. CASE ~ReadSlot /\ ~WriteSlot
  <2>1. slot' = slot /\ reader' = reader
    BY <1>3 DEF StoreNext, Decide, DecideRepair, Install, Publish, Interrupt, storeVars
  <2> QED BY <2>1 DEF ReadInv
<1> QED BY <1>1, <1>2, <1>3

----------------------------------------------------------------------------
(* The theorems.                                                           *)

\* A store that is lost stays so: the model forgets none.
LEMMA LostForGood == ASSUME [StoreNext]_storeVars, lost PROVE lost'
  BY DEF StoreNext, Decide, DecideRepair, Install, WriteSlot, Publish, Interrupt, ReadSlot,
     storeVars

\* Until no two slots agree at the end of an operation, the second slot holds the
\* authority, whatever throws or dies half way and whatever follows it at once
\* (#publishCurrent, #runCompletedOperation, repairCurrentPointers()).
THEOREM StoreInvariant == StoreSpec => []IInv
<1>1. IInv /\ [StoreNext]_storeVars => IInv'
  <2> SUFFICES ASSUME IInv, [StoreNext]_storeVars PROVE IInv'
    OBVIOUS
  <2>1. StoreTypeOK' /\ Written' /\ ReadInv' /\ FaultInv'
    BY StoreStepTyped, WrittenStep, ReadStep, FaultStep DEF IInv
  <2>2. ASSUME ~lost' PROVE SlotInv' /\ WellInv' /\ AnswersIn'
    BY <2>2, LostForGood, SlotStep, WellStep, AnswersStep DEF IInv
  <2> QED BY <2>1, <2>2 DEF IInv
<1> QED BY <1>1, InitInv, PTL DEF StoreSpec

\* A reading of the three slots that finds two alike found an authority.
LEMMA ReadingFound == ASSUME StoreTypeOK, ReadInv PROVE ReadsCurrent
<1> SUFFICES ASSUME reader.at = 3, NEW h \in Quorum(reader.got) PROVE h \in reader.during
  BY DEF ReadsCurrent
<1>1. reader \in Reads /\ Len(reader.got) = 3
  BY ReadShape DEF ReadInv
<1>2. DOMAIN reader.got = 1 .. 3
  BY <1>1 DEF Reads
<1>3. h # <<>> /\ \E s, t \in 1 .. 3 : s < t /\ reader.got[s] = h /\ reader.got[t] = h
  BY <1>2 DEF Quorum
<1> QED BY <1>3 DEF ReadInv

\* An answer that reached a caller stands, a key takes effect once and there is an
\* authority after the first publication, until it is lost; a loss takes two
\* interruptions; and a reader without the lock gets what was current.
THEOREM StoreSafe == StoreSpec => []StoreInv
<1>1. IInv => StoreInv
  <2> SUFFICES ASSUME IInv PROVE StoreInv
    OBVIOUS
  <2>1. ASSUME ~lost PROVE AnswersStand /\ OncePerKey /\ LossOfGenesisOnly
    <3>1. Authority = slot[1] /\ SlotInv /\ WellInv /\ AnswersIn
      BY <2>1, SecondSlot DEF IInv
    <3>2. AnswersStand
      BY <3>1 DEF AnswersStand, AnswersIn, StandsIn
    <3>3. OncePerKey
      BY <3>1, SingleCounts DEF OncePerKey, WellInv, WellFormed
    <3>4. LossOfGenesisOnly
      <4>1. SUFFICES ASSUME slot[1] = <<>>
                     PROVE  answers = {} /\ \A s \in Slots : Len(slot[s]) <= 1
        BY <3>1 DEF LossOfGenesisOnly
      <4>2. answers = {}
        BY <3>1, <4>1 DEF AnswersIn, StandsIn
      <4>3. Len(slot[0]) <= 1 /\ Len(slot[1]) = 0 /\ Len(slot[2]) <= 0
        BY <3>1, <4>1 DEF SlotInv
      <4>4. Len(slot[2]) \in Nat
        BY DEF IInv, StoreTypeOK, Slots, Histories
      <4> QED BY <4>2, <4>3, <4>4 DEF Slots
    <3> QED BY <3>2, <3>3, <3>4
  <2>2. LossTakesTwo
    BY DEF LossTakesTwo, IInv, FaultInv
  <2>3. ReadsCurrent
    BY ReadingFound DEF IInv
  <2> QED BY <2>1, <2>2, <2>3 DEF StoreInv
<1> QED BY <1>1, StoreInvariant, PTL

\* The graph store implements the ledger: what it says starts empty and grows by one
\* entry at a time, until an operation ends while no two slots agree.
THEOREM LedgerKept == StoreSpec => IsLedger
<1>1. StoreInit => Ledger!Init
  <2> SUFFICES ASSUME StoreInit PROVE Ledger!Init
    OBVIOUS
  <2>1. IInv /\ ~lost /\ lost = FALSE
    BY InitInv DEF StoreInit
  <2>2. Authority = slot[1]
    BY <2>1, SecondSlot DEF IInv
  <2>3. slot[1] = <<>>
    BY DEF StoreInit, Slots
  <2> QED BY <2>1, <2>2, <2>3 DEF Ledger!Init
<1>2. IInv /\ ~lost => Authority = slot[1]
  BY SecondSlot DEF IInv
<1>3. IInv /\ (~lost => Authority = slot[1])' /\ [StoreNext]_storeVars
        => [Ledger!Next]_<<Authority, lost>>
  <2> SUFFICES ASSUME IInv, (~lost => Authority = slot[1])', [StoreNext]_storeVars, ~lost'
               PROVE  Ledger!Add \/ (Authority' = Authority /\ lost' = lost)
    BY DEF Ledger!Next, Ledger!Lose
  <2>1. ~lost /\ lost = FALSE /\ lost' = FALSE
    BY LostForGood DEF IInv, StoreTypeOK
  <2>2. Authority = slot[1] /\ slot[1] \in Histories
    BY <2>1, SecondSlot DEF IInv, StoreTypeOK, Slots
  <2>3. (Authority = slot[1])'
    OBVIOUS
  <2>4. slot'[1] = slot[1] \/ \E e \in Entries : slot'[1] = Append(slot[1], e)
    BY <2>1, SlotStep DEF IInv
  <2>5. CASE slot'[1] = slot[1]
    BY <2>1, <2>2, <2>3, <2>5
  <2>6. ASSUME NEW e \in Entries, slot'[1] = Append(slot[1], e) PROVE Ledger!Add
    <3>1. Len(slot'[1]) > Len(slot[1])
      BY <2>2, <2>6, Appended DEF Histories
    <3> QED BY <2>1, <2>2, <2>3, <2>6, <3>1 DEF Ledger!Add
  <2> QED BY <2>4, <2>5, <2>6
<1> QED BY <1>1, <1>2, <1>3, StoreInvariant, PTL DEF StoreSpec, IsLedger, Ledger!Spec
=============================================================================
