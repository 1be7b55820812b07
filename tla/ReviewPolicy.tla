---------------------------- MODULE ReviewPolicy ----------------------------
(***************************************************************************)
(* The reducers of one review lineage: lib/review-policy-ordinary.ts and   *)
(* lib/review-policy-judgment-day.ts.  Actors answer with lists that may   *)
(* omit, repeat or add findings; every such defect is an escalation reason *)
(* and a lineage with a reason is never approved.                          *)
(*                                                                         *)
(* A list of results is a function from the findings asked for, where      *)
(* "missing" stands for an omitted entry, and a flag that says whether it  *)
(* holds entries that are dropped (unknown or repeated ids).               *)
(***************************************************************************)
EXTENDS Naturals

CONSTANT Findings   \* ids of findings

VARIABLES
  mode,       \* "ordinary" or "judgment"
  budget,     \* refuter, fix and validator batches of an ordinary lineage
  phase,
  class,      \* the frozen ledger: the evidence class of each finding
  outcome,    \* the resolution of severe findings before the fix
  active,     \* active_finding_ids of Judgment Day
  fixed,      \* fixed_ids of the fix record
  fixes,      \* fix batches so far
  rounds,     \* judgment rounds so far
  verified,   \* the fix after which a finding was verified
  escalated,  \* whether there is an escalation reason
  terminal    \* terminal_state

policyVars == <<mode, budget, phase, class, outcome, active, fixed, fixes, rounds,
                verified, escalated, terminal>>

Classes == {"absent", "info", "deterministic", "inferential-severe"}
Phases == {"started", "discovery-complete", "refutation-complete", "judgment-complete",
           "fix-complete", "final-verification", "terminal"}

Severe == {f \in Findings : class[f] \in {"deterministic", "inferential-severe"}}
Corroborated == {f \in Severe : outcome[f] = "corroborated"}

PolicyInit ==
  /\ mode \in {"ordinary", "judgment"}
  /\ budget \in [refuter : 0 .. 1, fix : 0 .. 1, validator : 0 .. 1]
  /\ phase = "started"
  /\ class = [f \in Findings |-> "absent"]
  /\ outcome = [f \in Findings |-> "none"]
  /\ active = {}
  /\ fixed = {}
  /\ fixes = 0
  /\ rounds = 0
  /\ verified = [f \in Findings |-> 0]
  /\ escalated = FALSE
  /\ terminal = "none"

\* appendReasons()
Reasons(given) == escalated' = (escalated \/ given)

----------------------------------------------------------------------------
(* Ordinary review.                                                        *)

Ordinary(p) == mode = "ordinary" /\ terminal = "none" /\ phase = p

\* createFrozenLedger() opens every severe row and gives it a class that will
\* be resolved.
Discover ==
  /\ Ordinary("started")
  /\ class' \in [Findings -> Classes]
  /\ phase' = "discovery-complete"
  /\ UNCHANGED <<mode, budget, outcome, active, fixed, fixes, rounds, verified,
                 escalated, terminal>>

\* What validateResolutionList() and the loop after it complain of.
Defects(answer, dropped) == dropped \/ \E f \in DOMAIN answer : answer[f] = "inconclusive"

\* The controller decides deterministic findings, the one refuter batch the
\* inferential ones; whatever is missing is inconclusive.
Resolve ==
  /\ Ordinary("discovery-complete")
  /\ \E answer \in [Severe -> {"corroborated", "refuted", "inconclusive"}],
       dropped, refuter \in BOOLEAN :
       /\ \A f \in Severe : class[f] = "inferential-severe" /\ ~refuter =>
            answer[f] = "inconclusive"
       /\ refuter => budget.refuter = 1 /\ \E f \in Severe : class[f] = "inferential-severe"
       /\ outcome' = [f \in Findings |-> IF f \in Severe THEN answer[f] ELSE "none"]
       /\ LET bad == Defects(answer, dropped)
              some == \E f \in Severe : answer[f] = "corroborated" IN
          /\ Reasons(bad \/ (some /\ budget.fix = 0))
          /\ phase' = IF ~bad /\ some /\ budget.fix = 1
                      THEN "refutation-complete" ELSE "final-verification"
  /\ UNCHANGED <<mode, budget, class, active, fixed, fixes, rounds, verified, terminal>>

\* applyOrdinaryFix(): one batch for exactly the corroborated findings.
Fix ==
  /\ Ordinary("refutation-complete")
  /\ fixes < budget.fix
  /\ fixes' = fixes + 1
  /\ fixed' = Corroborated
  /\ phase' = "fix-complete"
  /\ UNCHANGED <<mode, budget, class, outcome, active, rounds, verified, escalated, terminal>>

DeclineFix ==
  /\ Ordinary("refutation-complete")
  /\ Reasons(TRUE)
  /\ phase' = "final-verification"
  /\ UNCHANGED <<mode, budget, class, outcome, active, fixed, fixes, rounds, verified, terminal>>

\* Mutant: a finding the validator omits is not missed.
Validate_Omitted ==
  /\ Ordinary("fix-complete")
  /\ budget.validator = 1
  /\ \E answer \in [fixed -> {"verified", "regression", "missing"}],
       dropped, regressions \in BOOLEAN :
       /\ verified' = [f \in Findings |->
            IF f \in fixed /\ answer[f] = "verified" THEN fixes ELSE verified[f]]
       /\ Reasons(dropped \/ regressions \/ \E f \in fixed : answer[f] = "regression")
  /\ phase' = "final-verification"
  /\ UNCHANGED <<mode, budget, class, outcome, active, fixed, fixes, rounds, terminal>>

\* recordOrdinaryValidation(): the original tests and the correction's
\* regressions pass, or it throws and nothing is recorded.
Validate ==
  /\ Ordinary("fix-complete")
  /\ budget.validator = 1
  /\ \E answer \in [fixed -> {"verified", "regression", "missing"}],
       dropped, regressions \in BOOLEAN :
       /\ verified' = [f \in Findings |->
            IF f \in fixed /\ answer[f] = "verified" THEN fixes ELSE verified[f]]
       /\ Reasons(dropped \/ regressions \/ \E f \in fixed : answer[f] # "verified")
  /\ phase' = "final-verification"
  /\ UNCHANGED <<mode, budget, class, outcome, active, fixed, fixes, rounds, terminal>>

----------------------------------------------------------------------------
(* Judgment Day.                                                           *)

Judgment(p) == mode = "judgment" /\ terminal = "none" /\ phase = p

JudgmentDiscover ==
  /\ Judgment("started")
  /\ class' \in [Findings -> Classes]
  /\ active' = {f \in Findings : class'[f] \in {"deterministic", "inferential-severe"}}
  /\ phase' = IF active' = {} THEN "final-verification" ELSE "judgment-complete"
  /\ UNCHANGED <<mode, budget, outcome, fixed, fixes, rounds, verified, escalated, terminal>>

JudgmentFix ==
  /\ Judgment("judgment-complete")
  /\ fixes < 2
  /\ fixes' = fixes + 1
  /\ fixed' = active
  /\ phase' = "fix-complete"
  /\ UNCHANGED <<mode, budget, class, outcome, active, rounds, verified, escalated, terminal>>

\* A finding survives unless both judges verified it.
Survivors(a, b) == {f \in active : a[f] # "verified" \/ b[f] # "verified"}

\* Both judges answer for the active findings; survivors get a second round.
Rejudge ==
  /\ Judgment("fix-complete")
  /\ rounds < 2
  /\ rounds' = rounds + 1
  /\ \E a, b \in [active -> {"verified", "unverified", "missing"}], dropped \in BOOLEAN :
       /\ active' = Survivors(a, b)
       /\ verified' = [f \in Findings |-> IF f \in active \ Survivors(a, b) THEN fixes ELSE verified[f]]
       /\ Reasons(\/ dropped
                  \/ \E f \in active : "missing" \in {a[f], b[f]}
                  \/ active' # {} /\ rounds' >= 2)
  /\ phase' = IF active' # {} /\ rounds' < 2 THEN "judgment-complete" ELSE "final-verification"
  /\ UNCHANGED <<mode, budget, class, outcome, fixed, fixes, terminal>>

----------------------------------------------------------------------------
\* The final verification of both modes.
FinalVerification ==
  /\ phase = "final-verification"
  /\ terminal = "none"
  /\ \E passed \in BOOLEAN :
       /\ Reasons(~passed)
       /\ terminal' = IF passed /\ ~escalated THEN "approved" ELSE "escalated"
  /\ phase' = "terminal"
  /\ UNCHANGED <<mode, budget, class, outcome, active, fixed, fixes, rounds, verified>>

PolicyNext ==
  \/ Discover \/ Resolve \/ Fix \/ DeclineFix \/ Validate
  \/ JudgmentDiscover \/ JudgmentFix \/ Rejudge
  \/ FinalVerification

PolicySpec == PolicyInit /\ [][PolicyNext]_policyVars

----------------------------------------------------------------------------
(* Properties.                                                             *)

\* What must be known of a severe finding: it was refuted, or fixed and then
\* verified (in Judgment Day by both judges).
Settled(f) ==
  \/ mode = "ordinary" /\ outcome[f] = "refuted"
  \/ mode = "ordinary" /\ outcome[f] = "corroborated" /\ f \in fixed /\ verified[f] = fixes /\ fixes > 0
  \/ mode = "judgment" /\ f \notin active /\ verified[f] > 0

\* No severe finding is lost on the way: a lineage that waits for its final
\* verification, or is approved, has settled each of them or is escalated.
NoFindingLost ==
  /\ phase = "final-verification" => escalated \/ \A f \in Severe : Settled(f)
  /\ terminal = "approved" => ~escalated /\ \A f \in Severe : Settled(f)
=============================================================================
