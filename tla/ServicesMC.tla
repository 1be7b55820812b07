----------------------------- MODULE ServicesMC -----------------------------
(***************************************************************************)
(* Small instances of parts that share no state, for safety: the subject   *)
(* of a behaviour is chosen at its start, and the other parts stay in      *)
(* their initial states.                                                   *)
(*   lock        ReviewLock: three processes with an acquisition each      *)
(*   incomplete  ReviewLock with recoverIncomplete()                       *)
(*   store       ReviewStore: two interrupted operations                   *)
(*   reading     ReviewStore: a read without the lock                      *)
(*   policy      ReviewPolicy: two findings                                *)
(*   history     PromptHistory: two files, one of an instance that ended;  *)
(*               two rewrites and a capture                                *)
(*   scratch     SessionScratch: a session inside another, a session that  *)
(*               is reopened or reloaded, a clean while one is resumed     *)
(*   consents    StandingPermission: two repositories, no child            *)
(***************************************************************************)
EXTENDS ReviewLockMC, ReviewStore, ReviewPolicy, StandingPermission, SessionScratch, PromptHistory

CONSTANTS l1, k1, k2, s1, s2

VARIABLES
  subject,
  idir, iby, iintents, idests, ialive, ipc, irpc, itarget

incompleteVars == <<idir, iby, iintents, idests, ialive, ipc, irpc, itarget>>
allVars == <<subject, vars, incompleteVars, storeVars, historyVars, policyVars, permVars,
             scratchVars>>

Incomplete == INSTANCE ReviewLock WITH
  Attempts <- {a1, a3}, Processes <- {p1, p2}, IncompleteRecovery <- TRUE,
  dir <- idir, by <- iby, intents <- iintents, dests <- idests, alive <- ialive,
  pc <- ipc, rpc <- irpc, target <- itarget,
  Pid <- (a1 :> p1 @@ a3 :> p2)

Store == INSTANCE ReviewStore WITH Requests <- {"r1"}, Reading <- FALSE

Readers == INSTANCE ReviewStore WITH Lineages <- {l1}, MaxFaults <- 1

\* The calls tried together; p3 is the instance that captures.
Meetings ==
  {{<<p1, "delete", 1>>, <<p2, "delete", 1>>, <<p3, "capture", 1>>},
   {<<p1, "delete", 1>>, <<p2, "compact", 1>>, <<p3, "capture", 1>>, <<p3, "capture", 2>>},
   {<<p1, "compact", 1>>, <<p2, "compact", 1>>, <<p3, "capture", 1>>}}

Stores == <<[name |-> <<"own", p3>>, lines |-> <<"a", "b">>],
            [name |-> <<"own", a1>>, lines |-> <<"d">>]>>

\* What the processes do to the scratch directories.
Roles ==
  {p1 :> {s1, "dies"} @@ p2 :> {s2, "nests", "makes", "cleans"},
   p1 :> {s1, "makes", "reopens", "reloads", "cleans"},
   p1 :> {s1, "makes"} @@ p2 :> {s2, "cleans"} @@ p3 :> {s1},
   p1 :> {s1, "dies"} @@ p2 :> {s1, s2, "nests"} @@ p3 :> {s2, "cleans"},
   p1 :> {s1, "dies", "delegates", "fails"} @@ p2 :> {s1, s2, "nests", "fails", "reopens"}}

MCInit ==
  /\ subject \in {"lock", "incomplete", "store", "reading", "policy", "history", "consents",
                 "scratch"}
  /\ Init
  /\ Incomplete!Init
  /\ StoreInit
  /\ HistoryInit
  /\ subject # "history" => calls = CHOOSE c \in Meetings : TRUE
  /\ PolicyInit
  /\ subject # "policy" =>
       mode = "judgment" /\ budget = [refuter |-> 0, fix |-> 0, validator |-> 0]
  /\ PermissionInit
  /\ session = s1
  /\ ScratchInit
  /\ subject # "scratch" => roles = CHOOSE r \in Roles : TRUE

MCNext ==
  \/ subject = "lock" /\ Next
     /\ UNCHANGED <<subject, incompleteVars, storeVars, historyVars, policyVars, permVars, scratchVars>>
  \/ subject = "incomplete" /\ Incomplete!Next
     /\ UNCHANGED <<subject, vars, storeVars, historyVars, policyVars, permVars, scratchVars>>
  \/ subject = "store" /\ Store!StoreNext
     /\ UNCHANGED <<subject, vars, incompleteVars, historyVars, policyVars, permVars, scratchVars>>
  \/ subject = "reading" /\ Readers!StoreNext
     /\ UNCHANGED <<subject, vars, incompleteVars, historyVars, policyVars, permVars, scratchVars>>
  \/ subject = "policy" /\ PolicyNext
     /\ UNCHANGED <<subject, vars, incompleteVars, storeVars, historyVars, permVars, scratchVars>>
  \/ subject = "consents" /\ PermissionNext
     /\ UNCHANGED <<subject, vars, incompleteVars, storeVars, historyVars, policyVars, scratchVars>>
  \/ subject = "history" /\ HistoryNext
     /\ UNCHANGED <<subject, vars, incompleteVars, storeVars, policyVars, permVars, scratchVars>>
  \/ subject = "scratch" /\ ScratchNext
     /\ UNCHANGED <<subject, vars, incompleteVars, storeVars, historyVars, policyVars, permVars>>

MCSpec == MCInit /\ [][MCNext]_allVars

\* No step tells recoveries or idempotency keys apart.
ServicesSymmetry == Permutations(Recoveries) \cup Permutations({k1, k2})

\* IncompleteHasIntent of ReviewLock: an acquisition without an owner file can
\* be attributed.
IncompleteAttributed == subject = "incomplete" => Incomplete!IncompleteHasIntent
=============================================================================
