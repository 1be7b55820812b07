----------------------------- MODULE TaskSlots -----------------------------
(***************************************************************************)
(* What the subagent runner promises its host, without queue, registry,    *)
(* timers or processes.  A task is admitted, runs, and finishes; while it  *)
(* runs it owns one of Capacity slots, and it may keep the slot after it   *)
(* finished.  A task is open from its admission until it neither waits nor *)
(* owns a slot, and no two open tasks conflict.                            *)
(***************************************************************************)
EXTENDS Naturals, FiniteSets

CONSTANTS
  Tasks,      \* all tasks
  Conflict,   \* pairs of tasks that must never be open together
  Capacity    \* number of slots

VARIABLES
  state,      \* each task's phase
  slots       \* the tasks that own a slot

slotVars == <<state, slots>>

Phases == {"absent", "queued", "running", "finished"}

Init == state = [t \in Tasks |-> "absent"] /\ slots = {}

Open == {t \in Tasks : state[t] = "queued"} \cup slots

\* A task enters when no open task conflicts with it.
Admit(t) ==
  /\ state[t] = "absent"
  /\ \A w \in Open : <<t, w>> \notin Conflict
  /\ state' = [state EXCEPT ![t] = "queued"]
  /\ UNCHANGED slots

\* Waiting tasks are finished without ever running: cancelled or refused.
Drop(S) ==
  /\ \A t \in S : state[t] = "queued"
  /\ state' = [t \in Tasks |-> IF t \in S THEN "finished" ELSE state[t]]
  /\ UNCHANGED slots

\* A waiting task takes a free slot.
Start(t) ==
  /\ state[t] = "queued"
  /\ Cardinality(slots) < Capacity
  /\ state' = [state EXCEPT ![t] = "running"]
  /\ slots' = slots \cup {t}

\* A running task finishes and gives its slot back, or keeps it.
Finish(t) ==
  /\ state[t] = "running"
  /\ state' = [state EXCEPT ![t] = "finished"]
  /\ slots' \in {slots, slots \ {t}}

\* A kept slot is given back.
Free(t) ==
  /\ state[t] = "finished"
  /\ t \in slots
  /\ slots' = slots \ {t}
  /\ UNCHANGED state

Next ==
  \/ \E S \in SUBSET Tasks : Drop(S)
  \/ \E t \in Tasks : Admit(t) \/ Start(t) \/ Finish(t) \/ Free(t)

Spec == Init /\ [][Next]_slotVars
=============================================================================
