--------------------------- MODULE AgentSessionsMC ---------------------------
(***************************************************************************)
(* Small instances of the two parts that deal with other processes: the    *)
(* runner and its children (AgentRunner), and the sessions that exchange   *)
(* messages (SessionTransport).  The subject of a behaviour is chosen at   *)
(* its start; the other part stays in its initial state, where none of its *)
(* fair steps is enabled.                                                  *)
(***************************************************************************)
EXTENDS AgentRunnerMC, SessionTransport

VARIABLES
  subject,
  late      \* history: children that were quarantined before their exit was observed,
            \* and that have a slot still

allVars == <<subject, late, vars, transportVars>>

\* Sessions of three processes.
A == <<"p1", "A">>
B == <<"p2", "B">>
C == <<"p1", "C">>
D == <<"p3", "D">>
Plan(stand, opens, ends, sends, bound) ==
  [stand |-> stand, opens |-> opens, ends |-> ends, calls |-> sends, faults |-> bound]
MCPlans ==
  \* A calls B, which starts, ends, dies or restarts at any point;
  {Plan(<<A>>, {B}, {"p2"}, {<<1, "B">>}, 1),
  \* A or the session that replaces it calls whoever it finds;
   Plan(<<A, B>>, {C}, {"p1"}, {<<1, "none">>}, 1),
  \* two calls meet in a listener that takes one;
   Plan(<<A, B>>, {}, {"p2"}, {<<1, "B">>, <<2, "none">>}, 0),
  \* three records are too many, and one session may have died;
   Plan(<<A, B, D>>, {}, {"p3"}, {<<1, "none">>}, 1),
  \* a session dies, and the sweep of its record or of the caller's goes wrong.
   Plan(<<A, D>>, {}, {"p3"}, {<<1, "none">>}, 2)}

MCInit ==
  /\ subject \in {"runner", "transport"}
  /\ Init
  /\ TransportInit
  /\ subject # "transport" => plan.stand = <<A>>
  /\ late = {}

LateExits == {t \in Tasks : quarantined[t] /\ ~childExit[t] /\ childExit'[t]}

MCNext ==
  \/ /\ subject = "runner" /\ Next
     /\ late' = (late \cup LateExits) \cap live'
     /\ UNCHANGED <<subject, transportVars>>
  \/ subject = "transport" /\ TransportNext /\ UNCHANGED <<subject, late, vars>>

MCSpec == MCInit /\ [][MCNext]_allVars /\ Fairness /\ KillFairness /\ TransportFairness

\* LateExitFreesSlot of AgentRunner, for all tasks at once: a quarantined child whose
\* exit is observed later gives its slot back once its group is gone.  This is for
\* good, so that no late exit has a slot at some later time is what each asks for.
LateExitsFreed == late # {} ~> late = {}
=============================================================================
