---------------------------- MODULE ReviewStore ----------------------------
(***************************************************************************)
(* The review graph store: lib/review-transaction.ts over the objects of   *)
(* lib/review-object-store.ts.  An operation runs under the mutation lock. *)
(* It reads the authority, decides from the journal of its lineage, then   *)
(* installs an immutable root set and rewrites the three CURRENT slots one *)
(* by one; the authority is what two slots agree on.  It may throw or die  *)
(* between any two steps.  Readers take no lock.                           *)
(*                                                                         *)
(* A root set names its predecessor by its hash, so it is modelled by its  *)
(* whole history: the entries that were published, in order.               *)
(***************************************************************************)
EXTENDS Naturals, Sequences, FiniteSets

CONSTANTS
  Lineages,
  Keys,          \* idempotency keys
  Requests,      \* what a key may stand for
  MaxLength,     \* bound: entries of a history
  MaxFaults,     \* bound: operations that throw or die half way
  Reading        \* whether the slots are read without the lock

VARIABLES
  slot,      \* CURRENT.0, CURRENT.1, CURRENT.2; <<>> is a missing file
  roots,     \* the root sets installed
  op,        \* the operation that holds the mutation lock
  answers,   \* results that reached a caller
  reader,    \* a read of the three slots
  faults,
  lost       \* history: an operation ended while no two slots agreed

storeVars == <<slot, roots, op, answers, reader, faults, lost>>

Slots == 0 .. 2
Entries == [kind : {"start", "run", "begin", "end"}, lin : Lineages, key : Keys, req : Requests]
Repair == [kind |-> "repair"]

NoOp == [pc |-> "idle"]
NoRead == [at |-> 0]

StoreInit ==
  /\ slot = [s \in Slots |-> <<>>]
  /\ roots = {}
  /\ op = NoOp
  /\ answers = {}
  /\ reader = NoRead
  /\ faults = 0
  /\ lost = FALSE

----------------------------------------------------------------------------
(* readQuorum(): the value of two slots of a reading.                      *)

Quorum(reading) ==
  {h \in {reading[s] : s \in DOMAIN reading} \ {<<>>} :
     \E s, t \in DOMAIN reading : s # t /\ reading[s] = h /\ reading[t] = h}

Readable == Quorum(slot) # {}

\* readCurrent(), and the absent current a failing read leaves to create().
Current == IF Readable THEN CHOOSE h \in Quorum(slot) : TRUE ELSE <<>>

----------------------------------------------------------------------------
(* The state of a lineage is the reduction of its entries.                 *)

Of(h, l) == {i \in DOMAIN h : h[i].lin = l}
Journal(h, l, k) == {i \in Of(h, l) : h[i].key = k /\ h[i].kind # "end"}
Ended(h, l, k) == {i \in Of(h, l) : h[i].key = k /\ h[i].kind = "end"}
Pending(h, l) == {i \in Of(h, l) : h[i].kind = "begin" /\ Ended(h, l, h[i].key) = {}}
Revision(h, l, i) == Cardinality({j \in Of(h, l) : j < i})

\* Mutant: a key that is completed is not looked up.
Applies_Again(c, h) ==
  LET own == Journal(h, c.lin, c.key) IN
  CASE c.kind = "start" -> Of(h, c.lin) = {}
    [] c.kind = "end" -> \E i \in own : h[i].kind = "begin" /\ h[i].req = c.req
    [] OTHER -> Of(h, c.lin) # {} /\ Pending(h, c.lin) = {}

\* Whether operation c publishes an entry over history h: create(),
\* #runCompletedOperation, beginReducerOperation, completeReducerOperation.
Applies(c, h) ==
  LET own == Journal(h, c.lin, c.key) IN
  CASE c.kind = "start" -> Of(h, c.lin) = {}
    [] c.kind = "end" ->
         /\ Ended(h, c.lin, c.key) = {}
         /\ \E i \in own : h[i].kind = "begin" /\ h[i].req = c.req
    [] OTHER -> Of(h, c.lin) # {} /\ own = {} /\ Pending(h, c.lin) = {}

\* Where the stored result of a completed operation is.
Stored(c, h) ==
  {i \in Of(h, c.lin) : h[i].kind = c.kind /\ h[i].key = c.key /\ h[i].req = c.req}

Answered(c, h, i) == [call |-> c, revision |-> Revision(h, c.lin, i)]

----------------------------------------------------------------------------
(* Operations.                                                             *)

\* The operation returns, or throws: the lock is released.
Return(given) == op' = NoOp /\ answers' = answers \cup given

\* A mutation takes the lock, reads the authority and decides from the journal
\* of its lineage; nothing is written yet.  Slots that an interrupted publication
\* left behind are not repaired first.  create() takes an authority that cannot be
\* read for an absent one.
Decide ==
  /\ op = NoOp
  /\ \E c \in Entries :
       IF (Readable \/ c.kind = "start") /\ Applies(c, Current)
       THEN /\ Len(Current) < MaxLength
            /\ op' = [pc |-> "install", call |-> c, next |-> Append(Current, c)]
            /\ UNCHANGED answers
       ELSE /\ c.kind \in {"run", "end"}
            /\ Return({Answered(c, Current, i) : i \in Stored(c, Current)})
  /\ UNCHANGED <<slot, roots, reader, faults, lost>>

\* Mutant: one pointer is believed.
Candidates_LastSlot == {slot[2]} \ {<<>>}

\* repairCurrentPointers(): from the quorum, or from the sole genesis root set.
Candidates ==
  IF Readable THEN {Current} ELSE {h \in roots : roots = {h} /\ Len(h) = 1}

DecideRepair ==
  /\ op = NoOp
  /\ \E h \in Candidates :
       op' = [pc |-> "write", call |-> Repair, next |-> h, at |-> 0]
  /\ UNCHANGED <<slot, roots, answers, reader, faults, lost>>

Install ==
  /\ op.pc = "install"
  /\ roots' = roots \cup {op.next}
  /\ op' = [pc |-> "write", call |-> op.call, next |-> op.next, at |-> 0]
  /\ UNCHANGED <<slot, answers, reader, faults, lost>>

\* The renames of the three pointers, in this order.
WriteSlot ==
  /\ op.pc = "write"
  /\ op.at < 3
  /\ slot' = [slot EXCEPT ![op.at] = op.next]
  /\ op' = [op EXCEPT !.at = @ + 1]
  /\ reader' = IF reader.at \in 1 .. 2
               THEN [reader EXCEPT !.during = @ \cup Quorum(slot')] ELSE reader
  /\ UNCHANGED <<roots, answers, faults, lost>>

\* The publication is checked and the result returned.
Publish ==
  /\ op.pc = "write"
  /\ op.at = 3
  /\ Return(IF op.call = Repair \/ Quorum(slot) # {op.next} THEN {}
            ELSE {Answered(op.call, op.next, Len(op.next))})
  /\ UNCHANGED <<slot, roots, reader, faults, lost>>

\* No two slots agree.
Split == \A s, t \in Slots : s # t => slot[s] # slot[t]

\* The operation throws, or its process dies and the lock is recovered.
Interrupt ==
  /\ op # NoOp
  /\ faults < MaxFaults
  /\ faults' = faults + 1
  /\ op' = NoOp
  /\ lost' = (lost \/ Split)
  /\ UNCHANGED <<slot, roots, answers, reader>>

\* readPointer() of each slot in turn, without the lock.
ReadSlot ==
  /\ Reading
  /\ reader.at < 3
  /\ reader' = IF reader.at = 0
               THEN [at |-> 1, got |-> <<slot[0]>>, during |-> Quorum(slot)]
               ELSE [reader EXCEPT !.at = @ + 1, !.got = Append(@, slot[reader.at])]
  /\ UNCHANGED <<slot, roots, op, answers, faults, lost>>

StoreNext ==
  \/ Decide \/ DecideRepair \/ Install \/ WriteSlot \/ Publish
  \/ Interrupt \/ ReadSlot

StoreSpec == StoreInit /\ [][StoreNext]_storeVars

----------------------------------------------------------------------------
(* Properties.                                                             *)

\* What the store says: what two slots agree on, and, while a publication is between
\* its first two slots and none agree, the history that it extends.
Authority ==
  IF Readable THEN Current
  ELSE IF op.pc = "write" /\ op.at = 1
  THEN SubSeq(op.next, 1, Len(op.next) - 1) ELSE <<>>

\* The authority is a ledger of all lineages that only grows, one entry at a time: an
\* interrupted publication leaves the old authority or the new one, and the next may
\* follow without a repair, until one ends between the first two slots of an
\* authority that an earlier one had left torn.
Ledger == INSTANCE ReviewLedger WITH ledger <- Authority, lost <- lost
IsLedger == Ledger!Spec

\* A result that reached its caller stays in the authority at its revision,
\* whatever operation threw, died or was tried again later.
AnswersStand ==
  \A a \in answers : \E i \in DOMAIN Authority :
    Authority[i] = a.call /\ Revision(Authority, a.call.lin, i) = a.revision

\* An idempotency key takes effect once, however often it is tried again.
OncePerKey ==
  \A l \in Lineages, k \in Keys :
    /\ Cardinality(Journal(Authority, l, k)) <= 1
    /\ Cardinality(Ended(Authority, l, k)) <= 1
    /\ Cardinality(Pending(Authority, l)) <= 1

\* Only before or in a first publication is there no authority.
LossOfGenesisOnly ==
  Authority = <<>> => answers = {} /\ \A s \in Slots : Len(slot[s]) <= 1

\* It takes two interruptions to lose the authority.
LossTakesTwo == lost => faults >= 2

\* A reader without the lock gets an authority that was current meanwhile, even one
\* that is lost since.
ReadsCurrent == reader.at = 3 => Quorum(reader.got) \subseteq reader.during

\* What #runCompletedOperation, publish() and a retry after an interruption keep.
StoreInv ==
  /\ ~lost => AnswersStand /\ OncePerKey /\ LossOfGenesisOnly
  /\ LossTakesTwo
  /\ ReadsCurrent

\* What tests/review-object-store.test.ts:50 says of CURRENT: it preserves the
\* old authority or the new one.  Between operations there is one of them once
\* the first was followed.
AuthorityPreserved == op = NoOp /\ (\E h \in roots : Len(h) > 1) => Readable
=============================================================================
