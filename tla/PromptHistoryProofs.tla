------------------------- MODULE PromptHistoryProofs -------------------------
(***************************************************************************)
(* No prompt is lost, for any instances, prompts, files at the start, sets *)
(* of calls and numbers of errors and deaths.                              *)
(*                                                                         *)
(* Inodes are numbered as they are made.  A rewrite copies the lines it    *)
(* read of an inode into a younger one before the old one loses its name,  *)
(* so what is to be shown of a prompt is that some inode above a given one *)
(* still has it (Safe): the copy may have been rewritten again by then.    *)
(* That the copies go to younger inodes holds because the name a           *)
(* compaction will create is nobody else's (NamesFree), and a file name    *)
(* that a rewrite took over leads to its own new inode or to a later one   *)
(* (TargetsNewer).                                                         *)
(***************************************************************************)
EXTENDS PromptHistory, FiniteSetTheorems, TLAPS

----------------------------------------------------------------------------
(* The inductive invariant.                                                *)

Lost == doomed \cup unlucky \cup replaced

\* A prompt is excused, or in an inode younger than i that a reader finds, or a
\* rewrite that drains such an inode will put it back.
Safe(k, i) ==
  \/ k \in Lost
  \/ \E l \in Linked : l > i /\ k \in Lines(l)
  \/ \E p \in Instances : Draining(p) /\ proc[p].of.fd > i /\ k \in Promised(p)

DataKnown ==
  /\ data \in Seq(Seq(Prompts))
  /\ \A n \in DOMAIN links : links[n] \in 1 .. Len(data)
  /\ hidden \subseteq doomed

\* A file that was read up to some line.
Part(o, d) ==
  /\ o = [name |-> o.name, fd |-> o.fd, seen |-> o.seen]
  /\ o.fd \in 1 .. Len(d)
  /\ o.seen \in 0 .. Len(d[o.fd])

\* The claims of a compaction.
ClaimsKnown(claims, call, d) ==
  /\ IsFiniteSet(claims)
  /\ \A c \in claims : Part(c, d) /\ c.name = Claimed(c.name[2], call)

Writing(me, d) ==
  /\ me = [pc |-> "write", fd |-> me.fd, line |-> me.line]
  /\ me.fd \in 1 .. Len(d)
  /\ me.line \in Prompts

\* A delete; lost are the prompts that were deleted.
Sweep(me, lost) ==
  me = Deleting(me.call, me.key, me.todo, me.found) /\ me.key \in lost
Rewrite(me, d, lost) ==
  /\ me = [pc |-> me.pc, call |-> me.call, key |-> me.key, todo |-> me.todo, of |-> me.of]
  /\ me.pc \in {"replace", "carry"}
  /\ me.key \in lost
  /\ Part(me.of, d)
Hide(me, lost) ==
  /\ me = [pc |-> "hide", key |-> me.key, keys |-> me.keys]
  /\ me.key \in lost
  /\ me.keys \subseteq lost

\* A compaction.
Open(me) == me = Opening(me.call, me.todo, me.keys, me.claims)
Reserve(me, d) ==
  /\ me = [pc |-> "claim", call |-> me.call, todo |-> me.todo, keys |-> me.keys,
           claims |-> me.claims, of |-> me.of]
  /\ Part(me.of, d)
  /\ me.of.name \notin me.todo
Proceed(me) ==
  /\ me = [pc |-> "merge", call |-> me.call, keys |-> me.keys, claims |-> me.claims]
  /\ me.claims # {}
Drop(me, d) ==
  /\ me = [pc |-> me.pc, call |-> me.call, keys |-> me.keys, claims |-> me.claims, of |-> me.of]
  /\ me.pc \in {"remove", "drain"}
  /\ Part(me.of, d)
  /\ me.of.name = Claimed(me.of.name[2], me.call)
Compaction(p, me, d, lost, cs) ==
  /\ Open(me) \/ Reserve(me, d) \/ Proceed(me) \/ Drop(me, d)
  /\ me.call[1] = p /\ me.call \notin cs
  /\ me.keys \subseteq lost
  /\ ClaimsKnown(me.claims, me.call, d)

Shape(p, me, d, lost, cs) ==
  \/ me = AtRest \/ me = [pc |-> "dead"]
  \/ Writing(me, d)
  \/ Sweep(me, lost) \/ Rewrite(me, d, lost) \/ Hide(me, lost)
  \/ Compaction(p, me, d, lost, cs)

ProcsKnown ==
  /\ proc = [p \in Instances |-> proc[p]]
  /\ \A p \in Instances : Shape(p, proc[p], data, doomed, calls)

\* Late lines in hand: those up to some line; the file they go to is younger.
SourceOf(me) == IF me.pc = "merge" THEN Following(me.claims) ELSE me.of
InHand(me, w, d) ==
  /\ w = [upto |-> w.upto, fd |-> w.fd, last |-> w.last]
  /\ me.pc \in {"carry", "merge", "drain"}
  /\ w.last \in BOOLEAN /\ (w.last => me.pc # "merge")
  /\ w.upto \in SourceOf(me).seen .. Len(d[SourceOf(me).fd])
  /\ w.fd = 0 \/ (w.fd \in 1 .. Len(d) /\ w.fd > SourceOf(me).fd)
PutShape(me, w, d) == w = NoPut \/ InHand(me, w, d)
PutsKnown ==
  /\ put = [p \in Instances |-> put[p]]
  /\ \A p \in Instances : PutShape(proc[p], put[p], data)

\* The claims that were merged, and are still to be removed or drained.
Merged(me) ==
  IF me.pc = "merge" THEN me.claims
  ELSE IF me.pc \in {"remove", "drain"} THEN me.claims \cup {me.of} ELSE {}
\* The lines that were read of a file are in younger ones.
CopiesKept ==
  \A p \in Instances : \A c \in Merged(proc[p]) :
    \A j \in 1 .. c.seen : Safe(data[c.fd][j], c.fd)

\* A name leads to no inode, or to one that is younger than i.
Newer(n, i, l) == n \in DOMAIN l => l[n] > i
Ordered(me, l) ==
  /\ \A c \in Merged(me) : Newer(Compacted(me.call), c.fd, l)
  /\ me.pc = "carry" => Newer(me.of.name, me.of.fd, l)
TargetsNewer == \A p \in Instances : Ordered(proc[p], links)

\* The names that a step may yet install.
Todo(me) ==
  IF me.pc = "sweep" THEN me.todo
  ELSE IF me.pc \in {"replace", "carry"} THEN me.todo \cup {me.of.name} ELSE {}
Taken == DOMAIN links \cup UNION {Todo(proc[p]) : p \in Instances}

\* The names that only a call still to come, or a compaction under way, will take.
CallOf(n) == IF n[1] = "compact" THEN n[2] ELSE n[3]
Reserved(n) == n[1] \in {"compact", "claim"}
Unclaimed(me) == IF me.pc = "claim" THEN me.todo \cup {me.of.name} ELSE me.todo
Free(me, taken) ==
  me.pc \in {"open", "claim"} =>
    /\ Compacted(me.call) \notin taken
    /\ \A n \in Unclaimed(me) : Claimed(n, me.call) \notin taken
NamesFree ==
  /\ \A n \in Taken : Reserved(n) => CallOf(n) \notin calls
  /\ \A p \in Instances : Free(proc[p], Taken)

Kept == \A k \in captured : Safe(k, 0)

HInv == DataKnown /\ ProcsKnown /\ PutsKnown /\ CopiesKept /\ TargetsNewer /\ NamesFree /\ Kept

----------------------------------------------------------------------------
(* Sequences and sets.                                                     *)

LEMMA ArrangedSet == ASSUME NEW S, IsFiniteSet(S)
                     PROVE  SetToSeq(S) \in Seq(S) /\ Range(SetToSeq(S)) = S
<1> DEFINE n == Cardinality(S)
<1>1. n \in Nat /\ ExistsBijection(1 .. n, S)
  BY FS_CardinalityType
<1>2. \E f \in [1 .. n -> S] : IsInjective(f)
  BY <1>1 DEF ExistsBijection, Bijection, Injection, IsInjective
<1>3. SetToSeq(S) \in [1 .. n -> S] /\ IsInjective(SetToSeq(S))
  BY <1>2 DEF SetToSeq
<1>4. SetToSeq(S) \in Injection(1 .. n, S)
  BY <1>3 DEF Injection
<1>5. Cardinality(1 .. n) = n
  BY <1>1, FS_Interval
<1>6. SetToSeq(S) \in Surjection(1 .. n, S)
  BY <1>4, <1>5, FS_Injection
<1> QED BY <1>1, <1>3, <1>6 DEF Surjection, Range

LEMMA Slice ==
  ASSUME NEW s \in Seq(Prompts), NEW a \in 0 .. Len(s), NEW b \in a .. Len(s)
  PROVE  /\ SubSeq(s, a + 1, b) \in Seq(Prompts)
         /\ \A k : k \in Range(SubSeq(s, a + 1, b)) <=> \E j \in a + 1 .. b : s[j] = k
<1>1. /\ SubSeq(s, a + 1, b) \in Seq(Prompts)
      /\ Len(SubSeq(s, a + 1, b)) = b - a
      /\ \A j \in 1 .. b - a : SubSeq(s, a + 1, b)[j] = s[a + j]
  OBVIOUS
<1> SUFFICES ASSUME NEW k
             PROVE  k \in Range(SubSeq(s, a + 1, b)) <=> \E j \in a + 1 .. b : s[j] = k
  BY <1>1
<1> DEFINE t == SubSeq(s, a + 1, b)
<1>2. DOMAIN t = 1 .. b - a
  BY <1>1
<1>3. \A j \in 1 .. b - a : a + j \in a + 1 .. b /\ t[j] = s[a + j]
  BY <1>1
<1>4. \A j \in a + 1 .. b : j - a \in 1 .. b - a /\ t[j - a] = s[j]
  BY <1>1
<1> HIDE DEF t
<1>5. Range(t) = {t[i] : i \in 1 .. b - a}
  BY <1>2 DEF Range
<1>6. k \in Range(t) => \E j \in a + 1 .. b : s[j] = k
  BY <1>3, <1>5
<1>7. (\E j \in a + 1 .. b : s[j] = k) => k \in Range(t)
  BY <1>4, <1>5
<1> QED BY <1>6, <1>7 DEF t

LEMMA PartOfSeq ==
  ASSUME NEW s \in Seq(Prompts), NEW a \in 0 .. Len(s)
  PROVE  /\ SubSeq(s, a + 1, Len(s)) \in Seq(Prompts)
         /\ \A k : k \in Range(SubSeq(s, a + 1, Len(s))) <=> \E j \in a + 1 .. Len(s) : s[j] = k
         /\ SubSeq(s, 1, a) \in Seq(Prompts)
         /\ \A k : k \in Range(SubSeq(s, 1, a)) <=> \E j \in 1 .. a : s[j] = k
<1>1. Len(s) \in a .. Len(s) /\ 0 \in 0 .. Len(s) /\ a \in 0 .. Len(s)
  OBVIOUS
<1>2. /\ SubSeq(s, a + 1, Len(s)) \in Seq(Prompts)
      /\ \A k : k \in Range(SubSeq(s, a + 1, Len(s))) <=> \E j \in a + 1 .. Len(s) : s[j] = k
  BY <1>1, Slice
<1>3. /\ SubSeq(s, 0 + 1, a) \in Seq(Prompts)
      /\ \A k : k \in Range(SubSeq(s, 0 + 1, a)) <=> \E j \in 0 + 1 .. a : s[j] = k
  BY <1>1, Slice
<1>4. 0 + 1 = 1
  OBVIOUS
<1> QED BY <1>2, <1>3, <1>4

LEMMA FiniteRange == ASSUME NEW s \in Seq(Prompts) PROVE IsFiniteSet(Range(s))
<1>1. s \in Surjection(1 .. Len(s), Range(s))
  BY DEF Surjection, Range
<1>2. IsFiniteSet(1 .. Len(s))
  BY FS_Interval
<1> QED BY <1>1, <1>2, FS_Surjection

\* Lines are only ever appended to an inode.
Grows(d, e) ==
  /\ Len(d) <= Len(e)
  /\ \A i \in 1 .. Len(d) :
       /\ Len(d[i]) <= Len(e[i])
       /\ \A j \in 1 .. Len(d[i]) : e[i][j] = d[i][j]

LEMMA NewInode ==
  ASSUME NEW d \in Seq(Seq(Prompts)), NEW lines \in Seq(Prompts)
  PROVE  LET e == Append(d, lines) IN
         /\ e \in Seq(Seq(Prompts)) /\ Grows(d, e) /\ Len(e) = Len(d) + 1
         /\ e[Len(d) + 1] = lines
<1> DEFINE e == Append(d, lines)
<1>1. /\ e \in Seq(Seq(Prompts)) /\ Len(e) = Len(d) + 1 /\ e[Len(d) + 1] = lines
      /\ \A i \in 1 .. Len(d) : e[i] = d[i]
  OBVIOUS
<1>2. \A i \in 1 .. Len(d) : d[i] \in Seq(Prompts)
  OBVIOUS
<1> QED BY <1>1, <1>2 DEF Grows

LEMMA LongerInode ==
  ASSUME NEW d \in Seq(Seq(Prompts)), NEW lines \in Seq(Prompts), NEW i \in 1 .. Len(d)
  PROVE  LET e == [d EXCEPT ![i] = d[i] \o lines] IN
         /\ e \in Seq(Seq(Prompts)) /\ Grows(d, e) /\ Len(e) = Len(d)
         /\ Range(e[i]) = Range(d[i]) \cup Range(lines)
<1> DEFINE e == [d EXCEPT ![i] = d[i] \o lines]
<1>1. d[i] \in Seq(Prompts) /\ d[i] \o lines \in Seq(Prompts)
  OBVIOUS
<1>2. e \in Seq(Seq(Prompts)) /\ Len(e) = Len(d) /\ DOMAIN e = 1 .. Len(d)
  BY <1>1
<1>3. e[i] = d[i] \o lines /\ \A j \in 1 .. Len(d) : j # i => e[j] = d[j]
  OBVIOUS
<1>4. /\ Len(e[i]) = Len(d[i]) + Len(lines)
      /\ \A j \in 1 .. Len(d[i]) : e[i][j] = d[i][j]
      /\ \A j \in 1 .. Len(lines) : e[i][Len(d[i]) + j] = lines[j]
  BY <1>1, <1>3
<1>5. Grows(d, e)
  <2> SUFFICES ASSUME NEW j \in 1 .. Len(d)
               PROVE  Len(d[j]) <= Len(e[j]) /\ \A k \in 1 .. Len(d[j]) : e[j][k] = d[j][k]
    BY <1>2 DEF Grows
  <2>1. d[j] \in Seq(Prompts)
    OBVIOUS
  <2> QED BY <1>3, <1>4, <2>1
<1>6. Range(e[i]) = Range(d[i]) \cup Range(lines)
  <2> DEFINE t == e[i]
  <2>1. DOMAIN t = 1 .. Len(d[i]) + Len(lines) /\ DOMAIN d[i] = 1 .. Len(d[i])
        /\ DOMAIN lines = 1 .. Len(lines) /\ Len(d[i]) \in Nat /\ Len(lines) \in Nat
    BY <1>1, <1>3, <1>4
  <2>2. \A k \in 1 .. Len(d[i]) + Len(lines) :
          \/ k \in 1 .. Len(d[i]) /\ t[k] = d[i][k]
          \/ k - Len(d[i]) \in 1 .. Len(lines) /\ t[k] = lines[k - Len(d[i])]
    <3> SUFFICES ASSUME NEW k \in 1 .. Len(d[i]) + Len(lines), k \notin 1 .. Len(d[i])
                 PROVE  k - Len(d[i]) \in 1 .. Len(lines) /\ t[k] = lines[k - Len(d[i])]
      BY <1>4
    <3>1. k - Len(d[i]) \in 1 .. Len(lines) /\ Len(d[i]) + (k - Len(d[i])) = k
      BY <2>1
    <3> QED BY <1>4, <3>1
  <2>3. \A k \in 1 .. Len(d[i]) : t[k] = d[i][k] /\ k \in 1 .. Len(d[i]) + Len(lines)
    BY <1>4, <2>1
  <2>4. \A k \in 1 .. Len(lines) :
          t[Len(d[i]) + k] = lines[k] /\ Len(d[i]) + k \in 1 .. Len(d[i]) + Len(lines)
    BY <1>4, <2>1
  <2> HIDE DEF t
  <2>5. Range(t) \subseteq Range(d[i]) \cup Range(lines)
    BY <2>1, <2>2 DEF Range
  <2>6. Range(d[i]) \subseteq Range(t)
    BY <2>1, <2>3 DEF Range
  <2>7. Range(lines) \subseteq Range(t)
    BY <2>1, <2>4 DEF Range
  <2> QED BY <2>5, <2>6, <2>7 DEF t
<1> HIDE DEF e
<1> QED BY <1>2, <1>5, <1>6 DEF e

----------------------------------------------------------------------------
(* What is above an inode.                                                 *)

LEMMA ByPc ==
  ASSUME NEW p, NEW me, NEW d, NEW lost, NEW cs, Shape(p, me, d, lost, cs)
  PROVE  /\ me.pc = "write" => Writing(me, d)
         /\ me.pc = "sweep" => Sweep(me, lost)
         /\ me.pc \in {"replace", "carry"} => Rewrite(me, d, lost)
         /\ me.pc = "hide" => Hide(me, lost)
         /\ me.pc \in {"open", "claim", "merge", "remove", "drain"} => Compaction(p, me, d, lost, cs)
         /\ me.pc = "open" => Open(me)
         /\ me.pc = "claim" => Reserve(me, d)
         /\ me.pc = "merge" => Proceed(me)
         /\ me.pc \in {"remove", "drain"} => Drop(me, d)
<1>1. Writing(me, d) => me.pc = "write"
  BY DEF Writing
<1>2. Sweep(me, lost) => me.pc = "sweep"
  BY DEF Sweep, Deleting
<1>3. Rewrite(me, d, lost) => me.pc \in {"replace", "carry"}
  BY DEF Rewrite
<1>4. Hide(me, lost) => me.pc = "hide"
  BY DEF Hide
<1>5. /\ Open(me) => me.pc = "open"
      /\ Reserve(me, d) => me.pc = "claim"
      /\ Proceed(me) => me.pc = "merge"
      /\ Drop(me, d) => me.pc \in {"remove", "drain"}
  BY DEF Open, Opening, Reserve, Proceed, Drop
<1>6. me = AtRest => me.pc = "idle"
  BY DEF AtRest
<1>7. me = [pc |-> "dead"] => me.pc = "dead"
  OBVIOUS
<1>8. Compaction(p, me, d, lost, cs) =>
        /\ me.pc \in {"open", "claim", "merge", "remove", "drain"}
        /\ me.pc = "open" => Open(me)
        /\ me.pc = "claim" => Reserve(me, d)
        /\ me.pc = "merge" => Proceed(me)
        /\ me.pc \in {"remove", "drain"} => Drop(me, d)
  BY <1>5 DEF Compaction
<1> QED BY <1>1, <1>2, <1>3, <1>4, <1>6, <1>7, <1>8 DEF Shape

LEMMA DrainedKnown ==
  ASSUME ProcsKnown, NEW p \in Instances, Draining(p) PROVE Part(proc[p].of, data)
<1>1. Shape(p, proc[p], data, doomed, calls)
  BY DEF ProcsKnown
<1>2. Rewrite(proc[p], data, doomed) \/ Drop(proc[p], data)
  BY <1>1, ByPc DEF Draining
<1> QED BY <1>2 DEF Rewrite, Drop

LEMMA DrainedNext ==
  ASSUME ProcsKnown', NEW p \in Instances, Draining(p)' PROVE Part(proc'[p].of, data')
<1>1. Shape(p, proc'[p], data', doomed', calls')
  BY DEF ProcsKnown
<1>2. Rewrite(proc'[p], data', doomed') \/ Drop(proc'[p], data')
  BY <1>1, ByPc DEF Draining
<1> QED BY <1>2 DEF Rewrite, Drop

LEMMA LinesOf ==
  ASSUME NEW d \in Seq(Seq(Prompts)), NEW i \in 1 .. Len(d)
  PROVE  \A k : k \in Range(d[i]) <=> \E j \in 1 .. Len(d[i]) : d[i][j] = k
<1>1. d[i] \in Seq(Prompts) /\ DOMAIN d[i] = 1 .. Len(d[i])
  OBVIOUS
<1> QED BY <1>1 DEF Range

LateIn(o, d) == SubSeq(d[o.fd], o.seen + 1, Len(d[o.fd]))

LEMMA LateOf ==
  ASSUME NEW d \in Seq(Seq(Prompts)), NEW o, Part(o, d)
  PROVE  /\ LateIn(o, d) \in Seq(Prompts)
         /\ \A k : k \in Range(LateIn(o, d)) <=> \E j \in o.seen + 1 .. Len(d[o.fd]) : d[o.fd][j] = k
<1>1. d[o.fd] \in Seq(Prompts) /\ o.seen \in 0 .. Len(d[o.fd])
  BY DEF Part
<1> QED BY <1>1, PartOfSeq DEF LateIn

LEMMA PartGrows ==
  ASSUME NEW d \in Seq(Seq(Prompts)), NEW e \in Seq(Seq(Prompts)), Grows(d, e), NEW o, Part(o, d)
  PROVE  Part(o, e)
<1>1. /\ o.fd \in 1 .. Len(e) /\ Len(d[o.fd]) <= Len(e[o.fd])
      /\ Len(d[o.fd]) \in Nat /\ Len(e[o.fd]) \in Nat
  <2>1. o.fd \in 1 .. Len(e)
    BY DEF Part, Grows
  <2>2. d[o.fd] \in Seq(Prompts) /\ e[o.fd] \in Seq(Prompts)
    BY <2>1 DEF Part
  <2> QED BY <2>1, <2>2 DEF Part, Grows
<1> QED BY <1>1 DEF Part

LEMMA LinesGrow ==
  ASSUME NEW d \in Seq(Seq(Prompts)), NEW e \in Seq(Seq(Prompts)), Grows(d, e)
  PROVE  /\ \A i \in 1 .. Len(d) : i \in 1 .. Len(e) /\ Range(d[i]) \subseteq Range(e[i])
         /\ \A o : Part(o, d) => Range(LateIn(o, d)) \subseteq Range(LateIn(o, e))
<1>1. ASSUME NEW i \in 1 .. Len(d)
      PROVE  /\ i \in 1 .. Len(e)
             /\ Len(d[i]) \in Nat /\ Len(e[i]) \in Nat /\ Len(d[i]) <= Len(e[i])
             /\ \A j \in 1 .. Len(d[i]) : e[i][j] = d[i][j]
  <2>1. i \in 1 .. Len(e)
    BY DEF Grows
  <2>2. d[i] \in Seq(Prompts) /\ e[i] \in Seq(Prompts)
    BY <2>1
  <2> QED BY <2>1, <2>2 DEF Grows
<1>2. ASSUME NEW i \in 1 .. Len(d) PROVE Range(d[i]) \subseteq Range(e[i])
  <2> SUFFICES ASSUME NEW k \in Range(d[i]) PROVE k \in Range(e[i])
    OBVIOUS
  <2>1. \A x : x \in Range(d[i]) <=> \E j \in 1 .. Len(d[i]) : d[i][j] = x
    BY LinesOf
  <2>2. i \in 1 .. Len(e)
    BY <1>1
  <2>3. \A x : x \in Range(e[i]) <=> \E j \in 1 .. Len(e[i]) : e[i][j] = x
    BY <2>2, LinesOf
  <2>4. PICK j \in 1 .. Len(d[i]) : d[i][j] = k
    BY <2>1
  <2>5. j \in 1 .. Len(e[i]) /\ e[i][j] = k
    BY <1>1, <2>4
  <2> QED BY <2>3, <2>5
<1>3. ASSUME NEW o, Part(o, d), NEW k \in Range(LateIn(o, d))
      PROVE  k \in Range(LateIn(o, e))
  <2>1. \A x : x \in Range(LateIn(o, d)) <=> \E j \in o.seen + 1 .. Len(d[o.fd]) : d[o.fd][j] = x
    BY <1>3, LateOf
  <2>2. Part(o, e)
    BY <1>3, PartGrows
  <2>3. \A x : x \in Range(LateIn(o, e)) <=> \E j \in o.seen + 1 .. Len(e[o.fd]) : e[o.fd][j] = x
    BY <2>2, LateOf
  <2>4. PICK j \in o.seen + 1 .. Len(d[o.fd]) : d[o.fd][j] = k
    BY <2>1
  <2>5. o.fd \in 1 .. Len(d) /\ o.seen \in Nat /\ Len(d[o.fd]) \in Nat
    BY <1>1, <1>3 DEF Part
  <2>6. j \in 1 .. Len(d[o.fd]) /\ j \in o.seen + 1 .. Len(e[o.fd])
    BY <1>1, <2>4, <2>5
  <2>7. e[o.fd][j] = k
    BY <1>1, <2>4, <2>5, <2>6
  <2> QED BY <2>3, <2>6, <2>7
<1> QED BY <1>1, <1>2, <1>3

RawIn(o, w, d) == SubSeq(d[o.fd], o.seen + 1, w.upto)
PromisedIn(me, w, d) == Range(IF w = NoPut THEN LateIn(me.of, d) ELSE RawIn(me.of, w, d))

LEMMA PromisedIs ==
  ASSUME NEW p, Draining(p) PROVE Promised(p) = PromisedIn(proc[p], put[p], data)
<1>1. ~At(p, "merge")
  BY DEF Draining, At
<1> QED BY <1>1 DEF Draining, Promised, PromisedIn, Late, LateIn, Raw, RawIn, Source

LEMMA PromisedNext ==
  ASSUME NEW p, Draining(p)' PROVE Promised(p)' = PromisedIn(proc'[p], put'[p], data')
<1>1. ~At(p, "merge")'
  BY DEF Draining, At
<1> QED BY <1>1 DEF Draining, Promised, PromisedIn, Late, LateIn, Raw, RawIn, Source

\* The lines up to some line of a file that was read.
LEMMA RawOf ==
  ASSUME NEW d \in Seq(Seq(Prompts)), NEW o, Part(o, d), NEW w, w.upto \in o.seen .. Len(d[o.fd])
  PROVE  /\ RawIn(o, w, d) \in Seq(Prompts)
         /\ \A k : k \in Range(RawIn(o, w, d)) <=> \E j \in o.seen + 1 .. w.upto : d[o.fd][j] = k
<1>1. d[o.fd] \in Seq(Prompts) /\ o.seen \in 0 .. Len(d[o.fd])
  BY DEF Part
<1> QED BY <1>1, Slice DEF RawIn

LEMMA RawStays ==
  ASSUME NEW d \in Seq(Seq(Prompts)), NEW e \in Seq(Seq(Prompts)), Grows(d, e),
         NEW o, Part(o, d), NEW w, w.upto \in o.seen .. Len(d[o.fd])
  PROVE  w.upto \in o.seen .. Len(e[o.fd]) /\ Range(RawIn(o, w, d)) \subseteq Range(RawIn(o, w, e))
<1>1. Part(o, e)
  BY PartGrows
<1>2. /\ o.fd \in 1 .. Len(d) /\ Len(d[o.fd]) \in Nat /\ Len(e[o.fd]) \in Nat /\ o.seen \in Nat
      /\ Len(d[o.fd]) <= Len(e[o.fd]) /\ \A j \in 1 .. Len(d[o.fd]) : e[o.fd][j] = d[o.fd][j]
  <2>1. d[o.fd] \in Seq(Prompts) /\ e[o.fd] \in Seq(Prompts) /\ o.fd \in 1 .. Len(d)
    BY <1>1 DEF Part
  <2> QED BY <2>1 DEF Part, Grows
<1>3. w.upto \in o.seen .. Len(e[o.fd])
  BY <1>2
<1>4. ASSUME NEW k \in Range(RawIn(o, w, d)) PROVE k \in Range(RawIn(o, w, e))
  <2>1. PICK j \in o.seen + 1 .. w.upto : d[o.fd][j] = k
    BY <1>4, RawOf
  <2>2. j \in 1 .. Len(d[o.fd])
    BY <1>2, <2>1
  <2>3. e[o.fd][j] = k
    BY <1>2, <2>1, <2>2
  <2> QED BY <1>1, <1>3, <2>1, <2>3, RawOf
<1> QED BY <1>3, <1>4

\* What an instance has in hand stays there when inodes grow.
LEMMA HandGrows ==
  ASSUME NEW d \in Seq(Seq(Prompts)), NEW e \in Seq(Seq(Prompts)), Grows(d, e),
         NEW me, NEW w, PutShape(me, w, d),
         me.pc \in {"carry", "merge", "drain"} => Part(SourceOf(me), d)
  PROVE  /\ PutShape(me, w, e)
         /\ me.pc \in {"carry", "drain"} => PromisedIn(me, w, d) \subseteq PromisedIn(me, w, e)
<1>1. CASE w = NoPut
  <2>1. me.pc \in {"carry", "drain"} => SourceOf(me) = me.of
    BY DEF SourceOf
  <2>2. me.pc \in {"carry", "drain"} => Range(LateIn(me.of, d)) \subseteq Range(LateIn(me.of, e))
    BY <2>1, LinesGrow
  <2> QED BY <1>1, <2>2 DEF PutShape, PromisedIn
<1>2. CASE w # NoPut
  <2>1. InHand(me, w, d) /\ Part(SourceOf(me), d)
    BY <1>2 DEF PutShape, InHand
  <2>2. w.upto \in SourceOf(me).seen .. Len(d[SourceOf(me).fd])
    BY <2>1 DEF InHand
  <2>3. /\ w.upto \in SourceOf(me).seen .. Len(e[SourceOf(me).fd])
        /\ Range(RawIn(SourceOf(me), w, d)) \subseteq Range(RawIn(SourceOf(me), w, e))
    BY <2>1, <2>2, RawStays
  <2>4. w.fd \in 1 .. Len(d) => w.fd \in 1 .. Len(e)
    BY DEF Grows
  <2>5. InHand(me, w, e)
    BY <2>1, <2>3, <2>4 DEF InHand
  <2>6. me.pc \in {"carry", "drain"} => SourceOf(me) = me.of
    BY DEF SourceOf
  <2> QED BY <1>2, <2>3, <2>5, <2>6 DEF PutShape, PromisedIn
<1> QED BY <1>1, <1>2

LEMMA SafeOlder ==
  ASSUME (\A l \in Linked : l \in Nat)',
         (\A p \in Instances : Draining(p) => proc[p].of.fd \in Nat)',
         NEW i \in Nat, NEW j \in Nat, i <= j, NEW k, Safe(k, j)'
  PROVE  Safe(k, i)'
BY DEF Safe

----------------------------------------------------------------------------
(* A step of an instance.                                                  *)

LEMMA ShapeGrows ==
  ASSUME NEW d \in Seq(Seq(Prompts)), NEW e \in Seq(Seq(Prompts)), Grows(d, e),
         NEW lost, NEW more, lost \subseteq more, NEW cs, NEW fewer \in SUBSET cs,
         NEW p, NEW me, Shape(p, me, d, lost, cs)
  PROVE  Shape(p, me, e, more, fewer)
<1>1. \A o : Part(o, d) => Part(o, e)
  BY PartGrows
<1>2. Writing(me, d) => Writing(me, e)
  BY DEF Writing, Grows
<1>3. Sweep(me, lost) => Sweep(me, more)
  BY DEF Sweep
<1>4. Rewrite(me, d, lost) => Rewrite(me, e, more)
  BY <1>1 DEF Rewrite
<1>5. Hide(me, lost) => Hide(me, more)
  BY DEF Hide
<1>6. Compaction(p, me, d, lost, cs) => Compaction(p, me, e, more, fewer)
  <2>1. Reserve(me, d) => Reserve(me, e)
    BY <1>1 DEF Reserve
  <2>2. Drop(me, d) => Drop(me, e)
    BY <1>1 DEF Drop
  <2>3. ClaimsKnown(me.claims, me.call, d) => ClaimsKnown(me.claims, me.call, e)
    BY <1>1 DEF ClaimsKnown
  <2> QED BY <2>1, <2>2, <2>3 DEF Compaction
<1> QED BY <1>2, <1>3, <1>4, <1>5, <1>6 DEF Shape

\* What instance p does to the store, but for what it leaves safe.
Regular(p) ==
  /\ proc' = [proc EXCEPT ![p] = proc'[p]] /\ put' = [put EXCEPT ![p] = put'[p]]
  /\ data' \in Seq(Seq(Prompts)) /\ Grows(data, data')
  /\ \A n \in DOMAIN links' :
       /\ links'[n] \in 1 .. Len(data')
       /\ \/ n \in DOMAIN links /\ links'[n] = links[n]
          \/ links'[n] > Len(data)
          \/ n \notin Taken /\ n[1] = "claim"
  /\ calls' \subseteq calls
  /\ hidden' \subseteq doomed' /\ doomed \subseteq doomed' /\ Lost \subseteq Lost'

LEMMA OtherProcs ==
  ASSUME HInv, NEW p \in Instances, Regular(p)
  PROVE  /\ proc' = [q \in Instances |-> proc'[q]] /\ put' = [q \in Instances |-> put'[q]]
         /\ \A q \in Instances : q # p => proc'[q] = proc[q] /\ put'[q] = put[q]
BY DEF HInv, ProcsKnown, PutsKnown, Regular

LEMMA TypesKept ==
  ASSUME HInv, NEW p \in Instances, Regular(p), Shape(p, proc'[p], data', doomed', calls')
  PROVE  DataKnown' /\ ProcsKnown'
<1>1. DataKnown'
  BY DEF DataKnown, Regular
<1>2. ASSUME NEW q \in Instances PROVE Shape(q, proc'[q], data', doomed', calls')
  <2>1. CASE q = p
    BY <2>1
  <2>2. CASE q # p
    <3>1. Shape(q, proc[q], data, doomed, calls) /\ data \in Seq(Seq(Prompts))
      BY DEF HInv, ProcsKnown, DataKnown
    <3>2. /\ data' \in Seq(Seq(Prompts)) /\ Grows(data, data')
          /\ doomed \subseteq doomed' /\ calls' \in SUBSET calls
      BY DEF Regular
    <3>3. Shape(q, proc[q], data', doomed', calls')
      BY <3>1, <3>2, ShapeGrows
    <3> QED BY <2>2, <3>3, OtherProcs
  <2> QED BY <2>1, <2>2
<1> QED BY <1>1, <1>2, OtherProcs DEF ProcsKnown

LEMMA SourceKnown ==
  ASSUME NEW p, NEW me, NEW d, NEW lost, NEW cs, Shape(p, me, d, lost, cs),
         me.pc \in {"carry", "merge", "drain"}
  PROVE  Part(SourceOf(me), d)
<1>1. CASE me.pc = "merge"
  <2>1. Compaction(p, me, d, lost, cs) /\ Proceed(me)
    BY <1>1, ByPc
  <2>2. Following(me.claims) \in me.claims
    BY <2>1 DEF Proceed, Following
  <2> QED BY <1>1, <2>1, <2>2 DEF Compaction, ClaimsKnown, SourceOf
<1>2. CASE me.pc \in {"carry", "drain"}
  <2>1. Rewrite(me, d, lost) \/ Drop(me, d)
    BY <1>2, ByPc
  <2>2. SourceOf(me) = me.of
    BY <1>2 DEF SourceOf
  <2> QED BY <2>1, <2>2 DEF Rewrite, Drop
<1> QED BY <1>1, <1>2

LEMMA PutsStay ==
  ASSUME HInv, NEW p \in Instances, Regular(p), PutShape(proc'[p], put'[p], data')
  PROVE  /\ PutsKnown'
         /\ \A q \in Instances : q # p /\ Draining(q) =>
              Draining(q)' /\ proc'[q].of = proc[q].of /\ Promised(q) \subseteq Promised(q)'
<1>1. ASSUME NEW q \in Instances, q # p
      PROVE  /\ PutShape(proc'[q], put'[q], data')
             /\ Draining(q) =>
                  Draining(q)' /\ proc'[q].of = proc[q].of /\ Promised(q) \subseteq Promised(q)'
  <2>1. proc'[q] = proc[q] /\ put'[q] = put[q]
    BY <1>1, OtherProcs
  <2>2. PutShape(proc[q], put[q], data) /\ Shape(q, proc[q], data, doomed, calls)
    BY DEF HInv, PutsKnown, ProcsKnown
  <2>3. data \in Seq(Seq(Prompts)) /\ data' \in Seq(Seq(Prompts)) /\ Grows(data, data')
    BY DEF HInv, DataKnown, Regular
  <2>4. proc[q].pc \in {"carry", "merge", "drain"} => Part(SourceOf(proc[q]), data)
    BY <2>2, SourceKnown
  <2>5. /\ PutShape(proc[q], put[q], data')
        /\ proc[q].pc \in {"carry", "drain"} =>
             PromisedIn(proc[q], put[q], data) \subseteq PromisedIn(proc[q], put[q], data')
    BY <2>2, <2>3, <2>4, HandGrows
  <2>6. ASSUME Draining(q)
        PROVE  Draining(q)' /\ Promised(q) \subseteq Promised(q)'
    <3>1. Draining(q)' /\ proc[q].pc \in {"carry", "drain"}
      BY <2>1, <2>6 DEF Draining
    <3>2. Promised(q) = PromisedIn(proc[q], put[q], data)
      BY <2>6, PromisedIs
    <3>3. Promised(q)' = PromisedIn(proc'[q], put'[q], data')
      BY <3>1, PromisedNext
    <3> QED BY <2>1, <2>5, <3>1, <3>2, <3>3
  <2> QED BY <2>1, <2>5, <2>6
<1> QED BY <1>1, OtherProcs DEF PutsKnown

\* The claims that were merged are known.
LEMMA MergedKnown ==
  ASSUME NEW p, NEW me, NEW d, NEW lost, NEW cs, Shape(p, me, d, lost, cs)
  PROVE  \A c \in Merged(me) : Part(c, d)
<1>1. me.pc \in {"merge", "remove", "drain"} => Compaction(p, me, d, lost, cs)
  BY ByPc
<1>2. me.pc \in {"remove", "drain"} => Drop(me, d)
  BY ByPc
<1> QED BY <1>1, <1>2 DEF Compaction, ClaimsKnown, Drop, Merged

LEMMA CopiesStay ==
  ASSUME HInv, NEW p \in Instances, Regular(p),
         \A i \in Nat : \A k : Safe(k, i) => Safe(k, i)',
         \A c \in Merged(proc'[p]) : \A j \in 1 .. c.seen : Safe(data[c.fd][j], c.fd)'
  PROVE  CopiesKept'
<1> SUFFICES ASSUME NEW q \in Instances, NEW c \in Merged(proc'[q]), NEW j \in 1 .. c.seen
             PROVE  Safe(data[c.fd][j], c.fd)'
  BY DEF CopiesKept, Merged
<1>1. CASE q = p
  BY <1>1
<1>2. CASE q # p
  <2>1. c \in Merged(proc[q])
    BY <1>2, OtherProcs
  <2>2. Shape(q, proc[q], data, doomed, calls)
    BY DEF HInv, ProcsKnown
  <2>3. Part(c, data) /\ data \in Seq(Seq(Prompts))
    BY <2>1, <2>2, MergedKnown DEF HInv, DataKnown
  <2>4. Safe(data[c.fd][j], c.fd)
    BY <2>1 DEF HInv, CopiesKept
  <2>5. c.fd \in Nat /\ j \in 1 .. Len(data[c.fd])
    <3>1. data[c.fd] \in Seq(Prompts)
      BY <2>3 DEF Part
    <3> QED BY <2>3, <3>1 DEF Part
  <2>6. data'[c.fd][j] = data[c.fd][j]
    BY <2>3, <2>5 DEF Regular, Grows, Part
  <2>7. PICK k : k = data[c.fd][j]
    OBVIOUS
  <2>8. Safe(k, c.fd)'
    BY <2>4, <2>5, <2>7
  <2>9. k = data'[c.fd][j]
    BY <2>6, <2>7
  <2> QED BY <2>8, <2>9 DEF Safe
<1> QED BY <1>1, <1>2

LEMMA TargetsStay ==
  ASSUME HInv, NEW p \in Instances, Regular(p), Ordered(proc'[p], links')
  PROVE  TargetsNewer'
<1> SUFFICES ASSUME NEW q \in Instances PROVE Ordered(proc'[q], links')
  BY DEF TargetsNewer, Ordered, Merged, Newer
<1>1. CASE q = p
  BY <1>1
<1>2. CASE q # p
  <2>1. proc'[q] = proc[q] /\ Ordered(proc[q], links)
    BY <1>2, OtherProcs DEF HInv, TargetsNewer
  <2>2. Shape(q, proc[q], data, doomed, calls)
    BY DEF HInv, ProcsKnown
  <2>3. Len(data) \in Nat /\ \A n \in DOMAIN links' : links'[n] \in Nat
    BY DEF HInv, DataKnown, Regular
  <2>4. ASSUME NEW n, NEW i \in 1 .. Len(data), Newer(n, i, links), n \in Taken \/ n[1] # "claim"
        PROVE  Newer(n, i, links')
    BY <2>3, <2>4 DEF Newer, Regular
  <2>5. ASSUME NEW c \in Merged(proc[q]) PROVE Newer(Compacted(proc[q].call), c.fd, links')
    <3>1. c.fd \in 1 .. Len(data)
      BY <2>2, MergedKnown DEF Part
    <3>2. Compacted(proc[q].call)[1] # "claim"
      BY DEF Compacted
    <3> QED BY <2>1, <2>4, <3>1, <3>2 DEF Ordered
  <2>6. ASSUME proc[q].pc = "carry" PROVE Newer(proc[q].of.name, proc[q].of.fd, links')
    <3>1. proc[q].of.fd \in 1 .. Len(data)
      BY <2>2, <2>6, ByPc DEF Rewrite, Part
    <3>2. proc[q].of.name \in Taken
      BY <2>6 DEF Taken, Todo
    <3> QED BY <2>1, <2>4, <2>6, <3>1, <3>2 DEF Ordered
  <2> QED BY <2>1, <2>5, <2>6 DEF Ordered
<1> QED BY <1>1, <1>2

LEMMA NamesStay ==
  ASSUME HInv, NEW p \in Instances, Regular(p),
         \A n \in DOMAIN links' \cup Todo(proc'[p]) :
           n \in Taken \/ (Reserved(n) => CallOf(n)[1] = p /\ CallOf(n) \notin calls'),
         Free(proc'[p], Taken')
  PROVE  NamesFree'
<1>1. ASSUME NEW n \in Taken'
      PROVE  n \in Taken \/ (Reserved(n) => CallOf(n)[1] = p /\ CallOf(n) \notin calls')
  <2>1. CASE n \in DOMAIN links' \cup Todo(proc'[p])
    BY <2>1
  <2>2. CASE \E q \in Instances : q # p /\ n \in Todo(proc'[q])
    BY <2>2, OtherProcs DEF Taken
  <2> QED BY <2>1, <2>2 DEF Taken, Todo
<1>2. \A n \in Taken' : Reserved(n) => CallOf(n) \notin calls'
  BY <1>1 DEF HInv, NamesFree, Regular
<1>3. ASSUME NEW q \in Instances PROVE Free(proc'[q], Taken')
  <2>1. CASE q = p
    BY <2>1
  <2>2. CASE q # p
    <3> SUFFICES ASSUME proc[q].pc \in {"open", "claim"} PROVE Free(proc[q], Taken')
      BY <2>2, OtherProcs DEF Free
    <3>1. Free(proc[q], Taken)
      BY DEF HInv, NamesFree
    <3>2. proc[q].call[1] = q
      <4>1. Shape(q, proc[q], data, doomed, calls)
        BY DEF HInv, ProcsKnown
      <4> QED BY <4>1, ByPc DEF Compaction
    <3>3. /\ Reserved(Compacted(proc[q].call)) /\ CallOf(Compacted(proc[q].call)) = proc[q].call
          /\ \A n : Reserved(Claimed(n, proc[q].call)) /\ CallOf(Claimed(n, proc[q].call)) = proc[q].call
      BY DEF Reserved, CallOf, Compacted, Claimed
    <3> QED BY <1>1, <2>2, <3>1, <3>2, <3>3 DEF Free
  <2> QED BY <2>1, <2>2
<1> QED BY <1>2, <1>3 DEF NamesFree, Reserved, CallOf, Free, Unclaimed

LEMMA StepKept ==
  ASSUME HInv, NEW p \in Instances, Regular(p),
         Shape(p, proc'[p], data', doomed', calls'), PutShape(proc'[p], put'[p], data'),
         \A i \in Nat : \A k : Safe(k, i) => Safe(k, i)',
         \A c \in Merged(proc'[p]) : \A j \in 1 .. c.seen : Safe(data[c.fd][j], c.fd)',
         Ordered(proc'[p], links'),
         \A n \in DOMAIN links' \cup Todo(proc'[p]) :
           n \in Taken \/ (Reserved(n) => CallOf(n)[1] = p /\ CallOf(n) \notin calls'),
         Free(proc'[p], Taken'),
         \A k \in captured' : k \in captured \/ Safe(k, 0)'
  PROVE  HInv'
<1>1. DataKnown' /\ ProcsKnown' /\ PutsKnown'
  BY TypesKept, PutsStay
<1>2. CopiesKept'
  BY CopiesStay
<1>3. TargetsNewer'
  BY TargetsStay
<1>4. NamesFree'
  BY NamesStay
<1>5. Kept'
  BY DEF HInv, Kept
<1> QED BY <1>1, <1>2, <1>3, <1>4, <1>5 DEF HInv

\* What p lets go of must be safe.
LEMMA StepSafe ==
  ASSUME HInv, NEW p \in Instances, Regular(p), PutShape(proc'[p], put'[p], data'), NEW i \in Nat,
         \A n \in DOMAIN links : links[n] > i =>
           links[n] \in Linked' \/ \A k \in Lines(links[n]) : Safe(k, i)',
         Draining(p) /\ proc[p].of.fd > i => \A k \in Promised(p) : Safe(k, i)'
  PROVE  \A k : Safe(k, i) => Safe(k, i)'
<1>1. /\ data \in Seq(Seq(Prompts)) /\ \A n \in DOMAIN links : links[n] \in 1 .. Len(data)
      /\ data' \in Seq(Seq(Prompts)) /\ Grows(data, data') /\ Lost \subseteq Lost'
  BY DEF HInv, DataKnown, Regular
<1> SUFFICES ASSUME NEW k, Safe(k, i) PROVE Safe(k, i)'
  OBVIOUS
<1>2. CASE k \in Lost
  BY <1>1, <1>2 DEF Safe
<1>3. CASE \E l \in Linked : l > i /\ k \in Lines(l)
  <2>1. PICK n \in DOMAIN links : links[n] > i /\ k \in Lines(links[n])
    BY <1>3 DEF Linked
  <2>2. CASE links[n] \in Linked'
    <3>1. Range(data[links[n]]) \subseteq Range(data'[links[n]])
      BY <1>1, LinesGrow
    <3>2. k \in Range(data'[links[n]])
      BY <2>1, <3>1 DEF Lines
    <3>3. PICK l : l = links[n]
      OBVIOUS
    <3>4. l \in Linked' /\ l > i /\ k \in Range(data'[l])
      BY <2>1, <2>2, <3>2, <3>3
    <3> QED BY <3>4 DEF Safe, Lines
  <2> QED BY <2>1, <2>2
<1>4. CASE \E q \in Instances : Draining(q) /\ proc[q].of.fd > i /\ k \in Promised(q)
  <2>1. PICK q \in Instances : Draining(q) /\ proc[q].of.fd > i /\ k \in Promised(q)
    BY <1>4
  <2>2. CASE q = p
    BY <2>1, <2>2
  <2>3. CASE q # p
    <3>1. Draining(q)' /\ proc'[q].of = proc[q].of /\ Promised(q) \subseteq Promised(q)'
      BY <2>1, <2>3, PutsStay
    <3>2. proc'[q].of.fd > i /\ k \in Promised(q)'
      BY <2>1, <3>1
    <3> QED BY <3>1, <3>2 DEF Safe
  <2> QED BY <2>2, <2>3
<1> QED BY <1>2, <1>3, <1>4 DEF Safe

\* Steps that leave the files as they are.
LEMMA QuietStep ==
  ASSUME HInv, NEW p \in Instances, proc' = [proc EXCEPT ![p] = proc'[p]],
         put' = [put EXCEPT ![p] = NoPut],
         UNCHANGED <<links, data, captured>>, calls' \subseteq calls,
         hidden' \subseteq doomed', doomed \subseteq doomed', Lost \subseteq Lost',
         Shape(p, proc'[p], data, doomed', calls'),
         Draining(p) => Promised(p) \subseteq Lost',
         Merged(proc'[p]) \subseteq Merged(proc[p]),
         Merged(proc'[p]) # {} => proc'[p].call = proc[p].call,
         proc'[p].pc # "carry",
         Todo(proc'[p]) \subseteq Taken, Free(proc'[p], Taken)
  PROVE  HInv'
<1>1. Regular(p)
  <2>1. data \in Seq(Seq(Prompts)) /\ \A n \in DOMAIN links : links[n] \in 1 .. Len(data)
    BY DEF HInv, DataKnown
  <2>2. \A i \in 1 .. Len(data) : data[i] \in Seq(Prompts)
    BY <2>1
  <2>3. Grows(data, data)
    BY <2>1, <2>2 DEF Grows
  <2>4. put' = [put EXCEPT ![p] = put'[p]]
    BY DEF HInv, PutsKnown
  <2> QED BY <2>1, <2>3, <2>4 DEF Regular
<1>7. PutShape(proc'[p], put'[p], data')
  BY DEF HInv, PutsKnown, PutShape
<1>2. ASSUME NEW i \in Nat PROVE \A k : Safe(k, i) => Safe(k, i)'
  <2>1. \A k \in Lost' : Safe(k, i)'
    BY DEF Safe
  <2>2. Linked' = Linked /\ \A n \in DOMAIN links : links[n] \in Linked
    BY DEF Linked
  <2> QED BY <1>1, <1>7, <2>1, <2>2, StepSafe
<1>3. ASSUME NEW c \in Merged(proc'[p]), NEW j \in 1 .. c.seen PROVE Safe(data[c.fd][j], c.fd)'
  <2>1. c \in Merged(proc[p]) /\ data' = data
    OBVIOUS
  <2>2. PICK k : k = data[c.fd][j]
    OBVIOUS
  <2>3. Safe(k, c.fd)
    BY <2>1, <2>2 DEF HInv, CopiesKept
  <2>4. c.fd \in Nat
    BY <2>1, MergedKnown DEF HInv, ProcsKnown, Part
  <2>5. Safe(k, c.fd)'
    BY <1>2, <2>3, <2>4
  <2> QED BY <2>1, <2>2, <2>5 DEF Safe
<1>4. Ordered(proc'[p], links')
  BY DEF HInv, TargetsNewer, Ordered
<1>5. \A n \in DOMAIN links' \cup Todo(proc'[p]) : n \in Taken
  BY DEF Taken
<1>6. Free(proc'[p], Taken')
  <2>1. Taken' \subseteq Taken
    <3> SUFFICES ASSUME NEW n \in Taken', n \notin DOMAIN links' \cup Todo(proc'[p])
                 PROVE  n \in Taken
      BY <1>5
    <3>1. \E q \in Instances : q # p /\ n \in Todo(proc'[q])
      BY DEF Taken, Todo
    <3> QED BY <1>1, <3>1, OtherProcs DEF Taken
  <2> QED BY <2>1 DEF Free
<1> QED BY <1>1, <1>2, <1>3, <1>4, <1>5, <1>6, <1>7, StepKept

LEMMA PutAt ==
  ASSUME HInv, NEW p \in Instances, proc[p].pc \notin {"carry", "merge", "drain"}
  PROVE  put[p] = NoPut /\ (UNCHANGED put => put' = [put EXCEPT ![p] = NoPut])
BY DEF HInv, PutsKnown, PutShape, InHand

LEMMA GoesTo ==
  ASSUME HInv, NEW p \in Instances, NEW r, Goes(p, r)
  PROVE  proc' = [proc EXCEPT ![p] = proc'[p]] /\ proc'[p] = r
BY DEF HInv, ProcsKnown, Goes

\* An instance that neither reads a replaced file nor merged a claim.
LEMMA CalmStep ==
  ASSUME HInv, NEW p \in Instances, NEW r, Goes(p, r),
         UNCHANGED <<links, data, put, captured>>, calls' \subseteq calls,
         hidden' \subseteq doomed', doomed \subseteq doomed', Lost \subseteq Lost',
         Shape(p, r, data, doomed', calls'),
         proc[p].pc \notin {"carry", "merge", "drain"},
         r.pc \notin {"carry", "merge", "remove", "drain"},
         Todo(r) \subseteq Taken, Free(r, Taken)
  PROVE  HInv'
<1>1. proc' = [proc EXCEPT ![p] = proc'[p]] /\ proc'[p] = r
  BY GoesTo
<1>2. Merged(r) = {} /\ ~Draining(p) /\ put' = [put EXCEPT ![p] = NoPut]
  BY PutAt DEF Merged, Draining
<1> QED BY <1>1, <1>2, QuietStep

LEMMA FreeAtRest == \A taken : Free(AtRest, taken) /\ Todo(AtRest) = {} /\ AtRest.pc = "idle"
BY DEF Free, Todo, AtRest

LEMMA HInvDelete == ASSUME HInv, NEW p \in Instances, DeletePrompt(p) PROVE HInv'
<1>1. PICK call \in calls, k \in OnDisk \ hidden :
        /\ Starts(p, "delete", call) /\ doomed' = doomed \cup {k}
        /\ Goes(p, Deleting(call, k, DOMAIN links, FALSE))
  BY DEF DeletePrompt
<1>2. PICK r : r = Deleting(call, k, DOMAIN links, FALSE)
  OBVIOUS
<1>3. Sweep(r, doomed')
  BY <1>1, <1>2 DEF Sweep, Deleting
<1>4. Todo(r) \subseteq Taken /\ Free(r, Taken) /\ r.pc = "sweep"
  BY <1>2 DEF Todo, Free, Taken, Deleting
<1>5. proc[p].pc = "idle" /\ calls' \subseteq calls
  BY <1>1 DEF Starts, At
<1>6. Lost \subseteq Lost' /\ doomed \subseteq doomed' /\ hidden' \subseteq doomed'
  BY <1>1 DEF DeletePrompt, Lost, HInv, DataKnown
<1>7. UNCHANGED <<links, data, put, captured>>
  BY DEF DeletePrompt
<1>8. Goes(p, r) /\ Shape(p, r, data, doomed', calls')
  BY <1>1, <1>2, <1>3 DEF Shape
<1> QED BY <1>4, <1>5, <1>6, <1>7, <1>8, CalmStep

\* A call that went on without a file.
LEMMA CalmSweep ==
  ASSUME HInv, NEW p \in Instances, proc[p].pc \in {"sweep", "replace"}, NEW found, NEW todo,
         Goes(p, Deleting(proc[p].call, proc[p].key, todo, found)), todo \subseteq Todo(proc[p]),
         UNCHANGED <<links, data, hidden, put, calls, captured, doomed, unlucky, replaced>>
  PROVE  HInv'
<1>1. PICK r : r = Deleting(proc[p].call, proc[p].key, todo, found)
  OBVIOUS
<1>2. Shape(p, proc[p], data, doomed, calls)
  BY DEF HInv, ProcsKnown
<1>3. proc[p].key \in doomed
  BY <1>2, ByPc DEF Sweep, Rewrite
<1>4. Sweep(r, doomed') /\ r.pc = "sweep" /\ Todo(r) = todo /\ Free(r, Taken)
  BY <1>1, <1>3 DEF Sweep, Deleting, Todo, Free
<1>5. Todo(proc[p]) \subseteq Taken
  BY DEF Taken
<1>6. Shape(p, r, data, doomed', calls')
  BY <1>4 DEF Shape
<1>7. Lost \subseteq Lost' /\ hidden' \subseteq doomed' /\ doomed \subseteq doomed' /\ calls' \subseteq calls
  BY DEF Lost, HInv, DataKnown
<1>8. proc[p].pc \notin {"carry", "merge", "drain"} /\ UNCHANGED <<links, data, put, captured>>
  OBVIOUS
<1> QED BY <1>1, <1>4, <1>5, <1>6, <1>7, <1>8, CalmStep

LEMMA HInvSweepRead == ASSUME HInv, NEW p \in Instances, SweepRead(p) PROVE HInv'
<1> DEFINE me == proc[p]
           n == Following(me.todo)
           rest == me.todo \ {n}
<1>1. /\ me.pc = "sweep" /\ me.todo # {} /\ n \in me.todo /\ Todo(me) = me.todo
      /\ UNCHANGED <<links, data, hidden, put, calls, captured, doomed, unlucky, replaced>>
  BY DEF SweepRead, At, Following, Todo
<1>2. CASE n \in DOMAIN links /\ Goes(p, [pc |-> "replace", call |-> me.call, key |-> me.key,
             todo |-> rest, of |-> [name |-> n, fd |-> links[n], seen |-> Len(data[links[n]])]])
  <2>1. PICK o : o = [name |-> n, fd |-> links[n], seen |-> Len(data[links[n]])]
    OBVIOUS
  <2>2. PICK r : r = [pc |-> "replace", call |-> me.call, key |-> me.key, todo |-> rest, of |-> o]
    OBVIOUS
  <2>3. Part(o, data)
    <3>1. links[n] \in 1 .. Len(data) /\ data \in Seq(Seq(Prompts))
      BY <1>2 DEF HInv, DataKnown
    <3>2. Len(data[links[n]]) \in Nat
      BY <3>1
    <3> QED BY <2>1, <3>1, <3>2 DEF Part
  <2>4. me.key \in doomed
    BY <1>1, ByPc DEF HInv, ProcsKnown, Sweep
  <2>5. Shape(p, r, data, doomed', calls')
    BY <1>1, <2>2, <2>3, <2>4 DEF Shape, Rewrite
  <2>6. Todo(r) \subseteq Taken
    <3>1. Todo(r) = me.todo
      BY <1>1, <2>1, <2>2 DEF Todo
    <3> QED BY <1>1, <3>1 DEF Taken
  <2>7. r.pc = "replace" /\ Free(r, Taken)
    BY <2>2 DEF Free
  <2>8. Goes(p, r)
    BY <1>2, <2>1, <2>2
  <2>9. Lost \subseteq Lost' /\ hidden' \subseteq doomed' /\ doomed \subseteq doomed' /\ calls' \subseteq calls
    BY <1>1 DEF Lost, HInv, DataKnown
  <2> QED BY <1>1, <2>5, <2>6, <2>7, <2>8, <2>9, CalmStep
<1>3. CASE Goes(p, Deleting(me.call, me.key, rest, me.found))
  BY <1>1, <1>3, CalmSweep
<1>4. CASE Goes(p, Deleting(me.call, me.key, rest, TRUE))
  BY <1>1, <1>4, CalmSweep
<1> QED BY <1>2, <1>3, <1>4 DEF SweepRead

LEMMA HInvHide == ASSUME HInv, NEW p \in Instances, HideRead(p) \/ HideWrite(p) PROVE HInv'
<1>1. CASE HideRead(p)
  <2>1. PICK r : r = IF proc[p].found THEN [pc |-> "hide", key |-> proc[p].key, keys |-> hidden]
                     ELSE AtRest
    OBVIOUS
  <2>2. proc[p].pc = "sweep" /\ Goes(p, r)
    BY <1>1, <2>1 DEF HideRead, At
  <2>3. UNCHANGED <<links, data, hidden, put, calls, captured, doomed, unlucky, replaced>>
    BY <1>1 DEF HideRead
  <2>4. proc[p].key \in doomed /\ hidden \subseteq doomed
    BY <2>2, ByPc DEF HInv, ProcsKnown, DataKnown, Sweep
  <2>5. Shape(p, r, data, doomed', calls')
    BY <2>1, <2>3, <2>4 DEF Shape, Hide
  <2>6. r.pc \in {"hide", "idle"} /\ Todo(r) \subseteq Taken /\ Free(r, Taken)
    BY <2>1 DEF Todo, Free, AtRest
  <2>7. Lost \subseteq Lost' /\ hidden' \subseteq doomed' /\ doomed \subseteq doomed' /\ calls' \subseteq calls
    BY <2>3, <2>4 DEF Lost
  <2> QED BY <2>2, <2>3, <2>5, <2>6, <2>7, CalmStep
<1>2. CASE HideWrite(p)
  <2>1. proc[p].pc = "hide" /\ Goes(p, AtRest) /\ hidden' \subseteq hidden \cup proc[p].keys \cup {proc[p].key}
    BY <1>2 DEF HideWrite, At
  <2>2. UNCHANGED <<links, data, put, calls, captured, doomed, unlucky, replaced>>
    BY <1>2 DEF HideWrite
  <2>3. Hide(proc[p], doomed) /\ hidden \subseteq doomed
    BY <2>1, ByPc DEF HInv, ProcsKnown, DataKnown
  <2>4. Lost \subseteq Lost' /\ hidden' \subseteq doomed' /\ doomed \subseteq doomed' /\ calls' \subseteq calls
    BY <2>1, <2>2, <2>3 DEF Lost, Hide
  <2>5. Shape(p, AtRest, data, doomed', calls')
    BY DEF Shape
  <2> QED BY <2>1, <2>2, <2>4, <2>5, FreeAtRest, CalmStep
<1> QED BY <1>1, <1>2

LEMMA HInvCompact == ASSUME HInv, NEW p \in Instances, Compact(p) PROVE HInv'
<1>1. PICK call \in calls, tail \in SUBSET (DOMAIN links \ {Own(p)}) : Starts(p, "compact", call) /\ Goes(p, Opening(call, tail, hidden, {}))
  BY DEF Compact
<1>2. PICK r : r = Opening(call, tail, hidden, {})
  OBVIOUS
<1>3. /\ proc[p].pc = "idle" /\ calls' = calls \ {call} /\ call[1] = p /\ Goes(p, r)
      /\ UNCHANGED <<links, data, hidden, put, captured, doomed, unlucky, replaced>>
  BY <1>1, <1>2 DEF Starts, At, Compact
<1>4. hidden \subseteq doomed
  BY DEF HInv, DataKnown
<1>5. /\ r.pc = "open" /\ r.call = call /\ r.keys = hidden /\ r.claims = {} /\ Open(r)
      /\ Todo(r) = {}
  BY <1>2 DEF Opening, Open, Todo
<1>6. ClaimsKnown({}, call, data)
  BY FS_EmptySet DEF ClaimsKnown
<1>7. Shape(p, r, data, doomed', calls')
  BY <1>3, <1>4, <1>5, <1>6 DEF Shape, Compaction
<1>8. Free(r, Taken)
  <2>1. /\ Reserved(Compacted(call)) /\ CallOf(Compacted(call)) = call
        /\ \A n : Reserved(Claimed(n, call)) /\ CallOf(Claimed(n, call)) = call
    BY DEF Reserved, CallOf, Compacted, Claimed
  <2> QED BY <1>5, <2>1 DEF Free, HInv, NamesFree
<1>9. Lost \subseteq Lost' /\ hidden' \subseteq doomed' /\ doomed \subseteq doomed' /\ calls' \subseteq calls
  BY <1>3, <1>4 DEF Lost
<1> QED BY <1>3, <1>5, <1>7, <1>8, <1>9, CalmStep

\* A compaction that goes on to the next file.
LEMMA CalmOpen ==
  ASSUME HInv, NEW p \in Instances, proc[p].pc \in {"open", "claim"}, NEW todo,
         Goes(p, Opening(proc[p].call, todo, proc[p].keys, proc[p].claims)),
         todo \subseteq Unclaimed(proc[p]),
         UNCHANGED <<links, data, hidden, put, calls, captured, doomed, unlucky, replaced>>
  PROVE  HInv'
<1>1. PICK r : r = Opening(proc[p].call, todo, proc[p].keys, proc[p].claims)
  OBVIOUS
<1>2. Compaction(p, proc[p], data, doomed, calls) /\ Free(proc[p], Taken)
  BY ByPc DEF HInv, ProcsKnown, NamesFree
<1>3. /\ r.pc = "open" /\ r.call = proc[p].call /\ r.keys = proc[p].keys
      /\ r.claims = proc[p].claims /\ r.todo = todo /\ Open(r) /\ Todo(r) = {}
      /\ Unclaimed(r) = todo
  BY <1>1 DEF Opening, Open, Todo, Unclaimed
<1>4. Shape(p, r, data, doomed', calls')
  BY <1>2, <1>3 DEF Shape, Compaction
<1>5. Free(r, Taken)
  BY <1>2, <1>3 DEF Free
<1>6. Lost \subseteq Lost' /\ hidden' \subseteq doomed' /\ doomed \subseteq doomed' /\ calls' \subseteq calls
  BY DEF Lost, HInv, DataKnown
<1>7. proc[p].pc \notin {"carry", "merge", "drain"} /\ UNCHANGED <<links, data, put, captured>> /\ Goes(p, r)
  BY <1>1
<1> QED BY <1>3, <1>4, <1>5, <1>6, <1>7, CalmStep

LEMMA HInvClaimOpen == ASSUME HInv, NEW p \in Instances, ClaimOpen(p) PROVE HInv'
<1> DEFINE me == proc[p]
           n == Following(me.todo)
           rest == me.todo \ {n}
<1>1. /\ me.pc = "open" /\ me.todo # {} /\ n \in me.todo /\ Unclaimed(me) = me.todo
      /\ UNCHANGED <<links, data, hidden, put, calls, captured, doomed, unlucky, replaced>>
  BY DEF ClaimOpen, At, Following, Unclaimed
<1>2. CASE n \in DOMAIN links
  <2>1. PICK o : o = [name |-> n, fd |-> links[n], seen |-> 0]
    OBVIOUS
  <2>2. PICK r : r = [pc |-> "claim", call |-> me.call, todo |-> rest, keys |-> me.keys,
                      claims |-> me.claims, of |-> o]
    OBVIOUS
  <2>3. Goes(p, r)
    BY <1>2, <2>1, <2>2 DEF ClaimOpen
  <2>4. Part(o, data) /\ o.name = n
    <3>1. links[n] \in 1 .. Len(data) /\ data \in Seq(Seq(Prompts))
      BY <1>2 DEF HInv, DataKnown
    <3>2. Len(data[links[n]]) \in Nat
      BY <3>1
    <3> QED BY <2>1, <3>1, <3>2 DEF Part
  <2>5. Compaction(p, me, data, doomed, calls) /\ Free(me, Taken)
    BY <1>1, ByPc DEF HInv, ProcsKnown, NamesFree
  <2>6. Reserve(r, data)
    BY <2>2, <2>4 DEF Reserve
  <2>7. Shape(p, r, data, doomed', calls')
    BY <1>1, <2>2, <2>5, <2>6 DEF Shape, Compaction
  <2>8. r.pc = "claim" /\ Todo(r) = {} /\ Unclaimed(r) = me.todo
    BY <1>1, <2>2, <2>4 DEF Todo, Unclaimed
  <2>9. Free(r, Taken)
    BY <1>1, <2>2, <2>5, <2>8 DEF Free
  <2>10. Lost \subseteq Lost' /\ hidden' \subseteq doomed' /\ doomed \subseteq doomed' /\ calls' \subseteq calls
    BY <1>1 DEF Lost, HInv, DataKnown
  <2> QED BY <1>1, <2>3, <2>7, <2>8, <2>9, <2>10, CalmStep
<1>3. CASE n \notin DOMAIN links
  <2>1. Goes(p, Opening(me.call, rest, me.keys, me.claims))
    BY <1>3 DEF ClaimOpen
  <2> QED BY <1>1, <2>1, CalmOpen
<1> QED BY <1>2, <1>3

MergeOf(me, claims) ==
  IF claims = {} THEN AtRest
  ELSE [pc |-> "merge", call |-> me.call, keys |-> me.keys, claims |-> claims]

LEMMA MergeFields ==
  ASSUME NEW me, NEW claims
  PROVE  /\ Merged(MergeOf(me, claims)) = claims
         /\ MergeOf(me, claims).pc \in {"idle", "merge"}
         /\ claims # {} => MergeOf(me, claims).call = me.call
         /\ Todo(MergeOf(me, claims)) = {}
         /\ \A taken : Free(MergeOf(me, claims), taken)
<1>1. CASE claims = {}
  <2>1. MergeOf(me, claims) = AtRest
    BY <1>1 DEF MergeOf
  <2> QED BY <1>1, <2>1, FreeAtRest DEF Merged
<1>2. CASE claims # {}
  <2>1. PICK r : r = MergeOf(me, claims)
    OBVIOUS
  <2>2. r = [pc |-> "merge", call |-> me.call, keys |-> me.keys, claims |-> claims]
    BY <1>2, <2>1 DEF MergeOf
  <2>3. r.pc = "merge" /\ r.call = me.call /\ r.claims = claims
    BY <2>2
  <2>4. Merged(r) = claims /\ Todo(r) = {} /\ \A taken : Free(r, taken)
    BY <2>3 DEF Merged, Todo, Free
  <2> QED BY <2>1, <2>3, <2>4
<1> QED BY <1>1, <1>2

LEMMA MergeShape ==
  ASSUME NEW p, NEW me, NEW d, NEW lost, NEW cs, Compaction(p, me, d, lost, cs),
         NEW e, NEW claims, ClaimsKnown(claims, me.call, e)
  PROVE  Shape(p, MergeOf(me, claims), e, lost, cs)
<1>1. CASE claims = {}
  BY <1>1 DEF MergeOf, Shape
<1>2. CASE claims # {}
  <2>1. PICK r : r = MergeOf(me, claims)
    OBVIOUS
  <2>2. r = [pc |-> "merge", call |-> me.call, keys |-> me.keys, claims |-> claims]
    BY <1>2, <2>1 DEF MergeOf
  <2>3. /\ r.pc = "merge" /\ r.call = me.call /\ r.keys = me.keys /\ r.claims = claims
        /\ Proceed(r)
    BY <1>2, <2>2 DEF Proceed
  <2> QED BY <2>1, <2>3 DEF Shape, Compaction
<1> QED BY <1>1, <1>2

LEMMA FewerClaims ==
  ASSUME NEW claims, NEW call, NEW d, ClaimsKnown(claims, call, d), NEW fewer \in SUBSET claims
  PROVE  ClaimsKnown(fewer, call, d)
BY FS_Subset DEF ClaimsKnown

\* A compaction that goes on to the next claim.
LEMMA QuietMerging ==
  ASSUME HInv, NEW p \in Instances, proc[p].pc \in {"merge", "remove", "drain"},
         NEW claims, Merging(p, claims), claims \subseteq proc[p].claims,
         UNCHANGED <<links, data, hidden, calls, captured, doomed, unlucky, replaced>>,
         put' = [put EXCEPT ![p] = NoPut], ~Draining(p)
  PROVE  HInv'
<1>1. Compaction(p, proc[p], data, doomed, calls)
  BY ByPc DEF HInv, ProcsKnown
<1>2. ClaimsKnown(claims, proc[p].call, data)
  BY <1>1, FewerClaims DEF Compaction
<1>3. PICK r : r = MergeOf(proc[p], claims)
  OBVIOUS
<1>4. proc' = [proc EXCEPT ![p] = proc'[p]] /\ proc'[p] = r
  BY <1>3, GoesTo DEF Merging, MergeOf
<1>5. Lost \subseteq Lost' /\ hidden' \subseteq doomed' /\ doomed \subseteq doomed' /\ calls' \subseteq calls
  BY DEF Lost, HInv, DataKnown
<1>6. /\ Shape(p, r, data, doomed', calls') /\ Merged(r) = claims /\ r.pc \in {"idle", "merge"}
      /\ claims # {} => r.call = proc[p].call
      /\ Todo(r) = {} /\ Free(r, Taken)
  <2>1. Shape(p, r, data, doomed, calls)
    BY <1>1, <1>2, <1>3, MergeShape
  <2> QED BY <1>3, <2>1, MergeFields
<1>7. claims \subseteq Merged(proc[p])
  BY DEF Merged
<1> QED BY <1>4, <1>5, <1>6, <1>7, QuietStep

LEMMA HInvDies == ASSUME HInv, NEW p \in Instances, Dies(p) PROVE HInv'
<1>1. PICK r : r = [pc |-> "dead"]
  OBVIOUS
<1>2. proc' = [proc EXCEPT ![p] = proc'[p]] /\ proc'[p] = r
  BY <1>1, GoesTo DEF Dies
<1>3. Merged(r) = {} /\ Todo(r) = {} /\ Free(r, Taken) /\ r.pc = "dead"
  BY <1>1 DEF Merged, Todo, Free
<1>4. Shape(p, r, data, doomed', calls')
  BY <1>1 DEF Shape
<1>5. UNCHANGED <<links, data, hidden, calls, captured, doomed, replaced>> /\ unlucky \subseteq unlucky'
  BY DEF Dies
<1>6. Lost \subseteq Lost' /\ hidden' \subseteq doomed' /\ doomed \subseteq doomed' /\ calls' \subseteq calls
  BY <1>5 DEF Lost, HInv, DataKnown
<1>7. Draining(p) => Promised(p) \subseteq Lost'
  BY DEF Dies, Lost
<1>8. put' = [put EXCEPT ![p] = NoPut]
  BY DEF Dies, Puts
<1> QED BY <1>2, <1>3, <1>4, <1>5, <1>6, <1>7, <1>8, QuietStep

----------------------------------------------------------------------------
(* Steps that write.                                                       *)

LEMMA VisibleKnown ==
  ASSUME NEW lines \in SUBSET Prompts, IsFiniteSet(lines), NEW keys
  PROVE  Visible(lines, keys) \in Seq(Prompts) /\ Range(Visible(lines, keys)) = lines \ keys
<1>1. IsFiniteSet(lines \ keys)
  BY FS_Subset
<1>2. SetToSeq(lines \ keys) \in Seq(lines \ keys) /\ Range(SetToSeq(lines \ keys)) = lines \ keys
  BY <1>1, ArrangedSet
<1>3. lines \ keys \subseteq Prompts
  OBVIOUS
<1>4. \A s \in Seq(lines \ keys) : s \in Seq(Prompts)
  BY <1>3
<1> QED BY <1>2, <1>4 DEF Visible

\* A name keeps its inode, or gets a new one.
FilesGrow ==
  /\ data' \in Seq(Seq(Prompts)) /\ Grows(data, data')
  /\ \A n \in DOMAIN links' :
       /\ links'[n] \in 1 .. Len(data')
       /\ \/ n \in DOMAIN links /\ links'[n] = links[n]
          \/ links'[n] > Len(data)

LEMMA PutKnown ==
  ASSUME DataKnown, NEW n, NEW lines \in Seq(Prompts), PutFile(n, lines)
  PROVE  /\ FilesGrow
         /\ DOMAIN links' = DOMAIN links \cup {n}
         /\ links'[n] = Len(data) + 1 /\ data'[Len(data) + 1] = lines
         /\ \A m \in DOMAIN links : m # n => links'[m] = links[m]
<1>1. data \in Seq(Seq(Prompts)) /\ \A m \in DOMAIN links : links[m] \in 1 .. Len(data)
  BY DEF DataKnown
<1>2. /\ data' \in Seq(Seq(Prompts)) /\ Grows(data, data') /\ Len(data') = Len(data) + 1
      /\ data'[Len(data) + 1] = lines
  BY <1>1, NewInode DEF PutFile
<1>3. /\ DOMAIN links' = DOMAIN links \cup {n} /\ links'[n] = Len(data) + 1
      /\ \A m \in DOMAIN links : m # n => links'[m] = links[m]
  BY DEF PutFile, Named
<1>4. Len(data) \in Nat
  BY <1>1
<1> QED BY <1>1, <1>2, <1>3, <1>4 DEF FilesGrow

\* The inodes are numbers after the step as well.
LEMMA SafeOlderNext ==
  ASSUME HInv, NEW p \in Instances, Regular(p), Shape(p, proc'[p], data', doomed', calls'),
         NEW i \in Nat, NEW j \in Nat, i <= j, NEW k, Safe(k, j)'
  PROVE  Safe(k, i)'
<1>1. (\A l \in Linked : l \in Nat)'
  BY DEF Regular, Linked
<1>2. ASSUME NEW q \in Instances, Draining(q)' PROVE proc'[q].of.fd \in Nat
  <2>1. ProcsKnown'
    BY TypesKept
  <2>2. Part(proc'[q].of, data')
    BY <1>2, <2>1, DrainedNext
  <2> QED BY <2>2 DEF Part
<1>3. (\A q \in Instances : Draining(q) => proc[q].of.fd \in Nat)'
  BY <1>2
<1> QED BY <1>1, <1>3, SafeOlder

\* No name is lost; what p was to put back is safe.
LEMMA GrowthSafe ==
  ASSUME HInv, NEW p \in Instances, Regular(p), Shape(p, proc'[p], data', doomed', calls'),
         PutShape(proc'[p], put'[p], data'),
         \A m \in DOMAIN links : m \in DOMAIN links' /\ links'[m] = links[m],
         Draining(p) =>
           \/ Draining(p)' /\ proc'[p].of = proc[p].of /\ Promised(p) \subseteq Promised(p)'
           \/ \A j : j = proc[p].of.fd => \A k \in Promised(p) : Safe(k, j)'
  PROVE  \A i \in Nat : \A k : Safe(k, i) => Safe(k, i)'
<1> SUFFICES ASSUME NEW i \in Nat PROVE \A k : Safe(k, i) => Safe(k, i)'
  OBVIOUS
<1>1. \A n \in DOMAIN links : links[n] \in Linked'
  BY DEF Linked
<1>2. ASSUME Draining(p), proc[p].of.fd > i, NEW k \in Promised(p)
      PROVE  Safe(k, i)'
  <2>1. PICK j : j = proc[p].of.fd
    OBVIOUS
  <2>2. j \in Nat /\ i <= j
    <3>1. Part(proc[p].of, data)
      BY <1>2, DrainedKnown DEF HInv
    <3>2. j \in Nat
      BY <2>1, <3>1 DEF Part
    <3> QED BY <1>2, <2>1, <3>2
  <2>3. CASE Draining(p)' /\ proc'[p].of = proc[p].of /\ Promised(p) \subseteq Promised(p)'
    BY <1>2, <2>3 DEF Safe
  <2>4. CASE Safe(k, j)'
    BY <2>2, <2>4, SafeOlderNext
  <2> QED BY <1>2, <2>1, <2>3, <2>4
<1> QED BY <1>1, <1>2, StepSafe

LEMMA RegularWrite ==
  ASSUME HInv, NEW p \in Instances, proc' = [proc EXCEPT ![p] = proc'[p]],
         put' = [put EXCEPT ![p] = put'[p]], FilesGrow, calls' \subseteq calls,
         hidden' \subseteq doomed', doomed \subseteq doomed', Lost \subseteq Lost'
  PROVE  Regular(p)
BY DEF Regular, FilesGrow

\* The same for a step that reads and appends no late lines.
LEMMA RegularCall ==
  ASSUME HInv, NEW p \in Instances, NEW r, Goes(p, r), FilesGrow, calls' \subseteq calls,
         hidden' \subseteq doomed', doomed \subseteq doomed', Lost \subseteq Lost',
         proc[p].pc \notin {"carry", "merge", "drain"}, UNCHANGED put
  PROVE  Regular(p) /\ put'[p] = NoPut /\ PutShape(proc'[p], put'[p], data')
<1>1. put'[p] = NoPut /\ put' = [put EXCEPT ![p] = put'[p]]
  BY PutAt DEF HInv, PutsKnown
<1> QED BY <1>1, GoesTo, RegularWrite DEF PutShape

LEMMA NewerStays ==
  ASSUME DataKnown, FilesGrow, NEW n, NEW i \in 1 .. Len(data), Newer(n, i, links)
  PROVE  Newer(n, i, links')
<1>1. Len(data) \in Nat /\ \A m \in DOMAIN links' : links'[m] \in Nat
  BY DEF DataKnown, FilesGrow
<1> QED BY <1>1 DEF Newer, FilesGrow

\* The claims of p that stay to be removed, some of them read further, have
\* their copies.
LEMMA CopiesOf ==
  ASSUME HInv, NEW p \in Instances, Regular(p),
         \A i \in Nat : \A k : Safe(k, i) => Safe(k, i)',
         NEW c, Part(c, data'), NEW d \in Merged(proc[p]), c.fd = d.fd, d.seen <= c.seen,
         \A j \in d.seen + 1 .. c.seen : Safe(data[c.fd][j], c.fd)'
  PROVE  \A j \in 1 .. c.seen : Safe(data[c.fd][j], c.fd)'
<1> SUFFICES ASSUME NEW j \in 1 .. c.seen PROVE Safe(data[c.fd][j], c.fd)'
  OBVIOUS
<1>1. Part(d, data) /\ data \in Seq(Seq(Prompts))
  BY MergedKnown DEF HInv, ProcsKnown, DataKnown
<1>2. d.seen \in Nat /\ c.seen \in Nat /\ c.fd \in 1 .. Len(data) /\ Len(data[c.fd]) \in Nat
  BY <1>1 DEF Part
<1>3. CASE j \in 1 .. d.seen
  <2>1. PICK k : k = data[c.fd][j]
    OBVIOUS
  <2>2. Safe(k, c.fd)
    BY <1>3, <2>1 DEF HInv, CopiesKept
  <2>3. Safe(k, c.fd)'
    BY <1>2, <2>2
  <2>4. data'[c.fd][j] = data[c.fd][j]
    <3>1. d.seen \in 0 .. Len(data[c.fd]) /\ c.fd = d.fd
      BY <1>1 DEF Part
    <3>2. j \in 1 .. Len(data[c.fd])
      BY <1>2, <1>3, <3>1
    <3>3. Grows(data, data')
      BY DEF Regular
    <3> QED BY <1>2, <3>2, <3>3 DEF Grows
  <2>5. k = data'[c.fd][j]
    BY <2>1, <2>4
  <2> QED BY <2>3, <2>5 DEF Safe
<1>4. CASE j \notin 1 .. d.seen
  BY <1>2, <1>4
<1> QED BY <1>3, <1>4

\* A step that takes no name away.
LEMMA GrowStep ==
  ASSUME HInv, NEW p \in Instances, proc' = [proc EXCEPT ![p] = proc'[p]],
         put' = [put EXCEPT ![p] = put'[p]], FilesGrow, calls' \subseteq calls,
         hidden' \subseteq doomed', doomed \subseteq doomed', Lost \subseteq Lost',
         UNCHANGED captured,
         \A m \in DOMAIN links : m \in DOMAIN links' /\ links'[m] = links[m],
         \A m \in DOMAIN links' :
           m \in Taken \/ (Reserved(m) => CallOf(m)[1] = p /\ CallOf(m) \notin calls'),
         Shape(p, proc'[p], data', doomed', calls'), PutShape(proc'[p], put'[p], data'),
         Draining(p) =>
           \/ Draining(p)' /\ proc'[p].of = proc[p].of /\ Promised(p) \subseteq Promised(p)'
           \/ \A j : j = proc[p].of.fd => \A k \in Promised(p) : Safe(k, j)',
         \A c \in Merged(proc'[p]) : \E d \in Merged(proc[p]) :
           /\ c.fd = d.fd /\ d.seen <= c.seen
           /\ \A j \in d.seen + 1 .. c.seen : Safe(data[c.fd][j], c.fd)',
         Merged(proc'[p]) # {} => proc'[p].call = proc[p].call,
         proc'[p].pc = "carry" => proc'[p] = proc[p],
         proc'[p].pc \notin {"open", "claim"}, Todo(proc'[p]) \subseteq Taken
  PROVE  HInv'
<1> DEFINE r == proc'[p]
<1>1. DataKnown /\ Len(data) \in Nat
  BY DEF HInv, DataKnown
<1>2. Regular(p)
  BY RegularWrite
<1>3. \A i \in Nat : \A k : Safe(k, i) => Safe(k, i)'
  BY <1>2, GrowthSafe
<1>4. ASSUME NEW c \in Merged(r) PROVE Part(c, data')
  BY MergedKnown
<1>5. ASSUME NEW c \in Merged(r)
      PROVE  Newer(Compacted(r.call), c.fd, links') /\ \A j \in 1 .. c.seen : Safe(data[c.fd][j], c.fd)'
  <2>1. PICK d \in Merged(proc[p]) :
           /\ c.fd = d.fd /\ d.seen <= c.seen
           /\ \A j \in d.seen + 1 .. c.seen : Safe(data[c.fd][j], c.fd)'
    OBVIOUS
  <2>2. c.fd \in 1 .. Len(data)
    BY <2>1, MergedKnown DEF HInv, ProcsKnown, Part
  <2>3. Newer(Compacted(r.call), c.fd, links)
    BY <2>1 DEF HInv, TargetsNewer, Ordered
  <2>4. Newer(Compacted(r.call), c.fd, links')
    BY <1>1, <2>2, <2>3, NewerStays
  <2>5. \A j \in 1 .. c.seen : Safe(data[c.fd][j], c.fd)'
    BY <1>2, <1>3, <1>4, <2>1, CopiesOf
  <2> QED BY <2>4, <2>5
<1>6. ASSUME r.pc = "carry" PROVE Newer(r.of.name, r.of.fd, links')
  <2>1. r = proc[p] /\ Newer(r.of.name, r.of.fd, links)
    BY <1>6 DEF HInv, TargetsNewer, Ordered
  <2>2. r.of.fd \in 1 .. Len(data)
    BY <1>6, <2>1, DrainedKnown DEF HInv, Draining, Part
  <2> QED BY <1>1, <2>1, <2>2, NewerStays
<1>7. Ordered(proc'[p], links')
  BY <1>5, <1>6 DEF Ordered
<1>8. \A m \in DOMAIN links' \cup Todo(proc'[p]) :
         m \in Taken \/ (Reserved(m) => CallOf(m)[1] = p /\ CallOf(m) \notin calls')
  OBVIOUS
<1>9. Free(proc'[p], Taken')
  BY DEF Free
<1>10. \A c \in Merged(proc'[p]) : \A j \in 1 .. c.seen : Safe(data[c.fd][j], c.fd)'
  BY <1>5
<1>11. \A k \in captured' : k \in captured \/ Safe(k, 0)'
  OBVIOUS
<1> QED BY <1>2, <1>3, <1>7, <1>8, <1>9, <1>10, <1>11, StepKept

\* Lines that are appended to an inode, which a reader finds or another rewrite
\* drains, are safe above any older one.
LEMMA LandsSafe ==
  ASSUME HInv, NEW p \in Instances, Regular(p), UNCHANGED links, PutShape(proc'[p], put'[p], data'),
         NEW i \in 1 .. Len(data), NEW lines \in Seq(Prompts),
         data' = [data EXCEPT ![i] = data[i] \o lines],
         ~Draining(p) \/ put[p] # NoPut,
         NEW k \in Range(lines), i \in Linked \cup {h.fd : h \in Held} \/ k \in Lost',
         NEW j \in Nat, j < i
  PROVE  Safe(k, j)'
<1>1. data \in Seq(Seq(Prompts)) /\ i \in Nat
  BY DEF HInv, DataKnown
<1>2. /\ data' \in Seq(Seq(Prompts)) /\ Grows(data, data') /\ Len(data') = Len(data)
      /\ Range(data'[i]) = Range(data[i]) \cup Range(lines)
  BY <1>1, LongerInode
<1>3. CASE k \in Lost'
  BY <1>3 DEF Safe
<1>4. CASE i \in Linked
  <2>1. i \in Linked' /\ i > j /\ k \in Range(data'[i])
    BY <1>1, <1>2, <1>4 DEF Linked
  <2> QED BY <2>1 DEF Safe, Lines
<1>5. CASE \E h \in Held : h.fd = i
  <2>1. PICK q \in Instances : Draining(q) /\ put[q] = NoPut /\ proc[q].of.fd = i
    BY <1>5 DEF Held
  <2>2. q # p
    BY <2>1
  <2>3. proc'[q] = proc[q] /\ put'[q] = NoPut
    BY <2>1, <2>2, OtherProcs
  <2>4. PICK o : o = proc[q].of
    OBVIOUS
  <2>5. Part(o, data) /\ Part(o, data') /\ o.fd = i
    <3>1. Part(o, data)
      BY <2>1, <2>4, DrainedKnown DEF HInv
    <3> QED BY <1>1, <1>2, <2>1, <2>4, <3>1, PartGrows
  <2>6. \A x : x \in Range(LateIn(o, data')) <=> \E y \in o.seen + 1 .. Len(data'[o.fd]) : data'[o.fd][y] = x
    <3>1. PICK e \in Seq(Seq(Prompts)) : e = data'
      BY <1>2
    <3>2. Part(o, e)
      BY <2>5, <3>1
    <3>3. \A x : x \in Range(LateIn(o, e)) <=> \E y \in o.seen + 1 .. Len(e[o.fd]) : e[o.fd][y] = x
      BY <3>2, LateOf
    <3> QED BY <3>1, <3>3
  <2>7. k \in Range(LateIn(o, data'))
    <3>1. data[i] \in Seq(Prompts) /\ data'[i] = data[i] \o lines
      BY <1>1
    <3>2. /\ Len(data'[i]) = Len(data[i]) + Len(lines) /\ Len(data[i]) \in Nat /\ Len(lines) \in Nat
          /\ \A y \in 1 .. Len(lines) : data'[i][Len(data[i]) + y] = lines[y]
      BY <3>1
    <3>3. PICK y \in 1 .. Len(lines) : lines[y] = k
      BY DEF Range
    <3>4. o.seen \in 0 .. Len(data[i])
      BY <2>5 DEF Part
    <3>5. Len(data[i]) + y \in o.seen + 1 .. Len(data'[i])
      BY <3>2, <3>3, <3>4
    <3> QED BY <2>5, <2>6, <3>2, <3>3, <3>5
  <2>8. Draining(q)' /\ proc'[q].of.fd > j
    BY <1>1, <2>1, <2>3 DEF Draining
  <2>9. Promised(q)' = Range(LateIn(o, data'))
    BY <2>3, <2>4, <2>8, PromisedNext DEF PromisedIn
  <2> QED BY <2>7, <2>8, <2>9 DEF Safe
<1> QED BY <1>3, <1>4, <1>5

LEMMA HInvCaptureOpen == ASSUME HInv, NEW p \in Instances, CaptureOpen(p) PROVE HInv'
<1>1. /\ proc[p].pc = "idle" /\ calls' \subseteq calls
      /\ UNCHANGED <<hidden, put, captured, doomed, unlucky, replaced>>
  BY DEF CaptureOpen, Starts, At
<1>2. PICK k \in Prompts :
        /\ IF Own(p) \in DOMAIN links THEN UNCHANGED <<links, data>> ELSE PutFile(Own(p), <<>>)
        /\ Goes(p, [pc |-> "write", fd |-> links'[Own(p)], line |-> k])
  BY DEF CaptureOpen
<1>3. PICK r : r = [pc |-> "write", fd |-> links'[Own(p)], line |-> k]
  OBVIOUS
<1>4. DataKnown /\ data \in Seq(Seq(Prompts)) /\ \A n \in DOMAIN links : links[n] \in 1 .. Len(data)
  BY DEF HInv, DataKnown
<1>5. r.pc = "write" /\ Todo(r) = {} /\ Merged(r) = {} /\ \A taken : Free(r, taken)
  BY <1>3 DEF Todo, Merged, Free
<1>6. ASSUME NEW d, links'[Own(p)] \in 1 .. Len(d) PROVE Shape(p, r, d, doomed', calls')
  BY <1>3, <1>6 DEF Shape, Writing
<1>7. Goes(p, r) /\ Lost \subseteq Lost' /\ hidden' \subseteq doomed' /\ doomed \subseteq doomed'
  BY <1>1, <1>2, <1>3 DEF Lost, HInv, DataKnown
<1>8. CASE Own(p) \in DOMAIN links
  <2>1. UNCHANGED <<links, data>>
    BY <1>2, <1>8
  <2>2. Shape(p, r, data, doomed', calls')
    BY <1>4, <1>6, <1>8, <2>1
  <2> QED BY <1>1, <1>5, <1>7, <2>1, <2>2, CalmStep
<1>9. CASE Own(p) \notin DOMAIN links
  <2>1. PutFile(Own(p), <<>>) /\ <<>> \in Seq(Prompts)
    BY <1>2, <1>9
  <2>2. /\ FilesGrow /\ DOMAIN links' = DOMAIN links \cup {Own(p)}
        /\ \A m \in DOMAIN links : m \in DOMAIN links' /\ links'[m] = links[m]
    BY <1>4, <1>9, <2>1, PutKnown
  <2>3. Shape(p, r, data', doomed', calls')
    BY <1>6, <2>2 DEF FilesGrow
  <2>4. ~Reserved(Own(p))
    BY DEF Reserved, Own
  <2>5. \A m \in DOMAIN links' : m \in Taken \/ ~Reserved(m)
    BY <2>2, <2>4 DEF Taken
  <2>6. /\ proc' = [proc EXCEPT ![p] = proc'[p]] /\ proc'[p] = r
        /\ put' = [put EXCEPT ![p] = put'[p]] /\ PutShape(proc'[p], put'[p], data')
    BY <1>1, <1>7, <2>2, GoesTo, RegularCall DEF Regular
  <2>7. ~Draining(p)
    BY <1>1 DEF Draining
  <2> QED BY <1>1, <1>5, <1>7, <2>2, <2>3, <2>5, <2>6, <2>7, GrowStep
<1> QED BY <1>8, <1>9

LEMMA NoLate == Range(<<>>) = {}
BY DEF Range

\* A claim read further.
LEMMA ReadOn ==
  ASSUME HInv, NEW c, Part(c, data), NEW seen \in c.seen .. Len(data[c.fd]),
         NEW r, r = [c EXCEPT !.seen = seen]
  PROVE  /\ r.name = c.name /\ r.fd = c.fd /\ r.seen = seen
         /\ r.seen \in Nat /\ c.seen <= r.seen /\ Part(r, data)
<1>1. data \in Seq(Seq(Prompts))
  BY DEF HInv, DataKnown
<1>2. c = [name |-> c.name, fd |-> c.fd, seen |-> c.seen] /\ c.fd \in 1 .. Len(data)
      /\ c.seen \in 0 .. Len(data[c.fd])
  BY DEF Part
<1>3. r = [name |-> c.name, fd |-> c.fd, seen |-> seen]
  BY <1>2
<1>4. Len(data[c.fd]) \in Nat
  BY <1>1, <1>2
<1> QED BY <1>2, <1>3, <1>4 DEF Part

DropOf(me, pc, o, claims) ==
  [pc |-> pc, call |-> me.call, keys |-> me.keys, claims |-> claims, of |-> o]

LEMMA DropFields ==
  ASSUME NEW me, NEW pc \in {"remove", "drain"}, NEW o, NEW claims
  PROVE  /\ Merged(DropOf(me, pc, o, claims)) = claims \cup {o}
         /\ DropOf(me, pc, o, claims).pc = pc /\ DropOf(me, pc, o, claims).call = me.call
         /\ DropOf(me, pc, o, claims).of = o
         /\ Todo(DropOf(me, pc, o, claims)) = {}
         /\ \A taken : Free(DropOf(me, pc, o, claims), taken)
BY DEF DropOf, Merged, Todo, Free

LEMMA DropShape ==
  ASSUME NEW p, NEW me, NEW d, NEW lost, NEW cs, Compaction(p, me, d, lost, cs),
         NEW e, NEW claims, ClaimsKnown(claims, me.call, e),
         NEW o, Part(o, e), o.name = Claimed(o.name[2], me.call), NEW pc \in {"remove", "drain"}
  PROVE  Shape(p, DropOf(me, pc, o, claims), e, lost, cs)
<1>1. PICK r : r = DropOf(me, pc, o, claims)
  OBVIOUS
<1>2. /\ r = [pc |-> pc, call |-> me.call, keys |-> me.keys, claims |-> claims, of |-> o]
      /\ r.pc = pc /\ r.call = me.call /\ r.keys = me.keys /\ r.claims = claims /\ r.of = o
  BY <1>1 DEF DropOf
<1>3. Drop(r, e)
  BY <1>2 DEF Drop
<1> QED BY <1>1, <1>2, <1>3 DEF Shape, Compaction

LEMMA ClaimsGrow ==
  ASSUME NEW d \in Seq(Seq(Prompts)), NEW e \in Seq(Seq(Prompts)), Grows(d, e),
         NEW claims, NEW call, ClaimsKnown(claims, call, d)
  PROVE  ClaimsKnown(claims, call, e)
BY PartGrows DEF ClaimsKnown

\* Where the instance goes when the late lines are dealt with.
LEMMA Settled ==
  ASSUME HInv, NEW p \in Instances, proc[p].pc \in {"carry", "merge", "drain"},
         NEW seen \in Source(p).seen .. Len(data[Source(p).fd]), Settle(p, seen),
         NEW e \in Seq(Seq(Prompts)), Grows(data, e)
  PROVE  \E r :
    /\ Goes(p, r) /\ Shape(p, r, e, doomed, calls)
    /\ r.pc \in {"sweep", "idle", "merge", "remove"} /\ Todo(r) \subseteq Taken
    /\ Merged(r) # {} => r.call = proc[p].call
    /\ \A b \in Merged(r) :
         \/ b \in Merged(proc[p])
         \/ /\ proc[p].pc = "merge" /\ b.fd = Source(p).fd /\ b.seen = seen
            /\ Source(p) \in Merged(proc[p])
<1> DEFINE me == proc[p]
<1>1. Shape(p, me, data, doomed, calls) /\ data \in Seq(Seq(Prompts))
  BY DEF HInv, ProcsKnown, DataKnown
<1>2. CASE me.pc = "carry"
  <2>1. PICK r : r = Deleting(me.call, me.key, me.todo, TRUE)
    OBVIOUS
  <2>2. Goes(p, r)
    BY <1>2, <2>1 DEF Settle, At, NextFile
  <2>3. me.key \in doomed
    BY <1>1, <1>2, ByPc DEF Rewrite
  <2>4. r.pc = "sweep" /\ Sweep(r, doomed) /\ Merged(r) = {} /\ Todo(r) = me.todo
    BY <2>1, <2>3 DEF Deleting, Sweep, Merged, Todo
  <2>5. me.todo \subseteq Taken
    BY <1>2 DEF Taken, Todo
  <2> QED BY <2>2, <2>4, <2>5 DEF Shape
<1>3. CASE me.pc = "drain"
  <2>1. PICK r : r = MergeOf(me, me.claims)
    OBVIOUS
  <2>2. Goes(p, r)
    BY <1>3, <2>1 DEF Settle, At, Merging, MergeOf
  <2>3. Compaction(p, me, data, doomed, calls)
    BY <1>1, <1>3, ByPc
  <2>4. ClaimsKnown(me.claims, me.call, e)
    BY <1>1, <2>3, ClaimsGrow DEF Compaction
  <2>5. Shape(p, r, e, doomed, calls)
    BY <2>1, <2>3, <2>4, MergeShape
  <2>6. /\ Merged(r) = me.claims /\ r.pc \in {"idle", "merge"}
        /\ me.claims # {} => r.call = me.call
        /\ Todo(r) = {}
    BY <2>1, MergeFields
  <2>7. me.claims \subseteq Merged(me)
    BY <1>3 DEF Merged
  <2> QED BY <2>2, <2>5, <2>6, <2>7
<1>4. CASE me.pc = "merge"
  <2>1. PICK c : c = Following(me.claims)
    OBVIOUS
  <2>2. PICK o : o = [c EXCEPT !.seen = seen]
    OBVIOUS
  <2>3. PICK r : r = DropOf(me, "remove", o, me.claims \ {c})
    OBVIOUS
  <2>4. Source(p) = c /\ Goes(p, r)
    BY <1>4, <2>1, <2>2, <2>3 DEF Settle, Source, At, Removing, DropOf
  <2>5. Compaction(p, me, data, doomed, calls) /\ Proceed(me)
    BY <1>1, <1>4, ByPc
  <2>6. c \in me.claims /\ Merged(me) = me.claims
    BY <1>4, <2>1, <2>5 DEF Proceed, Following, Merged
  <2>7. /\ ClaimsKnown(me.claims \ {c}, me.call, data)
        /\ Part(c, data) /\ c.name = Claimed(c.name[2], me.call)
    <3>1. ClaimsKnown(me.claims, me.call, data)
      BY <2>5 DEF Compaction
    <3>2. Part(c, data) /\ c.name = Claimed(c.name[2], me.call)
      BY <2>6, <3>1 DEF ClaimsKnown
    <3>3. PICK fewer \in SUBSET me.claims : fewer = me.claims \ {c}
      OBVIOUS
    <3>4. ClaimsKnown(fewer, me.call, data)
      BY <3>1, FewerClaims
    <3> QED BY <3>2, <3>3, <3>4
  <2>8. o.name = c.name /\ o.fd = c.fd /\ o.seen = seen /\ Part(o, data)
    BY <2>2, <2>4, <2>7, ReadOn
  <2>9. ClaimsKnown(me.claims \ {c}, me.call, e) /\ Part(o, e)
    BY <1>1, <2>7, <2>8, ClaimsGrow, PartGrows
  <2>10. o.name = Claimed(o.name[2], me.call)
    BY <2>7, <2>8
  <2>11. /\ Shape(p, r, e, doomed, calls) /\ Merged(r) = (me.claims \ {c}) \cup {o}
         /\ r.pc = "remove" /\ r.call = me.call /\ Todo(r) = {}
    BY <2>3, <2>5, <2>9, <2>10, DropShape, DropFields
  <2> QED BY <1>4, <2>4, <2>6, <2>8, <2>11
<1> QED BY <1>2, <1>3, <1>4

\* Late lines are read, and a file is opened for them, without a change to what
\* the instance is to put back.
LEMMA Holding ==
  ASSUME HInv, NEW p \in Instances, proc[p].pc \in {"carry", "merge", "drain"},
         UNCHANGED <<hidden, proc, calls, captured, doomed, unlucky, replaced>>,
         put' = [put EXCEPT ![p] = put'[p]], PutShape(proc[p], put'[p], data'), FilesGrow,
         \A m \in DOMAIN links : m \in DOMAIN links' /\ links'[m] = links[m],
         \A m \in DOMAIN links' :
           m \in Taken \/ (Reserved(m) => CallOf(m)[1] = p /\ CallOf(m) \notin calls'),
         Draining(p) => Promised(p) \subseteq Promised(p)'
  PROVE  HInv'
<1>1. proc' = [proc EXCEPT ![p] = proc'[p]] /\ proc'[p] = proc[p]
  BY DEF HInv, ProcsKnown
<1>2. Lost \subseteq Lost' /\ hidden' \subseteq doomed' /\ doomed \subseteq doomed' /\ calls' \subseteq calls
  BY DEF Lost, HInv, DataKnown
<1>3. Shape(p, proc[p], data, doomed, calls) /\ data \in Seq(Seq(Prompts))
  BY DEF HInv, ProcsKnown, DataKnown
<1>4. Shape(p, proc'[p], data', doomed', calls')
  <2>1. calls' \in SUBSET calls /\ data' \in Seq(Seq(Prompts)) /\ Grows(data, data')
    BY DEF FilesGrow
  <2> QED BY <1>1, <1>2, <1>3, <2>1, ShapeGrows
<1>5. Draining(p) => Draining(p)' /\ proc'[p].of = proc[p].of /\ Promised(p) \subseteq Promised(p)'
  BY <1>1 DEF Draining
<1>6. ASSUME NEW c \in Merged(proc[p])
      PROVE  c.seen <= c.seen /\ \A j : j \notin c.seen + 1 .. c.seen
  <2>1. Part(c, data)
    BY <1>3, MergedKnown
  <2>2. c.seen \in Nat
    BY <1>3, <2>1 DEF Part
  <2> QED BY <2>2
<1>7. \A c \in Merged(proc'[p]) : \E d \in Merged(proc[p]) :
        /\ c.fd = d.fd /\ d.seen <= c.seen
        /\ \A j \in d.seen + 1 .. c.seen : Safe(data[c.fd][j], c.fd)'
  BY <1>1, <1>6
<1>8. Todo(proc'[p]) \subseteq Taken /\ proc'[p].pc \notin {"open", "claim"}
  BY <1>1 DEF Taken
<1>9. PutShape(proc'[p], put'[p], data')
  BY <1>1
<1> QED BY <1>1, <1>2, <1>4, <1>5, <1>7, <1>8, <1>9, GrowStep

\* Late lines are dealt with: what was read of them is safe.
LEMMA Dealt ==
  ASSUME HInv, NEW p \in Instances, proc[p].pc \in {"carry", "merge", "drain"},
         UNCHANGED <<links, hidden, calls, captured, doomed, replaced>>, unlucky \subseteq unlucky',
         data' \in Seq(Seq(Prompts)), Grows(data, data'), Len(data') = Len(data),
         put' = [put EXCEPT ![p] = NoPut],
         NEW seen \in Source(p).seen .. Len(data[Source(p).fd]), Settle(p, seen),
         \A i : i = Source(p).fd =>
           /\ \A k \in Promised(p) : Safe(k, i)'
           /\ \A j \in Source(p).seen + 1 .. seen : \A k : k = data[i][j] => Safe(k, i)'
  PROVE  HInv'
<1>1. PICK r :
    /\ Goes(p, r) /\ Shape(p, r, data', doomed, calls)
    /\ r.pc \in {"sweep", "idle", "merge", "remove"} /\ Todo(r) \subseteq Taken
    /\ Merged(r) # {} => r.call = proc[p].call
    /\ \A b \in Merged(r) :
         \/ b \in Merged(proc[p])
         \/ /\ proc[p].pc = "merge" /\ b.fd = Source(p).fd /\ b.seen = seen
            /\ Source(p) \in Merged(proc[p])
  BY Settled
<1>2. proc' = [proc EXCEPT ![p] = proc'[p]] /\ proc'[p] = r
  BY <1>1, GoesTo
<1>3. Shape(p, proc[p], data, doomed, calls) /\ data \in Seq(Seq(Prompts))
      /\ \A m \in DOMAIN links : links[m] \in 1 .. Len(data)
  BY DEF HInv, ProcsKnown, DataKnown
<1>4. FilesGrow
  BY <1>3 DEF FilesGrow
<1>5. Lost \subseteq Lost' /\ hidden' \subseteq doomed' /\ doomed \subseteq doomed' /\ calls' \subseteq calls
  BY DEF Lost, HInv, DataKnown
<1>6. Shape(p, proc'[p], data', doomed', calls')
  BY <1>1, <1>2
<1>7. put'[p] = NoPut /\ put' = [put EXCEPT ![p] = put'[p]] /\ PutShape(proc'[p], put'[p], data')
  BY DEF HInv, PutsKnown, PutShape
<1>8. ASSUME Draining(p), NEW j, j = proc[p].of.fd, NEW k \in Promised(p) PROVE Safe(k, j)'
  <2>1. Source(p) = proc[p].of
    BY <1>8 DEF Draining, Source, At
  <2> QED BY <1>8, <2>1
<1>9. ASSUME NEW c \in Merged(proc'[p])
      PROVE  \E d \in Merged(proc[p]) :
               /\ c.fd = d.fd /\ d.seen <= c.seen
               /\ \A j \in d.seen + 1 .. c.seen : Safe(data[c.fd][j], c.fd)'
  <2>1. CASE c \in Merged(proc[p])
    <3>1. Part(c, data)
      BY <1>3, <2>1, MergedKnown
    <3>2. c.seen \in Nat
      BY <1>3, <3>1 DEF Part
    <3>3. c.seen <= c.seen /\ \A j : j \notin c.seen + 1 .. c.seen
      BY <3>2
    <3> QED BY <2>1, <3>3
  <2>2. CASE proc[p].pc = "merge" /\ c.fd = Source(p).fd /\ c.seen = seen
             /\ Source(p) \in Merged(proc[p])
    <3>1. PICK d : d = Source(p)
      OBVIOUS
    <3>2. d \in Merged(proc[p]) /\ c.fd = d.fd /\ c.seen = seen
      BY <2>2, <3>1
    <3>3. Part(d, data) /\ d.fd \in 1 .. Len(data) /\ d.seen \in Nat /\ Len(data[d.fd]) \in Nat
      <4>1. Part(d, data)
        BY <1>3, <3>2, MergedKnown
      <4> QED BY <1>3, <4>1 DEF Part
    <3>4. d.seen <= c.seen /\ c.seen \in Nat /\ c.seen <= Len(data[d.fd])
      BY <3>1, <3>2, <3>3
    <3>5. ASSUME NEW j \in d.seen + 1 .. c.seen PROVE Safe(data[c.fd][j], c.fd)'
      <4>1. PICK k : k = data[d.fd][j]
        OBVIOUS
      <4>2. PICK i : i = d.fd
        OBVIOUS
      <4>3. Safe(k, i)'
        BY <3>1, <3>2, <3>5, <4>1, <4>2
      <4>4. j \in 1 .. Len(data[d.fd])
        BY <3>3, <3>4, <3>5
      <4>5. data'[c.fd][j] = k
        BY <3>2, <3>3, <4>1, <4>4 DEF Grows
      <4> QED BY <3>2, <4>2, <4>3, <4>5 DEF Safe
    <3> QED BY <3>2, <3>4, <3>5
  <2> QED BY <1>1, <1>2, <2>1, <2>2
<1>10. /\ Merged(proc'[p]) # {} => proc'[p].call = proc[p].call
       /\ proc'[p].pc \notin {"carry", "open", "claim"} /\ Todo(proc'[p]) \subseteq Taken
  BY <1>1, <1>2
<1>11. \A m \in DOMAIN links' : m \in Taken
  BY DEF Taken
<1>12. UNCHANGED captured /\ \A m \in DOMAIN links : m \in DOMAIN links' /\ links'[m] = links[m]
  OBVIOUS
<1> QED BY <1>2, <1>4, <1>5, <1>6, <1>7, <1>8, <1>9, <1>10, <1>11, <1>12, GrowStep

\* Where the late lines come from, and how far they were read.
LEMMA AtHand ==
  ASSUME HInv, NEW p \in Instances, put[p] # NoPut
  PROVE  /\ InHand(proc[p], put[p], data) /\ Source(p) = SourceOf(proc[p])
         /\ proc[p].pc \in {"carry", "merge", "drain"} /\ Part(Source(p), data)
         /\ Raw(p) = RawIn(Source(p), put[p], data)
         /\ Raw(p) \in Seq(Prompts) /\ Range(Raw(p)) \subseteq Prompts
         /\ \A k : k \in Range(Raw(p)) <=>
                     \E j \in Source(p).seen + 1 .. put[p].upto : data[Source(p).fd][j] = k
         /\ Draining(p) => Promised(p) = Range(Raw(p))
<1>1. InHand(proc[p], put[p], data) /\ Source(p) = SourceOf(proc[p])
      /\ proc[p].pc \in {"carry", "merge", "drain"}
  BY DEF HInv, PutsKnown, PutShape, InHand, Source, SourceOf, At
<1>2. Part(Source(p), data)
  BY <1>1, SourceKnown DEF HInv, ProcsKnown
<1>3. Raw(p) = RawIn(Source(p), put[p], data)
  BY DEF Raw, RawIn
<1>4. put[p].upto \in Source(p).seen .. Len(data[Source(p).fd])
  BY <1>1 DEF InHand
<1>5. /\ Raw(p) \in Seq(Prompts)
      /\ \A k : k \in Range(Raw(p)) <=>
                  \E j \in Source(p).seen + 1 .. put[p].upto : data[Source(p).fd][j] = k
  <2>1. PICK o : o = Source(p)
    OBVIOUS
  <2>2. PICK w : w = put[p]
    OBVIOUS
  <2>3. /\ RawIn(o, w, data) \in Seq(Prompts)
        /\ \A k : k \in Range(RawIn(o, w, data)) <=> \E j \in o.seen + 1 .. w.upto : data[o.fd][j] = k
    <3>1. data \in Seq(Seq(Prompts))
      BY DEF HInv, DataKnown
    <3>2. Part(o, data) /\ w.upto \in o.seen .. Len(data[o.fd])
      BY <1>2, <1>4, <2>1, <2>2
    <3> HIDE DEF RawIn
    <3> QED BY <3>1, <3>2, RawOf
  <2> QED BY <1>3, <2>1, <2>2, <2>3
<1>6. Range(Raw(p)) \subseteq Prompts
  BY <1>5 DEF Range
<1>7. Draining(p) => Promised(p) = Range(Raw(p))
  BY DEF Promised
<1> QED BY <1>1, <1>2, <1>3, <1>5, <1>6, <1>7

LEMMA NoGrowth ==
  ASSUME HInv, UNCHANGED <<links, data>>
  PROVE  /\ FilesGrow /\ data \in Seq(Seq(Prompts))
         /\ \A m \in DOMAIN links : m \in DOMAIN links' /\ links'[m] = links[m]
         /\ \A m \in DOMAIN links' : m \in Taken
<1>1. data \in Seq(Seq(Prompts)) /\ \A m \in DOMAIN links : links[m] \in 1 .. Len(data)
  BY DEF HInv, DataKnown
<1>2. \A i \in 1 .. Len(data) : data[i] \in Seq(Prompts)
  BY <1>1
<1>3. Grows(data, data)
  BY <1>1, <1>2 DEF Grows
<1> QED BY <1>1, <1>3 DEF FilesGrow, Taken

LEMMA HInvReadLate == ASSUME HInv, NEW p \in Instances, ReadLate(p) PROVE HInv'
<1>1. /\ proc[p].pc \in {"carry", "merge", "drain"} /\ put[p] = NoPut
      /\ UNCHANGED <<links, data, hidden, calls, captured, doomed, unlucky, replaced>>
  BY DEF ReadLate
<1>2. PICK o : o = Source(p)
  OBVIOUS
<1>3. Part(o, data) /\ o = SourceOf(proc[p])
  <2>1. o = SourceOf(proc[p])
    BY <1>2 DEF Source, SourceOf, At
  <2> QED BY <1>1, <2>1, SourceKnown DEF HInv, ProcsKnown
<1>4. /\ data \in Seq(Seq(Prompts)) /\ FilesGrow
      /\ \A m \in DOMAIN links : m \in DOMAIN links' /\ links'[m] = links[m]
      /\ \A m \in DOMAIN links' : m \in Taken
  BY <1>1, NoGrowth
<1>5. o.seen \in Nat /\ Len(data[o.fd]) \in Nat /\ o.seen <= Len(data[o.fd])
  <2>1. o.fd \in 1 .. Len(data)
    BY <1>3 DEF Part
  <2> QED BY <1>3, <1>4, <2>1 DEF Part
<1>6. Draining(p) => Promised(p) = Range(Late(o))
  BY <1>1, <1>2 DEF Promised, Draining, Source, At
<1>7. CASE Late(o) = <<>>
  <2>1. Settle(p, o.seen) /\ put' = put
    BY <1>2, <1>7 DEF ReadLate
  <2>2. put' = [put EXCEPT ![p] = NoPut]
    BY <1>1, <2>1 DEF HInv, PutsKnown
  <2>3. \A k : k \notin Promised(p)
    BY <1>6, <1>7, NoLate DEF Promised
  <2>4. \A j : j \notin o.seen + 1 .. o.seen
    BY <1>5
  <2>5. o.seen \in o.seen .. Len(data[o.fd])
    BY <1>5
  <2>6. Grows(data, data')
    BY <1>4 DEF FilesGrow
  <2> QED BY <1>1, <1>2, <1>4, <2>1, <2>2, <2>3, <2>4, <2>5, <2>6, Dealt
<1>8. CASE Late(o) # <<>>
  <2>1. PICK w : w = [upto |-> Len(data[o.fd]), fd |-> 0, last |-> FALSE]
    OBVIOUS
  <2>2. put' = [put EXCEPT ![p] = w] /\ proc' = proc
    BY <1>2, <1>8, <2>1 DEF ReadLate, Puts
  <2>3. put'[p] = w /\ put' = [put EXCEPT ![p] = put'[p]]
    BY <2>2 DEF HInv, PutsKnown
  <2>4. w.upto = Len(data[o.fd]) /\ w.fd = 0 /\ w.last = FALSE
        /\ w = [upto |-> w.upto, fd |-> w.fd, last |-> w.last]
    BY <2>1
  <2>5. PutShape(proc[p], put'[p], data')
    <3>1. w.upto \in o.seen .. Len(data[o.fd])
      BY <1>5, <2>4
    <3>2. InHand(proc[p], w, data)
      BY <1>1, <1>3, <2>4, <3>1 DEF InHand
    <3> QED BY <1>1, <2>3, <3>2 DEF PutShape
  <2>6. ASSUME Draining(p) PROVE Promised(p) \subseteq Promised(p)'
    <3>1. Draining(p)' /\ proc[p].of = o
      BY <1>2, <2>2, <2>6 DEF Draining, Source, At
    <3>2. Promised(p)' = PromisedIn(proc[p], w, data)
      BY <1>1, <2>2, <2>3, <3>1, PromisedNext
    <3>3. w # NoPut
      BY <2>1 DEF NoPut
    <3>4. PromisedIn(proc[p], w, data) = Range(RawIn(o, w, data))
      BY <3>1, <3>3 DEF PromisedIn
    <3>5. RawIn(o, w, data) = Late(o)
      BY <2>4 DEF RawIn, Late
    <3> QED BY <1>6, <2>6, <3>2, <3>4, <3>5
  <2> QED BY <1>1, <1>4, <2>2, <2>3, <2>5, <2>6, Holding
<1> QED BY <1>7, <1>8

\* The file that is opened is younger than the one that was read.
LEMMA TargetNewer ==
  ASSUME HInv, NEW p \in Instances, put[p] # NoPut, ~put[p].last
  PROVE  Newer(Target(p), Source(p).fd, links)
<1>1. InHand(proc[p], put[p], data) /\ Source(p) = SourceOf(proc[p])
      /\ proc[p].pc \in {"carry", "merge", "drain"}
  BY AtHand
<1>2. Ordered(proc[p], links)
  BY DEF HInv, TargetsNewer
<1>3. CASE proc[p].pc = "carry"
  BY <1>1, <1>2, <1>3 DEF Ordered, Target, At, SourceOf
<1>4. CASE proc[p].pc \in {"merge", "drain"}
  <2>1. Target(p) = Compacted(proc[p].call)
    BY <1>4 DEF Target, At
  <2>2. SourceOf(proc[p]) \in Merged(proc[p])
    <3>1. CASE proc[p].pc = "merge"
      <4>1. proc[p].claims # {}
        BY <3>1, ByPc DEF HInv, ProcsKnown, Proceed
      <4> QED BY <3>1, <4>1 DEF SourceOf, Following, Merged
    <3>2. CASE proc[p].pc = "drain"
      BY <3>2 DEF SourceOf, Merged
    <3> QED BY <1>4, <3>1, <3>2
  <2> QED BY <1>1, <1>2, <2>1, <2>2 DEF Ordered
<1> QED BY <1>1, <1>3, <1>4

\* The name it is created under is taken, or the call's own.
LEMMA TargetOwn ==
  ASSUME HInv, NEW p \in Instances, put[p] # NoPut
  PROVE  \/ Target(p) \in Taken
         \/ Reserved(Target(p)) => CallOf(Target(p))[1] = p /\ CallOf(Target(p)) \notin calls
<1>1. InHand(proc[p], put[p], data) /\ proc[p].pc \in {"carry", "merge", "drain"}
  BY AtHand
<1>2. CASE proc[p].pc = "carry" /\ put[p].last
  BY <1>2 DEF Target, At, Sibling, Reserved
<1>3. CASE proc[p].pc = "carry" /\ ~put[p].last
  BY <1>3 DEF Target, At, Taken, Todo
<1>4. CASE proc[p].pc \in {"merge", "drain"}
  <2>1. Compaction(p, proc[p], data, doomed, calls) /\ (proc[p].pc = "drain" => Drop(proc[p], data))
    BY <1>4, ByPc DEF HInv, ProcsKnown
  <2>2. CASE proc[p].pc = "drain" /\ put[p].last
    <3>1. Target(p) = proc[p].of.name /\ proc[p].of.name = Claimed(proc[p].of.name[2], proc[p].call)
      BY <2>1, <2>2 DEF Target, At, Drop
    <3>2. CallOf(Target(p)) = proc[p].call
      BY <3>1 DEF CallOf, Claimed
    <3> QED BY <2>1, <3>2 DEF Compaction
  <2>3. CASE ~(proc[p].pc = "drain" /\ put[p].last)
    <3>1. Target(p) = Compacted(proc[p].call)
      BY <1>4, <2>3 DEF Target, At
    <3>2. CallOf(Target(p)) = proc[p].call
      BY <3>1 DEF CallOf, Compacted
    <3> QED BY <2>1, <3>2 DEF Compaction
  <2> QED BY <2>2, <2>3
<1> QED BY <1>1, <1>2, <1>3, <1>4

LEMMA HInvOpenTarget == ASSUME HInv, NEW p \in Instances, OpenTarget(p) PROVE HInv'
<1>1. /\ put[p] # NoPut /\ put[p].fd = 0
      /\ UNCHANGED <<hidden, proc, calls, captured, doomed, unlucky, replaced>>
  BY DEF OpenTarget
<1>2. PICK n : n = Target(p)
  OBVIOUS
<1>3. PICK w : w = [put[p] EXCEPT !.fd = links'[n]]
  OBVIOUS
<1>4. PICK o : o = Source(p)
  OBVIOUS
<1>5. /\ IF n \in DOMAIN links THEN ~put[p].last /\ UNCHANGED <<links, data>> ELSE PutFile(n, <<>>)
      /\ put' = [put EXCEPT ![p] = w]
  BY <1>2, <1>3 DEF OpenTarget, Puts
<1>6. /\ InHand(proc[p], put[p], data) /\ o = SourceOf(proc[p])
      /\ proc[p].pc \in {"carry", "merge", "drain"} /\ Part(o, data)
  BY <1>1, <1>4, AtHand
<1>7. w = [upto |-> put[p].upto, fd |-> links'[n], last |-> put[p].last]
  BY <1>3, <1>6 DEF InHand
<1>8. w.upto = put[p].upto /\ w.fd = links'[n] /\ w.last = put[p].last /\ w # NoPut
      /\ w = [upto |-> w.upto, fd |-> w.fd, last |-> w.last]
  BY <1>7 DEF NoPut
<1>9. put'[p] = w /\ put' = [put EXCEPT ![p] = put'[p]]
  BY <1>5 DEF HInv, PutsKnown
<1>10. /\ data \in Seq(Seq(Prompts)) /\ Len(data) \in Nat /\ DataKnown
       /\ \A m \in DOMAIN links : links[m] \in 1 .. Len(data)
       /\ o.fd \in 1 .. Len(data)
  BY <1>6 DEF HInv, DataKnown, Part
<1>11. /\ FilesGrow /\ DOMAIN links' \subseteq DOMAIN links \cup {n}
       /\ \A m \in DOMAIN links : m \in DOMAIN links' /\ links'[m] = links[m]
       /\ links'[n] \in 1 .. Len(data') /\ links'[n] > o.fd
  <2>1. CASE n \in DOMAIN links
    <3>1. UNCHANGED <<links, data>> /\ ~put[p].last
      BY <1>5, <2>1
    <3>2. Newer(n, o.fd, links)
      BY <1>1, <1>2, <1>4, <3>1, TargetNewer
    <3> QED BY <1>10, <2>1, <3>1, <3>2, NoGrowth DEF Newer
  <2>2. CASE n \notin DOMAIN links
    <3>1. PutFile(n, <<>>) /\ <<>> \in Seq(Prompts)
      BY <1>5, <2>2
    <3>2. /\ FilesGrow /\ DOMAIN links' = DOMAIN links \cup {n} /\ links'[n] = Len(data) + 1
          /\ \A m \in DOMAIN links : links'[m] = links[m]
      BY <1>10, <2>2, <3>1, PutKnown
    <3>3. links'[n] \in 1 .. Len(data')
      BY <3>2 DEF FilesGrow
    <3> QED BY <1>10, <3>2, <3>3
  <2> QED BY <2>1, <2>2
<1>12. data' \in Seq(Seq(Prompts)) /\ Grows(data, data')
  BY <1>11 DEF FilesGrow
<1>13. PutShape(proc[p], put[p], data') /\ InHand(proc[p], put[p], data')
       /\ (proc[p].pc \in {"carry", "drain"} =>
            PromisedIn(proc[p], put[p], data) \subseteq PromisedIn(proc[p], put[p], data'))
  <2>1. PutShape(proc[p], put[p], data) /\ Part(SourceOf(proc[p]), data)
    BY <1>6 DEF PutShape
  <2>2. PutShape(proc[p], put[p], data')
        /\ (proc[p].pc \in {"carry", "drain"} =>
             PromisedIn(proc[p], put[p], data) \subseteq PromisedIn(proc[p], put[p], data'))
    BY <1>10, <1>12, <2>1, HandGrows
  <2> QED BY <1>1, <2>2 DEF PutShape
<1>14. PutShape(proc[p], put'[p], data')
  BY <1>6, <1>8, <1>9, <1>11, <1>13 DEF PutShape, InHand
<1>15. ASSUME Draining(p) PROVE Promised(p) \subseteq Promised(p)'
  <2>1. Draining(p)' /\ proc[p].pc \in {"carry", "drain"}
    BY <1>1, <1>15 DEF Draining
  <2>2. Promised(p)' = PromisedIn(proc[p], w, data') /\ Promised(p) = PromisedIn(proc[p], put[p], data)
    BY <1>1, <1>9, <1>15, <2>1, PromisedIs, PromisedNext
  <2>3. PromisedIn(proc[p], w, data') = PromisedIn(proc[p], put[p], data')
    BY <1>1, <1>8 DEF PromisedIn, RawIn
  <2> QED BY <1>13, <2>1, <2>2, <2>3
<1>16. \A m \in DOMAIN links' :
         m \in Taken \/ (Reserved(m) => CallOf(m)[1] = p /\ CallOf(m) \notin calls')
  <2>1. \/ n \in Taken
        \/ Reserved(n) => CallOf(n)[1] = p /\ CallOf(n) \notin calls
    BY <1>1, <1>2, TargetOwn
  <2> QED BY <1>1, <1>11, <2>1 DEF Taken
<1> QED BY <1>1, <1>6, <1>9, <1>11, <1>14, <1>15, <1>16, Holding

LEMMA HInvWriteTarget == ASSUME HInv, NEW p \in Instances, WriteTarget(p) PROVE HInv'
<1>1. /\ put[p] # NoPut /\ put[p].fd # 0 /\ Settle(p, put[p].upto) /\ put' = [put EXCEPT ![p] = NoPut]
      /\ UNCHANGED <<links, hidden, calls, captured, doomed, replaced>>
  BY DEF WriteTarget, Puts
<1>2. PICK i : i = put[p].fd
  OBVIOUS
<1>3. PICK lines : lines = Appended(p)
  OBVIOUS
<1>4. PICK o : o = Source(p)
  OBVIOUS
<1>5. /\ InHand(proc[p], put[p], data) /\ o = SourceOf(proc[p])
      /\ proc[p].pc \in {"carry", "merge", "drain"} /\ Part(o, data)
      /\ Raw(p) \in Seq(Prompts) /\ Range(Raw(p)) \subseteq Prompts
      /\ \A k : k \in Range(Raw(p)) <=> \E j \in o.seen + 1 .. put[p].upto : data[o.fd][j] = k
      /\ Draining(p) => Promised(p) = Range(Raw(p))
  BY <1>1, <1>4, AtHand
<1>6. /\ data' = [data EXCEPT ![i] = data[i] \o lines] /\ unlucky \subseteq unlucky'
      /\ i \in Linked \cup {h.fd : h \in Held} \/ Range(lines) \subseteq unlucky'
  BY <1>2, <1>3 DEF WriteTarget
<1>7. i \in 1 .. Len(data) /\ i > o.fd /\ put[p].upto \in o.seen .. Len(data[o.fd])
  BY <1>1, <1>2, <1>5 DEF InHand
<1>8. lines \in Seq(Prompts) /\ Range(Raw(p)) \subseteq Range(lines) \cup doomed
  <2>1. CASE lines = Raw(p)
    BY <1>5, <2>1
  <2>2. CASE proc[p].pc \in {"merge", "drain"} /\ lines = Visible(Range(Raw(p)), proc[p].keys)
    <3>1. IsFiniteSet(Range(Raw(p)))
      BY <1>5, FiniteRange
    <3>2. lines \in Seq(Prompts) /\ Range(lines) = Range(Raw(p)) \ proc[p].keys
      BY <1>5, <2>2, <3>1, VisibleKnown
    <3>3. proc[p].keys \subseteq doomed
      BY <2>2, ByPc DEF HInv, ProcsKnown, Compaction
    <3> QED BY <3>2, <3>3
  <2> QED BY <1>3, <1>5, <2>1, <2>2 DEF Appended, At
<1>9. /\ data \in Seq(Seq(Prompts)) /\ Len(data) \in Nat
      /\ \A n \in DOMAIN links : links[n] \in 1 .. Len(data)
  BY DEF HInv, DataKnown
<1>10. data' \in Seq(Seq(Prompts)) /\ Grows(data, data') /\ Len(data') = Len(data)
  BY <1>6, <1>7, <1>8, <1>9, LongerInode
<1>11. Regular(p) /\ PutShape(proc'[p], put'[p], data')
  <2>1. \E r : Goes(p, r)
    BY <1>1, <1>4, <1>5, <1>7, <1>10, Settled
  <2>2. proc' = [proc EXCEPT ![p] = proc'[p]]
    BY <2>1, GoesTo
  <2>3. put'[p] = NoPut /\ put' = [put EXCEPT ![p] = put'[p]]
    BY <1>1 DEF HInv, PutsKnown
  <2>4. FilesGrow
    BY <1>1, <1>9, <1>10 DEF FilesGrow
  <2>5. Lost \subseteq Lost' /\ hidden' \subseteq doomed' /\ doomed \subseteq doomed' /\ calls' \subseteq calls
    BY <1>1, <1>6 DEF Lost, HInv, DataKnown
  <2> QED BY <2>2, <2>3, <2>4, <2>5, RegularWrite DEF PutShape
<1>12. ASSUME NEW k \in Range(Raw(p)), NEW f, f = o.fd PROVE Safe(k, f)'
  <2>1. CASE k \in doomed
    BY <1>1, <2>1 DEF Safe, Lost
  <2>2. CASE k \in Range(lines)
    <3>1. i \in Linked \cup {h.fd : h \in Held} \/ k \in Lost'
      BY <1>6, <2>2 DEF Lost
    <3>2. f \in Nat /\ f < i
      BY <1>5, <1>7, <1>12 DEF Part
    <3> QED BY <1>1, <1>6, <1>7, <1>8, <1>11, <2>2, <3>1, <3>2, LandsSafe
  <2> QED BY <1>8, <1>12, <2>1, <2>2
<1>13. \A f : f = o.fd =>
         /\ \A k \in Promised(p) : Safe(k, f)'
         /\ \A j \in o.seen + 1 .. put[p].upto : \A k : k = data[f][j] => Safe(k, f)'
  <2>1. ASSUME NEW f, f = o.fd, NEW k \in Promised(p) PROVE Safe(k, f)'
    <3>1. k \in Range(Raw(p))
      BY <1>5, <2>1 DEF Promised
    <3> QED BY <1>12, <2>1, <3>1
  <2>2. ASSUME NEW f, f = o.fd, NEW j \in o.seen + 1 .. put[p].upto, NEW k, k = data[f][j]
        PROVE  Safe(k, f)'
    <3>1. k \in Range(Raw(p))
      BY <1>5, <2>2
    <3> QED BY <1>12, <2>2, <3>1
  <2> QED BY <2>1, <2>2
<1>14. PICK seen : seen = put[p].upto
  OBVIOUS
<1> QED BY <1>1, <1>4, <1>5, <1>6, <1>7, <1>10, <1>13, <1>14, Dealt

LEMMA HInvAppendFails == ASSUME HInv, NEW p \in Instances, AppendFails(p) PROVE HInv'
<1>1. /\ put[p] # NoPut /\ ~put[p].last
      /\ UNCHANGED <<links, data, hidden, calls, captured, doomed, unlucky, replaced>>
  BY DEF AppendFails
<1>2. PICK o : o = Source(p)
  OBVIOUS
<1>3. /\ InHand(proc[p], put[p], data) /\ o = SourceOf(proc[p])
      /\ proc[p].pc \in {"carry", "merge", "drain"} /\ Part(o, data)
  BY <1>1, <1>2, AtHand
<1>4. CASE proc[p].pc = "merge"
  <2>1. Merging(p, proc[p].claims \ {o}) /\ put' = [put EXCEPT ![p] = NoPut]
    BY <1>2, <1>4 DEF AppendFails, At, Puts
  <2>2. ~Draining(p) /\ proc[p].claims \ {o} \subseteq proc[p].claims
    BY <1>4 DEF Draining
  <2> QED BY <1>1, <1>4, <2>1, <2>2, QuietMerging
<1>5. CASE proc[p].pc \in {"carry", "drain"}
  <2>1. PICK w : w = [put[p] EXCEPT !.fd = 0, !.last = TRUE]
    OBVIOUS
  <2>2. put' = [put EXCEPT ![p] = w] /\ proc' = proc
    BY <1>5, <2>1 DEF AppendFails, At, Puts
  <2>3. put'[p] = w /\ put' = [put EXCEPT ![p] = put'[p]]
    BY <2>2 DEF HInv, PutsKnown
  <2>4. w = [upto |-> put[p].upto, fd |-> 0, last |-> TRUE]
    BY <1>3, <2>1 DEF InHand
  <2>5. w.upto = put[p].upto /\ w.fd = 0 /\ w.last = TRUE /\ w # NoPut
        /\ w = [upto |-> w.upto, fd |-> w.fd, last |-> w.last]
    BY <2>4 DEF NoPut
  <2>6. PutShape(proc[p], put'[p], data')
    BY <1>1, <1>3, <1>5, <2>3, <2>5 DEF PutShape, InHand
  <2>7. ASSUME Draining(p) PROVE Promised(p) \subseteq Promised(p)'
    <3>1. Draining(p)'
      BY <2>2, <2>7 DEF Draining
    <3>2. Promised(p)' = PromisedIn(proc[p], w, data) /\ Promised(p) = PromisedIn(proc[p], put[p], data)
      BY <1>1, <2>2, <2>3, <2>7, <3>1, PromisedIs, PromisedNext
    <3> QED BY <1>1, <2>5, <3>2 DEF PromisedIn, RawIn
  <2>8. /\ FilesGrow
        /\ \A m \in DOMAIN links : m \in DOMAIN links' /\ links'[m] = links[m]
        /\ \A m \in DOMAIN links' : m \in Taken
    BY <1>1, NoGrowth
  <2> QED BY <1>1, <1>3, <2>2, <2>3, <2>6, <2>7, <2>8, Holding
<1> QED BY <1>3, <1>4, <1>5

LEMMA HInvGivesUp == ASSUME HInv, NEW p \in Instances, GivesUp(p) PROVE HInv'
<1>1. /\ put[p] # NoPut /\ put[p].last /\ Settle(p, put[p].upto) /\ put' = [put EXCEPT ![p] = NoPut]
      /\ unlucky' = unlucky \cup Range(Raw(p))
      /\ UNCHANGED <<links, data, hidden, calls, captured, doomed, replaced>>
  BY DEF GivesUp, Puts
<1>2. PICK o : o = Source(p)
  OBVIOUS
<1>3. /\ InHand(proc[p], put[p], data) /\ proc[p].pc \in {"carry", "merge", "drain"}
      /\ o = SourceOf(proc[p])
      /\ \A k : k \in Range(Raw(p)) <=> \E j \in o.seen + 1 .. put[p].upto : data[o.fd][j] = k
      /\ Draining(p) => Promised(p) = Range(Raw(p))
  BY <1>1, <1>2, AtHand
<1>4. put[p].upto \in o.seen .. Len(data[o.fd])
  BY <1>3 DEF InHand
<1>5. ASSUME NEW f, NEW k \in Range(Raw(p)) PROVE Safe(k, f)'
  BY <1>1, <1>5 DEF Safe, Lost
<1>6. \A f : f = o.fd =>
        /\ \A k \in Promised(p) : Safe(k, f)'
        /\ \A j \in o.seen + 1 .. put[p].upto : \A k : k = data[f][j] => Safe(k, f)'
  <2>1. \A k \in Promised(p) : k \in Range(Raw(p))
    BY <1>3 DEF Promised
  <2> QED BY <1>3, <1>5, <2>1
<1>7. data \in Seq(Seq(Prompts)) /\ Grows(data, data')
  BY <1>1, NoGrowth DEF FilesGrow
<1>8. PICK seen : seen = put[p].upto
  OBVIOUS
<1> QED BY <1>1, <1>2, <1>3, <1>4, <1>6, <1>7, <1>8, Dealt

LEMMA HInvCaptureWrite == ASSUME HInv, NEW p \in Instances, CaptureWrite(p) PROVE HInv'
<1> DEFINE me == proc[p]
<1>1. /\ me.pc = "write" /\ Goes(p, AtRest) /\ captured' = captured \cup {me.line}
      /\ data' = [data EXCEPT ![me.fd] = Append(data[me.fd], me.line)]
      /\ UNCHANGED <<links, hidden, put, calls, doomed, replaced>>
  BY DEF CaptureWrite, At
<1>2. /\ data \in Seq(Seq(Prompts)) /\ Len(data) \in Nat
      /\ \A n \in DOMAIN links : links[n] \in 1 .. Len(data)
  BY DEF HInv, DataKnown
<1>3. me.fd \in 1 .. Len(data) /\ me.line \in Prompts
  BY <1>1, ByPc DEF HInv, ProcsKnown, Writing
<1>4. PICK i : i = me.fd
  OBVIOUS
<1>5. data' = [data EXCEPT ![i] = data[i] \o <<me.line>>] /\ <<me.line>> \in Seq(Prompts)
  <2>1. data[i] \in Seq(Prompts)
    BY <1>2, <1>3, <1>4
  <2>2. Append(data[i], me.line) = data[i] \o <<me.line>>
    BY <1>3, <2>1
  <2> QED BY <1>1, <1>3, <1>4, <2>2
<1>6. /\ data' \in Seq(Seq(Prompts)) /\ Grows(data, data') /\ Len(data') = Len(data)
      /\ Range(data'[i]) = Range(data[i]) \cup Range(<<me.line>>)
  BY <1>2, <1>3, <1>4, <1>5, LongerInode
<1>7. FilesGrow
  BY <1>1, <1>2, <1>6 DEF FilesGrow
<1>8. unlucky \subseteq unlucky'
  BY DEF CaptureWrite
<1>9. Regular(p) /\ PutShape(proc'[p], put'[p], data')
  BY <1>1, <1>7, <1>8, RegularCall DEF Lost, HInv, DataKnown
<1>10. /\ proc'[p] = AtRest /\ Merged(AtRest) = {} /\ AtRest.pc = "idle"
       /\ Todo(AtRest) = {} /\ \A taken : Free(AtRest, taken)
  BY <1>1, GoesTo, FreeAtRest DEF Merged
<1>11. Shape(p, proc'[p], data', doomed', calls')
  BY <1>10 DEF Shape
<1>12. \A j \in Nat : \A k : Safe(k, j) => Safe(k, j)'
  <2>1. ~Draining(p)
    BY <1>1 DEF Draining
  <2> QED BY <1>1, <1>9, <1>11, <2>1, GrowthSafe
<1>13. PICK x : x = me.line
  OBVIOUS
<1>14. Safe(x, 0)'
  <2>1. x \in Range(<<me.line>>)
    BY <1>13 DEF Range
  <2>2. i \in Linked \cup {h.fd : h \in Held} \/ x \in Lost'
    BY <1>4, <1>13 DEF CaptureWrite, Lost
  <2>3. i \in 1 .. Len(data) /\ 0 \in Nat /\ 0 < i
    BY <1>2, <1>3, <1>4
  <2>4. ~Draining(p)
    BY <1>1 DEF Draining
  <2>5. PICK lines \in Seq(Prompts) : lines = <<me.line>>
    BY <1>5
  <2>6. data' = [data EXCEPT ![i] = data[i] \o lines] /\ x \in Range(lines)
    BY <1>5, <2>1, <2>5
  <2> HIDE DEF me
  <2> QED BY <1>1, <1>9, <2>2, <2>3, <2>4, <2>6, LandsSafe
<1>15. \A k \in captured' : k \in captured \/ Safe(k, 0)'
  BY <1>1, <1>13, <1>14
<1>16. /\ Ordered(proc'[p], links') /\ Free(proc'[p], Taken')
       /\ \A c \in Merged(proc'[p]) : \A j \in 1 .. c.seen : Safe(data[c.fd][j], c.fd)'
  BY <1>10 DEF Ordered
<1>17. \A n \in DOMAIN links' \cup Todo(proc'[p]) : n \in Taken
  BY <1>1, <1>10 DEF Taken
<1> QED BY <1>9, <1>11, <1>12, <1>15, <1>16, <1>17, StepKept

LEMMA HInvSweepReplace == ASSUME HInv, NEW p \in Instances, SweepReplace(p) PROVE HInv'
<1> DEFINE me == proc[p]
<1>1. me.pc = "replace" /\ UNCHANGED <<hidden, put, calls, captured, doomed, unlucky>>
  BY DEF SweepReplace, At
<1>2. Shape(p, me, data, doomed, calls) /\ DataKnown /\ data \in Seq(Seq(Prompts)) /\ hidden \subseteq doomed
  BY DEF HInv, ProcsKnown, DataKnown
<1>3. Part(me.of, data) /\ me.key \in doomed
  BY <1>1, <1>2, ByPc DEF Rewrite
<1>4. CASE NextFile(p) /\ UNCHANGED <<links, data, replaced>>
  <2>1. me.todo \subseteq Todo(me)
    BY <1>1 DEF Todo
  <2> QED BY <1>1, <1>4, <2>1, CalmSweep DEF NextFile
<1>5. PICK o : o = me.of
  OBVIOUS
<1>6. PICK old \in Seq(Prompts) :
        /\ old = SubSeq(data[o.fd], 1, o.seen)
        /\ \A k : k \in Range(old) <=> \E j \in 1 .. o.seen : data[o.fd][j] = k
  <2>1. data[o.fd] \in Seq(Prompts) /\ o.seen \in 0 .. Len(data[o.fd])
    BY <1>2, <1>3, <1>5 DEF Part
  <2> QED BY <2>1, PartOfSeq
<1>7. PICK lines : lines = Visible(Range(old), {me.key})
  OBVIOUS
<1>8. lines \in Seq(Prompts) /\ Range(lines) = Range(old) \ {me.key}
  <2>1. Range(old) \subseteq Prompts
    BY <1>6 DEF Range
  <2> QED BY <1>7, <2>1, FiniteRange, VisibleKnown
<1>9. CASE /\ PutFile(o.name, lines)
           /\ replaced' = IF o.name \in DOMAIN links /\ links[o.name] # o.fd
                          THEN replaced \cup Lines(links[o.name]) ELSE replaced
           /\ Goes(p, [pc |-> "carry", call |-> me.call, key |-> me.key, todo |-> me.todo, of |-> o])
  <2>1. /\ FilesGrow /\ DOMAIN links' = DOMAIN links \cup {o.name}
        /\ links'[o.name] = Len(data) + 1 /\ data'[Len(data) + 1] = lines
        /\ \A m \in DOMAIN links : m # o.name => links'[m] = links[m]
    BY <1>2, <1>8, <1>9, PutKnown
  <2>2. PICK r : r = [pc |-> "carry", call |-> me.call, key |-> me.key, todo |-> me.todo, of |-> o]
    OBVIOUS
  <2>3. /\ proc'[p] = r /\ r.pc = "carry" /\ r.of = o /\ r.key = me.key
        /\ Todo(r) = me.todo \cup {o.name} /\ Merged(r) = {} /\ \A taken : Free(r, taken)
    BY <1>9, <2>2, GoesTo DEF Todo, Merged, Free
  <2>4. replaced \subseteq replaced'
    BY <1>9
  <2>5. Regular(p) /\ put'[p] = NoPut /\ PutShape(proc'[p], put'[p], data') /\ ~Draining(p)
    <3>1. Goes(p, r)
      BY <1>9, <2>2
    <3> QED BY <1>1, <1>2, <2>1, <2>4, <3>1, RegularCall DEF Lost, Draining
  <2>6. Part(o, data') /\ Shape(p, proc'[p], data', doomed', calls')
    <3>1. Part(o, data')
      BY <1>2, <1>3, <1>5, <2>1, PartGrows DEF FilesGrow
    <3>2. r = [pc |-> r.pc, call |-> r.call, key |-> r.key, todo |-> r.todo, of |-> r.of]
      BY <2>2
    <3>3. Rewrite(r, data', doomed')
      BY <1>1, <1>3, <2>3, <3>1, <3>2 DEF Rewrite
    <3> QED BY <2>3, <3>1, <3>3 DEF Shape
  <2>7. /\ Draining(p)' /\ proc'[p].of = o /\ Promised(p)' = Range(LateIn(o, data'))
        /\ o.fd \in 1 .. Len(data)
    <3>1. Draining(p)' /\ proc'[p].of = o
      BY <2>3 DEF Draining
    <3> QED BY <1>3, <1>5, <2>5, <3>1, PromisedNext DEF PromisedIn, Part
  <2>8. ASSUME NEW i \in Nat, o.fd > i, NEW k \in Range(data[o.fd]) PROVE Safe(k, i)'
    <3>1. PICK j \in 1 .. Len(data[o.fd]) : data[o.fd][j] = k
      <4>1. data \in Seq(Seq(Prompts)) /\ o.fd \in 1 .. Len(data)
        BY <1>2, <2>7
      <4>2. \A x : x \in Range(data[o.fd]) <=> \E j \in 1 .. Len(data[o.fd]) : data[o.fd][j] = x
        BY <4>1, LinesOf
      <4> QED BY <4>2
    <3>2. CASE j <= o.seen
      <4>1. k \in Range(old)
        BY <1>3, <1>5, <1>6, <3>1, <3>2 DEF Part
      <4>2. CASE k = me.key
        BY <1>1, <1>3, <4>2 DEF Safe, Lost
      <4>3. CASE k # me.key
        <5>1. PICK l : l = Len(data) + 1
          OBVIOUS
        <5>2. l \in Linked' /\ k \in Range(data'[l])
          BY <1>8, <2>1, <4>1, <4>3, <5>1 DEF Linked
        <5>3. l > i
          BY <1>2, <2>7, <2>8, <5>1
        <5> QED BY <5>2, <5>3 DEF Safe, Lines
      <4> QED BY <4>2, <4>3
    <3>3. CASE ~ (j <= o.seen)
      <4>1. o.seen \in Nat /\ Len(data[o.fd]) \in Nat
        BY <1>2, <1>3, <1>5, <2>7 DEF Part
      <4>2. j \in o.seen + 1 .. Len(data[o.fd])
        BY <3>1, <3>3, <4>1
      <4>3. k \in Range(LateIn(o, data))
        <5>1. \A x : x \in Range(LateIn(o, data)) <=>
                       \E y \in o.seen + 1 .. Len(data[o.fd]) : data[o.fd][y] = x
          <6>1. data \in Seq(Seq(Prompts)) /\ Part(o, data)
            BY <1>2, <1>3, <1>5
          <6> QED BY <6>1, LateOf
        <5> QED BY <3>1, <4>2, <5>1
      <4>4. Range(LateIn(o, data)) \subseteq Range(LateIn(o, data'))
        BY <1>2, <1>3, <1>5, <2>1, LinesGrow DEF FilesGrow
      <4>5. Draining(p)' /\ proc'[p].of.fd > i /\ k \in Promised(p)'
        BY <2>7, <2>8, <4>3, <4>4
      <4> QED BY <4>5 DEF Safe
    <3> QED BY <3>2, <3>3
  <2>9. ASSUME NEW i \in Nat PROVE \A k : Safe(k, i) => Safe(k, i)'
    <3>1. ASSUME NEW n \in DOMAIN links, links[n] > i
          PROVE  links[n] \in Linked' \/ \A k \in Lines(links[n]) : Safe(k, i)'
      <4>1. CASE n # o.name
        BY <2>1, <4>1 DEF Linked
      <4>2. CASE n = o.name /\ links[n] # o.fd
        <5>1. Lines(links[n]) \subseteq replaced'
          BY <1>9, <4>2
        <5> QED BY <5>1 DEF Safe, Lost
      <4>3. CASE n = o.name /\ links[n] = o.fd
        BY <2>8, <3>1, <4>3 DEF Lines
      <4> QED BY <4>1, <4>2, <4>3
    <3> QED BY <2>5, <3>1, StepSafe
  <2>10. Ordered(proc'[p], links')
    <3>1. Len(data) + 1 > o.fd
      BY <1>2, <2>7
    <3> QED BY <2>1, <2>3, <3>1 DEF Ordered, Newer
  <2>11. \A n \in DOMAIN links' \cup Todo(proc'[p]) : n \in Taken
    <3>1. Todo(me) = me.todo \cup {o.name}
      BY <1>1, <1>5 DEF Todo
    <3> QED BY <2>1, <2>3, <3>1 DEF Taken
  <2>12. /\ Free(proc'[p], Taken')
         /\ \A c \in Merged(proc'[p]) : \A j \in 1 .. c.seen : Safe(data[c.fd][j], c.fd)'
         /\ \A k \in captured' : k \in captured \/ Safe(k, 0)'
    BY <1>1, <2>3
  <2> QED BY <2>5, <2>6, <2>9, <2>10, <2>11, <2>12, StepKept
<1> QED BY <1>4, <1>5, <1>6, <1>7, <1>9 DEF SweepReplace

LEMMA HInvClaim == ASSUME HInv, NEW p \in Instances, Claim(p) PROVE HInv'
<1> DEFINE me == proc[p]
           n == me.of.name
           c == Claimed(n, me.call)
<1>1. me.pc = "claim" /\ UNCHANGED <<data, hidden, put, calls, captured, doomed, unlucky, replaced>>
  BY DEF Claim, At
<1>2. /\ Shape(p, me, data, doomed, calls) /\ data \in Seq(Seq(Prompts)) /\ hidden \subseteq doomed
      /\ \A m \in DOMAIN links : links[m] \in 1 .. Len(data)
  BY DEF HInv, ProcsKnown, DataKnown
<1>3. Compaction(p, me, data, doomed, calls) /\ Reserve(me, data)
  BY <1>1, <1>2, ByPc
<1>4. Part(me.of, data) /\ n \notin me.todo
  BY <1>3 DEF Reserve
<1>5. c \notin Taken /\ Compacted(me.call) \notin Taken /\ \A m \in me.todo : Claimed(m, me.call) \notin Taken
  BY <1>1 DEF HInv, NamesFree, Free, Unclaimed
<1>6. CASE Goes(p, Opening(me.call, me.todo, me.keys, me.claims)) /\ UNCHANGED links
  <2>1. me.todo \subseteq Unclaimed(me)
    BY <1>1 DEF Unclaimed
  <2> QED BY <1>1, <1>6, <2>1, CalmOpen
<1>7. CASE /\ n \in DOMAIN links
           /\ links' = Named(c, links[n], Without(n))
           /\ Goes(p, Opening(me.call, me.todo, me.keys, me.claims \cup {[me.of EXCEPT !.name = c]}))
  <2>1. PICK o : o = [me.of EXCEPT !.name = c]
    OBVIOUS
  <2>2. o.name = c /\ o.fd = me.of.fd /\ Part(o, data)
    BY <1>4, <2>1 DEF Part
  <2>3. PICK r : r = Opening(me.call, me.todo, me.keys, me.claims \cup {o})
    OBVIOUS
  <2>4. /\ r.pc = "open" /\ r.call = me.call /\ r.keys = me.keys /\ r.todo = me.todo
        /\ r.claims = me.claims \cup {o} /\ Open(r)
        /\ Todo(r) = {} /\ Merged(r) = {} /\ Unclaimed(r) = me.todo
    BY <2>3 DEF Opening, Open, Todo, Merged, Unclaimed
  <2>5. /\ DOMAIN links' = (DOMAIN links \ {n}) \cup {c}
        /\ links'[c] = links[n]
        /\ \A m \in DOMAIN links' : m # c => m \in DOMAIN links /\ links'[m] = links[m]
        /\ \A m \in DOMAIN links : m # n => m \in DOMAIN links' /\ links'[m] = links[m]
    <3>1. c # n /\ c \notin DOMAIN links
      BY <1>5, <1>7 DEF Taken
    <3> HIDE DEF c, n
    <3> QED BY <1>7, <3>1 DEF Named, Without
  <2>6. c[1] = "claim" /\ CallOf(c) = me.call /\ c[2] = n
    BY DEF Claimed, CallOf
  <2>7. proc' = [proc EXCEPT ![p] = proc'[p]] /\ proc'[p] = r
    BY <1>7, <2>1, <2>3, GoesTo
  <2>8. Grows(data, data)
    BY <1>2 DEF Grows
  <2>9. Regular(p)
    <3>1. \A m \in DOMAIN links' :
            /\ links'[m] \in 1 .. Len(data)
            /\ (m \in DOMAIN links /\ links'[m] = links[m]) \/ (m \notin Taken /\ m[1] = "claim")
      BY <1>2, <1>5, <1>7, <2>5, <2>6
    <3>2. doomed \subseteq doomed' /\ Lost \subseteq Lost' /\ calls' \subseteq calls /\ hidden' \subseteq doomed'
      BY <1>1, <1>2 DEF Lost
    <3>3. put' = [put EXCEPT ![p] = put'[p]]
      BY <1>1 DEF HInv, PutsKnown
    <3> QED BY <1>1, <1>2, <2>7, <2>8, <3>1, <3>2, <3>3 DEF Regular
  <2>10. Shape(p, proc'[p], data', doomed', calls')
    <3>1. IsFiniteSet(me.claims \cup {o})
      BY <1>3, FS_AddElement DEF Compaction, ClaimsKnown
    <3>2. ClaimsKnown(r.claims, r.call, data)
      BY <1>3, <2>2, <2>4, <2>6, <3>1 DEF Compaction, ClaimsKnown
    <3> QED BY <1>1, <1>3, <2>4, <2>7, <3>2 DEF Shape, Compaction
  <2>16. PutShape(proc'[p], put'[p], data') /\ ~Draining(p)
    BY <1>1, PutAt DEF PutShape, Draining
  <2>11. ASSUME NEW i \in Nat PROVE \A k : Safe(k, i) => Safe(k, i)'
    <3>1. \A m \in DOMAIN links : links[m] \in Linked'
      BY <1>7, <2>5 DEF Linked
    <3> QED BY <2>9, <2>16, <3>1, StepSafe
  <2>12. /\ Ordered(proc'[p], links')
         /\ \A b \in Merged(proc'[p]) : \A j \in 1 .. b.seen : Safe(data[b.fd][j], b.fd)'
         /\ \A k \in captured' : k \in captured \/ Safe(k, 0)'
    BY <1>1, <2>4, <2>7 DEF Ordered
  <2>13. me.call[1] = p /\ me.call \notin calls'
    BY <1>1, <1>3 DEF Compaction
  <2>14. \A m \in DOMAIN links' \cup Todo(proc'[p]) :
           m \in Taken \/ (Reserved(m) => CallOf(m)[1] = p /\ CallOf(m) \notin calls')
    BY <2>4, <2>5, <2>6, <2>7, <2>13 DEF Taken
  <2>15. Free(proc'[p], Taken')
    <3>1. ASSUME NEW m \in Taken', m # c PROVE m \in Taken
      <4>1. CASE m \in DOMAIN links'
        BY <2>5, <3>1, <4>1 DEF Taken
      <4>2. CASE m \notin DOMAIN links'
        <5>1. PICK q \in Instances : m \in Todo(proc'[q])
          BY <4>2 DEF Taken, Todo
        <5> QED BY <2>4, <2>7, <2>9, <5>1, OtherProcs DEF Taken
      <4> QED BY <4>1, <4>2
    <3>2. Compacted(me.call) # c /\ \A m \in me.todo : Claimed(m, me.call) # c
      BY <1>4 DEF Compacted, Claimed
    <3>3. Compacted(me.call) \notin Taken' /\ \A m \in me.todo : Claimed(m, me.call) \notin Taken'
      BY <1>5, <3>1, <3>2
    <3> QED BY <2>4, <2>7, <3>3 DEF Free
  <2> QED BY <2>9, <2>10, <2>11, <2>12, <2>14, <2>15, <2>16, StepKept
<1> QED BY <1>1, <1>6, <1>7 DEF Claim

LEMMA FiniteLines ==
  ASSUME HInv, NEW claims, IsFiniteSet(claims), \A c \in claims : Part(c, data)
  PROVE  /\ IsFiniteSet(UNION {Lines(c.fd) : c \in claims})
         /\ UNION {Lines(c.fd) : c \in claims} \subseteq Prompts
         /\ IsFiniteSet({[c EXCEPT !.seen = Len(data[c.fd])] : c \in claims})
<1>1. data \in Seq(Seq(Prompts)) /\ \A c \in claims : data[c.fd] \in Seq(Prompts)
  <2>1. data \in Seq(Seq(Prompts))
    BY DEF HInv, DataKnown
  <2> QED BY <2>1 DEF Part
<1>2. \A c \in claims : IsFiniteSet(Lines(c.fd)) /\ Lines(c.fd) \subseteq Prompts
  <2> SUFFICES ASSUME NEW c \in claims PROVE IsFiniteSet(Lines(c.fd)) /\ Lines(c.fd) \subseteq Prompts
    OBVIOUS
  <2>1. IsFiniteSet(Range(data[c.fd]))
    BY <1>1, FiniteRange
  <2>2. Range(data[c.fd]) \subseteq Prompts
    BY <1>1 DEF Range
  <2> QED BY <2>1, <2>2 DEF Lines
<1>3. IsFiniteSet({Lines(c.fd) : c \in claims})
  <2> DEFINE f == [c \in claims |-> Lines(c.fd)]
  <2>1. f \in Surjection(claims, {Lines(c.fd) : c \in claims})
    BY DEF Surjection
  <2> QED BY <2>1, FS_Surjection
<1>4. IsFiniteSet({[c EXCEPT !.seen = Len(data[c.fd])] : c \in claims})
  <2> DEFINE f == [c \in claims |-> [c EXCEPT !.seen = Len(data[c.fd])]]
  <2>1. f \in Surjection(claims, {[c EXCEPT !.seen = Len(data[c.fd])] : c \in claims})
    BY DEF Surjection
  <2> QED BY <2>1, FS_Surjection
<1>5. IsFiniteSet(UNION {Lines(c.fd) : c \in claims})
  BY <1>2, <1>3, FS_UNION
<1> QED BY <1>2, <1>4, <1>5

LEMMA HInvMerge == ASSUME HInv, NEW p \in Instances, Merge(p) PROVE HInv'
<1> DEFINE me == proc[p]
           merged == Compacted(me.call)
           old == UNION {Lines(c.fd) : c \in me.claims}
           read == {[c EXCEPT !.seen = Len(data[c.fd])] : c \in me.claims}
           lines == Visible(old, me.keys)
<1>1. me.pc = "open" /\ UNCHANGED <<hidden, put, calls, captured, doomed, unlucky, replaced>>
  BY DEF Merge, At
<1>2. /\ Shape(p, me, data, doomed, calls) /\ DataKnown /\ hidden \subseteq doomed
      /\ data \in Seq(Seq(Prompts)) /\ Len(data) \in Nat
  BY DEF HInv, ProcsKnown, DataKnown
<1>3. Compaction(p, me, data, doomed, calls)
  BY <1>1, <1>2, ByPc
<1>4. /\ IsFiniteSet(me.claims) /\ \A c \in me.claims : Part(c, data) /\ c.name = Claimed(c.name[2], me.call)
      /\ me.call[1] = p /\ me.call \notin calls /\ me.keys \subseteq doomed
  BY <1>3 DEF Compaction, ClaimsKnown
<1>5. CASE Goes(p, AtRest) /\ UNCHANGED <<links, data>>
  <2>1. Shape(p, AtRest, data, doomed', calls')
    BY DEF Shape
  <2>2. Lost \subseteq Lost' /\ hidden' \subseteq doomed' /\ doomed \subseteq doomed' /\ calls' \subseteq calls
    BY <1>1, <1>2 DEF Lost
  <2> QED BY <1>1, <1>5, <2>1, <2>2, FreeAtRest, CalmStep
<1>6. CASE me.claims # {} /\ PutFile(merged, lines) /\ Merging(p, read)
  <2>1. lines \in Seq(Prompts) /\ Range(lines) = old \ me.keys /\ IsFiniteSet(read)
    BY <1>4, FiniteLines, VisibleKnown
  <2>2. PICK r : r = MergeOf(me, read)
    OBVIOUS
  <2>3. proc'[p] = r /\ Goes(p, r)
    BY <1>6, <2>2, GoesTo DEF Merging, MergeOf
  <2>4. merged \notin DOMAIN links
    BY <1>1 DEF HInv, NamesFree, Free, Taken
  <2>5. PutFile(merged, lines)
    BY <1>6
  <2> HIDE DEF merged, lines
  <2>6. /\ FilesGrow /\ DOMAIN links' = DOMAIN links \cup {merged}
        /\ links'[merged] = Len(data) + 1 /\ data'[Len(data) + 1] = lines
        /\ \A m \in DOMAIN links : links'[m] = links[m]
    BY <1>2, <2>1, <2>4, <2>5, PutKnown
  <2>7. Regular(p) /\ PutShape(proc'[p], put'[p], data') /\ ~Draining(p)
    BY <1>1, <1>2, <2>3, <2>6, RegularCall DEF Lost, Draining
  <2>8. ASSUME NEW o \in read
        PROVE  \E c \in me.claims :
                 /\ o.name = c.name /\ o.fd = c.fd /\ o.seen = Len(data[c.fd]) /\ Part(o, data)
    <3>1. PICK c \in me.claims : o = [c EXCEPT !.seen = Len(data[c.fd])]
      OBVIOUS
    <3>2. Part(c, data) /\ Len(data[c.fd]) \in c.seen .. Len(data[c.fd])
      <4>1. Part(c, data)
        BY <1>4
      <4>2. Len(data[c.fd]) \in Nat
        BY <1>2, <4>1 DEF Part
      <4> QED BY <4>1, <4>2 DEF Part
    <3> QED BY <3>1, <3>2, ReadOn
  <2>9. ClaimsKnown(read, me.call, data')
    <3>1. ClaimsKnown(read, me.call, data)
      BY <1>4, <2>1, <2>8 DEF ClaimsKnown
    <3> QED BY <1>2, <2>6, <3>1, ClaimsGrow DEF FilesGrow
  <2>10. Shape(p, proc'[p], data', doomed', calls')
    <3>1. Shape(p, r, data', doomed, calls)
      BY <1>3, <2>2, <2>9, MergeShape
    <3> QED BY <1>1, <2>3, <3>1
  <2>11. /\ Merged(proc'[p]) = read /\ proc'[p].pc \in {"idle", "merge"}
         /\ read # {} => proc'[p].call = me.call
         /\ Todo(proc'[p]) = {} /\ Free(proc'[p], Taken')
    <3> HIDE DEF read, me
    <3> QED BY <2>2, <2>3, MergeFields
  <2>12. \A i \in Nat : \A k : Safe(k, i) => Safe(k, i)'
    BY <1>1, <2>6, <2>7, <2>10, GrowthSafe
  <2>13. ASSUME NEW o \in read
         PROVE  /\ Newer(merged, o.fd, links')
                /\ \A j \in 1 .. o.seen : Safe(data[o.fd][j], o.fd)'
    <3>1. PICK c \in me.claims :
            /\ o.name = c.name /\ o.fd = c.fd /\ o.seen = Len(data[c.fd]) /\ Part(o, data)
      BY <2>8
    <3>2. o.fd \in 1 .. Len(data)
      BY <3>1 DEF Part
    <3>3. Len(data) + 1 > o.fd
      BY <1>2, <3>2
    <3>4. ASSUME NEW j \in 1 .. o.seen PROVE Safe(data[o.fd][j], o.fd)'
      <4>1. PICK k : k = data[o.fd][j]
        OBVIOUS
      <4>2. data'[o.fd][j] = data[o.fd][j]
        BY <2>6, <3>1, <3>2 DEF FilesGrow, Grows
      <4>3. k \in old
        <5>1. \A x : x \in Range(data[o.fd]) <=> \E y \in 1 .. Len(data[o.fd]) : data[o.fd][y] = x
          BY <1>2, <3>2, LinesOf
        <5>2. k \in Range(data[o.fd])
          BY <3>1, <4>1, <5>1
        <5> QED BY <3>1, <5>2 DEF Lines
      <4>4. CASE k \in me.keys
        <5>1. k \in Lost'
          BY <1>1, <1>4, <4>4 DEF Lost
        <5>2. k = data'[o.fd][j]
          BY <4>1, <4>2
        <5> QED BY <5>1, <5>2 DEF Safe
      <4>5. CASE k \notin me.keys
        <5>1. PICK l : l = Len(data) + 1
          OBVIOUS
        <5>2. l \in Linked' /\ k \in Range(data'[l]) /\ l > o.fd
          BY <2>1, <2>6, <3>3, <4>3, <4>5, <5>1 DEF Linked
        <5>3. k = data'[o.fd][j]
          BY <4>1, <4>2
        <5> QED BY <5>2, <5>3 DEF Safe, Lines
      <4> QED BY <4>4, <4>5
    <3> QED BY <2>6, <3>3, <3>4 DEF Newer
  <2>14. Ordered(proc'[p], links')
    BY <2>11, <2>13 DEF Ordered, merged
  <2>15. \A c \in Merged(proc'[p]) : \A j \in 1 .. c.seen : Safe(data[c.fd][j], c.fd)'
    BY <2>11, <2>13
  <2>16. \A m \in DOMAIN links' \cup Todo(proc'[p]) :
           m \in Taken \/ (Reserved(m) => CallOf(m)[1] = p /\ CallOf(m) \notin calls')
    <3>1. CallOf(merged) = me.call
      BY DEF merged, CallOf, Compacted
    <3> QED BY <1>1, <1>4, <2>6, <2>11, <3>1 DEF Taken
  <2>17. \A k \in captured' : k \in captured \/ Safe(k, 0)'
    BY <1>1
  <2> QED BY <2>7, <2>10, <2>11, <2>12, <2>14, <2>15, <2>16, <2>17, StepKept
<1> QED BY <1>1, <1>5, <1>6 DEF Merge

LEMMA HInvRemoveClaim == ASSUME HInv, NEW p \in Instances, RemoveClaim(p) PROVE HInv'
<1> DEFINE me == proc[p]
<1>1. me.pc = "remove" /\ UNCHANGED <<data, hidden, put, calls, captured, doomed, unlucky>>
  BY DEF RemoveClaim, At
<1>2. /\ Shape(p, me, data, doomed, calls) /\ hidden \subseteq doomed
      /\ data \in Seq(Seq(Prompts)) /\ \A m \in DOMAIN links : links[m] \in 1 .. Len(data)
  BY DEF HInv, ProcsKnown, DataKnown
<1>3. Compaction(p, me, data, doomed, calls) /\ Drop(me, data)
  BY <1>1, <1>2, ByPc
<1>4. CASE Merging(p, me.claims) /\ UNCHANGED <<links, replaced>>
  <2>1. put' = [put EXCEPT ![p] = NoPut] /\ ~Draining(p)
    BY <1>1, PutAt DEF Draining
  <2> QED BY <1>1, <1>4, <2>1, QuietMerging
<1>5. PICK c : c = me.of
  OBVIOUS
<1>6. CASE /\ c.name \in DOMAIN links /\ links' = Without(c.name)
           /\ replaced' = IF links[c.name] # c.fd THEN replaced \cup Lines(links[c.name]) ELSE replaced
           /\ Removing(p, "drain", c, me.claims)
  <2>1. PICK r : r = DropOf(me, "drain", c, me.claims)
    OBVIOUS
  <2>2. proc' = [proc EXCEPT ![p] = proc'[p]] /\ proc'[p] = r
    BY <1>6, <2>1, GoesTo DEF Removing, DropOf
  <2>3. Part(c, data) /\ c.name = Claimed(c.name[2], me.call) /\ ClaimsKnown(me.claims, me.call, data)
    BY <1>3, <1>5 DEF Compaction, Drop
  <2>4. Shape(p, r, data, doomed, calls)
    BY <1>3, <2>1, <2>3, DropShape
  <2>5. /\ Merged(r) = me.claims \cup {c} /\ Merged(me) = me.claims \cup {c}
        /\ r.pc = "drain" /\ r.call = me.call /\ r.of = c /\ Todo(r) = {} /\ \A taken : Free(r, taken)
    <3>1. Merged(me) = me.claims \cup {c}
      BY <1>1, <1>5 DEF Merged
    <3> HIDE DEF me
    <3> QED BY <2>1, <3>1, DropFields
  <2>6. /\ DOMAIN links' = DOMAIN links \ {c.name}
        /\ \A m \in DOMAIN links' : links'[m] = links[m]
    BY <1>6 DEF Without
  <2>7. Regular(p)
    <3>1. Grows(data, data)
      BY <1>2 DEF Grows
    <3>2. replaced \subseteq replaced'
      BY <1>6
    <3>3. put' = [put EXCEPT ![p] = put'[p]]
      BY <1>1 DEF HInv, PutsKnown
    <3> QED BY <1>1, <1>2, <2>2, <2>6, <3>1, <3>2, <3>3 DEF Regular, Lost
  <2>8. Shape(p, proc'[p], data', doomed', calls')
    BY <1>1, <2>2, <2>4
  <2>18. put'[p] = NoPut /\ PutShape(proc'[p], put'[p], data') /\ ~Draining(p)
    BY <1>1, PutAt DEF PutShape, Draining
  <2>9. /\ Draining(p)' /\ proc'[p].of = c /\ Promised(p)' = Range(LateIn(c, data'))
        /\ c.fd \in Nat
    <3>1. Draining(p)' /\ proc'[p].of = c
      BY <2>2, <2>5 DEF Draining
    <3> QED BY <2>3, <2>18, <3>1, PromisedNext DEF PromisedIn, Part
  <2>10. links[c.name] # c.fd => \A i \in Nat : \A k \in Lines(links[c.name]) : Safe(k, i)'
    <3> SUFFICES ASSUME links[c.name] # c.fd, NEW k \in Lines(links[c.name]) PROVE k \in Lost'
      BY DEF Safe
    <3> QED BY <1>6 DEF Lost
  <2>11. \A m \in DOMAIN links : m # c.name => links[m] \in Linked'
    BY <2>6 DEF Linked
  <2>12. \A k : Safe(k, c.fd) => Safe(k, c.fd)'
    <3>1. PICK i \in Nat : i = c.fd
      BY <2>9
    <3>2. \A m \in DOMAIN links : links[m] > i =>
            links[m] \in Linked' \/ \A k \in Lines(links[m]) : Safe(k, i)'
      <4> SUFFICES ASSUME NEW m \in DOMAIN links, links[m] > i, m = c.name
                   PROVE  \A k \in Lines(links[m]) : Safe(k, i)'
        BY <2>11
      <4>1. links[m] # c.fd
        BY <1>2, <2>9, <3>1
      <4> QED BY <2>10, <4>1
    <3>3. \A k : Safe(k, i) => Safe(k, i)'
      BY <2>7, <2>18, <3>2, StepSafe
    <3> QED BY <3>1, <3>3
  <2>13. ASSUME NEW i \in Nat, c.fd > i, NEW k \in Range(data[c.fd]) PROVE Safe(k, i)'
    <3>1. c.fd \in 1 .. Len(data) /\ c.seen \in Nat /\ Len(data[c.fd]) \in Nat
      BY <1>2, <2>3 DEF Part
    <3>2. \A x : x \in Range(data[c.fd]) <=> \E y \in 1 .. Len(data[c.fd]) : data[c.fd][y] = x
      BY <1>2, <3>1, LinesOf
    <3>3. PICK j \in 1 .. Len(data[c.fd]) : data[c.fd][j] = k
      BY <3>2
    <3>4. CASE j <= c.seen
      <4>1. Safe(data[c.fd][j], c.fd)
        BY <2>5, <3>1, <3>4 DEF HInv, CopiesKept
      <4>2. Safe(k, c.fd)'
        BY <2>12, <3>3, <4>1
      <4>3. i <= c.fd
        BY <2>9, <2>13
      <4> QED BY <2>7, <2>8, <2>9, <4>2, <4>3, SafeOlderNext
    <3>5. CASE ~ (j <= c.seen)
      <4>1. j \in c.seen + 1 .. Len(data[c.fd])
        BY <3>1, <3>5
      <4>2. \A x : x \in Range(LateIn(c, data)) <=> \E y \in c.seen + 1 .. Len(data[c.fd]) : data[c.fd][y] = x
        BY <1>2, <2>3, LateOf
      <4>3. k \in Range(LateIn(c, data'))
        BY <1>1, <3>3, <4>1, <4>2
      <4>4. Draining(p)' /\ proc'[p].of.fd > i /\ k \in Promised(p)'
        BY <2>9, <2>13, <4>3
      <4> QED BY <4>4 DEF Safe
    <3> QED BY <3>4, <3>5
  <2>14. ASSUME NEW i \in Nat PROVE \A k : Safe(k, i) => Safe(k, i)'
    <3>1. \A m \in DOMAIN links : links[m] > i =>
            links[m] \in Linked' \/ \A k \in Lines(links[m]) : Safe(k, i)'
      <4> SUFFICES ASSUME NEW m \in DOMAIN links, links[m] > i, m = c.name
                   PROVE  \A k \in Lines(links[m]) : Safe(k, i)'
        BY <2>11
      <4> QED BY <2>10, <2>13 DEF Lines
    <3> QED BY <2>7, <2>18, <3>1, StepSafe
  <2>15. \A b \in Merged(proc'[p]) : \A j \in 1 .. b.seen : Safe(data[b.fd][j], b.fd)'
    <3> SUFFICES ASSUME NEW b \in Merged(me), NEW j \in 1 .. b.seen PROVE Safe(data[b.fd][j], b.fd)'
      BY <2>2, <2>5
    <3>1. PICK k : k = data[b.fd][j]
      OBVIOUS
    <3>2. Safe(k, b.fd)
      BY <3>1 DEF HInv, CopiesKept
    <3>3. b.fd \in Nat
      BY <1>2, MergedKnown DEF Part
    <3>4. Safe(k, b.fd)' /\ data' = data
      BY <1>1, <2>14, <3>2, <3>3
    <3> QED BY <3>1, <3>4 DEF Safe
  <2>16. Ordered(proc'[p], links')
    <3>1. Ordered(me, links)
      BY DEF HInv, TargetsNewer
    <3> QED BY <2>2, <2>5, <2>6, <3>1 DEF Ordered, Newer
  <2>17. /\ \A m \in DOMAIN links' \cup Todo(proc'[p]) : m \in Taken
         /\ Free(proc'[p], Taken') /\ \A k \in captured' : k \in captured \/ Safe(k, 0)'
    BY <1>1, <2>2, <2>5, <2>6 DEF Taken
  <2> QED BY <2>7, <2>8, <2>14, <2>15, <2>16, <2>17, <2>18, StepKept
<1> QED BY <1>1, <1>4, <1>5, <1>6 DEF RemoveClaim

----------------------------------------------------------------------------
(* The theorems.                                                           *)

LEMMA HInvInit == ASSUME HistoryInit PROVE HInv
<1>1. /\ proc = [p \in Instances |-> AtRest] /\ AtRest.pc = "idle"
      /\ hidden = {} /\ captured = UNION {Range(Files[i].lines) : i \in DOMAIN Files}
  BY DEF HistoryInit, AtRest
<1>2. /\ DOMAIN Files = 1 .. Len(Files) /\ Len(Files) \in Nat
      /\ \A i \in DOMAIN Files : Files[i].lines \in Seq(Prompts)
  <2>1. PICK S : Files \in Seq([name : S, lines : Seq(Prompts)])
    BY FilesAssumption
  <2>2. DOMAIN Files = 1 .. Len(Files) /\ Len(Files) \in Nat
    BY <2>1
  <2>3. \A i \in DOMAIN Files : Files[i] \in [name : S, lines : Seq(Prompts)]
    <3>1. PICK T : T = [name : S, lines : Seq(Prompts)]
      OBVIOUS
    <3>2. Files \in Seq(T)
      BY <2>1, <3>1
    <3>3. \A i \in DOMAIN Files : Files[i] \in T
      BY <3>2
    <3> QED BY <3>1, <3>3
  <2> QED BY <2>2, <2>3
<1>3. /\ DOMAIN links = {Files[i].name : i \in DOMAIN Files}
      /\ \A i \in DOMAIN Files : links[Files[i].name] = i
  <2>1. \A n \in {Files[i].name : i \in DOMAIN Files} :
          links[n] = CHOOSE i \in DOMAIN Files : Files[i].name = n
    BY DEF HistoryInit
  <2>2. ASSUME NEW i \in DOMAIN Files PROVE links[Files[i].name] = i
    <3>1. links[Files[i].name] = CHOOSE j \in DOMAIN Files : Files[j].name = Files[i].name
      BY <2>1
    <3>2. \A j \in DOMAIN Files : Files[j].name = Files[i].name => j = i
      BY FilesAssumption
    <3> QED BY <3>1, <3>2
  <2> QED BY <2>2 DEF HistoryInit
<1>4. /\ data \in Seq(Seq(Prompts)) /\ Len(data) = Len(Files)
      /\ \A i \in DOMAIN Files : data[i] = Files[i].lines
  BY <1>2 DEF HistoryInit
<1>5. DataKnown
  BY <1>1, <1>2, <1>3, <1>4 DEF DataKnown
<1>6. \A p \in Instances : Merged(proc[p]) = {} /\ Todo(proc[p]) = {}
  BY <1>1 DEF Merged, Todo
<1>7. ProcsKnown /\ PutsKnown /\ CopiesKept /\ TargetsNewer
  <2>1. PutsKnown
    BY DEF HistoryInit, PutsKnown, PutShape
  <2> QED BY <1>1, <1>6, <2>1 DEF ProcsKnown, CopiesKept, TargetsNewer, Ordered, Shape
<1>8. NamesFree
  <2>1. Taken = {Files[i].name : i \in DOMAIN Files}
    BY <1>3, <1>6 DEF Taken
  <2>2. \A i \in DOMAIN Files : ~Reserved(Files[i].name)
    BY FilesAssumption DEF Reserved
  <2> QED BY <1>1, <2>1, <2>2 DEF NamesFree, Free
<1>9. ASSUME NEW k \in captured PROVE Safe(k, 0)
  <2>1. PICK i \in DOMAIN Files : k \in Range(Files[i].lines)
    BY <1>1
  <2>2. i \in Linked /\ i > 0 /\ k \in Lines(i)
    <3>1. Files[i].name \in DOMAIN links /\ links[Files[i].name] = i
      BY <1>3
    <3> QED BY <1>2, <1>4, <2>1, <3>1 DEF Linked, Lines
  <2> QED BY <2>2 DEF Safe
<1> QED BY <1>5, <1>7, <1>8, <1>9 DEF HInv, Kept

LEMMA HInvStutter == ASSUME HInv, UNCHANGED historyVars PROVE HInv'
<1>1. UNCHANGED <<links, data, hidden, proc, put, calls, captured, doomed, unlucky, replaced>>
  BY DEF historyVars
<1>2. DataKnown' /\ ProcsKnown' /\ PutsKnown' /\ TargetsNewer' /\ NamesFree'
  BY <1>1 DEF HInv, DataKnown, ProcsKnown, PutsKnown, TargetsNewer, NamesFree, Taken
<1>3. /\ Lost' = Lost /\ Linked' = Linked
      /\ \A p : Draining(p)' = Draining(p) /\ Promised(p)' = Promised(p)
  BY <1>1 DEF Lost, Linked, Draining, Promised, Late, Raw, Source, At
<1>4. \A k, i : Safe(k, i) => Safe(k, i)'
  BY <1>1, <1>3 DEF Safe, Lines
<1>5. CopiesKept'
  BY <1>1, <1>4 DEF HInv, CopiesKept
<1>6. Kept'
  BY <1>1, <1>4 DEF HInv, Kept
<1> QED BY <1>2, <1>5, <1>6 DEF HInv

LEMMA HInvStep == ASSUME HInv, [HistoryNext]_historyVars PROVE HInv'
<1>1. ASSUME NEW p \in Instances, CaptureOpen(p) \/ CaptureWrite(p) PROVE HInv'
  BY <1>1, HInvCaptureOpen, HInvCaptureWrite
<1>2. ASSUME NEW p \in Instances, DeletePrompt(p) \/ SweepRead(p) \/ SweepReplace(p)
      PROVE  HInv'
  BY <1>2, HInvDelete, HInvSweepRead, HInvSweepReplace
<1>3. ASSUME NEW p \in Instances, HideRead(p) \/ HideWrite(p) PROVE HInv'
  BY <1>3, HInvHide
<1>4. ASSUME NEW p \in Instances, Compact(p) \/ ClaimOpen(p) \/ Claim(p) \/ Merge(p) PROVE HInv'
  BY <1>4, HInvCompact, HInvClaimOpen, HInvClaim, HInvMerge
<1>5. ASSUME NEW p \in Instances, RemoveClaim(p) PROVE HInv'
  BY <1>5, HInvRemoveClaim
<1>8. ASSUME NEW p \in Instances, ReadLate(p) \/ OpenTarget(p) \/ WriteTarget(p) PROVE HInv'
  BY <1>8, HInvReadLate, HInvOpenTarget, HInvWriteTarget
<1>9. ASSUME NEW p \in Instances, AppendFails(p) \/ GivesUp(p) PROVE HInv'
  BY <1>9, HInvAppendFails, HInvGivesUp
<1>6. ASSUME NEW p \in Instances, Dies(p) PROVE HInv'
  BY <1>6, HInvDies
<1>7. CASE UNCHANGED historyVars
  BY <1>7, HInvStutter
<1> QED BY <1>1, <1>2, <1>3, <1>4, <1>5, <1>6, <1>7, <1>8, <1>9 DEF HistoryNext

\* The invariant holds in every behaviour: the inodes and names that the calls
\* under way work on, the copies a compaction has made, and a safe place for
\* every captured prompt.
THEOREM CopiesAreKept == HistorySpec => []HInv
<1>1. HistoryInit => HInv
  BY HInvInit
<1>2. HInv /\ [HistoryNext]_historyVars => HInv'
  BY HInvStep
<1> QED BY <1>1, <1>2, PTL DEF HistorySpec

\* However captures, deletes, compactions, errors and deaths interleave, a
\* prompt the user did not delete leaves the store only in the four ways the
\* property names.
THEOREM PromptsKept == HistorySpec => []NothingLost
<1>1. ASSUME HInv PROVE NothingLost
  <2> SUFFICES ASSUME NEW k \in captured, k \notin Lost PROVE k \in Surviving
    BY DEF NothingLost, Lost
  <2>1. Safe(k, 0)
    BY <1>1 DEF HInv, Kept
  <2>2. CASE \E l \in Linked : k \in Lines(l)
    BY <2>2 DEF Surviving, OnDisk
  <2>3. CASE \E p \in Instances : k \in Promised(p)
    BY <2>3 DEF Surviving
  <2> QED BY <2>1, <2>2, <2>3 DEF Safe
<1>2. HInv => NothingLost
  BY <1>1
<1> QED BY <1>2, CopiesAreKept, PTL
=============================================================================
