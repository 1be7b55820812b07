------------------------- MODULE BackgroundJobsProofs -------------------------
(***************************************************************************)
(* Proofs about BackgroundJobs, for every finite set of jobs, any sessions *)
(* and any limits: what becomes of the lines and of the end of a job.      *)
(***************************************************************************)
EXTENDS BackgroundJobs, FiniteSetTheorems, TLAPS

Waiting == [lines : Seq(Nat), omitted : Nat, ends : Nat]
Batches == [lines : Seq(Nat), omitted : Nat]

Rising(l) == \A i, k \in 1 .. Len(l) : i < k => l[i] < l[k]
Before(l, m) == \A i \in 1 .. Len(l) : \A k \in 1 .. Len(m) : l[i] < m[k]
\* The lines l are those of a, then some of m.
Follows(l, a, m) ==
  \A i \in 1 .. Len(l) :
    \/ i \in 1 .. Len(a) /\ l[i] = a[i]
    \/ i > Len(a) /\ i - Len(a) \in 1 .. Len(m) /\ l[i] = m[i - Len(a)]
Takes(u, t, q) == Size(u) = Size(t) + Size(q) /\ Follows(u.lines, t.lines, q.lines)
UpTo(l, n) == \A i \in 1 .. Len(l) : 1 <= l[i] /\ l[i] <= n

\* The n lines of a monitor: told, in its pending notice q, or in its batch b, in
\* this order; all of them unless the monitor is silent.
Counted(t, q, b, n, silent) ==
  /\ n \in Nat
  /\ Len(q.lines) <= LinesPerNotice /\ Len(b.lines) <= LinesPerNotice
  /\ Size(t) + Size(q) + Size(b) <= n
  /\ ~silent => Size(t) + Size(q) + Size(b) = n
Sorted(t, q, b, n) ==
  /\ Rising(t.lines) /\ Rising(q.lines) /\ Rising(b.lines)
  /\ Before(t.lines, q.lines) /\ Before(t.lines, b.lines) /\ Before(q.lines, b.lines)
  /\ UpTo(t.lines, n) /\ UpTo(q.lines, n) /\ UpTo(b.lines, n)
Kept(t, q, b, n, silent) == Counted(t, q, b, n, silent) /\ Sorted(t, q, b, n)

Seen(j) == IF j \in Monitors THEN events[j] ELSE 0
\* The ends that may have been handed over.
Ended(j) == IF status[j] = "stopped" \/ (status[j] = "exited" /\ run[j] = "done") THEN 1 ELSE 0

\* What the desk d has of job j, whose batch is b, after n lines and at most x ends.
Holds(d, j, b, n, silent, x) ==
  /\ Kept(d.told[j], d.queue[j], b, n, silent)
  /\ d.told[j].ends + d.queue[j].ends <= x

Desks == [queue : [Jobs -> Waiting], told : [Jobs -> Waiting], retry : BOOLEAN,
          retries : 0 .. RetryLimit, wake : {"none", "owed", "sent"}, faults : 0 .. MaxFaults]

Ranges ==
  /\ session \in Sessions \cup {None}
  /\ phase \in {"idle", "running", "settling", "compacting"}
  /\ owner \in [Jobs -> Sessions \cup {None}]
  /\ status \in [Jobs -> {"new", "running", "exited", "stopped", "halted"}]
  /\ run \in [Jobs -> {"none", "executing", "closing", "done"}]
  /\ active \subseteq Monitors /\ flushing \subseteq active /\ silenced \subseteq Jobs
  /\ batch \in [Monitors -> Batches]
  /\ recent \in [Monitors -> 0 .. FloodLines + 1]
  /\ events \in [Monitors -> 0 .. MaxLines]
  /\ desk \in Desks
  /\ starts \in 0 .. MaxStarts

\* Jobs that were started belong to the open session, or were silenced with theirs.
JobInv(j) ==
  /\ status[j] = "new" => /\ Seen(j) = 0 /\ j \notin active /\ j \notin silenced
                          /\ j \in Monitors => recent[j] = 0
  /\ status[j] = "exited" => run[j] \in {"closing", "done"}
  /\ status[j] # "new" /\ j \notin silenced => owner[j] = session
  /\ status[j] # "new" => owner[j] # None
  /\ j \in active => Ended(j) = 0 /\ recent[j] <= FloodLines
  /\ j \notin active => OpenBatch(j) = NoBatch
  /\ Holds(desk, j, OpenBatch(j), Seen(j), j \in silenced, Ended(j))

IInv == /\ Ranges
        /\ phase = "running" => session # None
        /\ \A j \in Jobs : JobInv(j)

----------------------------------------------------------------------------
(* Lines                                                                   *)

LEMMA NoLines ==
  /\ NoBatch \in Batches /\ Nothing \in Waiting
  /\ NoBatch.lines = <<>> /\ NoBatch.omitted = 0
  /\ Nothing.lines = <<>> /\ Nothing.omitted = 0 /\ Nothing.ends = 0
  /\ Len(<<>>) = 0 /\ <<>> \in Seq(Nat)
  BY DEF NoBatch, Nothing, Waiting, Batches

LEMMA Fields ==
  /\ \A w \in Waiting : /\ w.lines \in Seq(Nat) /\ Len(w.lines) \in Nat /\ w.omitted \in Nat
                        /\ Size(w) \in Nat /\ w.ends \in Nat
                        /\ Size(w) = 0 => w.lines = <<>> /\ w.omitted = 0
  /\ \A b \in Batches : /\ b.lines \in Seq(Nat) /\ Len(b.lines) \in Nat /\ b.omitted \in Nat
                        /\ Size(b) \in Nat
<1>1. \A l \in Seq(Nat) : Len(l) \in Nat /\ (Len(l) = 0 => l = <<>>)
  OBVIOUS
<1> QED BY <1>1 DEF Waiting, Batches, Size

LEMMA SameWaiting ==
  ASSUME NEW v \in Waiting, NEW w \in Waiting,
         v.lines = w.lines, v.omitted = w.omitted, v.ends = w.ends
  PROVE  v = w
  BY DEF Waiting

LEMMA EndsAs ==
  ASSUME NEW q \in Waiting, NEW k \in Nat
  PROVE  LET w == [q EXCEPT !.ends = k]
         IN  w \in Waiting /\ w.lines = q.lines /\ w.omitted = q.omitted /\ w.ends = k
  BY DEF Waiting

LEMMA Lengths ==
  /\ \A l \in Seq(Nat) : Len(l) \in Nat
  /\ \A l, m \in Seq(Nat) : l \o m \in Seq(Nat) /\ Len(l \o m) = Len(l) + Len(m)
  /\ \A l \in Seq(Nat), n \in Nat :
       n <= Len(l) => SubSeq(l, 1, n) \in Seq(Nat) /\ Len(SubSeq(l, 1, n)) = n
  OBVIOUS

LEMMA Joined == ASSUME NEW l \in Seq(Nat), NEW m \in Seq(Nat) PROVE Follows(l \o m, l, m)
<1>1. Len(l \o m) = Len(l) + Len(m) /\ Len(l) \in Nat /\ Len(m) \in Nat
  OBVIOUS
<1>2. ASSUME NEW i \in 1 .. Len(l \o m)
      PROVE  \/ i \in 1 .. Len(l) /\ (l \o m)[i] = l[i]
             \/ /\ i > Len(l) /\ i - Len(l) \in 1 .. Len(m)
                /\ (l \o m)[i] = m[i - Len(l)]
  <2>1. CASE i <= Len(l)
    BY <1>1, <2>1
  <2>2. CASE i > Len(l)
    BY <1>1, <2>2
  <2> QED BY <1>1, <2>1, <2>2
<1> QED BY <1>2 DEF Follows

LEMMA FollowersRise ==
  ASSUME NEW l, NEW a, NEW m, Len(a) \in Nat, Len(m) \in Nat, Len(l) \in Nat,
         Follows(l, a, m), Rising(a), Rising(m), Before(a, m)
  PROVE  Rising(l)
<1> SUFFICES ASSUME NEW i \in 1 .. Len(l), NEW k \in 1 .. Len(l), i < k
             PROVE  l[i] < l[k]
  BY DEF Rising
<1>1. CASE i \in 1 .. Len(a) /\ l[i] = a[i] /\ k \in 1 .. Len(a) /\ l[k] = a[k]
  BY <1>1 DEF Rising
<1>2. CASE i \in 1 .. Len(a) /\ l[i] = a[i] /\ k - Len(a) \in 1 .. Len(m) /\ l[k] = m[k - Len(a)]
  BY <1>2 DEF Before
<1>3. CASE /\ i - Len(a) \in 1 .. Len(m) /\ l[i] = m[i - Len(a)]
           /\ k - Len(a) \in 1 .. Len(m) /\ l[k] = m[k - Len(a)]
  <2>1. i - Len(a) < k - Len(a)
    OBVIOUS
  <2> QED BY <1>3, <2>1 DEF Rising
<1>4. CASE i > Len(a) /\ k \in 1 .. Len(a)
  BY <1>4
<1> QED BY <1>1, <1>2, <1>3, <1>4 DEF Follows

LEMMA FollowersBefore ==
  ASSUME NEW l, NEW a, NEW m, Follows(l, a, m)
  PROVE  /\ \A z : Before(a, z) /\ Before(m, z) => Before(l, z)
         /\ \A z : Before(z, a) /\ Before(z, m) => Before(z, l)
         /\ \A n : UpTo(a, n) /\ UpTo(m, n) => UpTo(l, n)
  BY DEF Follows, Before, UpTo

LEMMA Grown ==
  ASSUME NEW n \in Nat, NEW l \in Seq(Nat), UpTo(l, n)
  PROVE  UpTo(l, n + 1)
<1>1. \A i \in 1 .. Len(l) : l[i] \in Nat
  OBVIOUS
<1> QED BY <1>1 DEF UpTo

LEMMA Last ==
  ASSUME NEW n \in Nat, NEW l \in Seq(Nat), UpTo(l, n), NEW m, Len(m) = 1, m[1] = n + 1
  PROVE  Rising(m) /\ UpTo(m, n + 1) /\ Before(l, m)
<1>1. \A i \in 1 .. Len(l) : l[i] \in Nat
  OBVIOUS
<1>2. \A i \in 1 .. Len(m) : i = 1
  OBVIOUS
<1> QED BY <1>1, <1>2 DEF UpTo, Rising, Before

\* Lines that are told follow those told before.
LEMMA Tell ==
  ASSUME NEW t \in Waiting, NEW q \in Waiting, NEW b \in Batches, NEW n, NEW silent,
         Kept(t, q, b, n, silent), NEW u \in Waiting, NEW r \in Waiting,
         Takes(u, t, q),
         r.lines = <<>>, r.omitted = 0
  PROVE  Kept(u, r, b, n, silent)
<1>1. /\ Len(t.lines) \in Nat /\ Len(q.lines) \in Nat /\ Len(b.lines) \in Nat
      /\ Len(u.lines) \in Nat /\ Len(r.lines) = 0 /\ Size(r) = 0
      /\ Size(t) \in Nat /\ Size(q) \in Nat /\ Size(b) \in Nat
  BY Fields, NoLines DEF Size
<1>2. Size(u) = Size(t) + Size(q) /\ Follows(u.lines, t.lines, q.lines)
  BY DEF Takes
<1>3. Counted(u, r, b, n, silent)
  BY <1>1, <1>2, LimitsAssumption DEF Kept, Counted
<1>4. Rising(u.lines)
  BY <1>1, <1>2, FollowersRise DEF Kept, Sorted
<1>5. Before(u.lines, r.lines) /\ Before(r.lines, b.lines) /\ Rising(r.lines) /\ UpTo(r.lines, n)
  BY <1>1 DEF Before, Rising, UpTo
<1>6. Before(u.lines, b.lines) /\ UpTo(u.lines, n)
  BY <1>2, FollowersBefore DEF Kept, Sorted
<1> QED BY <1>3, <1>4, <1>5, <1>6 DEF Kept, Sorted

\* A silent monitor's lines may be dropped.
LEMMA Drop ==
  ASSUME NEW t \in Waiting, NEW q \in Waiting, NEW b \in Batches, NEW n, NEW silent,
         Kept(t, q, b, n, silent), silent \/ n = 0, NEW r \in Waiting,
         r.lines = <<>>, r.omitted = 0
  PROVE  Kept(t, r, b, n, silent)
<1>1. /\ Len(t.lines) \in Nat /\ Len(q.lines) \in Nat /\ Len(b.lines) \in Nat
      /\ t.omitted \in Nat /\ q.omitted \in Nat /\ b.omitted \in Nat
      /\ Len(r.lines) = 0
  BY Fields, NoLines
<1>2. Counted(t, r, b, n, silent)
  <2>1. Size(r) = 0 /\ Size(t) \in Nat /\ Size(q) \in Nat /\ Size(b) \in Nat
    BY <1>1, Fields DEF Size
  <2>2. Counted(t, q, b, n, silent) /\ LinesPerNotice \in Nat
    BY LimitsAssumption DEF Kept
  <2> QED BY <1>1, <2>1, <2>2 DEF Counted
<1>3. Sorted(t, r, b, n)
  BY <1>1 DEF Kept, Sorted, Rising, Before, UpTo
<1> QED BY <1>2, <1>3 DEF Kept

\* mergeMonitorBatches() keeps the first lines and counts the others.
LEMMA First ==
  ASSUME NEW all \in Seq(Nat), NEW kept,
         kept = IF Len(all) < LinesPerNotice THEN Len(all) ELSE LinesPerNotice
  PROVE  /\ kept \in Nat /\ kept <= Len(all) /\ kept <= LinesPerNotice
         /\ SubSeq(all, 1, kept) \in Seq(Nat) /\ Len(SubSeq(all, 1, kept)) = kept
         /\ \A l, m : Follows(all, l, m) => Follows(SubSeq(all, 1, kept), l, m)
<1>1. LinesPerNotice \in Nat /\ Len(all) \in Nat
  BY LimitsAssumption
<1>2. kept \in Nat /\ kept <= Len(all) /\ kept <= LinesPerNotice
  BY <1>1
<1>3. SubSeq(all, 1, kept) \in Seq(Nat) /\ Len(SubSeq(all, 1, kept)) = kept
  BY <1>2, Lengths
<1>4. \A k \in 1 .. kept : SubSeq(all, 1, kept)[k] = all[k] /\ k \in 1 .. Len(all)
  BY <1>1, <1>2
<1> QED BY <1>2, <1>3, <1>4 DEF Follows

LEMMA MergedParts ==
  ASSUME NEW l \in Seq(Nat), NEW i \in Nat, NEW m \in Seq(Nat), NEW k \in Nat,
         Len(l) <= LinesPerNotice
  PROVE  LET all == l \o m
             kept == IF Len(all) < LinesPerNotice THEN Len(all) ELSE LinesPerNotice
             first == SubSeq(all, 1, kept)
             omitted == i + k + Len(all) - kept
         IN  /\ first \in Seq(Nat) /\ omitted \in Nat /\ Len(first) <= LinesPerNotice
             /\ Len(first) + omitted = (Len(l) + i) + (Len(m) + k)
             /\ Follows(first, l, m)
<1> DEFINE all == l \o m
           kept == IF Len(all) < LinesPerNotice THEN Len(all) ELSE LinesPerNotice
           first == SubSeq(all, 1, kept)
           omitted == i + k + Len(all) - kept
<1>1. /\ Len(l) \in Nat /\ Len(m) \in Nat
      /\ all \in Seq(Nat) /\ Len(all) = Len(l) + Len(m) /\ Follows(all, l, m)
  BY Lengths, Joined
<1> HIDE DEF all
<1>2. /\ kept \in Nat /\ kept <= Len(all) /\ kept <= LinesPerNotice
      /\ first \in Seq(Nat) /\ Len(first) = kept /\ Follows(first, l, m)
  BY <1>1, First
<1> HIDE DEF kept, first
<1>3. omitted \in Nat /\ kept + omitted = (Len(l) + i) + (Len(m) + k)
  BY <1>1, <1>2
<1> QED BY <1>2, <1>3 DEF all, kept, first

LEMMA MergedBatch ==
  ASSUME NEW a \in Batches, NEW b \in Batches, Len(a.lines) <= LinesPerNotice
  PROVE  /\ Merged(a, b) \in Batches /\ Takes(Merged(a, b), a, b)
         /\ Len(Merged(a, b).lines) <= LinesPerNotice
<1> DEFINE all == a.lines \o b.lines
           kept == IF Len(all) < LinesPerNotice THEN Len(all) ELSE LinesPerNotice
           first == SubSeq(all, 1, kept)
           omitted == a.omitted + b.omitted + Len(all) - kept
<1>1. /\ a.lines \in Seq(Nat) /\ b.lines \in Seq(Nat) /\ a.omitted \in Nat /\ b.omitted \in Nat
  BY Fields
<1>2. Merged(a, b) = [lines |-> first, omitted |-> omitted]
  <2>1. Merged(a, b) = [a EXCEPT !.lines = first, !.omitted = omitted]
    BY DEF Merged
  <2> HIDE DEF first, omitted
  <2> QED BY <2>1 DEF Batches
<1>3. /\ first \in Seq(Nat) /\ omitted \in Nat /\ Len(first) <= LinesPerNotice
      /\ Len(first) + omitted = (Len(a.lines) + a.omitted) + (Len(b.lines) + b.omitted)
      /\ Follows(first, a.lines, b.lines)
  BY <1>1, MergedParts
<1> HIDE DEF first, omitted
<1> QED BY <1>2, <1>3 DEF Takes, Size, Batches

LEMMA MergedNotice ==
  ASSUME NEW a \in Waiting, NEW b \in Batches, Len(a.lines) <= LinesPerNotice
  PROVE  /\ Merged(a, b) \in Waiting /\ Takes(Merged(a, b), a, b)
         /\ Len(Merged(a, b).lines) <= LinesPerNotice
         /\ Merged(a, b).ends = a.ends
<1> DEFINE all == a.lines \o b.lines
           kept == IF Len(all) < LinesPerNotice THEN Len(all) ELSE LinesPerNotice
           first == SubSeq(all, 1, kept)
           omitted == a.omitted + b.omitted + Len(all) - kept
<1>1. /\ a.lines \in Seq(Nat) /\ b.lines \in Seq(Nat) /\ a.omitted \in Nat /\ b.omitted \in Nat
  BY Fields
<1>2. Merged(a, b) = [lines |-> first, omitted |-> omitted, ends |-> a.ends]
  <2>1. Merged(a, b) = [a EXCEPT !.lines = first, !.omitted = omitted]
    BY DEF Merged
  <2> HIDE DEF first, omitted
  <2> QED BY <2>1 DEF Waiting
<1>3. /\ first \in Seq(Nat) /\ omitted \in Nat /\ Len(first) <= LinesPerNotice
      /\ Len(first) + omitted = (Len(a.lines) + a.omitted) + (Len(b.lines) + b.omitted)
      /\ Follows(first, a.lines, b.lines)
  BY <1>1, MergedParts
<1> HIDE DEF first, omitted
<1> QED BY <1>2, <1>3 DEF Takes, Size, Waiting

\* The batch joins the notice that waits.
LEMMA Handed ==
  ASSUME NEW t \in Waiting, NEW q \in Waiting, NEW b \in Batches, NEW n, NEW silent,
         Kept(t, q, b, n, silent), NEW r \in Waiting, Takes(r, q, b),
         Len(r.lines) <= LinesPerNotice
  PROVE  Kept(t, r, NoBatch, n, silent)
<1>1. /\ Len(t.lines) \in Nat /\ Len(q.lines) \in Nat /\ Len(b.lines) \in Nat
      /\ Len(r.lines) \in Nat /\ Len(NoBatch.lines) = 0 /\ Size(NoBatch) = 0
      /\ Size(t) \in Nat /\ Size(q) \in Nat /\ Size(b) \in Nat
  BY Fields, NoLines DEF Size
<1>2. Size(r) = Size(q) + Size(b) /\ Follows(r.lines, q.lines, b.lines)
  BY DEF Takes
<1>3. Counted(t, r, NoBatch, n, silent)
  BY <1>1, <1>2, LimitsAssumption DEF Kept, Counted
<1>4. Rising(r.lines)
  BY <1>1, <1>2, FollowersRise DEF Kept, Sorted
<1>5. /\ Before(t.lines, NoBatch.lines) /\ Before(r.lines, NoBatch.lines)
      /\ Rising(NoBatch.lines) /\ UpTo(NoBatch.lines, n)
  BY <1>1 DEF Before, Rising, UpTo
<1>6. Before(t.lines, r.lines) /\ UpTo(r.lines, n)
  BY <1>2, FollowersBefore DEF Kept, Sorted
<1> QED BY <1>3, <1>4, <1>5, <1>6 DEF Kept, Sorted

\* A line joins the batch.
LEMMA Printed ==
  ASSUME NEW t \in Waiting, NEW q \in Waiting, NEW b \in Batches, NEW n, NEW silent,
         Kept(t, q, b, n, silent)
  PROVE  LET m == Merged(b, [lines |-> <<n + 1>>, omitted |-> 0])
         IN  m \in Batches /\ Kept(t, q, m, n + 1, silent)
<1> DEFINE line == [lines |-> <<n + 1>>, omitted |-> 0]
           m == Merged(b, line)
<1>1. n \in Nat
  BY DEF Kept, Counted
<1>2. /\ line \in Batches /\ Len(line.lines) = 1 /\ Size(line) = 1 /\ line.lines[1] = n + 1
  BY <1>1 DEF Batches, Size
<1> HIDE DEF line
<1>3. m \in Batches /\ Takes(m, b, line) /\ Len(m.lines) <= LinesPerNotice
  BY <1>2, MergedBatch DEF Kept, Counted
<1> HIDE DEF m
<1>4. /\ t.lines \in Seq(Nat) /\ q.lines \in Seq(Nat) /\ b.lines \in Seq(Nat)
      /\ Len(t.lines) \in Nat /\ Len(q.lines) \in Nat /\ Len(b.lines) \in Nat
      /\ Len(m.lines) \in Nat
      /\ Size(t) \in Nat /\ Size(q) \in Nat /\ Size(b) \in Nat
  BY <1>3, Fields
<1>5. Size(m) = Size(b) + 1 /\ Follows(m.lines, b.lines, line.lines)
  BY <1>2, <1>3 DEF Takes
<1>6. Counted(t, q, m, n + 1, silent)
  BY <1>1, <1>3, <1>4, <1>5 DEF Kept, Counted
<1>7. /\ UpTo(t.lines, n + 1) /\ UpTo(q.lines, n + 1) /\ UpTo(b.lines, n + 1)
  BY <1>1, <1>4, Grown DEF Kept, Sorted
<1>8. /\ Rising(line.lines) /\ UpTo(line.lines, n + 1)
      /\ Before(b.lines, line.lines) /\ Before(t.lines, line.lines) /\ Before(q.lines, line.lines)
  BY <1>1, <1>2, <1>4, Last DEF Kept, Sorted
<1>9. Rising(m.lines)
  BY <1>2, <1>4, <1>5, <1>8, FollowersRise DEF Kept, Sorted
<1>10. Before(t.lines, m.lines) /\ Before(q.lines, m.lines) /\ UpTo(m.lines, n + 1)
  BY <1>5, <1>7, <1>8, FollowersBefore DEF Kept, Sorted
<1>11. Kept(t, q, m, n + 1, silent)
  BY <1>6, <1>7, <1>9, <1>10 DEF Kept, Sorted
<1> QED BY <1>3, <1>11 DEF m, line

----------------------------------------------------------------------------
(* The desk                                                                *)

\* What a flush, or none, makes of desk d: e.
Served(d, e) ==
  /\ e \in Desks
  /\ \A j \in Jobs : owner[j] # session => e.told[j] = d.told[j]
  /\ \A j \in Jobs, b \in Batches, n \in Nat, silent \in BOOLEAN, x \in Nat :
       Holds(d, j, b, n, silent, x) /\ (owner[j] = session \/ silent \/ n = 0)
         => Holds(e, j, b, n, silent, x)

LEMMA Same ==
  ASSUME NEW t \in Waiting, NEW q \in Waiting, NEW b, NEW n, NEW silent,
         Kept(t, q, b, n, silent), NEW u \in Waiting, NEW r \in Waiting,
         u.lines = t.lines, u.omitted = t.omitted, r.lines = q.lines, r.omitted = q.omitted
  PROVE  Kept(u, r, b, n, silent)
  BY DEF Kept, Counted, Sorted, Size

LEMMA CarriedParts ==
  ASSUME NEW q \in [Jobs -> Waiting], NEW j \in Jobs, NEW ns
  PROVE  /\ Carried(q, j, ns) \in Waiting
         /\ <<j, "events">> \in ns => /\ Carried(q, j, ns).lines = q[j].lines
                                      /\ Carried(q, j, ns).omitted = q[j].omitted
         /\ <<j, "events">> \notin ns => /\ Carried(q, j, ns).lines = <<>>
                                         /\ Carried(q, j, ns).omitted = 0
         /\ Carried(q, j, ns).ends = IF <<j, "end">> \in ns THEN q[j].ends ELSE 0
<1>1. /\ q[j].lines \in Seq(Nat) /\ q[j].omitted \in Nat /\ q[j].ends \in Nat
      /\ <<>> \in Seq(Nat)
  BY Fields
<1> QED BY <1>1 DEF Carried, Waiting

LEMMA ToldParts ==
  ASSUME NEW t \in Waiting, NEW w \in Waiting
  PROVE  /\ Told(t, w) \in Waiting /\ Takes(Told(t, w), t, w)
         /\ Told(t, w).ends = t.ends + w.ends
         /\ w.lines = <<>> => Told(t, w).lines = t.lines
         /\ w.omitted = 0 => Told(t, w).omitted = t.omitted
<1> DEFINE all == t.lines \o w.lines
<1>1. /\ t.lines \in Seq(Nat) /\ w.lines \in Seq(Nat) /\ t.omitted \in Nat /\ w.omitted \in Nat
      /\ t.ends \in Nat /\ w.ends \in Nat
  BY Fields
<1>2. /\ all \in Seq(Nat) /\ Len(all) = Len(t.lines) + Len(w.lines)
      /\ Follows(all, t.lines, w.lines)
      /\ Len(t.lines) \in Nat /\ Len(w.lines) \in Nat
  BY <1>1, Lengths, Joined
<1>3. w.lines = <<>> => all = t.lines
  BY <1>1
<1>4. Told(t, w) = [lines |-> all, omitted |-> t.omitted + w.omitted, ends |-> t.ends + w.ends]
  BY DEF Told
<1> HIDE DEF all
<1>5. Told(t, w) \in Waiting
  BY <1>1, <1>2, <1>4 DEF Waiting
<1>6. /\ Told(t, w).lines = all /\ Told(t, w).omitted = t.omitted + w.omitted
      /\ Told(t, w).ends = t.ends + w.ends
  BY <1>4
<1>7. Size(Told(t, w)) = Size(t) + Size(w)
  <2>1. PICK i \in Nat, k \in Nat, m \in Nat, n \in Nat :
          i = Len(t.lines) /\ k = Len(w.lines) /\ m = t.omitted /\ n = w.omitted
    BY <1>1, <1>2
  <2>2. Size(Told(t, w)) = (i + k) + (m + n)
    BY <1>2, <1>6, <2>1, Zenon DEF Size
  <2>3. Size(t) = i + m /\ Size(w) = k + n
    BY <2>1 DEF Size
  <2>4. (i + k) + (m + n) = (i + m) + (k + n)
    OBVIOUS
  <2> QED BY <2>2, <2>3, <2>4, Zenon
<1>8. w.omitted = 0 => Told(t, w).omitted = t.omitted
  BY <1>1, <1>6
<1> QED BY <1>2, <1>3, <1>5, <1>6, <1>7, <1>8 DEF Takes

LEMMA FlushedJob ==
  ASSUME NEW d \in Desks, NEW j \in Jobs, NEW bad \in SUBSET Deliverable(d.queue),
         NEW b \in Batches, NEW n \in Nat, NEW silent \in BOOLEAN, NEW x \in Nat,
         Holds(d, j, b, n, silent, x), owner[j] = session \/ silent \/ n = 0
  PROVE  LET left == Carried(d.queue, j, bad)
             sent == Carried(d.queue, j, Deliverable(d.queue) \ bad)
         IN  /\ Kept(Told(d.told[j], sent), left, b, n, silent)
             /\ Told(d.told[j], sent).ends + left.ends <= x
<1> DEFINE sends == Deliverable(d.queue) \ bad
           left == Carried(d.queue, j, bad)
           sent == Carried(d.queue, j, sends)
           t == d.told[j]
           q == d.queue[j]
           u == Told(t, sent)
<1>1. /\ d.queue \in [Jobs -> Waiting] /\ t \in Waiting /\ q \in Waiting
      /\ Kept(t, q, b, n, silent) /\ t.ends + q.ends <= x
  BY DEF Desks, Holds
<1>2. /\ \A k \in {"events", "end"} : <<j, k>> \in bad => <<j, k>> \notin sends
      /\ \A k \in {"events", "end"} :
           <<j, k>> \in Deliverable(d.queue) => <<j, k>> \in bad \/ <<j, k>> \in sends
      /\ \A k \in {"events", "end"} :
           <<j, k>> \notin Deliverable(d.queue) => <<j, k>> \notin bad /\ <<j, k>> \notin sends
  OBVIOUS
<1>3. /\ <<j, "events">> \in Deliverable(d.queue) <=> Size(q) > 0 /\ owner[j] = session
      /\ <<j, "end">> \in Deliverable(d.queue) <=> q.ends > 0 /\ owner[j] = session
  BY DEF Deliverable, Notices
<1>4. /\ left \in Waiting /\ sent \in Waiting
      /\ <<j, "events">> \in bad => left.lines = q.lines /\ left.omitted = q.omitted
      /\ <<j, "events">> \notin bad => left.lines = <<>> /\ left.omitted = 0
      /\ <<j, "events">> \in sends => sent.lines = q.lines /\ sent.omitted = q.omitted
      /\ <<j, "events">> \notin sends => sent.lines = <<>> /\ sent.omitted = 0
      /\ left.ends = IF <<j, "end">> \in bad THEN q.ends ELSE 0
      /\ sent.ends = IF <<j, "end">> \in sends THEN q.ends ELSE 0
  BY <1>1, CarriedParts
<1> HIDE DEF sends, left, sent
<1>5. /\ u \in Waiting /\ Takes(u, t, sent) /\ u.ends = t.ends + sent.ends
      /\ sent.lines = <<>> => u.lines = t.lines
      /\ sent.omitted = 0 => u.omitted = t.omitted
  BY <1>1, <1>4, ToldParts
<1> HIDE DEF u
<1>6. Kept(u, left, b, n, silent)
  <2>1. CASE <<j, "events">> \in bad
    BY <1>1, <1>2, <1>4, <1>5, <2>1, Same
  <2>2. CASE <<j, "events">> \in sends
    <3>1. Takes(u, t, q)
      BY <1>4, <1>5, <2>2 DEF Takes, Size
    <3>2. left.lines = <<>> /\ left.omitted = 0
      BY <1>2, <1>4, <2>2
    <3> QED BY <1>1, <1>4, <1>5, <3>1, <3>2, Tell
  <2>3. CASE <<j, "events">> \notin Deliverable(d.queue)
    <3>1. /\ u.lines = t.lines /\ u.omitted = t.omitted
          /\ left.lines = <<>> /\ left.omitted = 0
      BY <1>2, <1>4, <1>5, <2>3
    <3>2. CASE Size(q) = 0
      <4>1. q.lines = <<>> /\ q.omitted = 0
        BY <1>1, <3>2, Fields
      <4> QED BY <1>1, <1>4, <1>5, <3>1, <4>1, Same
    <3>3. CASE silent \/ n = 0
      <4>1. Kept(t, left, b, n, silent)
        BY <1>1, <1>4, <3>1, <3>3, Drop
      <4> QED BY <1>1, <1>4, <1>5, <3>1, <4>1, Same
    <3>4. Size(q) \in Nat
      BY <1>1, Fields
    <3> QED BY <1>3, <2>3, <3>2, <3>3, <3>4
  <2> QED BY <1>2, <2>1, <2>2, <2>3
<1>7. u.ends + left.ends <= x
  <2>1. t.ends \in Nat /\ q.ends \in Nat
    BY <1>1, Fields
  <2> QED BY <1>1, <1>2, <1>4, <1>5, <2>1
<1> QED BY <1>6, <1>7 DEF u, left, sent, sends

LEMMA FlushServes ==
  ASSUME NEW d \in Desks, NEW ph, NEW e \in Flushes(d, ph)
  PROVE  Served(d, e)
<1>1. CASE e = d
  BY <1>1 DEF Served
<1>2. ASSUME NEW bad \in SUBSET Deliverable(d.queue), d.faults + Cardinality(bad) <= MaxFaults,
             e = Flushed(d, ph, bad)
      PROVE  Served(d, e)
  <2> DEFINE sends == Deliverable(d.queue) \ bad
             left(j) == Carried(d.queue, j, bad)
             sent(j) == Carried(d.queue, j, sends)
             queue == [j \in Jobs |-> left(j)]
             told == [j \in Jobs |-> Told(d.told[j], sent(j))]
             again == Retried(d, ph, bad)
  <2>1. /\ d.queue \in [Jobs -> Waiting] /\ d.told \in [Jobs -> Waiting]
        /\ d.retries \in 0 .. RetryLimit /\ d.faults \in 0 .. MaxFaults
        /\ d.wake \in {"none", "owed", "sent"}
    BY DEF Desks
  <2>2. Cardinality(bad) \in Nat
    <3>1. IsFiniteSet({"events", "end"})
      <4>1. IsFiniteSet({"events"}) /\ IsFiniteSet({"end"})
        BY FS_Singleton
      <4>2. IsFiniteSet({"events"} \cup {"end"})
        BY <4>1, FS_Union
      <4>3. {"events", "end"} = {"events"} \cup {"end"}
        OBVIOUS
      <4> QED BY <4>2, <4>3
    <3>2. IsFiniteSet(Jobs \X {"events", "end"})
      BY <3>1, FS_Product, JobsAssumption
    <3>3. bad \subseteq Jobs \X {"events", "end"}
      BY DEF Deliverable, Notices
    <3> QED BY <3>2, <3>3, FS_Subset, FS_CardinalityType
  <2>3. /\ e.queue = queue /\ e.told = told /\ e.retry = (d.retry \/ again)
        /\ e.retries = IF again THEN d.retries + 1 ELSE d.retries
        /\ e.faults = d.faults + Cardinality(bad)
        /\ e.wake \in {d.wake, "owed"}
        /\ e = [queue |-> e.queue, told |-> e.told, retry |-> e.retry, retries |-> e.retries,
                wake |-> e.wake, faults |-> e.faults]
    BY <1>2 DEF Flushed
  <2>4. ASSUME NEW j \in Jobs
        PROVE  left(j) \in Waiting /\ Told(d.told[j], sent(j)) \in Waiting
    BY <2>1, CarriedParts, ToldParts
  <2>5. queue \in [Jobs -> Waiting] /\ told \in [Jobs -> Waiting]
    BY <2>4
  <2>6. e.retry \in BOOLEAN
    BY <2>3, Zenon DEF Retried, Desks
  <2>7. e.retries \in 0 .. RetryLimit /\ e.faults \in 0 .. MaxFaults
    BY <1>2, <2>1, <2>2, <2>3, LimitsAssumption DEF Retried
  <2>8. e \in Desks
    BY <2>1, <2>3, <2>5, <2>6, <2>7 DEF Desks
  <2>9. ASSUME NEW j \in Jobs, owner[j] # session
        PROVE  e.told[j] = d.told[j]
    <3>1. <<j, "events">> \notin sends /\ <<j, "end">> \notin sends
      BY <2>9 DEF Deliverable
    <3>2. sent(j).lines = <<>> /\ sent(j).omitted = 0 /\ sent(j).ends = 0 /\ sent(j) \in Waiting
      BY <2>1, <3>1, CarriedParts
    <3> HIDE DEF sent
    <3>3. /\ Told(d.told[j], sent(j)).lines = d.told[j].lines
          /\ Told(d.told[j], sent(j)).omitted = d.told[j].omitted
          /\ Told(d.told[j], sent(j)).ends = d.told[j].ends + 0
          /\ Told(d.told[j], sent(j)) \in Waiting
      BY <2>1, <3>2, ToldParts
    <3>4. d.told[j] \in Waiting /\ d.told[j].ends + 0 = d.told[j].ends
      BY <2>1, Fields
    <3>5. Told(d.told[j], sent(j)) = d.told[j]
      BY <3>3, <3>4, SameWaiting
    <3> QED BY <2>3, <3>5
  <2>10. ASSUME NEW j \in Jobs, NEW b \in Batches, NEW n \in Nat, NEW silent \in BOOLEAN,
                NEW x \in Nat, Holds(d, j, b, n, silent, x), owner[j] = session \/ silent \/ n = 0
         PROVE  Holds(e, j, b, n, silent, x)
    <3>1. /\ Kept(Told(d.told[j], sent(j)), left(j), b, n, silent)
          /\ Told(d.told[j], sent(j)).ends + left(j).ends <= x
      BY <2>10, FlushedJob
    <3>2. e.told[j] = Told(d.told[j], sent(j)) /\ e.queue[j] = left(j)
      BY <2>3
    <3> QED BY <3>1, <3>2 DEF Holds
  <2> QED BY <2>8, <2>9, <2>10 DEF Served
<1> QED BY <1>1, <1>2 DEF Flushes

\* A queue that grew is flushed, or waits.
LEMMA QueuesServe ==
  ASSUME NEW d \in Desks, NEW q \in [Jobs -> Waiting], NEW e \in Queues(d, q)
  PROVE  Served([d EXCEPT !.queue = q], e)
<1> DEFINE c == [d EXCEPT !.queue = q]
<1>1. c \in Desks
  BY DEF Desks
<1>2. CASE e = c
  BY <1>1, <1>2 DEF Served
<1>3. CASE e \in Flushes(c, phase)
  BY <1>1, <1>3, FlushServes
<1> QED BY <1>2, <1>3 DEF Queues

\* What a callback of job j makes of desk d: e keeps the others' lines and ends.
Others(d, e, j) ==
  /\ e \in Desks
  /\ \A k \in Jobs : owner[k] # session => e.told[k] = d.told[k]
  /\ \A k \in Jobs \ {j}, b \in Batches, n \in Nat, silent \in BOOLEAN, x \in Nat :
       Holds(d, k, b, n, silent, x) /\ (owner[k] = session \/ silent \/ n = 0)
         => Holds(e, k, b, n, silent, x)

\* A notice w of job j that the desk takes.
LEMMA TakesNotice ==
  ASSUME NEW d \in Desks, NEW j \in Jobs, NEW w \in Waiting,
         NEW e \in Queues(d, [d.queue EXCEPT ![j] = w]),
         NEW b \in Batches, NEW n \in Nat, NEW silent \in BOOLEAN, NEW x \in Nat,
         Kept(d.told[j], w, b, n, silent), d.told[j].ends + w.ends <= x,
         owner[j] = session \/ silent \/ n = 0
  PROVE  Others(d, e, j) /\ Holds(e, j, b, n, silent, x)
<1> DEFINE q == [d.queue EXCEPT ![j] = w]
           c == [d EXCEPT !.queue = q]
<1>1. d.queue \in [Jobs -> Waiting]
  BY DEF Desks
<1>2. q \in [Jobs -> Waiting] /\ q[j] = w /\ \A k \in Jobs \ {j} : q[k] = d.queue[k]
  BY <1>1
<1> HIDE DEF q
<1>3. c.queue = q /\ c.told = d.told
  BY DEF Desks
<1>4. Served(c, e)
  BY <1>2, QueuesServe DEF q
<1> HIDE DEF c
<1>5. Holds(c, j, b, n, silent, x)
  BY <1>2, <1>3 DEF Holds
<1>6. ASSUME NEW k \in Jobs \ {j}, NEW b1 \in Batches, NEW n1 \in Nat, NEW s1 \in BOOLEAN,
             NEW x1 \in Nat, Holds(d, k, b1, n1, s1, x1)
      PROVE  Holds(c, k, b1, n1, s1, x1)
  BY <1>2, <1>3, <1>6 DEF Holds
<1>7. Holds(e, j, b, n, silent, x)
  BY <1>4, <1>5 DEF Served
<1>8. Others(d, e, j)
  BY <1>3, <1>4, <1>6 DEF Served, Others
<1> QED BY <1>7, <1>8

\* The controller hands over the batch: it loses no line.
LEMMA BatchHanded ==
  ASSUME NEW d \in Desks, NEW j \in Jobs, NEW b \in Batches, NEW e \in FlushesBatch(d, j, b),
         NEW n \in Nat, NEW silent \in BOOLEAN, NEW x \in Nat,
         Holds(d, j, b, n, silent, x), owner[j] = session \/ silent \/ n = 0,
         j \in active \/ b = NoBatch
  PROVE  Others(d, e, j) /\ Holds(e, j, NoBatch, n, silent, x)
<1>1. CASE e = d /\ b = NoBatch
  BY <1>1 DEF Others
<1>2. CASE e \in Queues(d, WithEvents(d.queue, j, b))
  <2> DEFINE w == Merged(d.queue[j], b)
  <2>1. d.queue[j] \in Waiting /\ d.told[j] \in Waiting
    BY DEF Desks
  <2>2. /\ Kept(d.told[j], d.queue[j], b, n, silent)
        /\ d.told[j].ends + d.queue[j].ends <= x /\ Len(d.queue[j].lines) <= LinesPerNotice
    BY DEF Holds, Kept, Counted
  <2>3. /\ w \in Waiting /\ Takes(w, d.queue[j], b) /\ Len(w.lines) <= LinesPerNotice
        /\ w.ends = d.queue[j].ends
    BY <2>1, <2>2, MergedNotice
  <2>4. e \in Queues(d, [d.queue EXCEPT ![j] = w])
    BY <1>2 DEF WithEvents
  <2> HIDE DEF w
  <2>5. Kept(d.told[j], w, NoBatch, n, silent)
    BY <2>1, <2>2, <2>3, Handed
  <2>6. d.told[j].ends + w.ends <= x
    BY <2>2, <2>3
  <2>7. NoBatch \in Batches
    BY NoLines
  <2> QED BY <2>3, <2>4, <2>5, <2>6, <2>7, TakesNotice
<1> QED BY <1>1, <1>2 DEF FlushesBatch

\* The batch, then the end of the job, its first.
LEMMA EndHanded ==
  ASSUME NEW d \in Desks, NEW j \in Jobs, NEW b \in Batches, NEW e \in Finishes(d, j, b),
         NEW n \in Nat, NEW silent \in BOOLEAN,
         Holds(d, j, b, n, silent, 0), owner[j] = session \/ silent \/ n = 0,
         j \in active \/ b = NoBatch
  PROVE  Others(d, e, j) /\ Holds(e, j, NoBatch, n, silent, 1)
<1>1. PICK f \in FlushesBatch(d, j, b) : e \in Queues(f, WithEnd(f.queue, j))
  BY DEF Finishes
<1>2. Others(d, f, j) /\ Holds(f, j, NoBatch, n, silent, 0)
  BY BatchHanded
<1> DEFINE q == f.queue[j]
           w == [q EXCEPT !.ends = q.ends + 1]
<1>3. f \in Desks /\ q \in Waiting /\ f.told[j] \in Waiting
  BY <1>2 DEF Others, Desks
<1>4. f.told[j].ends \in Nat /\ q.ends \in Nat
  BY <1>3, Fields
<1>5. w \in Waiting /\ w.lines = q.lines /\ w.omitted = q.omitted /\ w.ends = q.ends + 1
  <2>1. q.ends + 1 \in Nat
    BY <1>4
  <2> QED BY <1>3, <2>1, EndsAs
<1>6. e \in Queues(f, [f.queue EXCEPT ![j] = w])
  BY <1>1 DEF WithEnd
<1> HIDE DEF w
<1>7. Kept(f.told[j], q, NoBatch, n, silent) /\ f.told[j].ends + q.ends <= 0
  BY <1>2 DEF Holds
<1>8. Kept(f.told[j], w, NoBatch, n, silent) /\ f.told[j].ends + w.ends <= 1
  <2>1. Kept(f.told[j], w, NoBatch, n, silent)
    BY <1>3, <1>5, <1>7, Same
  <2>2. f.told[j].ends + w.ends <= 1
    BY <1>4, <1>5, <1>7
  <2> QED BY <2>1, <2>2
<1>9. Others(f, e, j) /\ Holds(e, j, NoBatch, n, silent, 1)
  BY <1>3, <1>5, <1>6, <1>8, NoLines, TakesNotice
<1> QED BY <1>2, <1>9 DEF Others

----------------------------------------------------------------------------
(* The jobs that a step leaves alone                                       *)

\* The step tells the parent nothing of another session's jobs.
Theirs == \A k \in Jobs : owner[k] # session => desk'.told[k] = desk.told[k]

\* The step does not touch job k.
SameJob(k) ==
  /\ owner'[k] = owner[k] /\ status'[k] = status[k] /\ run'[k] = run[k]
  /\ (k \in active') = (k \in active) /\ (k \in silenced') = (k \in silenced)
  /\ k \in Monitors => batch'[k] = batch[k] /\ events'[k] = events[k] /\ recent'[k] = recent[k]

LEMMA Ours ==
  ASSUME NEW k \in Jobs, JobInv(k)
  PROVE  owner[k] = session \/ k \in silenced \/ Seen(k) = 0
  BY DEF JobInv

LEMMA JobTypes ==
  ASSUME Ranges, NEW k \in Jobs
  PROVE  /\ OpenBatch(k) \in Batches /\ Seen(k) \in Nat /\ (k \in silenced) \in BOOLEAN
         /\ Ended(k) \in {0, 1} /\ desk \in Desks
         /\ desk.told \in [Jobs -> Waiting] /\ desk.queue \in [Jobs -> Waiting]
         /\ desk.told[k] \in Waiting /\ desk.queue[k] \in Waiting
<1>1. Seen(k) \in Nat
  BY LimitsAssumption DEF Ranges, Seen
<1>2. OpenBatch(k) \in Batches
  BY NoLines DEF Ranges, OpenBatch
<1>3. (k \in silenced) \in BOOLEAN
  OBVIOUS
<1>4. Ended(k) \in {0, 1}
  BY DEF Ended
<1>5. desk \in Desks
  BY DEF Ranges
<1> QED BY <1>1, <1>2, <1>3, <1>4, <1>5 DEF Desks

LEMMA SameHolds ==
  ASSUME NEW k \in Jobs, SameJob(k)
  PROVE  OpenBatch(k)' = OpenBatch(k) /\ Seen(k)' = Seen(k) /\ Ended(k)' = Ended(k)
  BY DEF SameJob, OpenBatch, Seen, Ended

LEMMA Frame ==
  ASSUME NEW k \in Jobs, JobInv(k), SameJob(k),
         session' = session \/ k \in silenced \/ status[k] = "new",
         Holds(desk', k, OpenBatch(k), Seen(k), k \in silenced, Ended(k)), Ranges
  PROVE  JobInv(k)'
<1>1. OpenBatch(k)' = OpenBatch(k) /\ Seen(k)' = Seen(k) /\ Ended(k)' = Ended(k)
  BY SameHolds
<1>2. /\ owner'[k] = owner[k] /\ status'[k] = status[k] /\ run'[k] = run[k]
      /\ (k \in active') = (k \in active) /\ (k \in silenced') = (k \in silenced)
      /\ k \in Monitors => recent'[k] = recent[k]
      /\ k \in active => k \in Monitors
  BY DEF SameJob, Ranges
<1>3. Holds(desk', k, OpenBatch(k)', Seen(k)', k \in silenced', Ended(k)')
  BY <1>1, <1>2
<1> QED BY <1>1, <1>2, <1>3 DEF JobInv

LEMMA OtherJobs ==
  ASSUME IInv, NEW j \in Jobs, Others(desk, desk', j), session' = session,
         NEW k \in Jobs \ {j}, SameJob(k)
  PROVE  JobInv(k)'
<1>1. JobInv(k) /\ Ranges
  BY DEF IInv
<1>2. owner[k] = session \/ k \in silenced \/ Seen(k) = 0
  BY <1>1, Ours
<1>3. Holds(desk, k, OpenBatch(k), Seen(k), k \in silenced, Ended(k))
  BY <1>1 DEF JobInv
<1>4. /\ OpenBatch(k) \in Batches /\ Seen(k) \in Nat /\ (k \in silenced) \in BOOLEAN
      /\ Ended(k) \in Nat
  BY <1>1, JobTypes
<1>5. Holds(desk', k, OpenBatch(k), Seen(k), k \in silenced, Ended(k))
  BY <1>2, <1>3, <1>4 DEF Others
<1> QED BY <1>1, <1>5, Frame

LEMMA AllJobs ==
  ASSUME IInv, Served(desk, desk'), session' = session, UNCHANGED <<jobVars, monitorVars>>
  PROVE  (\A k \in Jobs : JobInv(k)') /\ Theirs /\ desk' \in Desks
<1>1. ASSUME NEW k \in Jobs
      PROVE  JobInv(k)'
  <2>1. JobInv(k) /\ Ranges
    BY DEF IInv
  <2>2. owner[k] = session \/ k \in silenced \/ Seen(k) = 0
    BY <2>1, Ours
  <2>3. Holds(desk, k, OpenBatch(k), Seen(k), k \in silenced, Ended(k))
    BY <2>1 DEF JobInv
  <2>4. /\ OpenBatch(k) \in Batches /\ Seen(k) \in Nat /\ (k \in silenced) \in BOOLEAN
        /\ Ended(k) \in Nat
    BY <2>1, JobTypes
  <2>5. Holds(desk', k, OpenBatch(k), Seen(k), k \in silenced, Ended(k))
    BY <2>2, <2>3, <2>4 DEF Served
  <2>6. SameJob(k)
    BY DEF SameJob, jobVars, monitorVars
  <2> QED BY <2>1, <2>5, <2>6, Frame
<1> QED BY <1>1 DEF Theirs, Served

\* The desk keeps its notices.
LEMMA SameDesk ==
  ASSUME NEW d \in Desks, NEW e \in Desks, e.queue = d.queue, e.told = d.told
  PROVE  Served(d, e)
<1>1. \A j \in Jobs : e.queue[j] = d.queue[j] /\ e.told[j] = d.told[j]
  OBVIOUS
<1> QED BY <1>1 DEF Served, Holds

----------------------------------------------------------------------------
(* The steps of the parent                                                 *)

LEMMA DeskStep ==
  ASSUME IInv, Served(desk, desk'), UNCHANGED <<session, jobVars, monitorVars, starts>>,
         phase' \in {"idle", "running", "settling", "compacting"},
         phase' = "running" => session # None
  PROVE  IInv' /\ Theirs
<1>1. (\A k \in Jobs : JobInv(k)') /\ Theirs /\ desk' \in Desks
  BY AllJobs
<1>2. Ranges'
  BY <1>1 DEF IInv, Ranges, jobVars, monitorVars
<1> QED BY <1>1, <1>2 DEF IInv

LEMMA AgentStartStep == ASSUME IInv, AgentStart PROVE IInv' /\ Theirs
<1>1. desk \in Desks
  BY DEF IInv, Ranges
<1>2. /\ desk' = [desk EXCEPT !.retry = FALSE, !.retries = 0, !.wake = "none"]
      /\ UNCHANGED <<session, jobVars, monitorVars, starts>> /\ phase' = "running"
      /\ session # None
  BY DEF AgentStart
<1>3. desk' \in Desks /\ desk'.queue = desk.queue /\ desk'.told = desk.told
  <2>1. 0 \in 0 .. RetryLimit
    BY LimitsAssumption
  <2> QED BY <1>1, <1>2, <2>1 DEF Desks
<1>4. Served(desk, desk')
  BY <1>1, <1>3, SameDesk
<1> QED BY <1>2, <1>4, DeskStep

LEMMA DispatchStep == ASSUME IInv, Dispatch PROVE IInv' /\ Theirs
<1>1. desk \in Desks
  BY DEF IInv, Ranges
<1>2. /\ desk' = [desk EXCEPT !.wake = "sent", !.retry = FALSE]
      /\ UNCHANGED <<session, phase, jobVars, monitorVars, starts>>
  BY DEF Dispatch
<1>3. desk' \in Desks /\ desk'.queue = desk.queue /\ desk'.told = desk.told
  BY <1>1, <1>2 DEF Desks
<1>4. Served(desk, desk')
  BY <1>1, <1>3, SameDesk
<1>5. /\ phase' \in {"idle", "running", "settling", "compacting"}
      /\ phase' = "running" => session # None
  BY <1>2 DEF IInv, Ranges
<1> QED BY <1>2, <1>4, <1>5, DeskStep

LEMMA FlushSteps ==
  ASSUME IInv, TurnEnd \/ AgentEnd \/ AgentSettled \/ Compacts \/ Compacted
  PROVE  IInv' /\ Theirs
<1>1. desk \in Desks
  BY DEF IInv, Ranges
<1>2. UNCHANGED <<session, jobVars, monitorVars, starts>>
  BY DEF TurnEnd, AgentEnd, AgentSettled, Compacts, Compacted
<1>3. /\ phase' \in {"idle", "running", "settling", "compacting"}
      /\ phase' = "running" => session # None
  BY DEF TurnEnd, AgentEnd, AgentSettled, Compacts, Compacted, IInv, Ranges
<1>4. desk' = desk \/ desk' \in Flushes(desk, "running") \/ desk' \in Flushes(desk, "idle")
  BY DEF TurnEnd, AgentEnd, AgentSettled, Compacts, Compacted
<1>5. Served(desk, desk')
  BY <1>1, <1>4, FlushServes, SameDesk
<1> QED BY <1>2, <1>3, <1>5, DeskStep

LEMMA RetryStep == ASSUME IInv, Retry PROVE IInv' /\ Theirs
<1> DEFINE d == [desk EXCEPT !.retry = FALSE]
<1>1. desk \in Desks
  BY DEF IInv, Ranges
<1>2. /\ desk' \in Flushes(d, phase)
      /\ UNCHANGED <<session, phase, jobVars, monitorVars, starts>>
  BY DEF Retry
<1>3. d \in Desks /\ d.queue = desk.queue /\ d.told = desk.told
  BY <1>1 DEF Desks
<1> HIDE DEF d
<1>4. Served(desk, d) /\ Served(d, desk')
  BY <1>1, <1>2, <1>3, FlushServes, SameDesk
<1>5. Served(desk, desk')
  BY <1>4 DEF Served
<1>6. /\ phase' \in {"idle", "running", "settling", "compacting"}
      /\ phase' = "running" => session # None
  BY <1>2 DEF IInv, Ranges
<1> QED BY <1>2, <1>5, <1>6, DeskStep

\* A queue that is emptied, when no job of the open session may still speak.
LEMMA Emptied ==
  ASSUME NEW d \in Desks, NEW e \in Desks, NEW k \in Jobs, NEW b \in Batches, NEW n, NEW silent,
         NEW x \in Nat, Holds(d, k, b, n, silent, x), silent \/ n = 0,
         e.told = d.told, e.queue = EmptyQueue
  PROVE  Holds(e, k, b, n, silent, x)
<1>1. /\ d.told[k] \in Waiting /\ d.queue[k] \in Waiting /\ Nothing \in Waiting
      /\ Nothing.lines = <<>> /\ Nothing.omitted = 0 /\ Nothing.ends = 0
  BY NoLines DEF Desks
<1>2. d.told[k].ends \in Nat /\ d.queue[k].ends \in Nat
  BY <1>1, Fields
<1>3. e.queue[k] = Nothing /\ e.told[k] = d.told[k]
  BY DEF EmptyQueue
<1>4. Kept(d.told[k], Nothing, b, n, silent)
  BY <1>1, Drop DEF Holds
<1>5. d.told[k].ends + 0 <= x
  BY <1>2 DEF Holds
<1> QED BY <1>1, <1>3, <1>4, <1>5 DEF Holds

LEMMA SessionStartStep == ASSUME IInv, NEW s \in Sessions, SessionStart(s) PROVE IInv' /\ Theirs
<1>1. desk \in Desks /\ Ranges /\ \A k \in Jobs : JobInv(k)
  BY DEF IInv, Ranges
<1>2. /\ session = None /\ starts < MaxStarts /\ starts' = starts + 1 /\ session' = s
      /\ phase' = "idle" /\ UNCHANGED <<jobVars, monitorVars>>
      /\ desk' = [desk EXCEPT !.queue = EmptyQueue, !.retry = FALSE, !.retries = 0,
                              !.wake = "none"]
  BY DEF SessionStart
<1>3. EmptyQueue \in [Jobs -> Waiting]
  BY NoLines DEF EmptyQueue
<1>4. desk' \in Desks /\ desk'.queue = EmptyQueue /\ desk'.told = desk.told
  <2>1. 0 \in 0 .. RetryLimit
    BY LimitsAssumption
  <2> QED BY <1>1, <1>2, <1>3, <2>1 DEF Desks
<1>5. ASSUME NEW k \in Jobs
      PROVE  JobInv(k)'
  <2>1. SameJob(k)
    BY <1>2 DEF SameJob, jobVars, monitorVars
  <2>2. k \in silenced \/ (status[k] = "new" /\ Seen(k) = 0)
    BY <1>1, <1>2 DEF JobInv
  <2>3. OpenBatch(k) \in Batches /\ Ended(k) \in Nat
    BY <1>1, JobTypes
  <2>4. Holds(desk, k, OpenBatch(k), Seen(k), k \in silenced, Ended(k))
    BY <1>1 DEF JobInv
  <2>5. Holds(desk', k, OpenBatch(k), Seen(k), k \in silenced, Ended(k))
    BY <1>1, <1>4, <2>2, <2>3, <2>4, Emptied
  <2> QED BY <1>1, <2>1, <2>2, <2>5, Frame
<1>6. Ranges'
  <2>1. starts' \in 0 .. MaxStarts
    BY <1>1, <1>2, LimitsAssumption DEF Ranges
  <2> QED BY <1>1, <1>2, <1>4, <2>1 DEF Ranges, jobVars, monitorVars
<1>7. Theirs
  BY <1>4 DEF Theirs
<1> QED BY <1>2, <1>5, <1>6, <1>7 DEF IInv

\* What a silenced monitor's batch held may be dropped.
LEMMA Hushed ==
  ASSUME NEW d \in Desks, NEW k \in Jobs, NEW b \in Batches, NEW n, NEW silent, NEW x, NEW y,
         Holds(d, k, b, n, silent, x), NEW hush, hush \/ b = NoBatch, ~hush => ~silent,
         x \in Nat, y \in Nat, x <= y
  PROVE  Holds(d, k, NoBatch, n, hush, y)
<1>1. d.told[k] \in Waiting /\ d.queue[k] \in Waiting
  BY DEF Desks
<1>2. /\ Size(d.told[k]) \in Nat /\ Size(d.queue[k]) \in Nat /\ Size(b) \in Nat
      /\ Size(NoBatch) = 0 /\ Len(NoBatch.lines) = 0
      /\ d.told[k].ends \in Nat /\ d.queue[k].ends \in Nat
  BY <1>1, Fields, NoLines DEF Size
<1>3. Counted(d.told[k], d.queue[k], NoBatch, n, hush)
  BY <1>2, LimitsAssumption DEF Holds, Kept, Counted
<1>4. Sorted(d.told[k], d.queue[k], NoBatch, n)
  BY <1>2 DEF Holds, Kept, Sorted, Rising, Before, UpTo
<1>5. d.told[k].ends + d.queue[k].ends <= y
  BY <1>2 DEF Holds
<1> QED BY <1>3, <1>4, <1>5 DEF Holds, Kept

----------------------------------------------------------------------------
(* The steps that end a job                                                *)

LEMMA Stops ==
  ASSUME Ranges, NEW js \in SUBSET Jobs, status' = Stopped(js)
  PROVE  /\ status' \in [Jobs -> {"new", "running", "exited", "stopped", "halted"}]
         /\ \A k \in Jobs :
              /\ status'[k] = IF k \in js /\ status[k] = "running" THEN "stopped" ELSE status[k]
              /\ run'[k] = run[k] => Ended(k) <= Ended(k)'
<1>1. \A k \in Jobs : status[k] \in {"new", "running", "exited", "stopped", "halted"}
  BY DEF Ranges
<1>2. \A k \in Jobs :
        status'[k] = IF k \in js /\ status[k] = "running" THEN "stopped" ELSE status[k]
  BY DEF Stopped, Running
<1>3. status' \in [Jobs -> {"new", "running", "exited", "stopped", "halted"}]
  BY <1>1 DEF Stopped, Running
<1>4. \A k \in Jobs : run'[k] = run[k] => Ended(k) <= Ended(k)'
  BY <1>2 DEF Ended
<1> QED BY <1>2, <1>3, <1>4

\* A job that is silenced: what waits in its batch is dropped.
LEMMA SilencedJob ==
  ASSUME IInv, NEW k \in Jobs, NEW hush \in BOOLEAN, NEW y \in Nat,
         hush \/ OpenBatch(k) = NoBatch, ~hush => k \notin silenced, Ended(k) <= y
  PROVE  Holds(desk, k, NoBatch, Seen(k), hush, y)
<1>1. JobInv(k) /\ Ranges
  BY DEF IInv
<1>2. /\ OpenBatch(k) \in Batches /\ Seen(k) \in Nat /\ desk \in Desks /\ Ended(k) \in Nat
  BY <1>1, JobTypes
<1>3. Holds(desk, k, OpenBatch(k), Seen(k), k \in silenced, Ended(k))
  BY <1>1 DEF JobInv
<1> QED BY <1>2, <1>3, Hushed

LEMMA SessionShutdownStep == ASSUME IInv, SessionShutdown PROVE IInv' /\ Theirs
<1>1. desk \in Desks /\ Ranges /\ \A k \in Jobs : JobInv(k)
  BY DEF IInv, Ranges
<1>2. /\ session' = None /\ phase' = "idle" /\ status' = Stopped(Jobs)
      /\ active' = {} /\ flushing' = {} /\ batch' = [j \in Monitors |-> NoBatch]
      /\ silenced' = {j \in Jobs : status[j] # "new"}
      /\ UNCHANGED <<owner, run, recent, events, starts>>
      /\ desk' = [desk EXCEPT !.queue = EmptyQueue, !.retry = FALSE, !.retries = 0,
                              !.wake = "none"]
  BY DEF SessionShutdown
<1>3. EmptyQueue \in [Jobs -> Waiting]
  BY NoLines DEF EmptyQueue
<1>4. desk' \in Desks /\ desk'.queue = EmptyQueue /\ desk'.told = desk.told
  <2>1. 0 \in 0 .. RetryLimit
    BY LimitsAssumption
  <2> QED BY <1>1, <1>2, <1>3, <2>1 DEF Desks
<1>5. /\ status' \in [Jobs -> {"new", "running", "exited", "stopped", "halted"}]
      /\ \A k \in Jobs :
           /\ status'[k] = IF status[k] = "running" THEN "stopped" ELSE status[k]
           /\ Ended(k) <= Ended(k)'
  BY <1>1, <1>2, Stops
<1>6. ASSUME NEW k \in Jobs
      PROVE  JobInv(k)'
  <2> DEFINE hush == status[k] # "new"
  <2>1. Seen(k)' = Seen(k) /\ OpenBatch(k)' = NoBatch /\ (k \in silenced') = hush
    BY <1>2 DEF Seen, OpenBatch
  <2>2. Ended(k)' \in Nat
    BY DEF Ended
  <2>3. ~hush => k \notin silenced /\ OpenBatch(k) = NoBatch /\ Seen(k) = 0
    BY <1>1 DEF JobInv
  <2>4. NoBatch \in Batches /\ hush \in BOOLEAN
    BY NoLines
  <2>5. Holds(desk, k, NoBatch, Seen(k), hush, Ended(k)')
    BY <1>5, <2>2, <2>3, <2>4, SilencedJob
  <2>6. Holds(desk', k, NoBatch, Seen(k), hush, Ended(k)')
    BY <1>1, <1>4, <2>2, <2>3, <2>4, <2>5, Emptied
  <2>7. Holds(desk', k, OpenBatch(k)', Seen(k)', k \in silenced', Ended(k)')
    BY <2>1, <2>6
  <2>8. /\ status[k] = "new" <=> status'[k] = "new"
        /\ status'[k] = "exited" => status[k] = "exited"
    BY <1>5
  <2> QED BY <1>1, <1>2, <2>1, <2>3, <2>7, <2>8 DEF JobInv
<1>7. Ranges'
  BY <1>1, <1>2, <1>4, <1>5, NoLines DEF Ranges
<1>8. Theirs
  BY <1>4 DEF Theirs
<1> QED BY <1>2, <1>6, <1>7, <1>8 DEF IInv

LEMMA Cancelled ==
  ASSUME Ranges, NEW j \in Jobs, Cancel(j)
  PROVE  /\ active' = active \ {j} /\ flushing' \subseteq active' /\ active' \subseteq Monitors
         /\ batch' \in [Monitors -> Batches] /\ OpenBatch(j)' = NoBatch
         /\ \A k \in Monitors \ {j} : batch'[k] = batch[k]
  BY NoLines DEF Ranges, Cancel, OpenBatch

LEMMA JobStopStep == ASSUME IInv, NEW j \in Jobs, JobStop(j) PROVE IInv' /\ Theirs
<1>1. desk \in Desks /\ Ranges /\ \A k \in Jobs : JobInv(k)
  BY DEF IInv, Ranges
<1>2. /\ status[j] # "new" /\ owner[j] = session /\ Cancel(j)
      /\ status' = [status EXCEPT ![j] = IF @ = "running" THEN "halted" ELSE @]
      /\ silenced' = silenced \cup {j}
      /\ UNCHANGED <<session, phase, owner, run, recent, events, desk, starts>>
  BY DEF JobStop
<1>3. /\ status' \in [Jobs -> {"new", "running", "exited", "stopped", "halted"}]
      /\ \A k \in Jobs :
           /\ status'[k] = IF k = j /\ status[k] = "running" THEN "halted" ELSE status[k]
           /\ Ended(k) <= Ended(k)'
  <2>1. status' \in [Jobs -> {"new", "running", "exited", "stopped", "halted"}]
    BY <1>1, <1>2 DEF Ranges
  <2>2. \A k \in Jobs :
          status'[k] = IF k = j /\ status[k] = "running" THEN "halted" ELSE status[k]
    BY <1>1, <1>2 DEF Ranges
  <2>3. \A k \in Jobs : Ended(k) <= Ended(k)'
    BY <1>2, <2>2 DEF Ended
  <2> QED BY <2>1, <2>2, <2>3
<1>4. /\ active' = active \ {j} /\ flushing' \subseteq active' /\ active' \subseteq Monitors
      /\ batch' \in [Monitors -> Batches] /\ OpenBatch(j)' = NoBatch
      /\ \A k \in Monitors \ {j} : batch'[k] = batch[k]
  BY <1>1, <1>2, Cancelled
<1>5. Served(desk, desk')
  BY <1>1, <1>2, SameDesk
<1>6. ASSUME NEW k \in Jobs \ {j}
      PROVE  JobInv(k)'
  <2>1. SameJob(k)
    BY <1>2, <1>3, <1>4 DEF SameJob
  <2>2. Holds(desk', k, OpenBatch(k), Seen(k), k \in silenced, Ended(k))
    BY <1>1, <1>2 DEF JobInv
  <2> QED BY <1>1, <1>2, <2>1, <2>2, Frame
<1>7. JobInv(j)'
  <2>1. Seen(j)' = Seen(j) /\ j \in silenced' /\ Ended(j)' \in Nat
    BY <1>2 DEF Seen, Ended
  <2>2. Holds(desk, j, NoBatch, Seen(j), TRUE, Ended(j)')
    BY <1>3, <2>1, SilencedJob
  <2>3. Holds(desk', j, OpenBatch(j)', Seen(j)', TRUE, Ended(j)')
    BY <1>2, <1>4, <2>1, <2>2
  <2>4. /\ status'[j] # "new" /\ j \notin active'
        /\ status'[j] = "exited" => status[j] = "exited"
    BY <1>2, <1>3, <1>4
  <2>5. (j \in silenced') = TRUE
    BY <2>1
  <2> QED BY <1>1, <1>2, <1>4, <2>3, <2>4, <2>5 DEF JobInv
<1>8. Ranges'
  BY <1>1, <1>2, <1>3, <1>4 DEF Ranges
<1>9. Theirs
  BY <1>2 DEF Theirs
<1> QED BY <1>2, <1>6, <1>7, <1>8, <1>9 DEF IInv

----------------------------------------------------------------------------
(* The steps of a job and of its monitor                                   *)

LEMMA StartStep == ASSUME IInv, NEW j \in Jobs, Start(j) PROVE IInv' /\ Theirs
<1>1. desk \in Desks /\ Ranges /\ \A k \in Jobs : JobInv(k)
  BY DEF IInv, Ranges
<1>2. /\ phase = "running" /\ status[j] = "new"
      /\ status' = [status EXCEPT ![j] = "running"]
      /\ run' = [run EXCEPT ![j] = "executing"]
      /\ owner' = [owner EXCEPT ![j] = session]
      /\ active' = active \cup ({j} \cap Monitors)
      /\ UNCHANGED <<session, phase, batch, flushing, recent, events, silenced, desk, starts>>
  BY DEF Start
<1>3. session # None
  BY <1>2 DEF IInv
<1>4. ASSUME NEW k \in Jobs \ {j}
      PROVE  JobInv(k)'
  <2>1. SameJob(k)
    BY <1>1, <1>2 DEF SameJob, Ranges
  <2>2. Holds(desk', k, OpenBatch(k), Seen(k), k \in silenced, Ended(k))
    BY <1>1, <1>2 DEF JobInv
  <2> QED BY <1>1, <1>2, <2>1, <2>2, Frame
<1>5. JobInv(j)'
  <2>1. status'[j] = "running" /\ run'[j] = "executing" /\ owner'[j] = session
    BY <1>1, <1>2 DEF Ranges
  <2>2. Ended(j) = 0 /\ Ended(j)' = 0
    BY <1>2, <2>1 DEF Ended
  <2>3. Seen(j)' = Seen(j) /\ OpenBatch(j)' = OpenBatch(j)
    BY <1>2 DEF Seen, OpenBatch
  <2>4. j \notin active /\ OpenBatch(j) = NoBatch /\ j \notin silenced
    BY <1>1, <1>2 DEF JobInv
  <2>5. Holds(desk', j, OpenBatch(j)', Seen(j)', j \in silenced', Ended(j)')
    BY <1>1, <1>2, <2>2, <2>3 DEF JobInv
  <2>6. j \in active' => recent'[j] <= FloodLines
    BY <1>1, <1>2, LimitsAssumption DEF JobInv, Ranges
  <2> QED BY <1>2, <1>3, <2>1, <2>2, <2>3, <2>4, <2>5, <2>6 DEF JobInv
<1>6. Ranges'
  BY <1>1, <1>2, JobsAssumption DEF Ranges
<1>7. Theirs
  BY <1>2 DEF Theirs
<1> QED BY <1>2, <1>3, <1>4, <1>5, <1>6, <1>7 DEF IInv

\* The step that ends job j: b holds its last lines, n of them so far.
EndsJob(j, b, n) ==
  /\ Holds(desk, j, b, n, j \in silenced, 0)
  /\ Cancel(j)
  /\ desk' \in Finishes(desk, j, b)

LEMMA EndsIt ==
  ASSUME IInv, NEW j \in Jobs, NEW b \in Batches, NEW n \in Nat, EndsJob(j, b, n),
         j \in active \/ b = NoBatch, owner[j] = session \/ j \in silenced \/ n = 0
  PROVE  /\ Others(desk, desk', j) /\ Holds(desk', j, OpenBatch(j)', n, j \in silenced, 1)
         /\ active' = active \ {j} /\ flushing' \subseteq active' /\ active' \subseteq Monitors
         /\ batch' \in [Monitors -> Batches] /\ OpenBatch(j)' = NoBatch
         /\ \A k \in Monitors \ {j} : batch'[k] = batch[k]
<1>1. Ranges /\ desk \in Desks /\ (j \in silenced) \in BOOLEAN
  BY DEF IInv, Ranges
<1>2. /\ active' = active \ {j} /\ flushing' \subseteq active' /\ active' \subseteq Monitors
      /\ batch' \in [Monitors -> Batches] /\ OpenBatch(j)' = NoBatch
      /\ \A k \in Monitors \ {j} : batch'[k] = batch[k]
  BY <1>1, Cancelled DEF EndsJob
<1>3. Others(desk, desk', j) /\ Holds(desk', j, NoBatch, n, j \in silenced, 1)
  BY <1>1, EndHanded DEF EndsJob
<1> QED BY <1>2, <1>3

\* A job that is stopped tells its lines and its end.
LEMMA StopStep ==
  ASSUME IInv, NEW j \in Jobs, status[j] = "running", status' = Stopped({j}), Cancel(j),
         desk' \in Finishes(desk, j, OpenBatch(j)),
         UNCHANGED <<session, phase, owner, run, recent, events, silenced, starts>>
  PROVE  IInv' /\ Theirs
<1>1. desk \in Desks /\ Ranges /\ \A k \in Jobs : JobInv(k)
  BY DEF IInv, Ranges
<1>2. Ended(j) = 0 /\ OpenBatch(j) \in Batches /\ Seen(j) \in Nat
  BY <1>1, JobTypes DEF Ended
<1>3. /\ EndsJob(j, OpenBatch(j), Seen(j))
      /\ owner[j] = session \/ j \in silenced \/ Seen(j) = 0
      /\ j \in active \/ OpenBatch(j) = NoBatch
  BY <1>1, <1>2, Ours DEF JobInv, EndsJob
<1>4. /\ Others(desk, desk', j) /\ Holds(desk', j, OpenBatch(j)', Seen(j), j \in silenced, 1)
      /\ active' = active \ {j} /\ flushing' \subseteq active' /\ active' \subseteq Monitors
      /\ batch' \in [Monitors -> Batches] /\ OpenBatch(j)' = NoBatch
      /\ \A k \in Monitors \ {j} : batch'[k] = batch[k]
  BY <1>2, <1>3, EndsIt
<1>5. /\ status' \in [Jobs -> {"new", "running", "exited", "stopped", "halted"}]
      /\ \A k \in Jobs \ {j} : status'[k] = status[k]
      /\ status'[j] = "stopped"
  BY <1>1, Stops
<1>6. ASSUME NEW k \in Jobs \ {j}
      PROVE  JobInv(k)'
  <2>1. SameJob(k)
    BY <1>4, <1>5 DEF SameJob
  <2> QED BY <1>4, <2>1, OtherJobs
<1>7. JobInv(j)'
  <2>1. Seen(j)' = Seen(j) /\ Ended(j)' = 1 /\ (j \in silenced') = (j \in silenced)
    BY <1>5 DEF Seen, Ended
  <2>2. Holds(desk', j, OpenBatch(j)', Seen(j)', j \in silenced', Ended(j)')
    BY <1>4, <2>1
  <2> QED BY <1>1, <1>4, <1>5, <2>1, <2>2 DEF JobInv
<1>8. Ranges'
  BY <1>1, <1>4, <1>5 DEF Ranges, Others
<1>9. Theirs
  BY <1>4 DEF Others, Theirs
<1> QED BY <1>6, <1>7, <1>8, <1>9 DEF IInv

LEMMA TimeoutStep == ASSUME IInv, NEW j \in Monitors, Timeout(j) PROVE IInv' /\ Theirs
<1>1. j \in Jobs /\ OpenBatch(j) = batch[j]
  BY JobsAssumption DEF OpenBatch
<1>2. /\ status[j] = "running" /\ status' = Stopped({j}) /\ Cancel(j)
      /\ desk' \in Finishes(desk, j, batch[j])
      /\ UNCHANGED <<session, phase, owner, run, recent, events, silenced, starts>>
  BY DEF Timeout, StopFor
<1> QED BY <1>1, <1>2, StopStep

LEMMA HumanStopStep == ASSUME IInv, NEW j \in Jobs, HumanStop(j) PROVE IInv' /\ Theirs
<1>1. /\ status[j] = "running" /\ status' = Stopped({j}) /\ Cancel(j)
      /\ desk' \in Finishes(desk, j, OpenBatch(j))
      /\ UNCHANGED <<session, phase, owner, run, recent, events, silenced, starts>>
  BY DEF HumanStop
<1> QED BY <1>1, StopStep

LEMMA LogClosedStep == ASSUME IInv, NEW j \in Jobs, LogClosed(j) PROVE IInv' /\ Theirs
<1>1. desk \in Desks /\ Ranges /\ \A k \in Jobs : JobInv(k)
  BY DEF IInv, Ranges
<1>2. /\ run[j] = "closing" /\ run' = [run EXCEPT ![j] = "done"]
      /\ UNCHANGED <<session, phase, owner, status, recent, events, silenced, starts>>
  BY DEF LogClosed
<1>3. OpenBatch(j) \in Batches /\ Seen(j) \in Nat
  BY <1>1, JobTypes
<1>4. /\ run' \in [Jobs -> {"none", "executing", "closing", "done"}] /\ run'[j] = "done"
      /\ \A k \in Jobs \ {j} : run'[k] = run[k]
  BY <1>1, <1>2 DEF Ranges
<1>5. CASE status[j] = "exited" /\ Cancel(j) /\ desk' \in Finishes(desk, j, OpenBatch(j))
  <2>1. Ended(j) = 0 /\ Ended(j)' = 1
    BY <1>2, <1>4, <1>5 DEF Ended
  <2>2. /\ EndsJob(j, OpenBatch(j), Seen(j))
        /\ owner[j] = session \/ j \in silenced \/ Seen(j) = 0
        /\ j \in active \/ OpenBatch(j) = NoBatch
    BY <1>1, <1>5, <2>1, Ours DEF JobInv, EndsJob
  <2>3. /\ Others(desk, desk', j) /\ Holds(desk', j, OpenBatch(j)', Seen(j), j \in silenced, 1)
        /\ active' = active \ {j} /\ flushing' \subseteq active' /\ active' \subseteq Monitors
        /\ batch' \in [Monitors -> Batches] /\ OpenBatch(j)' = NoBatch
        /\ \A k \in Monitors \ {j} : batch'[k] = batch[k]
    BY <1>3, <2>2, EndsIt
  <2>4. ASSUME NEW k \in Jobs \ {j}
        PROVE  JobInv(k)'
    <3>1. SameJob(k)
      BY <1>2, <1>4, <2>3 DEF SameJob
    <3> QED BY <1>2, <2>3, <3>1, OtherJobs
  <2>5. JobInv(j)'
    <3>1. Seen(j)' = Seen(j) /\ (j \in silenced') = (j \in silenced)
      BY <1>2 DEF Seen
    <3>2. Holds(desk', j, OpenBatch(j)', Seen(j)', j \in silenced', Ended(j)')
      BY <2>1, <2>3, <3>1
    <3> QED BY <1>1, <1>2, <1>4, <1>5, <2>3, <3>1, <3>2 DEF JobInv
  <2>6. Ranges'
    BY <1>1, <1>2, <1>4, <2>3 DEF Ranges, Others
  <2>7. Theirs
    BY <2>3 DEF Others, Theirs
  <2> QED BY <1>2, <2>4, <2>5, <2>6, <2>7 DEF IInv
<1>6. CASE status[j] # "exited" /\ UNCHANGED <<active, batch, flushing, desk>>
  <2>1. ASSUME NEW k \in Jobs \ {j}
        PROVE  JobInv(k)'
    <3>1. SameJob(k)
      BY <1>2, <1>4, <1>6 DEF SameJob
    <3>2. Holds(desk', k, OpenBatch(k), Seen(k), k \in silenced, Ended(k))
      BY <1>1, <1>6 DEF JobInv
    <3> QED BY <1>1, <1>2, <3>1, <3>2, Frame
  <2>2. JobInv(j)'
    <3>1. Seen(j)' = Seen(j) /\ OpenBatch(j)' = OpenBatch(j) /\ Ended(j)' = Ended(j)
      BY <1>2, <1>6 DEF Seen, OpenBatch, Ended
    <3>2. Holds(desk', j, OpenBatch(j)', Seen(j)', j \in silenced', Ended(j)')
      BY <1>1, <1>2, <1>6, <3>1 DEF JobInv
    <3> QED BY <1>1, <1>2, <1>4, <1>6, <3>1, <3>2 DEF JobInv
  <2>3. Ranges'
    BY <1>1, <1>2, <1>4, <1>6 DEF Ranges
  <2> QED BY <1>2, <1>6, <2>1, <2>2, <2>3 DEF IInv, Theirs
<1> QED BY <1>5, <1>6 DEF LogClosed

LEMMA FlushTimerStep == ASSUME IInv, NEW j \in Monitors, FlushTimer(j) PROVE IInv' /\ Theirs
<1>1. desk \in Desks /\ Ranges /\ (\A k \in Jobs : JobInv(k)) /\ j \in Jobs
  BY JobsAssumption DEF IInv, Ranges
<1>2. /\ j \in flushing /\ flushing' = flushing \ {j} /\ batch' = [batch EXCEPT ![j] = NoBatch]
      /\ desk' \in FlushesBatch(desk, j, batch[j])
      /\ UNCHANGED <<session, phase, jobVars, active, recent, events, silenced, starts>>
  BY DEF FlushTimer
<1>3. /\ OpenBatch(j) = batch[j] /\ OpenBatch(j)' = NoBatch
      /\ Seen(j)' = Seen(j) /\ Ended(j)' = Ended(j) /\ j \in active
      /\ \A k \in Monitors \ {j} : batch'[k] = batch[k]
  BY <1>1, <1>2 DEF OpenBatch, Seen, Ended, Ranges, jobVars
<1>4. /\ batch[j] \in Batches /\ Seen(j) \in Nat /\ Ended(j) \in Nat
      /\ (j \in silenced) \in BOOLEAN
  BY <1>1, <1>3, JobTypes
<1>5. /\ Holds(desk, j, batch[j], Seen(j), j \in silenced, Ended(j))
      /\ owner[j] = session \/ j \in silenced \/ Seen(j) = 0
  BY <1>1, <1>3, Ours DEF JobInv
<1>6. Others(desk, desk', j) /\ Holds(desk', j, NoBatch, Seen(j), j \in silenced, Ended(j))
  BY <1>1, <1>2, <1>3, <1>4, <1>5, BatchHanded
<1>7. ASSUME NEW k \in Jobs \ {j}
      PROVE  JobInv(k)'
  <2>1. SameJob(k)
    BY <1>2, <1>3 DEF SameJob, jobVars
  <2> QED BY <1>1, <1>2, <1>6, <2>1, OtherJobs
<1>8. JobInv(j)'
  <2>1. Holds(desk', j, OpenBatch(j)', Seen(j)', j \in silenced', Ended(j)')
    BY <1>2, <1>3, <1>6
  <2> QED BY <1>1, <1>2, <1>3, <2>1 DEF JobInv, jobVars
<1>9. Ranges'
  BY <1>1, <1>2, <1>6, NoLines DEF Ranges, Others, jobVars
<1>10. Theirs
  BY <1>6 DEF Others, Theirs
<1> QED BY <1>2, <1>7, <1>8, <1>9, <1>10 DEF IInv, jobVars

LEMMA PushStep ==
  ASSUME IInv, NEW j \in Jobs, NEW st \in {"running", "exited"}, PushLine(j, st),
         UNCHANGED <<session, phase, owner, silenced, starts>>,
         run' \in [Jobs -> {"none", "executing", "closing", "done"}],
         \A k \in Jobs \ {j} : run'[k] = run[k],
         run'[j] # "done", st = "exited" => run'[j] = "closing"
  PROVE  IInv' /\ Theirs
<1> DEFINE n == events[j] + 1
           b == Merged(batch[j], [lines |-> <<n>>, omitted |-> 0])
<1>1. desk \in Desks /\ Ranges /\ \A k \in Jobs : JobInv(k)
  BY DEF IInv, Ranges
<1>2. /\ j \in active /\ status[j] = "running" /\ events[j] < MaxLines
      /\ events' = [events EXCEPT ![j] = n]
  BY DEF PushLine
<1>3. PICK r \in 0 .. recent[j] :
        /\ recent' = [recent EXCEPT ![j] = r + 1]
        /\ \/ r + 1 > FloodLines /\ StopFor(j, b)
           \/ /\ r + 1 <= FloodLines
              /\ batch' = [batch EXCEPT ![j] = b]
              /\ flushing' = flushing \cup {j}
              /\ status' = [status EXCEPT ![j] = st]
              /\ UNCHANGED <<active, desk>>
  BY DEF PushLine
<1>4. /\ j \in Monitors /\ OpenBatch(j) = batch[j] /\ Seen(j) = events[j]
      /\ Ended(j) = 0 /\ recent[j] <= FloodLines /\ recent[j] \in Nat /\ events[j] \in Nat
  BY <1>1, <1>2, LimitsAssumption DEF Ranges, JobInv, OpenBatch, Seen
<1>5. /\ n \in 0 .. MaxLines /\ n \in Nat /\ events' \in [Monitors -> 0 .. MaxLines]
      /\ events'[j] = n /\ \A k \in Monitors \ {j} : events'[k] = events[k]
  BY <1>1, <1>2, <1>4, LimitsAssumption DEF Ranges
<1>6. /\ recent' \in [Monitors -> 0 .. FloodLines + 1]
      /\ recent'[j] = r + 1 /\ \A k \in Monitors \ {j} : recent'[k] = recent[k]
  <2>1. r + 1 \in 0 .. FloodLines + 1
    BY <1>4, LimitsAssumption
  <2> QED BY <1>1, <1>3, <1>4, <2>1 DEF Ranges
<1>7. /\ desk.told[j] \in Waiting /\ desk.queue[j] \in Waiting /\ batch[j] \in Batches
      /\ (j \in silenced) \in BOOLEAN
  BY <1>1, <1>4, JobTypes
<1>8. /\ Kept(desk.told[j], desk.queue[j], batch[j], events[j], j \in silenced)
      /\ desk.told[j].ends + desk.queue[j].ends <= 0
  <2>1. Holds(desk, j, OpenBatch(j), Seen(j), j \in silenced, Ended(j))
    BY <1>1 DEF JobInv
  <2> QED BY <1>4, <2>1 DEF Holds
<1>9. b \in Batches /\ Holds(desk, j, b, n, j \in silenced, 0)
  BY <1>7, <1>8, Printed DEF Holds
<1> HIDE DEF b
<1>10. owner[j] = session \/ j \in silenced \/ n = 0
  BY <1>1, <1>2 DEF JobInv
<1>11. CASE StopFor(j, b)
  <2>1. /\ EndsJob(j, b, n) /\ status' = Stopped({j})
    BY <1>9, <1>11 DEF StopFor, EndsJob
  <2>2. /\ Others(desk, desk', j) /\ Holds(desk', j, OpenBatch(j)', n, j \in silenced, 1)
        /\ active' = active \ {j} /\ flushing' \subseteq active' /\ active' \subseteq Monitors
        /\ batch' \in [Monitors -> Batches] /\ OpenBatch(j)' = NoBatch
        /\ \A k \in Monitors \ {j} : batch'[k] = batch[k]
    BY <1>2, <1>5, <1>9, <1>10, <2>1, EndsIt
  <2>3. /\ status' \in [Jobs -> {"new", "running", "exited", "stopped", "halted"}]
        /\ \A k \in Jobs \ {j} : status'[k] = status[k]
        /\ status'[j] = "stopped"
    BY <1>1, <1>2, <2>1, Stops
  <2>4. ASSUME NEW k \in Jobs \ {j}
        PROVE  JobInv(k)'
    <3>1. SameJob(k)
      BY <1>5, <1>6, <2>2, <2>3 DEF SameJob
    <3> QED BY <2>2, <3>1, OtherJobs
  <2>5. JobInv(j)'
    <3>1. Seen(j)' = n /\ Ended(j)' = 1 /\ (j \in silenced') = (j \in silenced)
      BY <1>4, <1>5, <2>3 DEF Seen, Ended
    <3>2. Holds(desk', j, OpenBatch(j)', Seen(j)', j \in silenced', Ended(j)')
      BY <2>2, <3>1
    <3> QED BY <1>1, <1>2, <2>2, <2>3, <3>1, <3>2 DEF JobInv
  <2>6. Ranges'
    BY <1>1, <1>5, <1>6, <2>2, <2>3 DEF Ranges, Others
  <2>7. Theirs
    BY <2>2 DEF Others, Theirs
  <2> QED BY <2>4, <2>5, <2>6, <2>7 DEF IInv
<1>12. CASE /\ r + 1 <= FloodLines
            /\ batch' = [batch EXCEPT ![j] = b]
            /\ flushing' = flushing \cup {j}
            /\ status' = [status EXCEPT ![j] = st]
            /\ UNCHANGED <<active, desk>>
  <2>1. /\ batch' \in [Monitors -> Batches] /\ batch'[j] = b
        /\ \A k \in Monitors \ {j} : batch'[k] = batch[k]
    BY <1>1, <1>4, <1>9, <1>12 DEF Ranges
  <2>2. /\ status' \in [Jobs -> {"new", "running", "exited", "stopped", "halted"}]
        /\ status'[j] = st
        /\ \A k \in Jobs \ {j} : status'[k] = status[k]
    BY <1>1, <1>12 DEF Ranges
  <2>3. ASSUME NEW k \in Jobs \ {j}
        PROVE  JobInv(k)'
    <3>1. SameJob(k)
      BY <1>5, <1>6, <1>12, <2>1, <2>2 DEF SameJob
    <3>2. Holds(desk', k, OpenBatch(k), Seen(k), k \in silenced, Ended(k))
      BY <1>1, <1>12 DEF JobInv
    <3> QED BY <1>1, <3>1, <3>2, Frame
  <2>4. JobInv(j)'
    <3>1. /\ Seen(j)' = n /\ Ended(j)' = 0 /\ OpenBatch(j)' = b
          /\ (j \in silenced') = (j \in silenced)
      BY <1>4, <1>5, <2>1, <2>2 DEF Seen, Ended, OpenBatch
    <3>2. Holds(desk', j, OpenBatch(j)', Seen(j)', j \in silenced', Ended(j)')
      BY <1>9, <1>12, <3>1
    <3> QED BY <1>1, <1>2, <1>6, <1>12, <2>2, <3>1, <3>2 DEF JobInv
  <2>5. Ranges'
    BY <1>1, <1>2, <1>5, <1>6, <1>12, <2>1, <2>2 DEF Ranges
  <2> QED BY <1>12, <2>3, <2>4, <2>5 DEF IInv, Theirs
<1> QED BY <1>3, <1>11, <1>12

LEMMA LineStep == ASSUME IInv, NEW j \in Monitors, Line(j) PROVE IInv' /\ Theirs
<1>1. j \in Jobs /\ run \in [Jobs -> {"none", "executing", "closing", "done"}]
  BY JobsAssumption DEF IInv, Ranges
<1>2. /\ run[j] = "executing" /\ PushLine(j, "running")
      /\ UNCHANGED <<session, phase, owner, run, silenced, starts>>
  BY DEF Line
<1> QED BY <1>1, <1>2, PushStep

LEMMA ExecEndsStep == ASSUME IInv, NEW j \in Jobs, ExecEnds(j) PROVE IInv' /\ Theirs
<1>1. desk \in Desks /\ Ranges /\ \A k \in Jobs : JobInv(k)
  BY DEF IInv, Ranges
<1>2. /\ run[j] = "executing" /\ run' = [run EXCEPT ![j] = "closing"]
      /\ UNCHANGED <<session, phase, owner, silenced, starts>>
  BY DEF ExecEnds
<1>3. /\ run' \in [Jobs -> {"none", "executing", "closing", "done"}] /\ run'[j] = "closing"
      /\ \A k \in Jobs \ {j} : run'[k] = run[k]
  BY <1>1, <1>2 DEF Ranges
<1>4. CASE PushLine(j, "exited")
  BY <1>2, <1>3, <1>4, PushStep
<1>5. CASE /\ status' = [status EXCEPT ![j] = IF @ = "running" THEN "exited" ELSE @]
           /\ UNCHANGED <<active, batch, flushing, recent, events, desk>>
  <2>1. /\ status' \in [Jobs -> {"new", "running", "exited", "stopped", "halted"}]
        /\ status'[j] = IF status[j] = "running" THEN "exited" ELSE status[j]
        /\ \A k \in Jobs \ {j} : status'[k] = status[k]
    BY <1>1, <1>5 DEF Ranges
  <2>2. ASSUME NEW k \in Jobs \ {j}
        PROVE  JobInv(k)'
    <3>1. SameJob(k)
      BY <1>2, <1>3, <1>5, <2>1 DEF SameJob
    <3>2. Holds(desk', k, OpenBatch(k), Seen(k), k \in silenced, Ended(k))
      BY <1>1, <1>5 DEF JobInv
    <3> QED BY <1>1, <1>2, <3>1, <3>2, Frame
  <2>3. JobInv(j)'
    <3>1. Seen(j)' = Seen(j) /\ OpenBatch(j)' = OpenBatch(j) /\ Ended(j)' = Ended(j)
      BY <1>2, <1>3, <1>5, <2>1 DEF Seen, OpenBatch, Ended
    <3>2. Holds(desk', j, OpenBatch(j)', Seen(j)', j \in silenced', Ended(j)')
      BY <1>1, <1>2, <1>5, <3>1 DEF JobInv
    <3> QED BY <1>1, <1>2, <1>3, <1>5, <2>1, <3>1, <3>2 DEF JobInv
  <2>4. Ranges'
    BY <1>1, <1>2, <1>3, <1>5, <2>1 DEF Ranges
  <2> QED BY <1>2, <1>5, <2>2, <2>3, <2>4 DEF IInv, Theirs
<1> QED BY <1>4, <1>5 DEF ExecEnds

----------------------------------------------------------------------------
(* The theorems                                                            *)

LEMMA Starts == Init => IInv
<1> SUFFICES ASSUME Init PROVE IInv
  OBVIOUS
<1>1. EmptyQueue \in [Jobs -> Waiting]
  BY NoLines DEF EmptyQueue
<1>2. desk \in Desks
  <2>1. 0 \in 0 .. RetryLimit /\ 0 \in 0 .. MaxFaults
    BY LimitsAssumption
  <2> QED BY <1>1, <2>1 DEF Init, EmptyDesk, Desks
<1>3. Ranges
  BY <1>2, NoLines, LimitsAssumption DEF Init, Ranges
<1>4. ASSUME NEW k \in Jobs
      PROVE  JobInv(k)
  <2>1. OpenBatch(k) = NoBatch /\ Seen(k) = 0 /\ Ended(k) = 0 /\ k \notin silenced
    BY DEF Init, OpenBatch, Seen, Ended
  <2>2. desk.told[k] = Nothing /\ desk.queue[k] = Nothing
    BY DEF Init, EmptyDesk, EmptyQueue
  <2>3. Size(Nothing) = 0 /\ Size(NoBatch) = 0
    BY NoLines DEF Size
  <2>4. Counted(Nothing, Nothing, NoBatch, 0, FALSE)
    BY <2>3, NoLines, LimitsAssumption DEF Counted
  <2>5. Sorted(Nothing, Nothing, NoBatch, 0)
    BY NoLines DEF Sorted, Rising, Before, UpTo
  <2>6. Holds(desk, k, NoBatch, 0, FALSE, 0)
    <3>1. Kept(Nothing, Nothing, NoBatch, 0, FALSE)
      BY <2>4, <2>5 DEF Kept
    <3>2. Nothing.ends + Nothing.ends <= 0
      BY NoLines
    <3> QED BY <2>2, <3>1, <3>2 DEF Holds
  <2>7. (k \in silenced) = FALSE
    BY <2>1
  <2>8. Holds(desk, k, OpenBatch(k), Seen(k), k \in silenced, Ended(k))
    BY <2>1, <2>6, <2>7
  <2> QED BY <2>1, <2>8 DEF Init, JobInv
<1> QED BY <1>3, <1>4 DEF Init, IInv

LEMMA Steps == IInv /\ [Next]_vars => IInv' /\ Theirs
<1> SUFFICES ASSUME IInv, [Next]_vars PROVE IInv' /\ Theirs
  OBVIOUS
<1>1. CASE UNCHANGED vars
  <2>1. desk \in Desks /\ phase \in {"idle", "running", "settling", "compacting"}
        /\ (phase = "running" => session # None)
    BY DEF IInv, Ranges
  <2>2. Served(desk, desk')
    BY <1>1, <2>1, SameDesk DEF vars
  <2> QED BY <1>1, <2>1, <2>2, DeskStep DEF vars
<1>2. CASE Dispatch
  BY <1>2, DispatchStep
<1>3. ASSUME NEW j \in Jobs, JobSteps(j)
      PROVE  IInv' /\ Theirs
  BY <1>3, StartStep, ExecEndsStep, LogClosedStep, JobStopStep, HumanStopStep DEF JobSteps
<1>4. ASSUME NEW j \in Monitors, MonitorSteps(j)
      PROVE  IInv' /\ Theirs
  BY <1>4, LineStep, FlushTimerStep, TimeoutStep DEF MonitorSteps
<1>5. CASE ParentSteps
  BY <1>5, SessionStartStep, SessionShutdownStep, AgentStartStep, FlushSteps, RetryStep
     DEF ParentSteps
<1> QED BY <1>1, <1>2, <1>3, <1>4, <1>5 DEF Next

\* The inductive invariant: each job's lines are told, pending or in its batch,
\* in the order they were printed, and its end was handed over at most once.
THEOREM Invariant == Spec => []IInv
<1>1. Init => IInv
  BY Starts
<1>2. IInv /\ [Next]_vars => IInv'
  BY Steps
<1> QED BY <1>1, <1>2, PTL DEF Spec

LEMMA InRange ==
  ASSUME NEW l \in Seq(Nat), NEW n \in Nat, UpTo(l, n), n <= MaxLines
  PROVE  l \in Seq(1 .. MaxLines)
<1>1. Len(l) \in Nat /\ l \in [1 .. Len(l) -> Nat] /\ MaxLines \in Nat
  BY LimitsAssumption
<1>2. \A i \in 1 .. Len(l) : l[i] \in 1 .. MaxLines
  BY <1>1 DEF UpTo
<1>3. l \in [1 .. Len(l) -> 1 .. MaxLines]
  BY <1>1, <1>2
<1> QED BY <1>1, <1>3

\* What the invariant says of job j.
LEMMA OfJob ==
  ASSUME IInv, NEW j \in Jobs
  PROVE  /\ IsBatch(OpenBatch(j)) /\ IsBatch(desk.queue[j])
         /\ j \notin silenced =>
              Seen(j) = Size(OpenBatch(j)) + Size(desk.queue[j]) + Size(desk.told[j])
         /\ Rising(desk.told[j].lines) /\ Len(desk.told[j].lines) \in Nat
         /\ desk.queue[j].ends \in Nat /\ desk.told[j].ends \in Nat
         /\ desk.told[j].ends + desk.queue[j].ends <= Ended(j)
<1> DEFINE b == OpenBatch(j)
           q == desk.queue[j]
           t == desk.told[j]
           n == Seen(j)
<1>1. Ranges /\ JobInv(j)
  BY DEF IInv
<1>2. b \in Batches /\ q \in Waiting /\ t \in Waiting /\ n \in Nat
  BY <1>1, JobTypes
<1>3. n <= MaxLines
  BY <1>1, LimitsAssumption DEF Seen, Ranges
<1>4. Kept(t, q, b, n, j \in silenced) /\ t.ends + q.ends <= Ended(j)
  BY <1>1 DEF JobInv, Holds
<1> HIDE DEF b, q, t, n
<1>5. /\ b.lines \in Seq(Nat) /\ Len(b.lines) \in Nat /\ b.omitted \in Nat /\ Size(b) \in Nat
      /\ q.lines \in Seq(Nat) /\ Len(q.lines) \in Nat /\ q.omitted \in Nat /\ Size(q) \in Nat
      /\ Len(t.lines) \in Nat /\ Size(t) \in Nat /\ q.ends \in Nat /\ t.ends \in Nat
  BY <1>2, Fields
<1>6. /\ Size(t) + Size(q) + Size(b) <= n
      /\ j \notin silenced => Size(t) + Size(q) + Size(b) = n
      /\ Len(q.lines) <= LinesPerNotice /\ Len(b.lines) <= LinesPerNotice
      /\ Rising(t.lines) /\ UpTo(q.lines, n) /\ UpTo(b.lines, n)
  BY <1>4 DEF Kept, Counted, Sorted
<1>7. b.lines \in Seq(1 .. MaxLines) /\ q.lines \in Seq(1 .. MaxLines)
  BY <1>2, <1>3, <1>5, <1>6, InRange
<1>8. b.omitted <= Size(b) /\ q.omitted <= Size(q)
  BY <1>5 DEF Size
<1>9. b.omitted \in 0 .. MaxLines /\ q.omitted \in 0 .. MaxLines
  BY <1>2, <1>3, <1>5, <1>6, <1>8, LimitsAssumption
<1>10. IsBatch(b) /\ IsBatch(q)
  BY <1>6, <1>7, <1>9 DEF IsBatch
<1>11. j \notin silenced => n = Size(b) + Size(q) + Size(t)
  BY <1>2, <1>5, <1>6
<1> QED BY <1>4, <1>5, <1>6, <1>10, <1>11 DEF b, q, t, n

LEMMA Monitored == IInv => MonitorInv
<1> SUFFICES ASSUME IInv PROVE MonitorInv
  OBVIOUS
<1>1. Ranges /\ Monitors \subseteq Jobs /\ \A j \in Jobs : JobInv(j)
  BY JobsAssumption DEF IInv
<1>2. TypeOK
  <2>1. \A j \in Monitors : IsBatch(batch[j])
    BY <1>1, OfJob DEF OpenBatch
  <2>2. \A j \in Jobs : IsBatch(desk.queue[j])
    BY OfJob
  <2>3. /\ desk.wake \in {"none", "owed", "sent"} /\ desk.retries \in 0 .. RetryLimit
        /\ desk.faults \in 0 .. MaxFaults
    BY <1>1 DEF Ranges, Desks
  <2> QED BY <1>1, <2>1, <2>2, <2>3 DEF TypeOK, Ranges
<1>3. LinesAccounted
  BY <1>1, OfJob DEF LinesAccounted, OpenBatch, Seen
<1>4. LinesInOrder
  <2> SUFFICES ASSUME NEW j \in Monitors, NEW i \in 2 .. Len(desk.told[j].lines)
               PROVE  desk.told[j].lines[i - 1] < desk.told[j].lines[i]
    BY DEF LinesInOrder
  <2>1. Rising(desk.told[j].lines) /\ Len(desk.told[j].lines) \in Nat
    BY <1>1, OfJob
  <2>2. i - 1 \in 1 .. Len(desk.told[j].lines) /\ i \in 1 .. Len(desk.told[j].lines) /\ i - 1 < i
    BY <2>1
  <2> QED BY <2>1, <2>2 DEF Rising
<1>5. EndsLast
  <2> SUFFICES ASSUME NEW j \in active PROVE desk.queue[j].ends = 0
    BY DEF EndsLast
  <2>1. j \in Jobs
    BY <1>1 DEF Ranges
  <2>2. Ended(j) = 0
    BY <1>1, <2>1 DEF JobInv
  <2>3. /\ desk.queue[j].ends \in Nat /\ desk.told[j].ends \in Nat
        /\ desk.told[j].ends + desk.queue[j].ends <= Ended(j)
    BY <2>1, OfJob
  <2> QED BY <2>2, <2>3
<1> QED BY <1>2, <1>3, <1>4, <1>5 DEF MonitorInv

\* Until a monitor is silenced, none of its lines is lost or told twice, and they
\* are told in the order they were printed.
THEOREM LinesKept == Spec => []MonitorInv
  BY Invariant, Monitored, PTL

\* The end of a job is told at most once, whoever raced to end it, and never of a
\* job that runs.
THEOREM EndedOnce == Spec => []OneEnd
<1>1. IInv => OneEnd
  <2> SUFFICES ASSUME IInv, NEW j \in Jobs
               PROVE  LET ends == desk.told[j].ends + desk.queue[j].ends
                      IN  ends <= 1 /\ (status[j] \in {"running", "halted"} => ends = 0)
    BY DEF OneEnd
  <2>1. /\ desk.queue[j].ends \in Nat /\ desk.told[j].ends \in Nat
        /\ desk.told[j].ends + desk.queue[j].ends <= Ended(j)
    BY OfJob
  <2>2. Ended(j) \in {0, 1} /\ (status[j] \in {"running", "halted"} => Ended(j) = 0)
    BY DEF Ended
  <2> QED BY <2>1, <2>2
<1> QED BY <1>1, Invariant, PTL

\* A job's lines and its end reach only the session that started it.
THEOREM ToTheirSession == Spec => JobsRightSession
<1>1. IInv /\ [Next]_vars
        => [\A j \in Jobs : desk'.told[j] # desk.told[j] => owner[j] = session]_vars
  BY Steps DEF Theirs
<1> QED BY <1>1, Invariant, PTL DEF Spec, JobsRightSession
=============================================================================
