------------------------ MODULE SessionScratchProofs ------------------------
(***************************************************************************)
(* For every set of processes, sessions and directories, every cap and     *)
(* every scenario: no scratch directory is forgotten, the files of the     *)
(* ledgers name it (NothingForgotten); and no removal takes the scratch of *)
(* a live session, the record of an artifact or an artifact that did not   *)
(* pass its checks (RemovalsAreHeld), whatever process started, resumed,   *)
(* swept, cleaned, ended or died in between.  The first rests on IInv, on  *)
(* what files, sessions and handlers under way record; the second on       *)
(* Owners as well, which process made what and where.                      *)
(***************************************************************************)
EXTENDS SessionScratch, TLAPS

----------------------------------------------------------------------------
(* The inductive invariant.                                                *)

\* A ledger that names none of the directories of u.
Known(l, u) ==
  /\ l = [pid |-> l.pid, scratch |-> l.scratch, arts |-> l.arts, root |-> l.root]
  /\ l.scratch \notin u

LedgersKnown ==
  /\ ledgers = [s \in SessionIds |-> ledgers[s]]
  /\ \A s \in SessionIds : Known(ledgers[s], Unmade)

DirsMade ==
  /\ under = [d \in Dirs |-> under[d]]
  /\ made \in [Dirs -> [by : Shells \cup {"none"}, session : SessionIds \cup {"none"},
                        saved : BOOLEAN]]
  /\ \A d \in dirs : d \in Dirs /\ d \notin Unmade /\ made[d].session \in SessionIds

\* What a process knows of its session agrees with what it takes the file for.
Session(m, u) ==
  /\ m = [session |-> m.session, ledger |-> m.ledger, base |-> m.base]
  /\ Known(m.ledger, u) /\ Known(m.base, u)
  /\ m.base.scratch = m.ledger.scratch
  /\ m # NoSession => m.session \in SessionIds

MemKnown ==
  /\ mem = [p \in Shells |-> mem[p]]
  /\ \A p \in Shells : Session(mem[p], Unmade)

Resuming(j, u, owner) ==
  /\ j.at = "resuming"
  /\ j.session \in SessionIds
  /\ Known(j.ledger, u)
  /\ j.ledger.scratch # "none" =>
       j.ledger.scratch \in Dirs /\ owner[j.ledger.scratch].session = j.session

SweepKnown(j, u) ==
  /\ j.at = "sweeping"
  /\ j = [at |-> j.at, list |-> j.list, todo |-> j.todo]
  /\ j.todo \subseteq SessionIds
  /\ \A s \in SessionIds : Known(j.list[s], u)

Job(j, u, owner) ==
  j = Idle \/ Resuming(j, u, owner) \/ SweepKnown(j, u) \/ j.at = "ending"

JobsKnown ==
  /\ job = [p \in Shells |-> job[p]]
  /\ \A p \in Shells : Job(job[p], Unmade, made)

\* A write of the session that lasts does not move its scratch.
Writing(w, u, j, m) ==
  /\ w = [at |-> w.at, session |-> w.session, ledger |-> w.ledger, base |-> w.base,
          own |-> w.own]
  /\ w.session \in SessionIds /\ Known(w.ledger, u)
  /\ w.own => /\ j.at # "resuming"
              /\ m.session \in SessionIds
              /\ w.ledger.scratch = m.ledger.scratch
              /\ w.base.scratch = w.ledger.scratch
  /\ ~w.own => w.base = Unread

WritesKnown ==
  /\ writing = [p \in Shells |-> writing[p]]
  /\ \A p \in Shells : writing[p] = Idle \/ Writing(writing[p], Unmade, job[p], mem[p])

\* A clean drops the scratch of another session once it is gone.
Others(c, u, ds) ==
  /\ c.others = [t \in DOMAIN c.others |-> c.others[t]]
  /\ DOMAIN c.others \subseteq SessionIds
  /\ \A t \in DOMAIN c.others :
       /\ Known(c.others[t], u)
       /\ c.read[t].scratch \notin u
       /\ c.read[t].scratch \in ds => c.others[t].scratch = c.read[t].scratch

Clean(c, u, ds) ==
  /\ c = [at |-> c.at, session |-> c.session, own |-> c.own, mine |-> c.mine, read |-> c.read,
          others |-> c.others, old |-> c.old, list |-> c.list, todo |-> c.todo]
  /\ c.session \in SessionIds /\ Known(c.mine, u)
  /\ c.todo \subseteq {c.session} \cup DOMAIN c.others
  /\ Others(c, u, ds)

CleansKnown ==
  /\ cleaning = [p \in Shells |-> cleaning[p]]
  /\ \A p \in Shells : cleaning[p] = Idle \/ Clean(cleaning[p], Unmade, dirs)

\* A session that ends is open.
EndsOpen == \A p \in Shells : job[p].at = "ending" => mem[p] # NoSession

Records ==
  /\ LedgersKnown /\ DirsMade /\ MemKnown /\ JobsKnown /\ WritesKnown /\ CleansKnown
  /\ NoScratchForgotten

IInv == Records /\ EndsOpen

----------------------------------------------------------------------------
(* Ledgers.                                                                *)

LEMMA KnownStays ==
  ASSUME NEW u, NEW v, v \subseteq u, NEW l, Known(l, u) PROVE Known(l, v)
BY DEF Known

LEMMA LedgerChanges ==
  ASSUME NEW u, "none" \notin u, NEW l, Known(l, u), NEW a
  PROVE  /\ Known([l EXCEPT !.arts = a], u) /\ [l EXCEPT !.arts = a].scratch = l.scratch
         /\ Known([l EXCEPT !.scratch = "none"], u) /\ [l EXCEPT !.scratch = "none"].scratch = "none"
BY DEF Known

LEMMA NoLedgerKnown ==
  ASSUME NEW u, "none" \notin u
  PROVE  Known(NoLedger, u) /\ NoLedger.scratch = "none" /\ Session(NoSession, u)
BY DEF Known, NoLedger, NoSession, Session

LEMMA ContentKnown ==
  ASSUME NEW u, "none" \notin u, NEW l, Known(l, u)
  PROVE  Known(Content(l), u) /\ Content(l).scratch = l.scratch
BY NoLedgerKnown DEF Content

LEMMA UnreadIsNone == ASSUME NEW l, NEW u, Known(l, u) PROVE l # Unread
BY DEF Known, Unread

LEMMA TriedKnown ==
  ASSUME NEW u, "none" \notin u, NEW l, Known(l, u), NEW gone
  PROVE  /\ Known(Tried(l, gone), u)
         /\ Tried(l, gone).scratch \in {l.scratch, "none"}
         /\ Tried(l, gone).scratch # l.scratch => gone.outcome \in {"removed", "absent"}
BY LedgerChanges DEF Tried

\* What a removal leaves on record is still there.
LEMMA RemovalGone ==
  ASSUME NEW p, NEW d, NEW arts, NEW held, NEW gone \in Removals(p, d, arts, held)
  PROVE  /\ gone.dirs \subseteq dirs
         /\ gone.outcome \in {"removed", "absent"} => d \notin dirs \ gone.dirs
<1>1. CASE gone = Nothing("refused") \/ gone = Nothing("kept")
  BY <1>1 DEF Nothing
<1>2. CASE gone = Removal(p, d, arts, held)
  <2>1. Within(d, d)
    BY DEF Within
  <2>2. CASE d \notin dirs
    BY <1>2, <2>2 DEF Removal, Nothing
  <2>3. CASE d \in dirs
    BY <1>2, <2>1, <2>3 DEF Removal, Nothing, Emptied
  <2> QED BY <2>2, <2>3
<1> QED BY <1>1, <1>2 DEF Removals

----------------------------------------------------------------------------
(* What a step leaves alone, and what it changes for one process.          *)

LEMMA LedgersStay ==
  ASSUME LedgersKnown, Unmade' \subseteq Unmade, ledgers' = ledgers
  PROVE  LedgersKnown'
BY KnownStays DEF LedgersKnown

LEMMA MemStays ==
  ASSUME MemKnown, Unmade' \subseteq Unmade, mem' = mem
  PROVE  MemKnown'
BY KnownStays DEF MemKnown, Session

LEMMA MemChanges ==
  ASSUME MemKnown, Unmade' \subseteq Unmade, NEW p \in Shells, NEW m,
         mem' = [mem EXCEPT ![p] = m], Session(m, Unmade')
  PROVE  MemKnown'
<1>1. ASSUME NEW q \in Shells PROVE Session(mem'[q], Unmade')
  <2>1. CASE q = p
    BY <2>1 DEF MemKnown
  <2>2. CASE q # p
    BY <2>2, KnownStays DEF MemKnown, Session
  <2> QED BY <2>1, <2>2
<1>2. mem' = [q \in Shells |-> mem'[q]]
  BY DEF MemKnown
<1> QED BY <1>1, <1>2 DEF MemKnown

\* Directories that a ledger may name keep their session.
OwnersStay == \A d \in Dirs \ Unmade : made'[d].session = made[d].session

LEMMA JobStays ==
  ASSUME Unmade' \subseteq Unmade, OwnersStay, NEW j, Job(j, Unmade, made)
  PROVE  Job(j, Unmade', made')
BY KnownStays DEF Job, Resuming, SweepKnown, OwnersStay, Known

LEMMA JobsStay ==
  ASSUME JobsKnown, Unmade' \subseteq Unmade, OwnersStay, job' = job
  PROVE  JobsKnown'
BY JobStays DEF JobsKnown

LEMMA JobChanges ==
  ASSUME JobsKnown, Unmade' \subseteq Unmade, OwnersStay, NEW p \in Shells, NEW j,
         job' = [job EXCEPT ![p] = j], Job(j, Unmade', made')
  PROVE  JobsKnown'
<1>1. ASSUME NEW q \in Shells PROVE Job(job'[q], Unmade', made')
  <2>1. CASE q = p
    BY <2>1 DEF JobsKnown
  <2>2. CASE q # p
    BY <2>2, JobStays DEF JobsKnown
  <2> QED BY <2>1, <2>2
<1>2. job' = [q \in Shells |-> job'[q]]
  BY DEF JobsKnown
<1> QED BY <1>1, <1>2 DEF JobsKnown

\* The write of p agrees with the job and the session of p.
Agrees(p) ==
  writing[p] # Idle /\ writing[p].own =>
    /\ job'[p].at # "resuming" /\ mem'[p].session = mem[p].session
    /\ mem'[p].ledger.scratch = mem[p].ledger.scratch

LEMMA WriteStays ==
  ASSUME Unmade' \subseteq Unmade, NEW p, Agrees(p),
         writing[p] = Idle \/ Writing(writing[p], Unmade, job[p], mem[p])
  PROVE  writing[p] = Idle \/ Writing(writing[p], Unmade', job'[p], mem'[p])
BY KnownStays DEF Writing, Agrees

LEMMA WritesStay ==
  ASSUME WritesKnown, Unmade' \subseteq Unmade, writing' = writing,
         \A p \in Shells : Agrees(p)
  PROVE  WritesKnown'
BY WriteStays DEF WritesKnown

LEMMA WriteChanges ==
  ASSUME WritesKnown, Unmade' \subseteq Unmade, NEW p \in Shells, NEW w,
         writing' = [writing EXCEPT ![p] = w],
         w = Idle \/ Writing(w, Unmade', job'[p], mem'[p]),
         \A q \in Shells \ {p} : Agrees(q)
  PROVE  WritesKnown'
<1>1. ASSUME NEW q \in Shells
      PROVE  writing'[q] = Idle \/ Writing(writing'[q], Unmade', job'[q], mem'[q])
  <2>1. CASE q = p
    BY <2>1 DEF WritesKnown
  <2>2. CASE q # p
    BY <2>2, WriteStays DEF WritesKnown
  <2> QED BY <2>1, <2>2
<1>2. writing' = [q \in Shells |-> writing'[q]]
  BY DEF WritesKnown
<1> QED BY <1>1, <1>2 DEF WritesKnown

LEMMA CleanStays ==
  ASSUME NEW u, NEW v, NEW ds, NEW es, v \subseteq u, es \subseteq ds \cup u, NEW c,
         Clean(c, u, ds)
  PROVE  Clean(c, v, es)
BY KnownStays DEF Clean, Others

LEMMA CleansStay ==
  ASSUME CleansKnown, Unmade' \subseteq Unmade, dirs' \subseteq dirs \cup Unmade,
         cleaning' = cleaning
  PROVE  CleansKnown'
BY CleanStays DEF CleansKnown

LEMMA CleanChanges ==
  ASSUME CleansKnown, Unmade' \subseteq Unmade, dirs' \subseteq dirs \cup Unmade,
         NEW p \in Shells, NEW c, cleaning' = [cleaning EXCEPT ![p] = c],
         c = Idle \/ Clean(c, Unmade', dirs')
  PROVE  CleansKnown'
<1>1. ASSUME NEW q \in Shells PROVE cleaning'[q] = Idle \/ Clean(cleaning'[q], Unmade', dirs')
  <2>1. CASE q = p
    BY <2>1 DEF CleansKnown
  <2>2. CASE q # p
    BY <2>2, CleanStays DEF CleansKnown
  <2> QED BY <2>1, <2>2
<1>2. cleaning' = [q \in Shells |-> cleaning'[q]]
  BY DEF CleansKnown
<1> QED BY <1>1, <1>2 DEF CleansKnown

LEMMA RecordStays ==
  ASSUME NoScratchForgotten, dirs' \subseteq dirs, UNCHANGED <<ledgers, made>>,
         forgotten \subseteq forgotten', clobbered \subseteq clobbered'
  PROVE  NoScratchForgotten'
BY DEF NoScratchForgotten

\* A write keeps the directories of its session on record: a base that it replaces
\* named the same one, or one that is gone, or one that is counted as forgotten.
LEMMA WriteKeeps ==
  ASSUME LedgersKnown, DirsMade, NoScratchForgotten, UNCHANGED under,
         dirs' \subseteq dirs, forgotten \subseteq forgotten',
         NEW s \in SessionIds, NEW l, NEW base, Known(l, Unmade), Write(s, l, base),
         ledgers[s] = base /\ base.scratch \in dirs' =>
           l.scratch = base.scratch \/ base.scratch \in forgotten',
         \A d \in dirs' : /\ made'[d].session = made[d].session
                          /\ \/ made'[d].saved = made[d].saved
                             \/ made[d].session = s /\ l.scratch = d
  PROVE  LedgersKnown' /\ NoScratchForgotten'
<1>1. Unmade' = Unmade /\ "none" \notin Unmade /\ "none" \notin dirs
  BY NamesAssumption DEF Unmade, DirsMade
<1>2. Known(Content(l), Unmade) /\ Content(l).scratch = l.scratch
  BY <1>1, ContentKnown
<1>3. /\ ledgers' = [ledgers EXCEPT ![s] = Content(l)]
      /\ clobbered' = clobbered \cup IF ledgers[s] \in {base, Content(l)} THEN {} ELSE {s}
  BY DEF Write
<1>4. LedgersKnown'
  BY <1>1, <1>2, <1>3 DEF LedgersKnown
<1>5. NoScratchForgotten'
  <2> SUFFICES ASSUME NEW d \in dirs', made'[d].saved, d \notin forgotten',
                      made'[d].session \notin clobbered'
               PROVE  ledgers'[made'[d].session].scratch = d
    BY DEF NoScratchForgotten
  <2>1. d \in dirs /\ made[d].session \in SessionIds /\ made'[d].session = made[d].session
    BY DEF DirsMade
  <2>2. CASE made[d].session # s
    <3>1. ledgers'[made[d].session] = ledgers[made[d].session]
      BY <1>3, <2>1, <2>2 DEF LedgersKnown
    <3>2. made[d].saved
      BY <2>2
    <3> QED BY <1>3, <2>1, <3>1, <3>2 DEF NoScratchForgotten
  <2>3. CASE made[d].session = s
    <3>1. ledgers'[s] = Content(l) /\ ledgers'[s].scratch = l.scratch
      BY <1>2, <1>3 DEF LedgersKnown
    <3>2. CASE l.scratch = d
      BY <2>1, <2>3, <3>1, <3>2
    <3>3. CASE l.scratch # d
      <4>1. ledgers[s].scratch = d
        BY <1>3, <2>1, <2>3, <3>3 DEF NoScratchForgotten
      <4>2. ledgers[s] \in {base, Content(l)}
        BY <1>3, <2>1, <2>3
      <4> QED BY <1>2, <3>3, <4>1, <4>2
    <3> QED BY <3>2, <3>3
  <2> QED BY <2>2, <2>3
<1> QED BY <1>4, <1>5

LEMMA DirsStay ==
  ASSUME DirsMade, UNCHANGED <<under, made>>, dirs' \subseteq dirs
  PROVE  /\ DirsMade' /\ Unmade' = Unmade /\ OwnersStay
BY DEF DirsMade, Unmade, OwnersStay

LEMMA InitInv == ScratchInit => Records
<1> SUFFICES ASSUME ScratchInit PROVE Records
  OBVIOUS
<1>1. "none" \notin Unmade /\ Known(NoLedger, Unmade) /\ Session(NoSession, Unmade)
  BY NoLedgerKnown, NamesAssumption DEF Unmade
<1>2. LedgersKnown /\ MemKnown
  BY <1>1 DEF ScratchInit, LedgersKnown, MemKnown
<1>3. DirsMade /\ NoScratchForgotten
  BY DEF ScratchInit, DirsMade, NoScratchForgotten
<1>4. JobsKnown /\ WritesKnown /\ CleansKnown
  BY DEF ScratchInit, JobsKnown, Job, WritesKnown, CleansKnown
<1> QED BY <1>2, <1>3, <1>4 DEF Records

LEMMA Quiet ==
  ASSUME Records, dirs' \subseteq dirs,
         UNCHANGED <<ledgers, under, made, mem, job, cleaning, writing, forgotten, clobbered>>
  PROVE  Records'
<1>1. DirsMade' /\ Unmade' = Unmade /\ OwnersStay
  BY DirsStay DEF Records
<1>2. LedgersKnown' /\ MemKnown' /\ JobsKnown'
  BY <1>1, LedgersStay, MemStays, JobsStay DEF Records
<1>3. \A q \in Shells : Agrees(q)
  BY DEF Agrees, Records, WritesKnown, Writing
<1>4. WritesKnown' /\ CleansKnown' /\ NoScratchForgotten'
  BY <1>1, <1>3, WritesStay, CleansStay, RecordStays DEF Records
<1> QED BY <1>1, <1>2, <1>4 DEF Records

\* The write of a process agrees while its job and its session go on.
LEMMA Agreed ==
  ASSUME WritesKnown, NEW p \in Shells, job'[p] = job[p],
         mem'[p].session = mem[p].session, mem'[p].ledger.scratch = mem[p].ledger.scratch
  PROVE  Agrees(p)
BY DEF Agrees, WritesKnown, Writing

\* What a clean and a write under way become when their session goes away.
LEMMA Detached ==
  ASSUME NEW u, NEW l, Known(l, u)
  PROVE  /\ \A c, d, ds : Clean(c, u, ds) /\ d = [c EXCEPT !.own = FALSE, !.mine = l] =>
              Clean(d, u, ds)
         /\ \A w, d, j, m, k, n :
              Writing(w, u, j, m) /\ d = [w EXCEPT !.own = FALSE, !.base = Unread] =>
                Writing(d, u, k, n)
<1>1. ASSUME NEW c, NEW ds, Clean(c, u, ds), NEW d, d = [c EXCEPT !.own = FALSE, !.mine = l]
      PROVE  Clean(d, u, ds)
  <2>1. c = [at |-> c.at, session |-> c.session, own |-> c.own, mine |-> c.mine, read |-> c.read,
             others |-> c.others, old |-> c.old, list |-> c.list, todo |-> c.todo]
    BY <1>1 DEF Clean
  <2>2. d = [at |-> d.at, session |-> d.session, own |-> d.own, mine |-> d.mine, read |-> d.read,
             others |-> d.others, old |-> d.old, list |-> d.list, todo |-> d.todo]
    BY <1>1, <2>1
  <2>3. d.session = c.session /\ d.mine = l /\ d.read = c.read /\ d.others = c.others /\ d.todo = c.todo
    BY <1>1, <2>1
  <2> QED BY <1>1, <2>2, <2>3 DEF Clean, Others
<1>2. ASSUME NEW w, NEW j, NEW m, NEW k, NEW n, Writing(w, u, j, m),
             NEW d, d = [w EXCEPT !.own = FALSE, !.base = Unread]
      PROVE  Writing(d, u, k, n)
  <2>1. w = [at |-> w.at, session |-> w.session, ledger |-> w.ledger, base |-> w.base,
             own |-> w.own]
    BY <1>2 DEF Writing
  <2>2. d = [at |-> d.at, session |-> d.session, ledger |-> d.ledger, base |-> d.base,
             own |-> d.own]
    BY <1>2, <2>1
  <2>3. d.session = w.session /\ d.ledger = w.ledger /\ d.base = Unread /\ d.own = FALSE
    BY <1>2, <2>1
  <2> QED BY <1>2, <2>2, <2>3 DEF Writing
<1> QED BY <1>1, <1>2

LEMMA DetachKnown ==
  ASSUME WritesKnown, CleansKnown, Unmade' \subseteq Unmade, dirs' \subseteq dirs \cup Unmade,
         NEW p \in Shells, NEW l, Known(l, Unmade'), Detach(p, l),
         \A q \in Shells \ {p} : Agrees(q)
  PROVE  WritesKnown' /\ CleansKnown'
<1>1. WritesKnown'
  <2>1. CASE writing[p] = Idle
    BY <2>1, WritesStay DEF Detach, Agrees
  <2>2. CASE writing[p] # Idle
    <3> DEFINE w == [writing[p] EXCEPT !.own = FALSE, !.base = Unread]
    <3>1. writing' = [writing EXCEPT ![p] = w]
      BY <2>2 DEF Detach
    <3>2. Writing(writing[p], Unmade', job[p], mem[p])
      BY <2>2, KnownStays DEF WritesKnown, Writing
    <3>3. Writing(w, Unmade', job'[p], mem'[p])
      BY <3>2, Detached
    <3> HIDE DEF w
    <3> QED BY <3>1, <3>3, WriteChanges
  <2> QED BY <2>1, <2>2
<1>2. CleansKnown'
  <2>1. CASE cleaning[p] # Idle /\ cleaning[p].own
    <3> DEFINE c == [cleaning[p] EXCEPT !.own = FALSE, !.mine = l]
    <3>1. cleaning' = [cleaning EXCEPT ![p] = c]
      BY <2>1 DEF Detach
    <3>2. Clean(cleaning[p], Unmade', dirs')
      BY <2>1, CleanStays DEF CleansKnown
    <3>3. Clean(c, Unmade', dirs')
      BY <3>2, Detached
    <3> HIDE DEF c
    <3> QED BY <3>1, <3>3, CleanChanges
  <2>2. CASE ~(cleaning[p] # Idle /\ cleaning[p].own)
    BY <2>2, CleansStay DEF Detach
  <2> QED BY <2>1, <2>2
<1> QED BY <1>1, <1>2

----------------------------------------------------------------------------
(* The steps.                                                              *)

LEMMA EndListInv == ASSUME Records, NEW p \in Shells, EndList(p) PROVE Records'
<1>1. DirsMade' /\ Unmade' = Unmade /\ OwnersStay
  BY DirsStay DEF Records, EndList
<1>2. LedgersKnown' /\ MemKnown'
  BY <1>1, LedgersStay, MemStays DEF Records, EndList
<1>3. JobsKnown'
  BY <1>1, JobChanges DEF Records, EndList, Job
<1>4. \A q \in Shells : Agrees(q)
  <2> SUFFICES ASSUME NEW q \in Shells PROVE Agrees(q)
    OBVIOUS
  <2>1. job'[q].at = "ending" \/ job'[q] = job[q]
    BY DEF EndList, Records, JobsKnown
  <2> QED BY <2>1, Agreed DEF EndList, Agrees, Records
<1>5. WritesKnown' /\ CleansKnown' /\ NoScratchForgotten'
  BY <1>1, <1>4, WritesStay, CleansStay, RecordStays DEF Records, EndList
<1> QED BY <1>1, <1>2, <1>3, <1>5 DEF Records

LEMMA ExitInv == ASSUME Records, NEW p \in Shells, Exit(p) PROVE Records'
<1>1. DirsMade' /\ Unmade' = Unmade /\ OwnersStay
  BY DirsStay DEF Records, Exit
<1>2. "none" \notin Unmade
  BY NamesAssumption DEF Unmade
<1>3. LedgersKnown' /\ MemKnown'
  BY <1>1, <1>2, LedgersStay, MemChanges, NoLedgerKnown DEF Records, Exit
<1>4. JobsKnown'
  BY <1>1, JobChanges DEF Records, Exit, Job
<1>5. \A q \in Shells \ {p} : Agrees(q)
  BY Agreed DEF Records, Exit, JobsKnown, MemKnown
<1>6. WritesKnown' /\ CleansKnown' /\ NoScratchForgotten'
  BY <1>1, <1>5, WriteChanges, CleanChanges, RecordStays DEF Records, Exit
<1> QED BY <1>1, <1>3, <1>4, <1>6 DEF Records

LEMMA EndInv == ASSUME IInv, NEW p \in Shells, End(p) PROVE Records'
<1> DEFINE s == mem[p].session
           l == mem[p].ledger
<1>1. PICK gone \in Removals(p, l.scratch, l.arts, HeldDirs(p, job[p].list, s)) :
        /\ Delete(gone)
        /\ Write(s, Tried(l, gone), mem[p].base)
        /\ Detach(p, Tried(l, gone))
  BY DEF End
<1>2. /\ dirs' = dirs \ gone.dirs
      /\ gone.outcome \in {"removed", "absent"} => l.scratch \notin dirs'
  BY <1>1, RemovalGone DEF Delete
<1>3. DirsMade' /\ Unmade' = Unmade /\ OwnersStay /\ "none" \notin Unmade
  BY <1>2, DirsStay, NamesAssumption DEF IInv, Records, End, Unmade
<1>4. Session(mem[p], Unmade)
  BY DEF IInv, Records, MemKnown
<1>5. Known(Tried(l, gone), Unmade) /\ (Tried(l, gone).scratch # l.scratch => l.scratch \notin dirs')
  BY <1>2, <1>3, <1>4, TriedKnown DEF Session
<1>6. MemKnown' /\ JobsKnown'
  BY <1>3, MemChanges, NoLedgerKnown, JobChanges DEF IInv, Records, End, Job
<1>7. \A q \in Shells \ {p} : Agrees(q)
  BY Agreed DEF IInv, Records, End, JobsKnown, MemKnown
<1>8. WritesKnown' /\ CleansKnown'
  BY <1>1, <1>2, <1>3, <1>5, <1>7, DetachKnown DEF IInv, Records
<1>9. LedgersKnown' /\ NoScratchForgotten'
  <2>1. s \in SessionIds
    BY <1>4 DEF IInv, EndsOpen, End, Session
  <2>2. Known(mem[p].base, Unmade) /\ mem[p].base.scratch = l.scratch
    BY <1>4 DEF Session
  <2> HIDE DEF s, l
  <2> QED BY <1>1, <1>2, <1>3, <1>5, <2>1, <2>2, WriteKeeps DEF IInv, Records, End
<1> QED BY <1>3, <1>6, <1>8, <1>9 DEF IInv, Records

LEMMA SweepingKnown ==
  ASSUME NEW s, NEW list, NEW u, \A t \in SessionIds : Known(list[t], u), NEW owner
  PROVE  Job(Sweeping(s, list), u, owner)
<1> DEFINE todo == {t \in SessionIds \ {s} : list[t] # NoLedger}
<1>1. CASE todo = {}
  BY <1>1 DEF Sweeping, Job
<1>2. CASE todo # {}
  <2>1. Sweeping(s, list) = [at |-> "sweeping", list |-> list, todo |-> todo]
    BY <1>2 DEF Sweeping
  <2> HIDE DEF todo
  <2>2. todo \subseteq SessionIds
    BY DEF todo
  <2> QED BY <2>1, <2>2 DEF Job, SweepKnown
<1> QED BY <1>1, <1>2

\* The scratch that is about to be recovered, or made, is known from then on.
LEMMA BeginInv ==
  ASSUME Records, NEW p \in Shells, NEW s \in SessionIds, NEW reload \in BOOLEAN,
         BeginSession(p, s, reload)
  PROVE  Records'
<1> DEFINE previous == ledgers[s]
           root == InheritedRoot(p, previous, reload)
           d == IF root \in dirs \cup {"root"} THEN CHOOSE x \in Unmade : TRUE ELSE "none"
           ledger == [pid |-> p, scratch |-> d, arts |-> previous.arts, root |-> root]
           resuming == [at |-> "resuming", session |-> s, previous |-> previous,
                        list |-> ledgers, ledger |-> ledger]
<1>1. /\ Detach(p, mem[p].ledger) /\ UNCHANGED <<ledgers, forgotten, clobbered>>
      /\ Known(mem[p].ledger, Unmade) /\ Known(previous, Unmade)
      /\ "none" \notin Unmade /\ "none" \notin dirs
  BY NamesAssumption DEF BeginSession, Records, MemKnown, Session, LedgersKnown, Unmade, DirsMade
<1>2. ASSUME Unmade' \subseteq Unmade, dirs' \subseteq dirs \cup Unmade, OwnersStay, DirsMade',
             NEW m, mem' = [mem EXCEPT ![p] = m], Session(m, Unmade'),
             NEW j, job' = [job EXCEPT ![p] = j], Job(j, Unmade', made')
      PROVE  Records' \/ ~NoScratchForgotten'
  <2>1. LedgersKnown' /\ MemKnown' /\ JobsKnown'
    BY <1>1, <1>2, LedgersStay, MemChanges, JobChanges DEF Records
  <2>2. \A q \in Shells \ {p} : Agrees(q)
    BY <1>2, Agreed DEF Records, JobsKnown, MemKnown
  <2>3. Known(mem[p].ledger, Unmade')
    BY <1>1, <1>2, KnownStays
  <2>4. WritesKnown' /\ CleansKnown'
    BY <1>1, <1>2, <2>2, <2>3, DetachKnown DEF Records
  <2> QED BY <1>2, <2>1, <2>4 DEF Records
<1>3. CASE /\ mem' = [mem EXCEPT ![p] = [session |-> s, ledger |-> previous, base |-> previous]]
           /\ job' = [job EXCEPT ![p] = Sweeping(s, ledgers)]
           /\ UNCHANGED <<under, dirs, made>>
  <2>1. DirsMade' /\ Unmade' = Unmade /\ OwnersStay
    BY <1>3, DirsStay DEF Records
  <2>2. Session([session |-> s, ledger |-> previous, base |-> previous], Unmade)
    BY <1>1 DEF Session
  <2>3. Job(Sweeping(s, ledgers), Unmade, made)
    BY SweepingKnown DEF Records, LedgersKnown
  <2>4. NoScratchForgotten'
    BY <1>1, <1>3, RecordStays DEF Records
  <2> QED BY <1>2, <1>3, <2>1, <2>2, <2>3, <2>4
<1>4. CASE /\ Unmade # {}
           /\ mem' = [mem EXCEPT ![p] = NoSession]
           /\ job' = [job EXCEPT ![p] = resuming]
           /\ IF d = "none" THEN UNCHANGED <<under, dirs, made>>
              ELSE /\ under' = [under EXCEPT ![d] = root]
                   /\ dirs' = dirs \cup {d}
                   /\ made' = [made EXCEPT ![d] = [by |-> p, session |-> s, saved |-> FALSE]]
  <2> HIDE DEF root, previous
  <2>1. CASE d = "none"
    <3>1. DirsMade' /\ Unmade' = Unmade /\ OwnersStay /\ dirs' = dirs
      BY <1>4, <2>1, DirsStay DEF Records
    <3>2. Job(resuming, Unmade, made) /\ Session(NoSession, Unmade)
      BY <1>1, <2>1, NoLedgerKnown DEF Job, Resuming, Known
    <3>3. NoScratchForgotten'
      BY <1>1, <1>4, <2>1, RecordStays DEF Records
    <3> HIDE DEF resuming
    <3> QED BY <1>2, <1>4, <2>1, <3>1, <3>2, <3>3
  <2>2. CASE d # "none"
    <3>1. root \in dirs \cup {"root"} /\ d \in Unmade
      BY <1>1, <1>4, <2>2
    <3>2. /\ root # "unmade" /\ d \in Dirs /\ d \notin dirs
      BY <3>1, NamesAssumption DEF Records, DirsMade, Unmade
    <3>3. /\ under' = [under EXCEPT ![d] = root]
          /\ dirs' = dirs \cup {d}
          /\ made' = [made EXCEPT ![d] = [by |-> p, session |-> s, saved |-> FALSE]]
      BY <1>4, <2>2
    <3> HIDE DEF d
    <3>4. Unmade' = Unmade \ {d}
      BY <3>2, <3>3 DEF Unmade, Records, DirsMade
    <3>5. OwnersStay /\ made' \in [Dirs -> [by : Shells \cup {"none"},
                                            session : SessionIds \cup {"none"}, saved : BOOLEAN]]
      BY <3>1, <3>2, <3>3 DEF OwnersStay, Records, DirsMade
    <3>6. \A x \in dirs' : x \in Dirs /\ x \notin Unmade' /\ made'[x].session \in SessionIds
      BY <3>2, <3>3, <3>4 DEF Records, DirsMade
    <3>7. DirsMade'
      BY <3>3, <3>5, <3>6 DEF DirsMade, Records
    <3>8. NoScratchForgotten'
      <4> SUFFICES ASSUME NEW x \in dirs', made'[x].saved
                   PROVE  x \in dirs /\ made'[x] = made[x]
        BY <1>1 DEF NoScratchForgotten, Records
      <4> QED BY <3>2, <3>3 DEF Records, DirsMade
    <3>9. Job(resuming, Unmade', made') /\ Session(NoSession, Unmade')
      <4>1. Known(ledger, Unmade') /\ ledger.scratch = d
        BY <3>4 DEF Known
      <4>2. made'[d].session = s
        BY <3>2, <3>3 DEF Records, DirsMade
      <4> HIDE DEF ledger
      <4>3. Job(resuming, Unmade', made')
        BY <3>2, <4>1, <4>2 DEF Job, Resuming
      <4> QED BY <1>1, <3>4, <4>3, NoLedgerKnown
    <3> HIDE DEF resuming
    <3> QED BY <1>2, <1>4, <3>1, <3>3, <3>4, <3>5, <3>7, <3>8, <3>9
  <2> QED BY <2>1, <2>2
<1> QED BY <1>3, <1>4 DEF BeginSession

LEMMA RecordInv == ASSUME Records, NEW p \in Shells, Record(p) PROVE Records'
<1> DEFINE s == job[p].session
           l == job[p].ledger
           old == job[p].previous
<1>1. job[p].at = "resuming" /\ Resuming(job[p], Unmade, made) /\ s \in SessionIds /\ Known(l, Unmade)
  BY DEF Record, Records, JobsKnown, Job, Resuming, SweepKnown, Idle
<1>2. PICK gone : /\ gone.dirs \subseteq dirs /\ Delete(gone)
                  /\ forgotten' = forgotten \cup ({old.scratch} \cap dirs')
  <2>1. PICK gone \in IF old.scratch # "none" /\ old.pid # p /\ ~IsLive(old)
                      THEN Removals(p, old.scratch, l.arts,
                                    HeldDirs(p, job[p].list, s) \cup {l.scratch})
                      ELSE {Nothing("kept")} :
               Delete(gone) /\ forgotten' = forgotten \cup ({old.scratch} \cap dirs')
    BY DEF Record
  <2>2. gone.dirs \subseteq dirs
    BY <2>1, RemovalGone DEF Nothing
  <2> QED BY <2>1, <2>2
<1>3. /\ Write(s, l, old)
      /\ mem' = [mem EXCEPT ![p] = [session |-> s, ledger |-> l, base |-> Content(l)]]
      /\ job' = [job EXCEPT ![p] = Sweeping(s, ledgers')]
      /\ made' = IF l.scratch = "none" THEN made ELSE [made EXCEPT ![l.scratch].saved = TRUE]
      /\ UNCHANGED <<under, cleaning, writing>> /\ dirs' \subseteq dirs
  BY <1>2 DEF Record, Delete
<1>4. l.scratch # "none" => l.scratch \in Dirs /\ made[l.scratch].session = s
  BY <1>1 DEF Resuming
<1> HIDE DEF s, l, old
<1>5. /\ made' \in [Dirs -> [by : Shells \cup {"none"}, session : SessionIds \cup {"none"},
                             saved : BOOLEAN]]
      /\ \A d \in Dirs : /\ made'[d].session = made[d].session
                         /\ made'[d].saved = made[d].saved \/ (made[d].session = s /\ l.scratch = d)
  BY <1>3, <1>4 DEF Records, DirsMade
<1>6. Unmade' = Unmade /\ "none" \notin Unmade
  BY <1>3, NamesAssumption DEF Unmade
<1>7. DirsMade' /\ OwnersStay
  BY <1>3, <1>5, <1>6 DEF Records, DirsMade, OwnersStay
<1>8. LedgersKnown' /\ NoScratchForgotten'
  <2>1. forgotten \subseteq forgotten' /\ (old.scratch \in dirs' => old.scratch \in forgotten')
    BY <1>2
  <2>2. \A d \in dirs' : d \in Dirs
    BY <1>7 DEF DirsMade
  <2> QED BY <1>1, <1>3, <1>5, <2>1, <2>2, WriteKeeps DEF Records
<1>9. MemKnown'
  <2>1. Session([session |-> s, ledger |-> l, base |-> Content(l)], Unmade')
    BY <1>1, <1>6, ContentKnown DEF Session
  <2> QED BY <1>3, <1>6, <2>1, MemChanges DEF Records
<1>10. JobsKnown'
  <2>1. \A t \in SessionIds : Known(ledgers'[t], Unmade')
    BY <1>8 DEF LedgersKnown
  <2>2. Job(Sweeping(s, ledgers'), Unmade', made')
    BY <2>1, SweepingKnown
  <2> QED BY <1>3, <1>6, <1>7, <2>2, JobChanges DEF Records
<1>11. WritesKnown' /\ CleansKnown'
  <2>1. Agrees(p)
    BY <1>1 DEF Agrees, Records, WritesKnown, Writing
  <2>2. \A q \in Shells \ {p} : Agrees(q)
    BY <1>3, Agreed DEF Records, JobsKnown, MemKnown
  <2> QED BY <1>3, <1>6, <2>1, <2>2, WritesStay, CleansStay DEF Records
<1> QED BY <1>7, <1>8, <1>9, <1>10, <1>11 DEF Records

LEMMA SweepInv == ASSUME Records, NEW p \in Shells, Sweep(p) PROVE Records'
<1>1. /\ job[p] = [at |-> job[p].at, list |-> job[p].list, todo |-> job[p].todo]
      /\ job[p].at = "sweeping" /\ job[p].todo \subseteq SessionIds
      /\ \A t \in SessionIds : Known(job[p].list[t], Unmade)
  BY DEF Sweep, Records, JobsKnown, Job, Resuming, SweepKnown, Idle
<1>2. PICK s \in job[p].todo :
        LET rest == job[p].todo \ {s}
            old == job[p].list[s]
            ledger == [old EXCEPT !.arts = @ \cap present] IN
        /\ job' = [job EXCEPT ![p] = IF rest = {} THEN Idle ELSE [@ EXCEPT !.todo = rest]]
        /\ \/ UNCHANGED <<dirs, present, ledgers, clobbered>>
           \/ /\ Sweepable(old)
              /\ \E gone \in Removals(p, old.scratch, ledger.arts, HeldDirs(p, job[p].list, s)) :
                   /\ Delete(gone)
                   /\ Write(s, Tried(ledger, gone), old)
  BY DEF Sweep
<1> DEFINE rest == job[p].todo \ {s}
           old == job[p].list[s]
           ledger == [old EXCEPT !.arts = @ \cap present]
           j == IF rest = {} THEN Idle ELSE [job[p] EXCEPT !.todo = rest]
<1>3. UNCHANGED <<under, made, mem, cleaning, writing, forgotten>> /\ s \in SessionIds
  BY <1>1 DEF Sweep
<1>4. job' = [job EXCEPT ![p] = j]
  BY <1>2 DEF Records, JobsKnown
<1>5. Job(j, Unmade, made) /\ j.at # "resuming"
  BY <1>1 DEF Job, SweepKnown, Idle
<1>6. "none" \notin Unmade /\ Known(old, Unmade)
  BY <1>1, <1>3, NamesAssumption DEF Unmade
<1>7. Known(ledger, Unmade) /\ ledger.scratch = old.scratch
  BY <1>6, LedgerChanges
<1>8. \/ UNCHANGED <<dirs, ledgers, clobbered>>
      \/ /\ \E gone \in Removals(p, old.scratch, ledger.arts, HeldDirs(p, job[p].list, s)) :
              Delete(gone) /\ Write(s, Tried(ledger, gone), old)
  BY <1>2
<1> HIDE DEF rest, old, ledger, j
<1>9. dirs' \subseteq dirs /\ LedgersKnown' /\ NoScratchForgotten'
  <2>1. CASE UNCHANGED <<dirs, ledgers, clobbered>>
    BY <1>3, <2>1, LedgersStay, RecordStays DEF Records, Unmade
  <2>2. ASSUME NEW gone \in Removals(p, old.scratch, ledger.arts, HeldDirs(p, job[p].list, s)),
               Delete(gone), Write(s, Tried(ledger, gone), old)
        PROVE  dirs' \subseteq dirs /\ LedgersKnown' /\ NoScratchForgotten'
    <3>1. /\ dirs' = dirs \ gone.dirs
          /\ gone.outcome \in {"removed", "absent"} => old.scratch \notin dirs'
      BY <2>2, RemovalGone DEF Delete
    <3>2. /\ Known(Tried(ledger, gone), Unmade)
          /\ Tried(ledger, gone).scratch # old.scratch => old.scratch \notin dirs'
      BY <1>6, <1>7, <3>1, TriedKnown
    <3> QED BY <1>3, <2>2, <3>1, <3>2, WriteKeeps DEF Records
  <2> QED BY <1>8, <2>1, <2>2
<1>10. DirsMade' /\ Unmade' = Unmade /\ OwnersStay
  BY <1>3, <1>9, DirsStay DEF Records
<1>11. MemKnown' /\ JobsKnown'
  BY <1>3, <1>4, <1>5, <1>10, MemStays, JobChanges DEF Records
<1>12. WritesKnown' /\ CleansKnown'
  <2>1. \A q \in Shells : Agrees(q)
    BY <1>3, <1>4, <1>5 DEF Records, JobsKnown, WritesKnown, Writing, Agrees
  <2> QED BY <1>3, <1>9, <1>10, <2>1, WritesStay, CleansStay DEF Records
<1> QED BY <1>9, <1>10, <1>11, <1>12 DEF Records

LEMMA CaptureInv == ASSUME Records, NEW p \in Shells, Capture(p) PROVE Records'
<1>1. PICK l, place :
        /\ Known(l, Unmade) /\ l.scratch = mem[p].ledger.scratch
        /\ mem' = [mem EXCEPT ![p].ledger = l]
        /\ writing' = [writing EXCEPT ![p] =
             [at |-> "writing", session |-> mem[p].session, ledger |-> l,
              base |-> mem[p].base, own |-> TRUE]]
  <2>1. PICK arts :
          LET l == [mem[p].ledger EXCEPT !.arts = arts] IN
          /\ mem' = [mem EXCEPT ![p].ledger = l]
          /\ writing' = [writing EXCEPT ![p] =
               [at |-> "writing", session |-> mem[p].session, ledger |-> l,
                base |-> mem[p].base, own |-> TRUE]]
    BY DEF Capture
  <2>2. "none" \notin Unmade /\ Known(mem[p].ledger, Unmade)
    BY NamesAssumption DEF Unmade, Records, MemKnown, Session
  <2> QED BY <2>1, <2>2, LedgerChanges
<1>2. /\ UNCHANGED <<ledgers, under, dirs, made, job, cleaning, forgotten, clobbered>>
      /\ job[p] = Idle /\ mem[p] # NoSession
  BY DEF Capture, Free
<1>3. DirsMade' /\ Unmade' = Unmade /\ OwnersStay
  BY <1>2, DirsStay DEF Records
<1>4. LedgersKnown' /\ JobsKnown' /\ CleansKnown' /\ NoScratchForgotten'
  BY <1>2, <1>3, LedgersStay, JobsStay, CleansStay, RecordStays DEF Records
<1>5. Session(mem[p], Unmade) /\ mem[p].session \in SessionIds
  BY <1>2 DEF Records, MemKnown, Session
<1>6. MemKnown' /\ mem'[p].session = mem[p].session /\ mem'[p].ledger = l
  <2> DEFINE m == [mem[p] EXCEPT !.ledger = l]
  <2>1. mem' = [mem EXCEPT ![p] = m]
    BY <1>1
  <2>2. Session(m, Unmade') /\ m.session = mem[p].session /\ m.ledger = l
    BY <1>1, <1>3, <1>5 DEF Session
  <2> HIDE DEF m
  <2>3. mem'[p] = m
    BY <2>1 DEF Records, MemKnown
  <2> QED BY <1>3, <2>1, <2>2, <2>3, MemChanges DEF Records
<1>7. WritesKnown'
  <2> DEFINE w == [at |-> "writing", session |-> mem[p].session, ledger |-> l,
                   base |-> mem[p].base, own |-> TRUE]
  <2>1. Writing(w, Unmade', job'[p], mem'[p])
    BY <1>1, <1>2, <1>3, <1>5, <1>6 DEF Writing, Session, Idle
  <2>2. \A q \in Shells \ {p} : Agrees(q)
    BY <1>1, <1>2, Agreed DEF Records, MemKnown
  <2> HIDE DEF w
  <2>3. writing' = [writing EXCEPT ![p] = w]
    BY <1>1 DEF w
  <2> QED BY <1>3, <2>1, <2>2, <2>3, WriteChanges DEF Records
<1> QED BY <1>3, <1>4, <1>6, <1>7 DEF Records

\* The base of a session that lasts moves with its write.
LEMMA BaseMoves ==
  ASSUME MemKnown, UNCHANGED under, NEW p \in Shells, NEW l, Known(l, Unmade),
         l.scratch = mem[p].ledger.scratch,
         mem[p].session \in SessionIds \/ (mem[p] = NoSession /\ l = NoLedger),
         mem' = [mem EXCEPT ![p].base = Content(l)]
  PROVE  MemKnown' /\ mem'[p].session = mem[p].session /\ mem'[p].ledger = mem[p].ledger
<1> DEFINE m == [mem[p] EXCEPT !.base = Content(l)]
<1>1. mem' = [mem EXCEPT ![p] = m] /\ Unmade' = Unmade /\ "none" \notin Unmade
  BY NamesAssumption DEF Unmade
<1>2. Known(Content(l), Unmade) /\ Content(l).scratch = l.scratch /\ Session(mem[p], Unmade)
  BY <1>1, ContentKnown DEF MemKnown
<1>3. /\ m = [session |-> m.session, ledger |-> m.ledger, base |-> m.base]
      /\ m.session = mem[p].session /\ m.ledger = mem[p].ledger /\ m.base = Content(l)
  BY <1>2 DEF Session
<1>4. m # NoSession => m.session \in SessionIds
  <2>1. CASE mem[p] = NoSession /\ l = NoLedger
    <3>1. Content(l) = NoLedger
      BY <2>1 DEF Content
    <3> QED BY <1>3, <2>1, <3>1 DEF NoSession
  <2> QED BY <1>3, <2>1
<1> HIDE DEF m
<1>5. Session(m, Unmade')
  BY <1>1, <1>2, <1>3, <1>4 DEF Session
<1>6. mem'[p] = m
  BY <1>1 DEF MemKnown
<1> QED BY <1>1, <1>3, <1>5, <1>6, MemChanges

LEMMA WrittenInv == ASSUME Records, NEW p \in Shells, Written(p) PROVE Records'
<1> DEFINE w == writing[p]
<1>1. /\ Write(w.session, w.ledger, w.base)
      /\ mem' = IF w.own THEN [mem EXCEPT ![p].base = Content(w.ledger)] ELSE mem
      /\ writing' = [writing EXCEPT ![p] = Idle]
      /\ UNCHANGED <<under, dirs, made, job, cleaning, forgotten>>
  BY DEF Written
<1>2. Writing(w, Unmade, job[p], mem[p])
  BY DEF Written, Records, WritesKnown
<1>3. DirsMade' /\ Unmade' = Unmade /\ OwnersStay
  BY <1>1, DirsStay DEF Records
<1> HIDE DEF w
<1>4. LedgersKnown' /\ NoScratchForgotten'
  <2>1. w.session \in SessionIds /\ Known(w.ledger, Unmade)
    BY <1>2 DEF Writing
  <2>2. ledgers[w.session] = w.base => w.ledger.scratch = w.base.scratch
    BY <1>2, <2>1, UnreadIsNone DEF Writing, Records, LedgersKnown
  <2> QED BY <1>1, <2>1, <2>2, WriteKeeps DEF Records
<1>5. MemKnown' /\ mem'[p].session = mem[p].session /\ mem'[p].ledger = mem[p].ledger
  <2>1. CASE w.own
    BY <1>1, <1>2, <2>1, BaseMoves DEF Writing, Records
  <2>2. CASE ~w.own
    BY <1>1, <1>3, <2>2, MemStays DEF Records
  <2> QED BY <2>1, <2>2
<1>6. JobsKnown' /\ CleansKnown'
  BY <1>1, <1>3, JobsStay, CleansStay DEF Records
<1>7. WritesKnown'
  <2>1. \A q \in Shells \ {p} : mem'[q] = mem[q]
    BY <1>1 DEF Records, MemKnown
  <2>2. \A q \in Shells \ {p} : Agrees(q)
    BY <1>1, <2>1, Agreed DEF Records
  <2> QED BY <1>1, <1>3, <2>2, WriteChanges DEF Records
<1> QED BY <1>3, <1>4, <1>5, <1>6, <1>7 DEF Records

\* The fields of a clean, and what becomes of them.
Fields(c) ==
  c = [at |-> c.at, session |-> c.session, own |-> c.own, mine |-> c.mine, read |-> c.read,
       others |-> c.others, old |-> c.old, list |-> c.list, todo |-> c.todo]

LEMMA CleanBeginInv == ASSUME Records, NEW p \in Shells, CleanBegin(p) PROVE Records'
<1> DEFINE s == mem[p].session
           ended == {t \in SessionIds \ {s} : ledgers[t] # NoLedger /\ ~IsLive(ledgers[t])}
           c == [at |-> "artifacts", session |-> s, own |-> TRUE, mine |-> NoLedger,
                 read |-> [t \in ended |-> ledgers[t]], others |-> [t \in ended |-> ledgers[t]],
                 old |-> Existing, list |-> ledgers, todo |-> {}]
<1>1. /\ cleaning' = [cleaning EXCEPT ![p] = c]
      /\ UNCHANGED <<ledgers, under, dirs, made, mem, job, writing, forgotten, clobbered>>
  BY DEF CleanBegin
<1>2. DirsMade' /\ Unmade' = Unmade /\ OwnersStay /\ "none" \notin Unmade
  BY <1>1, DirsStay, NamesAssumption DEF Records, Unmade
<1>3. s \in SessionIds
  BY DEF CleanBegin, Records, MemKnown, Session
<1>4. Clean(c, Unmade, dirs)
  <2>1. ended \subseteq SessionIds
    OBVIOUS
  <2> HIDE DEF ended, s
  <2>2. Others(c, Unmade, dirs)
    BY <2>1 DEF Others, Records, LedgersKnown, Known
  <2>3. Known(NoLedger, Unmade)
    BY <1>2, NoLedgerKnown
  <2> QED BY <1>3, <2>2, <2>3 DEF Clean
<1> HIDE DEF c
<1>5. CleansKnown'
  BY <1>1, <1>2, <1>4, CleanChanges DEF Records
<1>6. \A q \in Shells : Agrees(q)
  BY <1>1, Agreed DEF Records
<1>7. LedgersKnown' /\ MemKnown' /\ JobsKnown' /\ WritesKnown' /\ NoScratchForgotten'
  BY <1>1, <1>2, <1>6, LedgersStay, MemStays, JobsStay, WritesStay, RecordStays DEF Records
<1> QED BY <1>2, <1>5, <1>7 DEF Records

LEMMA CleanListInv == ASSUME Records, NEW p \in Shells, CleanList(p) PROVE Records'
<1> DEFINE c == cleaning[p]
           d == [c EXCEPT !.at = "scratch", !.list = ledgers, !.todo = Groups(c)]
<1>1. /\ cleaning' = [cleaning EXCEPT ![p] = d]
      /\ UNCHANGED <<ledgers, under, dirs, made, mem, job, writing, forgotten, clobbered>>
  BY DEF CleanList, Records, CleansKnown
<1>2. DirsMade' /\ Unmade' = Unmade /\ OwnersStay
  BY <1>1, DirsStay DEF Records
<1>3. Clean(c, Unmade, dirs)
  BY DEF CleanList, Records, CleansKnown, Idle
<1>4. Clean(d, Unmade, dirs)
  <2> HIDE DEF c
  <2>1. Fields(c)
    BY <1>3 DEF Clean, Fields
  <2>2. PICK e : e = d
    OBVIOUS
  <2>3. /\ Fields(e) /\ e.session = c.session /\ e.mine = c.mine /\ e.read = c.read
        /\ e.others = c.others /\ e.todo = Groups(c)
    BY <2>1, <2>2 DEF Fields
  <2>4. Clean(e, Unmade, dirs)
    BY <1>3, <2>3 DEF Clean, Fields, Others, Groups
  <2> QED BY <2>2, <2>4
<1> HIDE DEF d
<1>5. CleansKnown'
  BY <1>1, <1>2, <1>4, CleanChanges DEF Records
<1>6. \A q \in Shells : Agrees(q)
  BY <1>1, Agreed DEF Records
<1>7. LedgersKnown' /\ MemKnown' /\ JobsKnown' /\ WritesKnown' /\ NoScratchForgotten'
  BY <1>1, <1>2, <1>6, LedgersStay, MemStays, JobsStay, WritesStay, RecordStays DEF Records
<1> QED BY <1>2, <1>5, <1>7 DEF Records

\* An artifact goes from one of the groups of a clean.
LEMMA CleanArtifactInv ==
  ASSUME Records, NEW p \in Shells, CleanArtifact(p)
  PROVE  Records'
<1> DEFINE c == cleaning[p]
           without(l, a) == [l EXCEPT !.arts = @ \ {a}]
<1>1. /\ UNCHANGED <<ledgers, under, dirs, made, job, writing, forgotten, clobbered>>
      /\ job[p] = Idle /\ c # Idle
  BY DEF CleanArtifact, Free, Idle
<1>2. DirsMade' /\ Unmade' = Unmade /\ OwnersStay /\ "none" \notin Unmade
  BY <1>1, DirsStay, NamesAssumption DEF Records, Unmade
<1>3. LedgersKnown' /\ JobsKnown' /\ NoScratchForgotten'
  BY <1>1, <1>2, LedgersStay, JobsStay, RecordStays DEF Records
<1>4. Clean(c, Unmade, dirs) /\ Session(mem[p], Unmade)
  BY <1>1 DEF Records, CleansKnown, MemKnown
<1>5. PICK a \in DOMAIN where :
        \/ /\ a \in Mine(p).arts
           /\ IF c.own
              THEN mem' = [mem EXCEPT ![p].ledger = without(@, a)] /\ UNCHANGED cleaning
              ELSE cleaning' = [cleaning EXCEPT ![p].mine = without(@, a)] /\ UNCHANGED mem
        \/ \E t \in DOMAIN c.others :
             /\ cleaning' = [cleaning EXCEPT ![p].others[t] = without(@, a)]
             /\ UNCHANGED mem
  BY DEF CleanArtifact
<1>6. ASSUME UNCHANGED mem, NEW d, cleaning' = [cleaning EXCEPT ![p] = d], Clean(d, Unmade, dirs)
      PROVE  Records'
  <2>1. MemKnown' /\ CleansKnown'
    BY <1>1, <1>2, <1>6, MemStays, CleanChanges DEF Records
  <2>2. \A q \in Shells : Agrees(q)
    BY <1>1, <1>6, Agreed DEF Records
  <2>3. WritesKnown'
    BY <1>1, <1>2, <2>2, WritesStay DEF Records
  <2> QED BY <1>2, <1>3, <2>1, <2>3 DEF Records
<1>7. CASE c.own /\ a \in Mine(p).arts /\ UNCHANGED cleaning
           /\ mem' = [mem EXCEPT ![p].ledger = without(@, a)]
  <2> DEFINE l == without(mem[p].ledger, a)
             m == [mem[p] EXCEPT !.ledger = l]
  <2>1. mem' = [mem EXCEPT ![p] = m]
    BY <1>7
  <2>2. Known(l, Unmade) /\ l.scratch = mem[p].ledger.scratch
    BY <1>2, <1>4, LedgerChanges DEF Session
  <2>3. mem[p] # NoSession
    BY <1>7 DEF Mine, NoSession, NoLedger
  <2> HIDE DEF l
  <2>4. /\ m = [session |-> m.session, ledger |-> m.ledger, base |-> m.base]
        /\ m.session = mem[p].session /\ m.ledger = l /\ m.base = mem[p].base
    BY <1>4 DEF Session
  <2> HIDE DEF m
  <2>5. Session(m, Unmade) /\ mem'[p] = m
    BY <1>4, <2>1, <2>2, <2>3, <2>4 DEF Session, Records, MemKnown
  <2>6. MemKnown'
    BY <1>2, <2>1, <2>5, MemChanges DEF Records
  <2>7. \A q \in Shells : Agrees(q)
    BY <1>1, <2>1, <2>2, <2>4, <2>5, Agreed DEF Records, MemKnown
  <2>8. WritesKnown' /\ CleansKnown'
    BY <1>1, <1>2, <1>7, <2>7, WritesStay, CleansStay DEF Records
  <2> QED BY <1>2, <1>3, <2>6, <2>8 DEF Records
<1>8. CASE ~c.own /\ UNCHANGED mem /\ cleaning' = [cleaning EXCEPT ![p].mine = without(@, a)]
  <2> DEFINE l == without(c.mine, a)
             d == [c EXCEPT !.mine = l]
  <2>1. cleaning' = [cleaning EXCEPT ![p] = d]
    BY <1>8
  <2>2. Known(l, Unmade) /\ Fields(c)
    BY <1>2, <1>4, LedgerChanges DEF Clean, Fields
  <2> HIDE DEF c, l
  <2>3. PICK e : e = d
    OBVIOUS
  <2>4. /\ Fields(e) /\ e.session = c.session /\ e.mine = l /\ e.read = c.read
        /\ e.others = c.others /\ e.todo = c.todo
    BY <2>2, <2>3 DEF Fields
  <2>5. Clean(e, Unmade, dirs)
    BY <1>4, <2>2, <2>4 DEF Clean, Fields, Others
  <2> QED BY <1>6, <1>8, <2>1, <2>3, <2>5
<1>9. ASSUME NEW t \in DOMAIN c.others, UNCHANGED mem,
             cleaning' = [cleaning EXCEPT ![p].others[t] = without(@, a)]
      PROVE  Records'
  <2> DEFINE l == without(c.others[t], a)
             o == [c.others EXCEPT ![t] = l]
             d == [c EXCEPT !.others = o]
  <2>1. cleaning' = [cleaning EXCEPT ![p] = d]
    BY <1>9
  <2>2. Known(l, Unmade) /\ l.scratch = c.others[t].scratch /\ Fields(c)
    <3>1. Known(c.others[t], Unmade) /\ Fields(c)
      BY <1>4, <1>9 DEF Clean, Others, Fields
    <3> QED BY <1>2, <3>1, LedgerChanges
  <2> HIDE DEF c, l
  <2>3. /\ DOMAIN o = DOMAIN c.others /\ o = [x \in DOMAIN o |-> o[x]]
        /\ \A x \in DOMAIN o : o[x] = IF x = t THEN l ELSE c.others[x]
    BY <1>4, <1>9 DEF Clean, Others
  <2> HIDE DEF o
  <2>4. PICK e : e = d
    OBVIOUS
  <2>5. /\ Fields(e) /\ e.session = c.session /\ e.mine = c.mine /\ e.read = c.read
        /\ e.others = o /\ e.todo = c.todo
    BY <2>2, <2>4 DEF Fields
  <2>6. Clean(e, Unmade, dirs)
    BY <1>4, <2>2, <2>3, <2>5 DEF Clean, Fields, Others
  <2> QED BY <1>6, <1>9, <2>1, <2>4, <2>6
<1> QED BY <1>5, <1>7, <1>8, <1>9

\* A clean that did one of its groups.
LEMMA CleanScratchInv ==
  ASSUME Records, NEW p \in Shells, CleanScratch(p)
  PROVE  Records'
<1> DEFINE c == cleaning[p]
           last(o) == [c EXCEPT !.at = "persist", !.others = o, !.todo = Groups(c)]
           next(o, t) == [c EXCEPT !.others = o, !.todo = c.todo \ {t}]
           done(t, o) == [cleaning EXCEPT ![p] = IF c.todo = {t} THEN last(o) ELSE next(o, t)]
<1>1. /\ UNCHANGED <<ledgers, under, made, mem, job, writing, forgotten, clobbered>>
      /\ c # Idle
  <2>1. UNCHANGED <<ledgers, under, made, mem, job, writing, forgotten, clobbered>>
    BY DEF CleanScratch
  <2>2. c.at = "scratch"
    BY DEF CleanScratch
  <2> QED BY <2>1, <2>2 DEF Idle
<1>2. Clean(c, Unmade, dirs) /\ Fields(c)
  BY <1>1 DEF Records, CleansKnown, Clean, Fields
<1>3. ASSUME NEW o, NEW t, cleaning' = done(t, o), dirs' \subseteq dirs,
             o = [x \in DOMAIN c.others |-> o[x]],
             \A x \in DOMAIN c.others :
               /\ Known(o[x], Unmade)
               /\ c.read[x].scratch \in dirs' => o[x].scratch = c.read[x].scratch
      PROVE  Records'
  <2>1. DirsMade' /\ Unmade' = Unmade /\ OwnersStay
    BY <1>1, <1>3, DirsStay DEF Records
  <2>2. PICK d : d = IF c.todo = {t} THEN last(o) ELSE next(o, t)
    OBVIOUS
  <2>3. cleaning' = [cleaning EXCEPT ![p] = d]
    BY <1>3, <2>2
  <2> HIDE DEF c
  <2>4. /\ Fields(d) /\ d.session = c.session /\ d.mine = c.mine /\ d.read = c.read /\ d.others = o
        /\ d.todo = Groups(c) \/ d.todo = c.todo \ {t}
    <3>1. CASE d = last(o)
      BY <1>2, <3>1 DEF Fields
    <3>2. CASE d = next(o, t)
      BY <1>2, <3>2 DEF Fields
    <3> QED BY <2>2, <3>1, <3>2
  <2>5. DOMAIN o = DOMAIN c.others
    BY <1>3
  <2>6. Others(d, Unmade, dirs')
    BY <1>2, <1>3, <2>4, <2>5 DEF Clean, Others
  <2>7. Clean(d, Unmade, dirs')
    BY <1>2, <2>4, <2>5, <2>6 DEF Clean, Fields, Groups
  <2>8. CleansKnown'
    BY <1>3, <2>1, <2>3, <2>7, CleanChanges DEF Records
  <2>9. LedgersKnown' /\ MemKnown' /\ JobsKnown' /\ NoScratchForgotten'
    BY <1>1, <1>3, <2>1, LedgersStay, MemStays, JobsStay, RecordStays DEF Records
  <2>10. \A q \in Shells : Agrees(q)
    BY <1>1, Agreed DEF Records
  <2>11. WritesKnown'
    BY <1>1, <2>1, <2>10, WritesStay DEF Records
  <2> QED BY <2>1, <2>8, <2>9, <2>11 DEF Records
<1>4. CASE dirs' \subseteq dirs /\ cleaning' = done(c.session, c.others)
  <2>1. /\ c.others = [x \in DOMAIN c.others |-> c.others[x]]
        /\ \A x \in DOMAIN c.others :
             /\ Known(c.others[x], Unmade)
             /\ c.read[x].scratch \in dirs' => c.others[x].scratch = c.read[x].scratch
    BY <1>2, <1>4 DEF Clean, Others
  <2> HIDE DEF c, done
  <2> QED BY <1>3, <1>4, <2>1
<1>5. ASSUME NEW t \in c.todo, c.session \notin c.todo,
             NEW gone \in Removals(p, c.others[t].scratch, c.others[t].arts,
                                   HeldDirs(p, c.list, t)),
             Delete(gone), cleaning' = done(t, [c.others EXCEPT ![t] = Tried(@, gone)])
      PROVE  Records'
  <2>1. t \in DOMAIN c.others
    BY <1>2, <1>5 DEF Clean
  <2>2. Known(c.others[t], Unmade) /\ "none" \notin Unmade
    BY <1>2, <2>1, NamesAssumption DEF Clean, Others, Unmade
  <2>3. /\ dirs' = dirs \ gone.dirs
        /\ gone.outcome \in {"removed", "absent"} => c.others[t].scratch \notin dirs'
    BY <1>5, RemovalGone DEF Delete
  <2>4. /\ Known(Tried(c.others[t], gone), Unmade)
        /\ Tried(c.others[t], gone).scratch # c.others[t].scratch => c.others[t].scratch \notin dirs'
    BY <2>2, <2>3, TriedKnown
  <2>5. PICK o : o = [c.others EXCEPT ![t] = Tried(@, gone)]
    OBVIOUS
  <2>6. cleaning' = done(t, o) /\ dirs' \subseteq dirs
    BY <1>5, <2>3, <2>5
  <2> HIDE DEF c
  <2>7. /\ o = [x \in DOMAIN c.others |-> o[x]] /\ o[t] = Tried(c.others[t], gone)
        /\ \A x \in DOMAIN c.others : x # t => o[x] = c.others[x]
    BY <1>2, <2>1, <2>5 DEF Clean, Others
  <2>8. \A x \in DOMAIN c.others :
          /\ Known(o[x], Unmade)
          /\ c.read[x].scratch \in dirs' => o[x].scratch = c.read[x].scratch
    BY <1>2, <2>4, <2>6, <2>7 DEF Clean, Others
  <2> HIDE DEF done
  <2> QED BY <1>3, <2>6, <2>7, <2>8
<1>6. \/ dirs' \subseteq dirs /\ cleaning' = done(c.session, c.others)
      \/ /\ c.session \notin c.todo
         /\ \E t \in c.todo :
            \E gone \in Removals(p, c.others[t].scratch, c.others[t].arts,
                                 HeldDirs(p, c.list, t)) :
              Delete(gone) /\ cleaning' = done(t, [c.others EXCEPT ![t] = Tried(@, gone)])
  <2>1. \/ /\ \E old \in {[dirs |-> {}, arts |-> {}], c.old} :
              Delete(IF Mine(p).scratch \in dirs
                     THEN Emptied(p, Mine(p).scratch, Mine(p).arts,
                                  HeldDirs(p, c.list, c.session), old)
                     ELSE Nothing("absent"))
           /\ cleaning' = done(c.session, c.others)
        \/ /\ c.session \notin c.todo
           /\ \E t \in c.todo :
              \E gone \in Removals(p, c.others[t].scratch, c.others[t].arts,
                                   HeldDirs(p, c.list, t)) :
                Delete(gone) /\ cleaning' = done(t, [c.others EXCEPT ![t] = Tried(@, gone)])
    BY DEF CleanScratch
  <2> QED BY <2>1 DEF Delete
<1> QED BY <1>4, <1>5, <1>6

LEMMA CleanPersistInv ==
  ASSUME Records, NEW p \in Shells, CleanPersist(p)
  PROVE  Records'
<1> DEFINE c == cleaning[p]
<1>1. UNCHANGED <<under, dirs, made, job, writing, forgotten>> /\ c # Idle
  BY DEF CleanPersist, Idle
<1>2. DirsMade' /\ Unmade' = Unmade /\ OwnersStay /\ "none" \notin Unmade
  BY <1>1, DirsStay, NamesAssumption DEF Records, Unmade
<1>3. Clean(c, Unmade, dirs) /\ Fields(c) /\ Session(mem[p], Unmade)
  BY <1>1 DEF Records, CleansKnown, Clean, Fields, MemKnown
<1>4. PICK t \in c.todo :
        /\ IF t = c.session
           THEN /\ Write(t, Mine(p), MyBase(p))
                /\ mem' = IF c.own THEN [mem EXCEPT ![p].base = Content(Mine(p))] ELSE mem
           ELSE Write(t, c.others[t], c.read[t]) /\ UNCHANGED mem
        /\ cleaning' = [cleaning EXCEPT ![p] = IF c.todo = {t} THEN Idle ELSE [@ EXCEPT !.todo = c.todo \ {t}]]
  BY DEF CleanPersist
<1>5. CleansKnown'
  <2>1. PICK d : d = IF c.todo = {t} THEN Idle ELSE [c EXCEPT !.todo = c.todo \ {t}]
    OBVIOUS
  <2>2. cleaning' = [cleaning EXCEPT ![p] = d]
    BY <1>4, <2>1
  <2> HIDE DEF c
  <2>3. ASSUME d # Idle PROVE Clean(d, Unmade, dirs)
    <3>1. d = [c EXCEPT !.todo = c.todo \ {t}]
      BY <2>1, <2>3
    <3>2. /\ Fields(d) /\ d.session = c.session /\ d.mine = c.mine /\ d.read = c.read
          /\ d.others = c.others /\ d.todo = c.todo \ {t}
      BY <1>3, <3>1 DEF Fields
    <3> QED BY <1>3, <3>2 DEF Clean, Fields, Others
  <2> QED BY <1>1, <1>2, <2>2, <2>3, CleanChanges DEF Records
<1>6. /\ LedgersKnown' /\ NoScratchForgotten' /\ MemKnown'
      /\ mem'[p].session = mem[p].session /\ mem'[p].ledger = mem[p].ledger
  <2>1. CASE t = c.session /\ c.own
    <3>1. Mine(p) = mem[p].ledger /\ MyBase(p) = mem[p].base
      BY <2>1 DEF Mine, MyBase
    <3>2. t \in SessionIds /\ Known(mem[p].ledger, Unmade) /\ mem[p].base.scratch = mem[p].ledger.scratch
      BY <1>3, <2>1 DEF Clean, Session
    <3>3. Write(t, mem[p].ledger, mem[p].base) /\ mem' = [mem EXCEPT ![p].base = Content(mem[p].ledger)]
      BY <1>4, <2>1, <3>1
    <3>4. LedgersKnown' /\ NoScratchForgotten'
      BY <1>1, <3>2, <3>3, WriteKeeps DEF Records
    <3>5. mem[p].session \in SessionIds \/ (mem[p] = NoSession /\ mem[p].ledger = NoLedger)
      BY <1>3 DEF Session, NoSession
    <3> QED BY <1>1, <3>2, <3>3, <3>4, <3>5, BaseMoves DEF Records
  <2>2. CASE t = c.session /\ ~c.own
    <3>1. Mine(p) = c.mine /\ MyBase(p) = Unread
      BY <2>2 DEF Mine, MyBase
    <3>2. t \in SessionIds /\ Known(c.mine, Unmade)
      BY <1>3, <2>2 DEF Clean
    <3>3. ledgers[t] # Unread
      BY <3>2, UnreadIsNone DEF Records, LedgersKnown
    <3>4. Write(t, c.mine, Unread) /\ mem' = mem
      BY <1>4, <2>2, <3>1
    <3> HIDE DEF c
    <3>5. LedgersKnown' /\ NoScratchForgotten'
      BY <1>1, <3>2, <3>3, <3>4, WriteKeeps DEF Records
    <3> QED BY <1>2, <3>4, <3>5, MemStays DEF Records
  <2>3. CASE t # c.session
    <3>1. t \in DOMAIN c.others
      BY <1>3, <2>3 DEF Clean
    <3>2. /\ t \in SessionIds /\ Known(c.others[t], Unmade)
          /\ c.read[t].scratch \in dirs' => c.others[t].scratch = c.read[t].scratch
      BY <1>1, <1>3, <3>1 DEF Clean, Others
    <3>3. Write(t, c.others[t], c.read[t]) /\ mem' = mem
      BY <1>4, <2>3
    <3> HIDE DEF c
    <3>4. LedgersKnown' /\ NoScratchForgotten'
      BY <1>1, <3>2, <3>3, WriteKeeps DEF Records
    <3> QED BY <1>2, <3>3, <3>4, MemStays DEF Records
  <2> QED BY <2>1, <2>2, <2>3
<1>7. JobsKnown' /\ WritesKnown'
  <2>1. \A q \in Shells \ {p} : mem'[q] = mem[q]
    BY <1>4 DEF Records, MemKnown
  <2>2. \A q \in Shells : Agrees(q)
    BY <1>1, <1>6, <2>1, Agreed DEF Records
  <2> QED BY <1>1, <1>2, <2>2, JobsStay, WritesStay DEF Records
<1> QED BY <1>2, <1>5, <1>6, <1>7 DEF Records

----------------------------------------------------------------------------
(* The invariant.                                                          *)

\* The handlers of a session are synchronous: while one is half way, its process
\* does nothing else.
LEMMA EndsStep == ASSUME Records, EndsOpen, [ScratchNext]_scratchVars PROVE EndsOpen'
<1> SUFFICES ASSUME NEW q \in Shells, job'[q].at = "ending" PROVE mem'[q] # NoSession
  BY DEF EndsOpen
<1>1. CASE job'[q] = job[q] /\ mem'[q] = mem[q]
  BY <1>1 DEF EndsOpen
<1>2. CASE EndList(q)
  BY <1>2 DEF EndList
<1>3. CASE job'[q] = job[q] /\ job[q] = Idle
  BY <1>3 DEF Idle
<1>4. \/ job'[q] = job[q] /\ mem'[q] = mem[q]
      \/ EndList(q)
      \/ job'[q] = job[q] /\ job[q] = Idle
  <2>1. ASSUME NEW p \in Shells, NEW j, job' = [job EXCEPT ![p] = j], j.at # "ending",
               NEW m, mem' = [mem EXCEPT ![p] = m]
        PROVE  job'[q] = job[q] /\ mem'[q] = mem[q]
    BY <2>1 DEF Records, JobsKnown, MemKnown
  <2>2. \A s, list : Sweeping(s, list).at # "ending"
    BY DEF Sweeping, Idle
  <2>3. CASE UNCHANGED <<job, mem>>
    BY <2>3
  <2>4. ASSUME NEW p \in Shells, NEW s \in SessionIds, NEW r \in BOOLEAN, BeginSession(p, s, r)
        PROVE  job'[q] = job[q] /\ mem'[q] = mem[q]
    <3>1. \/ /\ mem' = [mem EXCEPT ![p] = [session |-> s, ledger |-> ledgers[s], base |-> ledgers[s]]]
             /\ job' = [job EXCEPT ![p] = Sweeping(s, ledgers)]
          \/ /\ mem' = [mem EXCEPT ![p] = NoSession]
             /\ \E l : job' = [job EXCEPT ![p] =
                         [at |-> "resuming", session |-> s, previous |-> ledgers[s],
                          list |-> ledgers, ledger |-> l]]
      BY <2>4 DEF BeginSession
    <3> QED BY <2>1, <2>2, <3>1
  <2>5. ASSUME NEW p \in Shells, Record(p) PROVE job'[q] = job[q] /\ mem'[q] = mem[q]
    BY <2>1, <2>2, <2>5 DEF Record
  <2>6. ASSUME NEW p \in Shells, Sweep(p) PROVE job'[q] = job[q] /\ mem'[q] = mem[q]
    <3>1. job[p].at = "sweeping" /\ mem' = mem
      BY <2>6 DEF Sweep
    <3>2. PICK rest : job' = [job EXCEPT ![p] = IF rest = {} THEN Idle ELSE [@ EXCEPT !.todo = rest]]
      BY <2>6 DEF Sweep
    <3>3. (IF rest = {} THEN Idle ELSE [job[p] EXCEPT !.todo = rest]).at # "ending"
      BY <3>1 DEF Records, JobsKnown, Job, Resuming, SweepKnown, Idle
    <3> QED BY <3>1, <3>2, <3>3 DEF Records, JobsKnown, MemKnown
  <2>7. ASSUME NEW p \in Shells, EndList(p)
        PROVE  EndList(q) \/ (job'[q] = job[q] /\ mem'[q] = mem[q])
    BY <2>7 DEF EndList, Records, JobsKnown
  <2>8. ASSUME NEW p \in Shells, End(p) \/ Exit(p) PROVE job'[q] = job[q] /\ mem'[q] = mem[q]
    <3>1. job' = [job EXCEPT ![p] = Idle] /\ mem' = [mem EXCEPT ![p] = NoSession]
      BY <2>8 DEF End, Exit
    <3>2. Idle.at # "ending"
      BY DEF Idle
    <3> QED BY <2>1, <3>1, <3>2
  <2>9. ASSUME NEW p \in Shells,
               Capture(p) \/ Written(p) \/ CleanArtifact(p) \/ CleanPersist(p)
        PROVE  job'[q] = job[q] /\ (mem'[q] = mem[q] \/ job[q] = Idle)
    <3>1. job' = job /\ job[p] = Idle
      BY <2>9 DEF Capture, Written, CleanArtifact, CleanPersist, Free
    <3>2. \/ mem' = mem
          \/ \E l : mem' = [mem EXCEPT ![p].ledger = l]
          \/ \E l : mem' = [mem EXCEPT ![p].base = l]
      <4>1. CASE Capture(p)
        BY <4>1 DEF Capture
      <4>2. CASE Written(p)
        BY <4>2 DEF Written
      <4>3. CASE CleanArtifact(p)
        BY <4>3 DEF CleanArtifact
      <4>4. CASE CleanPersist(p)
        BY <4>4 DEF CleanPersist
      <4> QED BY <2>9, <4>1, <4>2, <4>3, <4>4
    <3> QED BY <3>1, <3>2 DEF Records, MemKnown
  <2>10. ASSUME NEW p \in Shells,
                \/ Launch(p) \/ Subagent(p) \/ SubagentEnds(p)
                \/ CleanBegin(p) \/ CleanList(p) \/ CleanScratch(p)
         PROVE  UNCHANGED <<job, mem>>
    BY <2>10 DEF Launch, Subagent, SubagentEnds, CleanBegin, CleanList, CleanScratch
  <2>11. ASSUME NEW a, Vanish(a) PROVE UNCHANGED <<job, mem>>
    BY <2>11 DEF Vanish
  <2>12. CASE UNCHANGED scratchVars
    BY <2>12 DEF scratchVars
  <2> QED BY <2>3, <2>4, <2>5, <2>6, <2>7, <2>8, <2>9, <2>10, <2>11, <2>12 DEF ScratchNext
<1> QED BY <1>1, <1>2, <1>3, <1>4

LEMMA RecordsStep == ASSUME IInv, [ScratchNext]_scratchVars PROVE Records'
<1>1. ASSUME NEW p \in Shells, Launch(p) \/ Subagent(p) \/ SubagentEnds(p) PROVE Records'
  BY <1>1, Quiet DEF Launch, Subagent, SubagentEnds, IInv
<1>2. ASSUME NEW a, Vanish(a) PROVE Records'
  BY <1>2, Quiet DEF Vanish, IInv
<1>3. CASE UNCHANGED scratchVars
  BY <1>3, Quiet DEF scratchVars, IInv
<1>4. ASSUME NEW p \in Shells, NEW s \in SessionIds, NEW r \in BOOLEAN, BeginSession(p, s, r) PROVE Records'
  BY <1>4, BeginInv DEF IInv
<1>5. ASSUME NEW p \in Shells, Record(p) PROVE Records'
  BY <1>5, RecordInv DEF IInv
<1>6. ASSUME NEW p \in Shells, Sweep(p) PROVE Records'
  BY <1>6, SweepInv DEF IInv
<1>7. ASSUME NEW p \in Shells, EndList(p) \/ End(p) \/ Exit(p) PROVE Records'
  BY <1>7, EndListInv, EndInv, ExitInv DEF IInv
<1>8. ASSUME NEW p \in Shells, Capture(p) \/ Written(p) PROVE Records'
  BY <1>8, CaptureInv, WrittenInv DEF IInv
<1>9. ASSUME NEW p \in Shells, CleanBegin(p) \/ CleanArtifact(p) \/ CleanList(p) PROVE Records'
  BY <1>9, CleanBeginInv, CleanArtifactInv, CleanListInv DEF IInv
<1>10. ASSUME NEW p \in Shells, CleanScratch(p) \/ CleanPersist(p) PROVE Records'
  BY <1>10, CleanScratchInv, CleanPersistInv DEF IInv
<1> QED BY <1>1, <1>2, <1>3, <1>4, <1>5, <1>6, <1>7, <1>8, <1>9, <1>10 DEF ScratchNext

\* The invariant holds in every behaviour: what the ledger files, the open
\* sessions, the writes and the cleans under way say of the scratch directories
\* fits together.
THEOREM RecordsKept == ScratchSpec => []IInv
<1>1. ScratchInit => IInv
  <2>1. ScratchInit => EndsOpen
    BY DEF ScratchInit, EndsOpen, Idle
  <2> QED BY <2>1, InitInv DEF IInv
<1>2. IInv /\ [ScratchNext]_scratchVars => IInv'
  BY EndsStep, RecordsStep DEF IInv
<1> QED BY <1>1, <1>2, PTL DEF ScratchSpec

\* A scratch directory that exists is in the ledger of its session, unless that
\* ledger was never written, the record replaced while the directory could not
\* go, or the ledger overwritten unread.
THEOREM NothingForgotten == ScratchSpec => []NoScratchForgotten
<1>1. IInv => NoScratchForgotten
  BY DEF IInv, Records
<1> QED BY <1>1, RecordsKept, PTL

----------------------------------------------------------------------------
(* Who made what.                                                          *)

\* r and the directories around it: none of them was made by p.
Outside(p, r) ==
  \E s \in SUBSET ((Dirs \ Unmade) \cup {"root"}) :
    /\ r \in s
    /\ \A z \in s : Outer(z) \in s /\ (z \in Dirs => made[z].by # p)

\* A process makes no scratch in one of its own.
DirsOutside ==
  \A d \in Dirs \ Unmade : made[d].by \in started /\ Outside(made[d].by, under[d])

\* A ledger of t, however old: its process made its scratch, for t.
Of(l, t) ==
  /\ l.scratch \in Dirs => /\ l.scratch \notin Unmade
                           /\ made[l.scratch].by = l.pid
                           /\ made[l.scratch].session = t
  /\ Outside(l.pid, l.root)
  /\ l.arts \subseteq DOMAIN where

AllOf(list) == \A t \in SessionIds : Of(list[t], t)

\* TMPDIR while the session with this ledger lasts.
Home(p, l) ==
  \/ tmp[p] = l.scratch /\ l.scratch \in Dirs
  \/ tmp[p] \notin dirs /\ Outside(p, tmp[p])

\* Artifacts that p made lie outside, or in a scratch of its own.
Fresh(p, arts) ==
  \A a \in arts :
    /\ a \in DOMAIN where
    /\ where[a] = "outside" \/ (where[a] \in Dirs \ Unmade /\ made[where[a]].by = p)

Opened(p) ==
  IF mem[p] = NoSession
  THEN p \in living /\ job[p].at # "resuming" => Outside(p, tmp[p])
  ELSE /\ p \in living
       /\ mem[p].ledger.pid = p
       /\ Of(mem[p].ledger, mem[p].session)
       /\ Home(p, mem[p].ledger)
       /\ Fresh(p, mem[p].ledger.arts \ mem[p].base.arts)

Begun(p) ==
  LET j == job[p] IN
  /\ j.at = "resuming" => /\ p \in living /\ mem[p] = NoSession
                          /\ Of(j.ledger, j.session) /\ Of(j.previous, j.session)
                          /\ j.ledger.pid = p /\ j.ledger.arts = j.previous.arts
                          /\ Home(p, j.ledger)
  /\ j.at = "sweeping" => mem[p].session \notin j.todo
  /\ j # Idle => AllOf(j.list)

WriteUnderWay(p) ==
  LET w == writing[p] IN
  w # Idle => /\ Of(w.ledger, w.session)
              /\ w.own => /\ w.session = mem[p].session
                          /\ mem[p].ledger.arts \subseteq w.ledger.arts
                          /\ Fresh(p, w.ledger.arts \ w.base.arts)

\* A clean tells the scratch of an ended session from what came after it.
Cleaned(p) ==
  LET c == cleaning[p] IN
  c # Idle => /\ Of(c.mine, c.session)
              /\ c.mine.scratch \in Dirs => c.mine.pid = p
              /\ c.own => mem[p].session = c.session
              /\ AllOf(c.list)
              /\ c.old.dirs \subseteq Dirs \ Unmade
              /\ \A t \in DOMAIN c.others :
                   /\ t # c.session
                   /\ Of(c.others[t], t)
                   /\ c.others[t].scratch \in Dirs => c.others[t].pid \notin living
                   /\ c.read[t].arts \subseteq DOMAIN where
                   /\ c.read[t].arts \cap present \subseteq c.others[t].arts
                   /\ c.others[t].arts \subseteq c.read[t].arts

\* The session that p has open, or opens, with its scratch.
Opens(p) ==
  IF job[p].at = "resuming" THEN [session |-> job[p].session, scratch |-> job[p].ledger.scratch]
  ELSE [session |-> mem[p].session, scratch |-> mem[p].ledger.scratch]

Once ==
  \A p, q \in Shells : p # q => Opens(p).session # Opens(q).session \/ Opens(p).session = "none"

\* A clean began before another process opened its session.
OldKnown ==
  \A p, q \in Shells :
    p # q /\ cleaning[p] # Idle /\ Opens(q).session = cleaning[p].session =>
      Opens(q).scratch \notin cleaning[p].old.dirs

\* What lies in the scratch of an ended session was in the ledger that was read.
Inherited ==
  \A p \in Shells : cleaning[p] # Idle =>
    \A t \in DOMAIN cleaning[p].others \ clobbered :
      \A a \in ledgers[t].arts \cap present :
        where[a] \in Dirs /\ where[a] = cleaning[p].others[t].scratch =>
          a \in cleaning[p].others[t].arts

\* What a process has and does fits what it and its ledgers made.
Own(p) == Opened(p) /\ Begun(p) /\ WriteUnderWay(p) /\ Cleaned(p)

Basics ==
  /\ tmp = [p \in Shells |-> tmp[p]]
  /\ where \in Seq(Dirs \cup {"outside"})
  /\ living \subseteq started /\ started \subseteq Shells

Owners ==
  /\ Basics /\ DirsOutside
  /\ AllOf(ledgers)
  /\ \A p \in Shells : Own(p)
  /\ Once /\ OldKnown /\ Inherited

----------------------------------------------------------------------------
(* What lasts.                                                             *)

\* A step makes directories and artifacts that were not known, and changes none.
Grows ==
  /\ Unmade' \subseteq Unmade
  /\ \A d \in Dirs \ Unmade : /\ under'[d] = under[d]
                               /\ made'[d].by = made[d].by
                               /\ made'[d].session = made[d].session
  /\ DOMAIN where \subseteq DOMAIN where'
  /\ \A a \in DOMAIN where : where'[a] = where[a]
  /\ present' \cap DOMAIN where \subseteq present
  /\ dirs' \ Unmade \subseteq dirs
  /\ started \subseteq started'
  /\ living' \cap started \subseteq living

\* A ledger that lists no more than l.
Less(k, l) ==
  k.pid = l.pid /\ k.root = l.root /\ k.scratch \in {l.scratch, "none"} /\ k.arts \subseteq l.arts

LEMMA NoneIsNoDir == "none" \notin Dirs /\ "root" \notin Dirs /\ "outside" \notin Dirs
BY NamesAssumption

LEMMA OutsideStays ==
  ASSUME Grows, NEW p, NEW r, Outside(p, r) PROVE Outside(p, r)'
<1>1. PICK s \in SUBSET ((Dirs \ Unmade) \cup {"root"}) :
        /\ r \in s
        /\ \A z \in s : Outer(z) \in s /\ (z \in Dirs => made[z].by # p)
  BY DEF Outside
<1>2. s \in SUBSET ((Dirs \ Unmade') \cup {"root"})
  BY <1>1 DEF Grows
<1>3. ASSUME NEW z \in s PROVE Outer(z)' \in s /\ (z \in Dirs => made'[z].by # p)
  BY <1>1, NoneIsNoDir DEF Outer, Grows
<1> QED BY <1>1, <1>2, <1>3 DEF Outside

LEMMA RootOutside == ASSUME NEW p PROVE Outside(p, "root")
<1>1. {"root"} \in SUBSET ((Dirs \ Unmade) \cup {"root"})
  OBVIOUS
<1>2. \A z \in {"root"} : Outer(z) \in {"root"} /\ (z \in Dirs => made[z].by # p)
  BY NoneIsNoDir DEF Outer
<1> QED BY <1>1, <1>2 DEF Outside

LEMMA OutsideIs ==
  ASSUME NEW p, NEW r, Outside(p, r)
  PROVE  /\ r \in (Dirs \ Unmade) \cup {"root"} /\ r \notin Unmade
         /\ r \in Dirs => made[r].by # p
         /\ Outside(p, Outer(r))
<1>1. "root" \notin Unmade
  BY NoneIsNoDir DEF Unmade
<1> QED BY <1>1 DEF Outside

\* One of the directories around r was made by p: r is not outside.
LEMMA OutsideOwn ==
  ASSUME NEW p, NEW r, NEW d \in Dirs, Within(r, d), made[d].by = p
  PROVE  ~Outside(p, r)
BY DEF Outside, Within

LEMMA OutsideAround ==
  ASSUME NEW p, NEW d \in Dirs \ Unmade, made[d].by # p, Outside(p, under[d])
  PROVE  Outside(p, d)
<1>1. PICK s \in SUBSET ((Dirs \ Unmade) \cup {"root"}) :
        /\ under[d] \in s
        /\ \A z \in s : Outer(z) \in s /\ (z \in Dirs => made[z].by # p)
  BY DEF Outside
<1>2. s \cup {d} \in SUBSET ((Dirs \ Unmade) \cup {"root"})
  BY <1>1
<1>3. ASSUME NEW z \in s \cup {d}
      PROVE  Outer(z) \in s \cup {d} /\ (z \in Dirs => made[z].by # p)
  BY <1>1 DEF Outer
<1> QED BY <1>2, <1>3 DEF Outside

LEMMA OutsideStranger ==
  ASSUME DirsOutside, NEW p, p \notin started, NEW q, NEW r, Outside(q, r)
  PROVE  Outside(p, r)
<1>1. PICK s \in SUBSET ((Dirs \ Unmade) \cup {"root"}) : r \in s /\ \A z \in s : Outer(z) \in s
  BY DEF Outside
<1>2. \A z \in s : z \in Dirs => made[z].by # p
  BY NoneIsNoDir DEF DirsOutside
<1> QED BY <1>1, <1>2 DEF Outside

LEMMA OfStays == ASSUME Grows, NEW l, NEW t, Of(l, t) PROVE Of(l, t)'
<1>1. Outside(l.pid, l.root)'
  BY OutsideStays DEF Of
<1> QED BY <1>1 DEF Of, Grows

LEMMA OfLess == ASSUME NEW l, NEW k, NEW t, Of(l, t), Less(k, l) PROVE Of(k, t)
BY NoneIsNoDir DEF Of, Less

LEMMA OfNoLedger == ASSUME NEW t PROVE Of(NoLedger, t)
BY RootOutside, NoneIsNoDir DEF Of, NoLedger

LEMMA AllOfStays ==
  ASSUME Grows, NEW list, AllOf(list)
  PROVE  \A t \in SessionIds : Of(list[t], t)'
BY OfStays DEF AllOf

LEMMA FreshStays == ASSUME Grows, NEW p, NEW arts, Fresh(p, arts) PROVE Fresh(p, arts)'
BY DEF Fresh, Grows

LEMMA HomeStays ==
  ASSUME Grows, NEW p, tmp'[p] = tmp[p], NEW l, Home(p, l) PROVE Home(p, l)'
<1>1. CASE tmp[p] = l.scratch /\ l.scratch \in Dirs
  BY <1>1 DEF Home
<1>2. CASE tmp[p] \notin dirs /\ Outside(p, tmp[p])
  <2>1. Outside(p, tmp[p])' /\ tmp[p] \notin dirs'
    BY <1>2, OutsideStays, OutsideIs, NoneIsNoDir DEF Grows
  <2> QED BY <2>1 DEF Home
<1> QED BY <1>1, <1>2 DEF Home

\* The session of p, and its TMPDIR, are as they were.
Stays(p) ==
  /\ mem'[p] = mem[p] /\ tmp'[p] = tmp[p]
  /\ p \in living <=> p \in living'

LEMMA OpenedStays ==
  ASSUME Grows, NEW p, Stays(p), job'[p].at = "resuming" <=> job[p].at = "resuming", Opened(p)
  PROVE  Opened(p)'
<1>1. CASE mem[p] = NoSession
  BY <1>1, OutsideStays DEF Opened, Stays
<1>2. CASE mem[p] # NoSession
  BY <1>2, OfStays, HomeStays, FreshStays DEF Opened, Stays
<1> QED BY <1>1, <1>2

LEMMA BegunStays ==
  ASSUME Grows, NEW p, Stays(p), job'[p] = job[p], Begun(p)
  PROVE  Begun(p)'
<1> DEFINE j == job[p]
<1>1. j # Idle => \A t \in SessionIds : Of(j.list[t], t)'
  BY AllOfStays DEF Begun
<1>2. j # Idle => AllOf(j.list)'
  BY <1>1 DEF AllOf
<1>3. j.at = "resuming" => /\ Of(j.ledger, j.session)' /\ Of(j.previous, j.session)'
                           /\ Home(p, j.ledger)'
  BY OfStays, HomeStays DEF Begun, Stays
<1> QED BY <1>2, <1>3 DEF Begun, Stays

LEMMA IdleBegun == ASSUME NEW p, job'[p] = Idle PROVE Begun(p)'
BY DEF Begun, Idle

LEMMA SweepingBegun ==
  ASSUME NEW p, NEW s, AllOf(ledgers)', job'[p] = Sweeping(s, ledgers'), mem'[p].session = s
  PROVE  Begun(p)'
BY DEF Begun, Idle, Sweeping

LEMMA WriteUnderWayStays ==
  ASSUME Grows, NEW p, writing'[p] = writing[p], mem'[p].session = mem[p].session,
         mem'[p].ledger.arts \subseteq mem[p].ledger.arts, WriteUnderWay(p)
  PROVE  WriteUnderWay(p)'
BY OfStays, FreshStays DEF WriteUnderWay

\* A clean goes on, or stops.
CleanGoes(p) ==
  \/ cleaning'[p] = Idle
  \/ LET c == cleaning[p]
         d == cleaning'[p] IN
     /\ c # Idle
     /\ d.session = c.session /\ d.old = c.old /\ d.read = c.read
     /\ DOMAIN d.others = DOMAIN c.others
     /\ \A t \in DOMAIN c.others :
          /\ Less(d.others[t], c.others[t])
          /\ c.others[t].arts \cap present' \subseteq d.others[t].arts

LEMMA CleanStaysGoes == ASSUME NEW p, cleaning'[p] = cleaning[p] PROVE CleanGoes(p)
BY DEF CleanGoes, Less

LEMMA CleanedGoes ==
  ASSUME Grows, DirsOutside, NEW p, CleanGoes(p), Cleaned(p),
         cleaning'[p] # Idle =>
           LET d == cleaning'[p] IN
           /\ Of(d.mine, d.session)
           /\ d.mine.scratch \in Dirs => d.mine.pid = p
           /\ d.own => cleaning[p].own /\ mem'[p].session = mem[p].session
           /\ AllOf(d.list)
  PROVE  Cleaned(p)'
<1> DEFINE c == cleaning[p]
<1> SUFFICES ASSUME NEW d, d = cleaning'[p], d # Idle PROVE Cleaned(p)'
  BY DEF Cleaned
<1>1. /\ c # Idle /\ d.session = c.session /\ d.old = c.old /\ d.read = c.read
      /\ DOMAIN d.others = DOMAIN c.others
      /\ \A t \in DOMAIN c.others :
           /\ Less(d.others[t], c.others[t])
           /\ c.others[t].arts \cap present' \subseteq d.others[t].arts
  BY DEF CleanGoes
<1>2. Of(d.mine, d.session)' /\ AllOf(d.list)'
  BY OfStays, AllOfStays DEF AllOf
<1>3. /\ d.mine.scratch \in Dirs => d.mine.pid = p
      /\ d.own => mem'[p].session = d.session
      /\ d.old.dirs \subseteq Dirs \ Unmade'
  BY <1>1 DEF Cleaned, Grows
<1>4. ASSUME NEW t \in DOMAIN d.others
      PROVE  /\ t # d.session
             /\ Of(d.others[t], t)'
             /\ d.others[t].scratch \in Dirs => d.others[t].pid \notin living'
             /\ d.read[t].arts \subseteq DOMAIN where'
             /\ d.read[t].arts \cap present' \subseteq d.others[t].arts
             /\ d.others[t].arts \subseteq d.read[t].arts
  <2>1. /\ t \in DOMAIN c.others /\ Less(d.others[t], c.others[t])
        /\ c.others[t].arts \cap present' \subseteq d.others[t].arts
    BY <1>1, <1>4
  <2>2. /\ t # c.session /\ Of(c.others[t], t)
        /\ c.others[t].scratch \in Dirs => c.others[t].pid \notin living
        /\ c.read[t].arts \subseteq DOMAIN where
        /\ c.read[t].arts \cap present \subseteq c.others[t].arts
        /\ c.others[t].arts \subseteq c.read[t].arts
    BY <1>1, <2>1 DEF Cleaned
  <2>3. Of(d.others[t], t)' /\ Of(d.others[t], t)
    BY <2>1, <2>2, OfLess, OfStays
  <2>4. ASSUME d.others[t].scratch \in Dirs PROVE d.others[t].pid \notin living'
    <3>1. c.others[t].scratch = d.others[t].scratch /\ d.others[t].pid = c.others[t].pid
      BY <2>1, <2>4, NoneIsNoDir DEF Less
    <3>2. d.others[t].pid \in started
      BY <2>3, <2>4 DEF Of, DirsOutside
    <3> QED BY <2>2, <2>4, <3>1, <3>2 DEF Grows
  <2>5. /\ d.read[t].arts \cap present' \subseteq d.others[t].arts
        /\ d.others[t].arts \subseteq d.read[t].arts
    BY <1>1, <2>1, <2>2 DEF Grows, Less
  <2> QED BY <1>1, <2>1, <2>2, <2>3, <2>4, <2>5 DEF Grows
<1> QED BY <1>2, <1>3, <1>4 DEF Cleaned

LEMMA CleanedStays ==
  ASSUME Grows, DirsOutside, NEW p, cleaning'[p] = cleaning[p],
         mem'[p].session = mem[p].session, Cleaned(p)
  PROVE  Cleaned(p)'
BY CleanStaysGoes, CleanedGoes DEF Cleaned

\* What a step of another process leaves alone.
Same(q) ==
  /\ Stays(q) /\ job'[q] = job[q] /\ writing'[q] = writing[q] /\ cleaning'[q] = cleaning[q]

LEMMA OwnStays == ASSUME Grows, DirsOutside, NEW q, Same(q), Own(q) PROVE Own(q)'
BY OpenedStays, BegunStays, WriteUnderWayStays, CleanedStays DEF Own, Same, Stays

LEMMA OnceStays ==
  ASSUME Once, \A q \in Shells : Opens(q)' = Opens(q) \/ Opens(q)'.session = "none"
  PROVE  Once'
BY DEF Once

LEMMA OldKnownStays ==
  ASSUME OldKnown, CleansKnown,
         \A q \in Shells : Opens(q)' = Opens(q) \/ Opens(q)'.session = "none",
         \A q \in Shells : CleanGoes(q)
  PROVE  OldKnown'
<1> SUFFICES ASSUME NEW p \in Shells, NEW q \in Shells, p # q, cleaning'[p] # Idle,
                    Opens(q)'.session = cleaning'[p].session
             PROVE  Opens(q)'.scratch \notin cleaning'[p].old.dirs
  BY DEF OldKnown
<1>1. /\ cleaning[p] # Idle /\ cleaning'[p].session = cleaning[p].session
      /\ cleaning'[p].old = cleaning[p].old
  BY DEF CleanGoes
<1>2. cleaning'[p].session # "none"
  BY <1>1, NamesAssumption DEF CleansKnown, Clean
<1> QED BY <1>1, <1>2 DEF OldKnown

\* What a ledger lists from now on it listed before, or a live process made it in
\* its own place.
Gains ==
  /\ clobbered \subseteq clobbered'
  /\ \A t \in SessionIds \ clobbered' :
       \A a \in ledgers'[t].arts : a \in ledgers[t].arts \/ \E p \in living : Fresh(p, {a})

LEMMA InheritedStays ==
  ASSUME Grows, Basics, DirsOutside, CleansKnown, AllOf(ledgers), Inherited, Gains,
         \A q \in Shells : CleanGoes(q) /\ Cleaned(q)
  PROVE  Inherited'
<1> SUFFICES ASSUME NEW p \in Shells, cleaning'[p] # Idle,
                    NEW t \in DOMAIN cleaning'[p].others \ clobbered',
                    NEW a \in ledgers'[t].arts \cap present',
                    where'[a] \in Dirs, where'[a] = cleaning'[p].others[t].scratch
             PROVE  a \in cleaning'[p].others[t].arts
  BY DEF Inherited
<1> DEFINE c == cleaning[p]
<1>1. /\ c # Idle /\ t \in DOMAIN c.others /\ Less(cleaning'[p].others[t], c.others[t])
      /\ c.others[t].arts \cap present' \subseteq cleaning'[p].others[t].arts
  BY DEF CleanGoes
<1>2. cleaning'[p].others[t].scratch = c.others[t].scratch
  BY <1>1, NoneIsNoDir DEF Less
<1>3. t \in SessionIds /\ t \notin clobbered
  BY <1>1 DEF CleansKnown, Clean, Others, Gains
<1>4. CASE a \in ledgers[t].arts
  <2>1. a \in DOMAIN where /\ where'[a] = where[a] /\ a \in present
    BY <1>3, <1>4 DEF AllOf, Of, Grows
  <2> QED BY <1>1, <1>2, <1>3, <1>4, <2>1 DEF Inherited
<1>5. ASSUME NEW q \in living, Fresh(q, {a}) PROVE FALSE
  <2>1. where[a] \in Dirs /\ made[where[a]].by = q /\ where[a] = c.others[t].scratch
    BY <1>2, <1>5, NoneIsNoDir DEF Fresh, Grows
  <2>2. Of(c.others[t], t) /\ c.others[t].pid \notin living
    BY <1>1, <2>1 DEF Cleaned
  <2> QED BY <2>1, <2>2 DEF Of
<1> QED BY <1>3, <1>4, <1>5 DEF Gains

LEMMA ContentOf == ASSUME NEW l, NEW t, Of(l, t) PROVE Of(Content(l), t) /\ Content(l).arts = l.arts
BY OfNoLedger DEF Content, NoLedger

LEMMA WriteOf ==
  ASSUME Grows, LedgersKnown, AllOf(ledgers), NEW s \in SessionIds, NEW l, NEW base,
         Write(s, l, base), Of(l, s)
  PROVE  AllOf(ledgers)'
<1>1. ledgers' = [ledgers EXCEPT ![s] = Content(l)]
  BY DEF Write
<1>2. ASSUME NEW t \in SessionIds PROVE Of(ledgers'[t], t)
  BY <1>1, ContentOf DEF LedgersKnown, AllOf
<1>3. ASSUME NEW t \in SessionIds PROVE Of(ledgers[t], t)'
  <2>1. PICK k : k = ledgers'[t]
    OBVIOUS
  <2> QED BY <1>2, <2>1, OfStays
<1> QED BY <1>3 DEF AllOf

\* A ledger that is written over the one that its writer knew.
LEMMA WriteGains ==
  ASSUME LedgersKnown, NEW s \in SessionIds, NEW l, NEW base, Write(s, l, base), Of(l, s)
  PROVE  /\ clobbered \subseteq clobbered'
         /\ \A t \in SessionIds \ clobbered' :
              /\ \A a \in ledgers'[t].arts :
                   a \in ledgers[t].arts \/ (t = s /\ ledgers[s] = base /\ a \in l.arts \ base.arts)
              /\ \A a \in ledgers[t].arts :
                   a \in ledgers'[t].arts \/ (t = s /\ ledgers[s] = base /\ a \in base.arts \ l.arts)
<1>1. /\ ledgers' = [ledgers EXCEPT ![s] = Content(l)]
      /\ clobbered' = clobbered \cup IF ledgers[s] \in {base, Content(l)} THEN {} ELSE {s}
  BY DEF Write
<1>2. Content(l).arts = l.arts
  BY ContentOf
<1>3. ledgers'[s] = Content(l) /\ \A t \in SessionIds \ {s} : ledgers'[t] = ledgers[t]
  BY <1>1 DEF LedgersKnown
<1>4. s \notin clobbered' => ledgers[s] = base \/ ledgers[s] = Content(l)
  BY <1>1
<1> QED BY <1>1, <1>2, <1>3, <1>4

LEMMA FreshGains ==
  ASSUME LedgersKnown, NEW s \in SessionIds, NEW l, NEW base, Write(s, l, base), Of(l, s),
         ledgers[s] = base => \E p \in living : Fresh(p, l.arts \ base.arts)
  PROVE  Gains
<1>1. ASSUME NEW t \in SessionIds \ clobbered', NEW a \in ledgers'[t].arts, a \notin ledgers[t].arts
      PROVE  \E p \in living : Fresh(p, {a})
  <2>1. ledgers[s] = base /\ a \in l.arts \ base.arts
    BY <1>1, WriteGains
  <2>2. PICK p \in living : Fresh(p, l.arts \ base.arts)
    BY <2>1
  <2>3. Fresh(p, {a})
    BY <2>1, <2>2 DEF Fresh
  <2> QED BY <2>3
<1> QED BY <1>1, WriteGains DEF Gains

LEMMA StaysGains == ASSUME UNCHANGED <<ledgers, clobbered>> PROVE Gains
BY DEF Gains

LEMMA DirsOutsideStays ==
  ASSUME Grows, DirsOutside, Unmade' = Unmade PROVE DirsOutside'
<1> SUFFICES ASSUME NEW d \in Dirs \ Unmade PROVE made'[d].by \in started' /\ Outside(made[d].by, under[d])'
  BY DEF DirsOutside
<1>1. PICK q, r : q = made[d].by /\ r = under[d]
  OBVIOUS
<1>2. made'[d].by = q /\ under'[d] = r /\ q \in started' /\ Outside(q, r)
  BY <1>1 DEF DirsOutside, Grows
<1> QED BY <1>2, OutsideStays

\* The step of p that makes no directory.
LEMMA OwnersStep ==
  ASSUME Records, Owners, Grows, Unmade' = Unmade, Basics', NEW p \in Shells,
         \A q \in Shells \ {p} : Same(q) /\ Opens(q)' = Opens(q),
         Opens(p)' = Opens(p) \/ Opens(p)'.session = "none",
         CleanGoes(p), Own(p)', AllOf(ledgers)', Gains
  PROVE  Owners'
<1>1. DirsOutside'
  BY DirsOutsideStays DEF Owners
<1>2. \A q \in Shells : Own(q)'
  BY OwnStays DEF Owners
<1>3. Once'
  BY OnceStays DEF Owners
<1>4. \A q \in Shells : CleanGoes(q) /\ Cleaned(q)
  BY CleanStaysGoes DEF Same, Owners, Own
<1>5. OldKnown'
  BY <1>4, OldKnownStays DEF Owners, Records
<1>6. Inherited'
  BY <1>4, InheritedStays DEF Owners, Records
<1> QED BY <1>1, <1>2, <1>3, <1>5, <1>6 DEF Owners

----------------------------------------------------------------------------
(* Each step keeps the owners.                                             *)

LEMMA QuietGrows ==
  ASSUME UNCHANGED <<under, where, started>>, dirs' \subseteq dirs, present' \subseteq present,
         living' \subseteq living,
         \A d \in Dirs \ Unmade : made'[d].by = made[d].by /\ made'[d].session = made[d].session
  PROVE  Grows /\ Unmade' = Unmade
<1>1. Unmade' = Unmade
  BY DEF Unmade
<1> QED BY <1>1 DEF Grows

LEMMA QuietOwners ==
  ASSUME Records, Owners, present' \subseteq present,
         UNCHANGED <<started, living, ledgers, under, dirs, made, where, mem, tmp, job, cleaning,
                     writing, clobbered>>
  PROVE  Owners'
<1>1. Grows /\ Unmade' = Unmade
  BY QuietGrows
<1>2. \A q \in Shells : Same(q) /\ Opens(q)' = Opens(q) /\ CleanGoes(q)
  BY CleanStaysGoes DEF Same, Stays, Opens
<1>3. Basics' /\ DirsOutside' /\ AllOf(ledgers)' /\ \A q \in Shells : Own(q)'
  <2>1. \A t \in SessionIds : Of(ledgers[t], t)'
    BY <1>1, AllOfStays DEF Owners
  <2>2. AllOf(ledgers)'
    BY <2>1 DEF AllOf
  <2> QED BY <1>1, <1>2, <2>2, DirsOutsideStays, OwnStays DEF Owners, Basics
<1>4. Once' /\ OldKnown' /\ Inherited'
  <2>1. \A q \in Shells : Cleaned(q)
    BY DEF Owners, Own
  <2> QED BY <1>1, <1>2, <2>1, OnceStays, OldKnownStays, StaysGains, InheritedStays DEF Owners, Records
<1> QED BY <1>3, <1>4 DEF Owners

LEMMA LedgersOfStay == ASSUME Grows, AllOf(ledgers), ledgers' = ledgers PROVE AllOf(ledgers)'
<1>1. \A t \in SessionIds : Of(ledgers[t], t)'
  BY AllOfStays
<1> QED BY <1>1 DEF AllOf

LEMMA EndListOwners == ASSUME Records, Owners, NEW p \in Shells, EndList(p) PROVE Owners'
<1>1. /\ job[p] = Idle /\ job' = [job EXCEPT ![p] = [at |-> "ending", list |-> ledgers]]
      /\ UNCHANGED <<started, living, ledgers, under, dirs, made, where, present, mem, tmp, cleaning,
                     writing, clobbered>>
  BY DEF EndList, Free
<1>2. Grows /\ Unmade' = Unmade /\ Basics' /\ Gains
  BY <1>1, QuietGrows, StaysGains DEF Owners, Basics
<1>3. \A q \in Shells \ {p} : Same(q) /\ Opens(q)' = Opens(q)
  BY <1>1 DEF Same, Stays, Opens, Records, JobsKnown
<1>4. AllOf(ledgers)'
  BY <1>1, <1>2, LedgersOfStay DEF Owners
<1>5. job'[p] = [at |-> "ending", list |-> ledgers] /\ Opens(p)' = Opens(p) /\ CleanGoes(p)
  BY <1>1, CleanStaysGoes DEF Opens, Records, JobsKnown, Idle
<1>6. Own(p)'
  <2>1. Opened(p)' /\ WriteUnderWay(p)' /\ Cleaned(p)'
    BY <1>1, <1>2, <1>5, OpenedStays, WriteUnderWayStays, CleanedStays DEF Stays, Owners, Own, Idle
  <2>2. Begun(p)'
    BY <1>1, <1>4, <1>5 DEF Begun
  <2> QED BY <2>1, <2>2 DEF Own
<1> QED BY <1>2, <1>3, <1>4, <1>5, <1>6, OwnersStep

LEMMA ExitOwners == ASSUME Records, Owners, NEW p \in Shells, Exit(p) PROVE Owners'
<1>1. /\ UNCHANGED <<started, ledgers, under, dirs, made, where, present, tmp, clobbered>>
      /\ living' = living \ {p}
      /\ mem' = [mem EXCEPT ![p] = NoSession]
      /\ job' = [job EXCEPT ![p] = Idle]
      /\ cleaning' = [cleaning EXCEPT ![p] = Idle]
      /\ writing' = [writing EXCEPT ![p] = Idle]
  BY DEF Exit
<1>2. Grows /\ Unmade' = Unmade /\ Basics' /\ Gains
  BY <1>1, QuietGrows, StaysGains DEF Owners, Basics
<1>3. \A q \in Shells \ {p} : Same(q) /\ Opens(q)' = Opens(q)
  BY <1>1 DEF Same, Stays, Opens, Records, JobsKnown, MemKnown, CleansKnown, WritesKnown
<1>4. AllOf(ledgers)'
  BY <1>1, <1>2, LedgersOfStay DEF Owners
<1>5. /\ mem'[p] = NoSession /\ job'[p] = Idle /\ cleaning'[p] = Idle /\ writing'[p] = Idle
      /\ p \notin living'
  BY <1>1 DEF Records, JobsKnown, MemKnown, CleansKnown, WritesKnown
<1>6. Own(p)' /\ CleanGoes(p) /\ Opens(p)'.session = "none"
  BY <1>5, IdleBegun DEF Own, Opened, WriteUnderWay, Cleaned, CleanGoes, Opens, NoSession, Idle
<1> QED BY <1>2, <1>3, <1>4, <1>6, OwnersStep

\* Where a process finds itself that is started from the shell of q.
LEMMA TmpOutside ==
  ASSUME DirsOutside, NEW p, p \notin started, NEW q, NEW l, NEW s, Of(l, s), l.pid = q, Home(q, l)
  PROVE  Outside(p, tmp[q])
<1>1. CASE tmp[q] = l.scratch /\ l.scratch \in Dirs
  <2>1. /\ l.scratch \in Dirs \ Unmade /\ made[l.scratch].by # p
        /\ Outside(q, under[l.scratch])
    BY <1>1 DEF Of, DirsOutside
  <2> QED BY <1>1, <2>1, OutsideStranger, OutsideAround
<1>2. CASE Outside(q, tmp[q])
  BY <1>2, OutsideStranger
<1> QED BY <1>1, <1>2 DEF Home

LEMMA LaunchOwners == ASSUME Records, Owners, NEW p \in Shells, Launch(p) PROVE Owners'
<1>1. PICK r \in {"root"} \cup {tmp[q] : q \in living} : tmp' = [tmp EXCEPT ![p] = r]
  BY DEF Launch
<1>2. /\ UNCHANGED <<ledgers, under, dirs, made, where, present, mem, job, cleaning, writing, clobbered>>
      /\ p \notin started /\ started' = started \cup {p} /\ living' = living \cup {p}
  BY DEF Launch
<1>3. Unmade' = Unmade /\ Grows /\ Gains
  BY <1>2, StaysGains DEF Unmade, Grows
<1>4. Basics' /\ tmp'[p] = r
  BY <1>1, <1>2 DEF Owners, Basics
<1>5. \A q \in Shells \ {p} : Same(q) /\ Opens(q)' = Opens(q)
  BY <1>1, <1>2 DEF Same, Stays, Opens, Owners, Basics
<1>6. AllOf(ledgers)'
  BY <1>2, <1>3, LedgersOfStay DEF Owners
<1>7. mem[p] = NoSession /\ job[p].at # "resuming"
  BY <1>2 DEF Owners, Basics, Own, Opened, Begun
<1>8. Outside(p, r)
  <2>1. CASE r = "root"
    BY <2>1, RootOutside
  <2>2. ASSUME NEW q \in living, r = tmp[q] PROVE Outside(p, r)
    <3>1. q \in Shells /\ q # p
      BY <1>2 DEF Owners, Basics
    <3>2. ASSUME NEW l, NEW s, Of(l, s), l.pid = q, Home(q, l) PROVE Outside(p, r)
      BY <1>2, <2>2, <3>1, <3>2, TmpOutside DEF Owners
    <3>3. CASE mem[q] = NoSession /\ job[q].at # "resuming"
      <4>1. Outside(q, r)
        BY <2>2, <3>1, <3>3 DEF Owners, Own, Opened
      <4> QED BY <1>2, <4>1, OutsideStranger DEF Owners
    <3>4. CASE mem[q] # NoSession
      BY <3>1, <3>2, <3>4 DEF Owners, Own, Opened
    <3>5. CASE job[q].at = "resuming"
      BY <3>1, <3>2, <3>5 DEF Owners, Own, Begun
    <3> QED BY <3>3, <3>4, <3>5
  <2> QED BY <1>1, <2>1, <2>2
<1>9. Own(p)'
  <2>1. Opened(p)'
    <3>1. Outside(p, r)'
      BY <1>3, <1>8, OutsideStays
    <3> QED BY <1>2, <1>4, <1>7, <3>1 DEF Opened
  <2>2. Begun(p)'
    <3>1. job[p] # Idle => \A t \in SessionIds : Of(job[p].list[t], t)'
      BY <1>2, <1>3, AllOfStays DEF Begun, Owners, Own
    <3>2. job[p] # Idle => AllOf(job[p].list)'
      BY <3>1 DEF AllOf
    <3> QED BY <1>2, <1>7, <3>2 DEF Begun, Owners, Own
  <2>3. WriteUnderWay(p)' /\ Cleaned(p)'
    BY <1>2, <1>3, WriteUnderWayStays, CleanedStays DEF Owners, Own
  <2> QED BY <2>1, <2>2, <2>3 DEF Own
<1>10. CleanGoes(p) /\ Opens(p)' = Opens(p)
  BY <1>2, CleanStaysGoes DEF Opens
<1> QED BY <1>3, <1>4, <1>5, <1>6, <1>9, <1>10, OwnersStep

\* The session of a clean and of a write under way goes away.
LEMMA DetachOwners ==
  ASSUME Records, Owners, Grows, NEW p \in Shells, NEW l, Detach(p, l),
         cleaning[p] # Idle /\ cleaning[p].own => Of(l, cleaning[p].session) /\ l.pid = p
  PROVE  /\ WriteUnderWay(p)' /\ Cleaned(p)' /\ CleanGoes(p)
         /\ \A q \in Shells \ {p} : writing'[q] = writing[q] /\ cleaning'[q] = cleaning[q]
<1>1. \A q \in Shells \ {p} : writing'[q] = writing[q] /\ cleaning'[q] = cleaning[q]
  BY DEF Detach, Records, WritesKnown, CleansKnown
<1>2. WriteUnderWay(p)'
  <2>1. CASE writing[p] = Idle
    BY <2>1 DEF Detach, WriteUnderWay
  <2>2. CASE writing[p] # Idle
    <3> DEFINE w == writing[p]
               v == [w EXCEPT !.own = FALSE, !.base = Unread]
    <3>1. writing'[p] = v
      BY <2>2 DEF Detach, Records, WritesKnown
    <3>2. w = [at |-> w.at, session |-> w.session, ledger |-> w.ledger, base |-> w.base,
               own |-> w.own]
      BY <2>2 DEF Records, WritesKnown, Writing
    <3>3. v.session = w.session /\ v.ledger = w.ledger /\ ~v.own
      BY <3>2
    <3>4. Of(w.ledger, w.session)
      BY <2>2 DEF Owners, Own, WriteUnderWay
    <3> HIDE DEF v, w
    <3>5. PICK k, s : k = w.ledger /\ s = w.session
      OBVIOUS
    <3>6. Of(k, s)'
      BY <3>4, <3>5, OfStays
    <3> QED BY <3>1, <3>3, <3>5, <3>6 DEF WriteUnderWay
  <2> QED BY <2>1, <2>2
<1>3. Cleaned(p)' /\ CleanGoes(p)
  <2>1. CASE cleaning[p] # Idle /\ cleaning[p].own
    <3> DEFINE c == cleaning[p]
               d == [c EXCEPT !.own = FALSE, !.mine = l]
    <3>1. cleaning'[p] = d
      BY <2>1 DEF Detach, Records, CleansKnown
    <3>2. c = [at |-> c.at, session |-> c.session, own |-> c.own, mine |-> c.mine, read |-> c.read,
               others |-> c.others, old |-> c.old, list |-> c.list, todo |-> c.todo]
      BY <2>1 DEF Records, CleansKnown, Clean
    <3>3. /\ d.session = c.session /\ d.old = c.old /\ d.read = c.read /\ d.others = c.others
          /\ d.list = c.list /\ d.mine = l /\ d.own = FALSE
      BY <3>2
    <3>4. AllOf(c.list) /\ Cleaned(p)
      BY <2>1 DEF Owners, Own, Cleaned
    <3> HIDE DEF d
    <3>5. CleanGoes(p)
      BY <2>1, <3>1, <3>3 DEF CleanGoes, Less
    <3> QED BY <2>1, <3>1, <3>3, <3>4, <3>5, CleanedGoes DEF Owners
  <2>2. CASE ~(cleaning[p] # Idle /\ cleaning[p].own)
    <3>1. cleaning'[p] = cleaning[p] /\ Cleaned(p)
      BY <2>2 DEF Detach, Owners, Own
    <3>2. CleanGoes(p)
      BY <3>1, CleanStaysGoes
    <3> QED BY <2>2, <3>1, <3>2, CleanedGoes DEF Owners, Cleaned
  <2> QED BY <2>1, <2>2
<1> QED BY <1>1, <1>2, <1>3

LEMMA ClosedOutside ==
  ASSUME NEW p, p \in living, mem[p] = NoSession, job[p] = Idle, Opened(p)
  PROVE  Outside(p, tmp[p])
<1>1. job[p].at # "resuming"
  BY DEF Idle
<1> QED BY <1>1 DEF Opened

\* Only the live scratch of a session that is reloaded is recovered.
LEMMA Recovered ==
  ASSUME Records, Owners, NEW p \in Shells, p \in living, job[p] = Idle, NEW s \in SessionIds,
         Recoverable(p, ledgers[s])
  PROVE  /\ mem[p] # NoSession /\ Of(ledgers[s], s) /\ ledgers[s].pid = p
         /\ ledgers[s].scratch = mem[p].ledger.scratch /\ tmp[p] = ledgers[s].scratch
         /\ ledgers[s].scratch \in Dirs
<1> DEFINE d == ledgers[s].scratch
           m == mem[p].ledger.scratch
<1>1. ledgers[s].pid = p /\ d \in dirs /\ Within(tmp[p], d) /\ Of(ledgers[s], s)
  BY DEF Recoverable, Owners, AllOf
<1>2. d \in Dirs /\ made[d].by = p
  BY <1>1 DEF Of, Records, DirsMade
<1>3. ~Outside(p, tmp[p])
  BY <1>1, <1>2, OutsideOwn
<1>4. mem[p] # NoSession
  BY <1>3, ClosedOutside DEF Owners, Own
<1>5. tmp[p] = m /\ m \in Dirs \ Unmade /\ made[m].by = p
  BY <1>3, <1>4 DEF Owners, Own, Opened, Home, Of
<1>6. Outside(p, under[m])
  BY <1>5 DEF Owners, DirsOutside
<1>7. d = m \/ Within(under[m], d)
  BY <1>1, <1>5 DEF Within, Outer
<1>8. d = m
  BY <1>2, <1>6, <1>7, OutsideOwn
<1> QED BY <1>1, <1>2, <1>4, <1>5, <1>8

\* A new scratch is made outside the ones that the process made.
LEMMA RootIsOutside ==
  ASSUME Records, Owners, NEW p \in Shells, p \in living, job[p] = Idle, NEW s \in SessionIds,
         NEW reload \in BOOLEAN, mem[p].session = IF reload THEN s ELSE "none"
  PROVE  Outside(p, InheritedRoot(p, ledgers[s], reload))
<1>1. ~reload => mem[p] = NoSession
  BY NamesAssumption DEF Records, MemKnown, Session
<1>2. reload => mem[p] # NoSession
  BY NamesAssumption DEF NoSession
<1>3. CASE reload /\ ledgers[s].pid = p
  BY <1>3 DEF InheritedRoot, Owners, AllOf, Of
<1>4. CASE reload /\ ledgers[s].pid # p
  <2>1. Home(p, mem[p].ledger) /\ Of(mem[p].ledger, mem[p].session) /\ mem[p].ledger.pid = p
    BY <1>2, <1>4 DEF Owners, Own, Opened
  <2>2. CASE tmp[p] = mem[p].ledger.scratch /\ mem[p].ledger.scratch \in Dirs
    <3>1. Outside(p, under[tmp[p]])
      BY <2>1, <2>2 DEF Of, Owners, DirsOutside
    <3> QED BY <1>4, <2>2, <3>1 DEF InheritedRoot, Outer
  <2>3. CASE Outside(p, tmp[p])
    BY <1>4, <2>3, OutsideIs DEF InheritedRoot
  <2> QED BY <2>1, <2>2, <2>3 DEF Home
<1>5. CASE ~reload
  BY <1>1, <1>5, ClosedOutside DEF InheritedRoot, Owners, Own
<1> QED BY <1>3, <1>4, <1>5

LEMMA BeginRecovers ==
  ASSUME Records, Owners, NEW p \in Shells, NEW s \in SessionIds, NEW reload \in BOOLEAN,
         BeginSession(p, s, reload), Recoverable(p, ledgers[s])
  PROVE  Owners'
<1>1. /\ p \in living /\ job[p] = Idle /\ mem[p].session = IF reload THEN s ELSE "none"
      /\ Detach(p, mem[p].ledger)
      /\ UNCHANGED <<started, living, ledgers, under, dirs, made, where, present, tmp, clobbered>>
      /\ mem' = [mem EXCEPT ![p] = [session |-> s, ledger |-> ledgers[s], base |-> ledgers[s]]]
      /\ job' = [job EXCEPT ![p] = Sweeping(s, ledgers)]
  BY DEF BeginSession, Free
<1>2. /\ mem[p] # NoSession /\ Of(ledgers[s], s) /\ ledgers[s].pid = p
      /\ ledgers[s].scratch = mem[p].ledger.scratch /\ tmp[p] = ledgers[s].scratch
      /\ ledgers[s].scratch \in Dirs
  BY <1>1, Recovered
<1>3. mem[p].session = s
  BY <1>1, <1>2, NamesAssumption DEF Records, MemKnown, Session
<1>4. Grows /\ Unmade' = Unmade /\ Basics' /\ Gains
  BY <1>1, QuietGrows, StaysGains DEF Owners, Basics
<1>5. AllOf(ledgers)'
  BY <1>1, <1>4, LedgersOfStay DEF Owners
<1>6. /\ mem'[p] = [session |-> s, ledger |-> ledgers[s], base |-> ledgers[s]]
      /\ job'[p] = Sweeping(s, ledgers) /\ job'[p].at # "resuming"
  BY <1>1 DEF Records, MemKnown, JobsKnown, Sweeping, Idle
<1>7. /\ WriteUnderWay(p)' /\ Cleaned(p)' /\ CleanGoes(p)
      /\ \A q \in Shells \ {p} : writing'[q] = writing[q] /\ cleaning'[q] = cleaning[q]
  <2>1. Of(mem[p].ledger, mem[p].session) /\ mem[p].ledger.pid = p
    BY <1>2 DEF Owners, Own, Opened
  <2>2. cleaning[p] # Idle /\ cleaning[p].own => cleaning[p].session = mem[p].session
    BY DEF Owners, Own, Cleaned
  <2> QED BY <1>1, <1>4, <2>1, <2>2, DetachOwners
<1>8. \A q \in Shells \ {p} : Same(q) /\ Opens(q)' = Opens(q)
  BY <1>1, <1>7 DEF Same, Stays, Opens, Records, JobsKnown, MemKnown
<1>9. Opens(p)' = Opens(p)
  BY <1>1, <1>2, <1>3, <1>6 DEF Opens, Idle
<1>10. Opened(p)' /\ Begun(p)'
  <2>1. PICK l : l = ledgers[s]
    OBVIOUS
  <2>2. Of(l, s)'
    BY <1>2, <1>4, <2>1, OfStays
  <2>3. Home(p, l)' /\ Fresh(p, {})'
    BY <1>1, <1>2, <2>1 DEF Home, Fresh
  <2>4. mem'[p] # NoSession /\ mem'[p].ledger.arts \ mem'[p].base.arts = {}
    BY <1>6, NamesAssumption DEF NoSession
  <2>5. Opened(p)'
    BY <1>1, <1>2, <1>6, <2>1, <2>2, <2>3, <2>4 DEF Opened
  <2>6. Begun(p)'
    BY <1>1, <1>5, <1>6, SweepingBegun
  <2> QED BY <2>5, <2>6
<1> QED BY <1>4, <1>5, <1>7, <1>8, <1>9, <1>10, OwnersStep DEF Own

\* The new scratch, which no ledger and no clean knows.
LEMMA BeginMakes ==
  ASSUME Records, Owners, NEW p \in Shells, NEW s \in SessionIds, NEW reload \in BOOLEAN,
         BeginSession(p, s, reload), ~Recoverable(p, ledgers[s])
  PROVE  Owners'
<1> DEFINE previous == ledgers[s]
           root == InheritedRoot(p, previous, reload)
           d == IF root \in dirs \cup {"root"} THEN CHOOSE x \in Unmade : TRUE ELSE "none"
           ledger == [pid |-> p, scratch |-> d, arts |-> previous.arts, root |-> root]
           resuming == [at |-> "resuming", session |-> s, previous |-> previous,
                        list |-> ledgers, ledger |-> ledger]
<1>1. /\ p \in living /\ job[p] = Idle /\ mem[p].session = IF reload THEN s ELSE "none"
      /\ Detach(p, mem[p].ledger)
      /\ \A q \in living \ {p} : s \notin {mem[q].session} \cup (IF job[q].at = "resuming"
                                                              THEN {job[q].session} ELSE {})
      /\ UNCHANGED <<started, living, ledgers, where, present, clobbered>>
      /\ Unmade # {}
      /\ mem' = [mem EXCEPT ![p] = NoSession]
      /\ job' = [job EXCEPT ![p] = resuming]
      /\ tmp' = [tmp EXCEPT ![p] = IF d = "none" THEN root ELSE d]
      /\ IF d = "none" THEN UNCHANGED <<under, dirs, made>>
         ELSE /\ under' = [under EXCEPT ![d] = root]
              /\ dirs' = dirs \cup {d}
              /\ made' = [made EXCEPT ![d] = [by |-> p, session |-> s, saved |-> FALSE]]
  BY DEF BeginSession, Free
<1>2. Outside(p, root) /\ Of(previous, s) /\ p \in started
  BY <1>1, RootIsOutside DEF Owners, AllOf, Basics
<1>3. /\ d = "none" => root \notin dirs
      /\ d # "none" => d \in Unmade /\ d \in Dirs /\ root \in dirs \cup {"root"}
      /\ d \notin Dirs \ Unmade
  BY <1>1, NoneIsNoDir DEF Unmade
<1> HIDE DEF d, root, previous
<1>4. /\ \A x \in Dirs \ {d} : under'[x] = under[x] /\ made'[x] = made[x]
      /\ d # "none" => /\ under'[d] = root /\ made'[d].by = p /\ made'[d].session = s
                       /\ Unmade' = Unmade \ {d}
      /\ d = "none" => Unmade' = Unmade /\ dirs' = dirs
      /\ dirs' \subseteq dirs \cup {d}
  <2>1. root # "unmade"
    BY <1>2, OutsideIs, NamesAssumption
  <2> QED BY <1>1, <1>3, <2>1 DEF Records, DirsMade, Unmade
<1>5. Grows
  BY <1>1, <1>3, <1>4, NoneIsNoDir DEF Grows
<1>6. /\ mem'[p] = NoSession /\ job'[p] = resuming /\ tmp'[p] = IF d = "none" THEN root ELSE d
      /\ Basics'
  BY <1>1 DEF Records, MemKnown, JobsKnown, Owners, Basics
<1>7. DirsOutside'
  <2> SUFFICES ASSUME NEW x \in Dirs \ Unmade' PROVE (made[x].by \in started /\ Outside(made[x].by, under[x]))'
    BY DEF DirsOutside
  <2>1. CASE x = d
    <3>1. made'[x].by = p /\ under'[x] = root /\ p \in started'
      BY <1>1, <1>2, <1>4, <2>1, NoneIsNoDir
    <3>2. PICK r : r = root
      OBVIOUS
    <3>3. Outside(p, r)'
      BY <1>2, <1>5, <3>2, OutsideStays
    <3> QED BY <3>1, <3>2, <3>3
  <2>2. CASE x # d
    <3>1. x \in Dirs \ Unmade
      BY <1>4, <2>2
    <3>2. PICK q, r : q = made[x].by /\ r = under[x]
      OBVIOUS
    <3>3. made'[x].by = q /\ under'[x] = r /\ q \in started' /\ Outside(q, r)
      BY <1>1, <1>4, <2>2, <3>1, <3>2 DEF Owners, DirsOutside
    <3> QED BY <1>5, <3>3, OutsideStays
  <2> QED BY <2>1, <2>2
<1>8. AllOf(ledgers)'
  BY <1>1, <1>5, LedgersOfStay DEF Owners
<1>9. /\ WriteUnderWay(p)' /\ Cleaned(p)' /\ CleanGoes(p)
      /\ \A q \in Shells \ {p} : writing'[q] = writing[q] /\ cleaning'[q] = cleaning[q]
  <2>1. ASSUME cleaning[p] # Idle, cleaning[p].own
        PROVE  Of(mem[p].ledger, cleaning[p].session) /\ mem[p].ledger.pid = p
    <3>1. mem[p].session = cleaning[p].session /\ mem[p].session \in SessionIds
      BY <2>1 DEF Owners, Own, Cleaned, Records, CleansKnown, Clean
    <3>2. mem[p] # NoSession
      BY <3>1, NamesAssumption DEF NoSession
    <3> QED BY <3>1, <3>2 DEF Owners, Own, Opened
  <2> QED BY <1>1, <1>5, <2>1, DetachOwners
<1>10. \A q \in Shells \ {p} : Same(q) /\ Opens(q)' = Opens(q)
  BY <1>1, <1>9 DEF Same, Stays, Opens, Records, JobsKnown, MemKnown, Owners, Basics
<1>11. Own(p)'
  <2>1. PICK l, r, k : l = ledger /\ r = root /\ k = previous
    OBVIOUS
  <2>2. /\ l.pid = p /\ l.scratch = d /\ l.arts = k.arts /\ l.root = r
        /\ job'[p].at = "resuming" /\ job'[p].session = s /\ job'[p].previous = k
        /\ job'[p].list = ledgers /\ job'[p].ledger = l
    BY <1>6, <2>1
  <2>3. Outside(p, r)' /\ Of(k, s)'
    BY <1>2, <1>5, <2>1, OutsideStays, OfStays
  <2>4. l.scratch \in Dirs => /\ l.scratch \notin Unmade'
                              /\ made'[l.scratch].by = p /\ made'[l.scratch].session = s
    BY <1>4, <2>2, NoneIsNoDir
  <2>5. Of(l, s)'
    BY <2>2, <2>3, <2>4 DEF Of
  <2>6. Home(p, l)'
    BY <1>3, <1>4, <1>6, <2>1, <2>2, <2>3 DEF Home
  <2>7. Opened(p)'
    BY <1>6, <2>2 DEF Opened
  <2>8. Begun(p)'
    <3>1. AllOf(job[p].list)'
      BY <1>1, <1>8, <2>2
    <3> QED BY <1>1, <1>6, <2>2, <2>3, <2>5, <2>6, <3>1 DEF Begun
  <2> QED BY <1>9, <2>7, <2>8 DEF Own
<1>12. Opens(p)' = [session |-> s, scratch |-> d]
  BY <1>6 DEF Opens
<1>13. Once'
  <2>1. ASSUME NEW q \in Shells \ {p} PROVE Opens(q).session # s
    <3>1. CASE q \in living
      BY <1>1, <3>1 DEF Opens
    <3>2. CASE q \notin living
      <4>1. mem[q] = NoSession /\ job[q].at # "resuming"
        BY <2>1, <3>2 DEF Owners, Own, Opened, Begun
      <4> QED BY <4>1, NamesAssumption DEF Opens, NoSession
    <3> QED BY <3>1, <3>2
  <2> SUFFICES ASSUME NEW x \in Shells, NEW y \in Shells, x # y
               PROVE  Opens(x)'.session # Opens(y)'.session \/ Opens(x)'.session = "none"
    BY DEF Once
  <2>2. CASE x = p
    BY <1>10, <1>12, <2>1, <2>2
  <2>3. CASE y = p
    BY <1>10, <1>12, <2>1, <2>3
  <2>4. CASE x # p /\ y # p
    BY <1>10, <2>4 DEF Owners, Once
  <2> QED BY <2>2, <2>3, <2>4
<1>14. \A q \in Shells : CleanGoes(q) /\ Cleaned(q)
  BY <1>9, <1>10, CleanStaysGoes DEF Owners, Own
<1>15. OldKnown'
  <2> SUFFICES ASSUME NEW x \in Shells, NEW y \in Shells, x # y, cleaning'[x] # Idle,
                      Opens(y)'.session = cleaning'[x].session
               PROVE  Opens(y)'.scratch \notin cleaning'[x].old.dirs
    BY DEF OldKnown
  <2>1. /\ cleaning[x] # Idle /\ cleaning'[x].session = cleaning[x].session
        /\ cleaning'[x].old = cleaning[x].old
    BY <1>14 DEF CleanGoes
  <2>2. CASE y = p
    <3>1. cleaning[x].old.dirs \subseteq Dirs \ Unmade
      BY <1>14, <2>1 DEF Cleaned
    <3> QED BY <1>3, <1>12, <2>1, <2>2, <3>1
  <2>3. CASE y # p
    BY <1>10, <2>1, <2>3 DEF Owners, OldKnown
  <2> QED BY <2>2, <2>3
<1>16. Inherited'
  BY <1>1, <1>5, <1>14, StaysGains, InheritedStays DEF Owners, Records
<1>17. \A q \in Shells : Own(q)'
  BY <1>5, <1>10, <1>11, OwnStays DEF Owners
<1> QED BY <1>6, <1>7, <1>8, <1>13, <1>15, <1>16, <1>17 DEF Owners

LEMMA LedgerLess ==
  ASSUME NEW u, NEW l, Known(l, u)
  PROVE  /\ \A a : LET k == [l EXCEPT !.arts = a] IN
                   k.pid = l.pid /\ k.root = l.root /\ k.scratch = l.scratch /\ k.arts = a
         /\ \A gone : Less(Tried(l, gone), l) /\ Tried(l, gone).arts = l.arts
<1>1. /\ l = [pid |-> l.pid, scratch |-> l.scratch, arts |-> l.arts, root |-> l.root]
  BY DEF Known
<1>2. ASSUME NEW a PROVE LET k == [l EXCEPT !.arts = a] IN
                         k.pid = l.pid /\ k.root = l.root /\ k.scratch = l.scratch /\ k.arts = a
  BY <1>1
<1>3. ASSUME NEW gone PROVE Less(Tried(l, gone), l) /\ Tried(l, gone).arts = l.arts
  BY <1>1 DEF Tried, Less
<1> QED BY <1>2, <1>3

LEMMA DeleteShrinks ==
  ASSUME NEW gone, Delete(gone) PROVE dirs' \subseteq dirs /\ present' \subseteq present
BY DEF Delete

LEMMA RecordOwners == ASSUME Records, Owners, NEW p \in Shells, Record(p) PROVE Owners'
<1>0. PICK s, l, old : s = job[p].session /\ l = job[p].ledger /\ old = job[p].previous
  OBVIOUS
<1>1. /\ p \in living /\ job[p].at = "resuming" /\ Write(s, l, old)
      /\ mem' = [mem EXCEPT ![p] = [session |-> s, ledger |-> l, base |-> Content(l)]]
      /\ job' = [job EXCEPT ![p] = Sweeping(s, ledgers')]
      /\ made' = IF l.scratch = "none" THEN made ELSE [made EXCEPT ![l.scratch].saved = TRUE]
      /\ UNCHANGED <<started, living, under, where, tmp, cleaning, writing>>
      /\ dirs' \subseteq dirs /\ present' \subseteq present
  BY <1>0, DeleteShrinks DEF Record
<1>2. s \in SessionIds
  BY <1>0, <1>1 DEF Records, JobsKnown, Job, Resuming, SweepKnown, Idle
<1>3. /\ mem[p] = NoSession /\ Of(l, s) /\ l.pid = p /\ l.arts = old.arts /\ Home(p, l)
  BY <1>0, <1>1 DEF Owners, Own, Begun
<1>4. Grows /\ Unmade' = Unmade /\ Basics'
  <2>1. \A d \in Dirs : made'[d].by = made[d].by /\ made'[d].session = made[d].session
    BY <1>1 DEF Records, DirsMade
  <2> QED BY <1>1, <2>1, QuietGrows DEF Owners, Basics
<1>5. AllOf(ledgers)'
  BY <1>1, <1>2, <1>3, <1>4, WriteOf DEF Owners, Records
<1>6. Gains
  BY <1>1, <1>2, <1>3, FreshGains DEF Records, Fresh
<1>7. /\ mem'[p] = [session |-> s, ledger |-> l, base |-> Content(l)]
      /\ job'[p] = Sweeping(s, ledgers') /\ job'[p].at # "resuming"
      /\ \A q \in Shells \ {p} : Same(q) /\ Opens(q)' = Opens(q)
  BY <1>1 DEF Same, Stays, Opens, Records, MemKnown, JobsKnown, Sweeping, Idle
<1>8. Opens(p)' = Opens(p) /\ CleanGoes(p)
  BY <1>0, <1>1, <1>7, CleanStaysGoes DEF Opens
<1>9. Own(p)'
  <2>1. Opened(p)'
    <3>1. Of(l, s)' /\ Home(p, l)' /\ Fresh(p, {})'
      BY <1>1, <1>3, <1>4, OfStays, HomeStays DEF Fresh
    <3>2. mem'[p] # NoSession /\ l.arts \ Content(l).arts = {}
      BY <1>2, <1>3, <1>7, NamesAssumption, ContentOf DEF NoSession
    <3> QED BY <1>1, <1>3, <1>7, <3>1, <3>2 DEF Opened
  <2>2. Begun(p)'
    BY <1>5, <1>7, SweepingBegun
  <2>3. WriteUnderWay(p)'
    <3>1. writing[p] # Idle => ~writing[p].own
      BY <1>1 DEF Records, WritesKnown, Writing
    <3>2. writing[p] # Idle => Of(writing[p].ledger, writing[p].session)'
      BY <1>1, <1>4, OfStays DEF Owners, Own, WriteUnderWay
    <3> QED BY <1>1, <3>1, <3>2 DEF WriteUnderWay
  <2>4. Cleaned(p)'
    <3>1. cleaning[p] # Idle => ~cleaning[p].own
      <4>1. mem[p].session \notin SessionIds
        BY <1>3, NamesAssumption DEF NoSession
      <4> QED BY <4>1 DEF Owners, Own, Cleaned, Records, CleansKnown, Clean
    <3> QED BY <1>1, <1>4, <1>8, <3>1, CleanedGoes DEF Owners, Own, Cleaned
  <2> QED BY <2>1, <2>2, <2>3, <2>4 DEF Own
<1> QED BY <1>4, <1>5, <1>6, <1>7, <1>8, <1>9, OwnersStep

LEMMA SweepOwners == ASSUME Records, Owners, NEW p \in Shells, Sweep(p) PROVE Owners'
<1>1. /\ p \in living /\ job[p].at = "sweeping"
      /\ UNCHANGED <<started, living, under, made, where, mem, tmp, cleaning, writing>>
  BY DEF Sweep
<1>2. PICK s \in job[p].todo :
        LET rest == job[p].todo \ {s}
            old == job[p].list[s]
            ledger == [old EXCEPT !.arts = @ \cap present] IN
        /\ job' = [job EXCEPT ![p] = IF rest = {} THEN Idle ELSE [@ EXCEPT !.todo = rest]]
        /\ \/ UNCHANGED <<dirs, present, ledgers, clobbered>>
           \/ \E gone : Delete(gone) /\ Write(s, Tried(ledger, gone), old)
  BY DEF Sweep
<1>3. /\ job[p] = [at |-> job[p].at, list |-> job[p].list, todo |-> job[p].todo]
      /\ job[p].todo \subseteq SessionIds
      /\ \A t \in SessionIds : Known(job[p].list[t], Unmade)
  BY <1>1 DEF Records, JobsKnown, Job, Resuming, SweepKnown, Idle
<1>4. AllOf(job[p].list) /\ mem[p].session \notin job[p].todo /\ job[p] # Idle
  BY <1>1 DEF Owners, Own, Begun, Idle
<1> DEFINE old == job[p].list[s]
           ledger == [old EXCEPT !.arts = @ \cap present]
<1>5. /\ dirs' \subseteq dirs /\ present' \subseteq present
      /\ \/ UNCHANGED <<ledgers, clobbered>>
         \/ \E l : Write(s, l, old) /\ Of(l, s) /\ l.arts \subseteq old.arts
  <2>1. CASE UNCHANGED <<dirs, present, ledgers, clobbered>>
    BY <2>1
  <2>2. ASSUME NEW gone, Delete(gone), Write(s, Tried(ledger, gone), old)
        PROVE  /\ dirs' \subseteq dirs /\ present' \subseteq present
               /\ \E l : Write(s, l, old) /\ Of(l, s) /\ l.arts \subseteq old.arts
    <3>0. Known(old, Unmade) /\ old = job[p].list[s]
      BY <1>2, <1>3
    <3> HIDE DEF old
    <3>1. Known(ledger, {}) /\ Less(ledger, old)
      BY <3>0 DEF Known, Less
    <3>2. Less(Tried(ledger, gone), ledger) /\ Tried(ledger, gone).arts = ledger.arts
      BY <3>1, LedgerLess
    <3>3. Of(Tried(ledger, gone), s)
      BY <1>2, <1>3, <1>4, <3>0, <3>1, <3>2, OfLess DEF AllOf
    <3>4. Tried(ledger, gone).arts \subseteq old.arts
      BY <3>1, <3>2 DEF Less
    <3> QED BY <2>2, <3>3, <3>4, DeleteShrinks
  <2> QED BY <1>2, <2>1, <2>2
<1> HIDE DEF old, ledger
<1>6. Grows /\ Unmade' = Unmade /\ Basics'
  BY <1>1, <1>5, QuietGrows DEF Owners, Basics
<1>7. AllOf(ledgers)' /\ Gains
  <2>1. CASE UNCHANGED <<ledgers, clobbered>>
    BY <1>6, <2>1, LedgersOfStay, StaysGains DEF Owners
  <2>2. ASSUME NEW l, Write(s, l, old), Of(l, s), l.arts \subseteq old.arts
        PROVE  AllOf(ledgers)' /\ Gains
    <3>1. Fresh(p, l.arts \ old.arts) /\ s \in SessionIds
      BY <1>2, <1>3, <2>2 DEF Fresh
    <3> QED BY <1>1, <1>6, <2>2, <3>1, WriteOf, FreshGains DEF Owners, Records
  <2> QED BY <1>5, <2>1, <2>2
<1>8. /\ \/ job'[p] = Idle
         \/ job'[p].at = "sweeping" /\ job'[p].list = job[p].list /\ job'[p].todo \subseteq job[p].todo
      /\ \A q \in Shells \ {p} : Same(q) /\ Opens(q)' = Opens(q)
  <2>1. PICK j : j = IF job[p].todo \ {s} = {} THEN Idle ELSE [job[p] EXCEPT !.todo = job[p].todo \ {s}]
    OBVIOUS
  <2>2. job' = [job EXCEPT ![p] = j]
    BY <1>2, <2>1
  <2>3. j = Idle \/ (j.at = "sweeping" /\ j.list = job[p].list /\ j.todo \subseteq job[p].todo)
    BY <1>1, <1>3, <2>1
  <2> QED BY <1>1, <2>2, <2>3 DEF Same, Stays, Opens, Records, JobsKnown
<1>9. job'[p].at # "resuming" /\ Opens(p)' = Opens(p) /\ CleanGoes(p)
  BY <1>1, <1>8, CleanStaysGoes DEF Opens, Idle
<1>10. Own(p)'
  <2>1. Opened(p)' /\ WriteUnderWay(p)' /\ Cleaned(p)'
    BY <1>1, <1>6, <1>9, OpenedStays, WriteUnderWayStays, CleanedStays DEF Stays, Owners, Own
  <2>2. Begun(p)'
    <3>1. CASE job'[p] = Idle
      BY <3>1, IdleBegun
    <3>2. CASE job'[p] # Idle
      <4>1. PICK list : list = job[p].list
        OBVIOUS
      <4>2. AllOf(list)'
        <5>1. \A t \in SessionIds : Of(list[t], t)'
          BY <1>4, <1>6, <4>1, AllOfStays
        <5> QED BY <5>1 DEF AllOf
      <4> QED BY <1>1, <1>4, <1>8, <1>9, <3>2, <4>1, <4>2 DEF Begun
    <3> QED BY <3>1, <3>2
  <2> QED BY <2>1, <2>2 DEF Own
<1> QED BY <1>6, <1>7, <1>8, <1>9, <1>10, OwnersStep

LEMMA EndOwners == ASSUME IInv, Owners, NEW p \in Shells, End(p) PROVE Owners'
<1>0. PICK s, l, base : s = mem[p].session /\ l = mem[p].ledger /\ base = mem[p].base
  OBVIOUS
<1>1. PICK gone : /\ Delete(gone) /\ Write(s, Tried(l, gone), base)
                  /\ Detach(p, Tried(l, gone)) /\ tmp' = [tmp EXCEPT ![p] = l.root]
  BY <1>0 DEF End
<1>2. /\ p \in living /\ job[p].at = "ending"
      /\ mem' = [mem EXCEPT ![p] = NoSession] /\ job' = [job EXCEPT ![p] = Idle]
      /\ UNCHANGED <<started, living, under, made, where>>
      /\ dirs' \subseteq dirs /\ present' \subseteq present
  BY <1>1, DeleteShrinks DEF End
<1>3. mem[p] # NoSession /\ s \in SessionIds /\ Known(l, Unmade)
  BY <1>0, <1>2 DEF IInv, EndsOpen, Records, MemKnown, Session
<1>4. Of(l, s) /\ l.pid = p /\ Fresh(p, l.arts \ base.arts)
  BY <1>0, <1>3 DEF Owners, Own, Opened
<1>5. PICK k : k = Tried(l, gone)
  OBVIOUS
<1>6. Of(k, s) /\ k.pid = p /\ k.arts = l.arts
  <2>1. Less(k, l) /\ k.arts = l.arts
    BY <1>3, <1>5, LedgerLess
  <2> QED BY <1>4, <2>1, OfLess DEF Less
<1>7. Grows /\ Unmade' = Unmade /\ Basics'
  BY <1>1, <1>2, QuietGrows DEF Owners, Basics
<1>8. AllOf(ledgers)' /\ Gains
  BY <1>1, <1>2, <1>3, <1>4, <1>5, <1>6, <1>7, WriteOf, FreshGains DEF IInv, Records, Owners
<1>9. mem'[p] = NoSession /\ job'[p] = Idle /\ tmp'[p] = l.root
  BY <1>1, <1>2 DEF IInv, Records, MemKnown, JobsKnown, Owners, Basics
<1>10. /\ WriteUnderWay(p)' /\ Cleaned(p)' /\ CleanGoes(p)
       /\ \A q \in Shells \ {p} : writing'[q] = writing[q] /\ cleaning'[q] = cleaning[q]
  <2>1. cleaning[p] # Idle /\ cleaning[p].own => cleaning[p].session = s
    BY <1>0 DEF Owners, Own, Cleaned
  <2> QED BY <1>1, <1>5, <1>6, <1>7, <2>1, DetachOwners DEF IInv
<1>11. \A q \in Shells \ {p} : Same(q) /\ Opens(q)' = Opens(q)
  BY <1>1, <1>2, <1>10 DEF Same, Stays, Opens, IInv, Records, JobsKnown, MemKnown, Owners, Basics
<1>12. Opens(p)'.session = "none"
  BY <1>9 DEF Opens, NoSession, Idle
<1>13. Own(p)'
  <2>1. Opened(p)'
    <3>1. PICK r : r = l.root
      OBVIOUS
    <3>2. Outside(p, r)'
      BY <1>4, <1>7, <3>1, OutsideStays DEF Of
    <3> QED BY <1>9, <3>1, <3>2 DEF Opened
  <2> QED BY <1>9, <1>10, <2>1, IdleBegun DEF Own
<1> QED BY <1>7, <1>8, <1>10, <1>11, <1>12, <1>13, OwnersStep DEF IInv

LEMMA WrittenOwners == ASSUME Records, Owners, NEW p \in Shells, Written(p) PROVE Owners'
<1>0. PICK w : w = writing[p]
  OBVIOUS
<1>1. /\ p \in living /\ job[p] = Idle /\ w # Idle
      /\ Write(w.session, w.ledger, w.base)
      /\ mem' = IF w.own THEN [mem EXCEPT ![p].base = Content(w.ledger)] ELSE mem
      /\ writing' = [writing EXCEPT ![p] = Idle]
      /\ UNCHANGED <<started, living, under, dirs, made, where, present, tmp, job, cleaning>>
  BY <1>0 DEF Written, Free
<1>2. Writing(w, Unmade, job[p], mem[p]) /\ Session(mem[p], Unmade)
  BY <1>0, <1>1 DEF Records, WritesKnown, MemKnown
<1>3. /\ w.session \in SessionIds /\ Of(w.ledger, w.session)
      /\ w.own => /\ w.session = mem[p].session
                  /\ mem[p].ledger.arts \subseteq w.ledger.arts
                  /\ Fresh(p, w.ledger.arts \ w.base.arts)
      /\ ~w.own => w.base = Unread
  BY <1>0, <1>1, <1>2 DEF Writing, Owners, Own, WriteUnderWay
<1>4. Grows /\ Unmade' = Unmade /\ Basics'
  BY <1>1, QuietGrows DEF Owners, Basics
<1>5. AllOf(ledgers)' /\ Gains
  <2>1. ledgers[w.session] = w.base => w.own
    BY <1>3, UnreadIsNone DEF Records, LedgersKnown
  <2> QED BY <1>1, <1>3, <1>4, <2>1, WriteOf, FreshGains DEF Records, Owners
<1>6. /\ \A q \in Shells \ {p} : Same(q) /\ Opens(q)' = Opens(q)
      /\ mem'[p].session = mem[p].session /\ mem'[p].ledger = mem[p].ledger
      /\ writing'[p] = Idle
      /\ mem'[p] = mem[p] \/ (w.own /\ mem'[p].base = Content(w.ledger))
  BY <1>1, <1>2 DEF Same, Stays, Opens, Records, JobsKnown, MemKnown, WritesKnown, Session
<1>7. Opens(p)' = Opens(p) /\ CleanGoes(p)
  BY <1>1, <1>6, CleanStaysGoes DEF Opens
<1>8. Own(p)'
  <2>1. Opened(p)'
    <3>1. CASE mem'[p] = mem[p]
      BY <1>1, <1>4, <3>1, OpenedStays DEF Stays, Owners, Own
    <3>2. CASE w.own /\ mem'[p].base = Content(w.ledger)
      <4>1. mem[p] # NoSession /\ mem'[p] # NoSession
        BY <1>3, <1>6, <3>2, NamesAssumption DEF NoSession
      <4>2. mem'[p].ledger.arts \ mem'[p].base.arts = {}
        BY <1>3, <1>6, <3>2, ContentOf
      <4>3. PICK l, s : l = mem[p].ledger /\ s = mem[p].session
        OBVIOUS
      <4>4. Of(l, s) /\ Home(p, l) /\ l.pid = p
        BY <4>1, <4>3 DEF Owners, Own, Opened
      <4>5. Of(l, s)' /\ Home(p, l)' /\ Fresh(p, {})'
        BY <1>1, <1>4, <4>4, OfStays, HomeStays DEF Fresh
      <4> QED BY <1>1, <1>6, <4>1, <4>2, <4>3, <4>4, <4>5 DEF Opened
    <3> QED BY <1>6, <3>1, <3>2
  <2>2. Begun(p)' /\ WriteUnderWay(p)' /\ Cleaned(p)'
    BY <1>1, <1>4, <1>6, IdleBegun, CleanedStays DEF WriteUnderWay, Owners, Own
  <2> QED BY <2>1, <2>2 DEF Own
<1> QED BY <1>4, <1>5, <1>6, <1>7, <1>8, OwnersStep

LEMMA CaptureOwners == ASSUME Records, Owners, NEW p \in Shells, Capture(p) PROVE Owners'
<1>1. PICK place \in {"outside"} \cup ({tmp[p]} \cap dirs) : where' = Append(where, place)
  BY DEF Capture
<1>0. PICK l, s, base : l = mem[p].ledger /\ s = mem[p].session /\ base = mem[p].base
  OBVIOUS
<1> DEFINE a == Len(where) + 1
<1>2. PICK arts \in SUBSET (l.arts \cup {a}) :
        /\ mem' = [mem EXCEPT ![p].ledger = [l EXCEPT !.arts = arts]]
        /\ writing' = [writing EXCEPT ![p] =
             [at |-> "writing", session |-> s, ledger |-> [l EXCEPT !.arts = arts],
              base |-> base, own |-> TRUE]]
  <2> DEFINE all == mem[p].ledger.arts \cup {a}
             kept == IF Cardinality(all) > Cap THEN all \ {Min(all)} ELSE all
  <2>1. /\ mem' = [mem EXCEPT ![p].ledger = [mem[p].ledger EXCEPT !.arts = kept]]
        /\ writing' = [writing EXCEPT ![p] =
             [at |-> "writing", session |-> mem[p].session,
              ledger |-> [mem[p].ledger EXCEPT !.arts = kept],
              base |-> mem[p].base, own |-> TRUE]]
    BY DEF Capture
  <2>2. kept \in SUBSET (l.arts \cup {a})
    BY <1>0
  <2> HIDE DEF kept
  <2> QED BY <1>0, <2>1, <2>2
<1>3. /\ p \in living /\ job[p] = Idle /\ mem[p] # NoSession
      /\ present' = present \cup {a}
      /\ UNCHANGED <<started, living, ledgers, under, dirs, made, tmp, job, cleaning, clobbered>>
  BY DEF Capture, Free
<1>4. /\ where \in Seq(Dirs \cup {"outside"}) /\ place \in Dirs \cup {"outside"}
      /\ a \notin DOMAIN where /\ a \in DOMAIN where' /\ where'[a] = place
      /\ DOMAIN where \subseteq DOMAIN where' /\ \A b \in DOMAIN where : where'[b] = where[b]
      /\ where' \in Seq(Dirs \cup {"outside"})
  <2>1. where \in Seq(Dirs \cup {"outside"}) /\ place \in Dirs \cup {"outside"}
    BY <1>1 DEF Owners, Basics, Records, DirsMade
  <2> QED BY <1>1, <2>1
<1> HIDE DEF a
<1>5. Grows /\ Unmade' = Unmade /\ Basics' /\ Gains
  <2>1. Unmade' = Unmade
    BY <1>3 DEF Unmade
  <2> QED BY <1>3, <1>4, <2>1, StaysGains DEF Grows, Owners, Basics
<1>6. AllOf(ledgers)'
  BY <1>3, <1>5, LedgersOfStay DEF Owners
<1>7. Known(l, Unmade) /\ Session(mem[p], Unmade) /\ Of(l, s) /\ l.pid = p /\ Home(p, l)
  BY <1>0, <1>3 DEF Records, MemKnown, Session, Owners, Own, Opened
<1>8. PICK k : k = [l EXCEPT !.arts = arts]
  OBVIOUS
<1>9. k.pid = p /\ k.root = l.root /\ k.scratch = l.scratch /\ k.arts = arts
  BY <1>7, <1>8, LedgerLess
<1>10. /\ \A q \in Shells \ {p} : Same(q) /\ Opens(q)' = Opens(q)
       /\ mem'[p].session = s /\ mem'[p].ledger = k /\ mem'[p].base = base
       /\ writing'[p] = [at |-> "writing", session |-> s, ledger |-> k, base |-> base, own |-> TRUE]
  BY <1>0, <1>2, <1>3, <1>7, <1>8 DEF Same, Stays, Opens, Records, JobsKnown, MemKnown, WritesKnown, Session
<1>11. Opens(p)' = Opens(p) /\ CleanGoes(p)
  BY <1>0, <1>3, <1>9, <1>10, CleanStaysGoes DEF Opens
<1>12. Of(k, s)' /\ Home(p, k)' /\ Fresh(p, arts \ base.arts)'
  <2>1. Of(l, s)' /\ Home(p, l)'
    BY <1>3, <1>5, <1>7, OfStays, HomeStays
  <2>2. Of(k, s)' /\ Home(p, k)'
    BY <1>2, <1>4, <1>9, <2>1, <1>7 DEF Of, Home
  <2>3. Fresh(p, l.arts \ base.arts)'
    BY <1>0, <1>3, <1>5, FreshStays DEF Owners, Own, Opened
  <2>4. place = "outside" \/ (place \in Dirs \ Unmade' /\ made'[place].by = p)
    <3>1. ASSUME place = tmp[p], tmp[p] \in dirs PROVE place \in Dirs \ Unmade' /\ made'[place].by = p
      <4>1. tmp[p] = l.scratch /\ l.scratch \in Dirs
        BY <1>7, <3>1 DEF Home
      <4> QED BY <1>3, <1>5, <1>7, <3>1, <4>1 DEF Of
    <3> QED BY <1>1, <3>1
  <2> QED BY <1>2, <1>4, <2>2, <2>3, <2>4 DEF Fresh
<1>13. Own(p)'
  <2>1. Opened(p)'
    <3>1. mem'[p] # NoSession
      BY <1>3, <1>7, <1>10, <1>0, NamesAssumption DEF NoSession, Session
    <3> QED BY <1>3, <1>9, <1>10, <1>12, <3>1 DEF Opened
  <2>2. WriteUnderWay(p)'
    BY <1>9, <1>10, <1>12 DEF WriteUnderWay
  <2>3. Begun(p)' /\ Cleaned(p)'
    BY <1>0, <1>3, <1>5, <1>10, IdleBegun, CleanedStays DEF Owners, Own
  <2> QED BY <2>1, <2>2, <2>3 DEF Own
<1> QED BY <1>5, <1>6, <1>10, <1>11, <1>13, OwnersStep

LEMMA CleanBeginOwners == ASSUME Records, Owners, NEW p \in Shells, CleanBegin(p) PROVE Owners'
<1> DEFINE s == mem[p].session
           ended == {t \in SessionIds \ {s} : ledgers[t] # NoLedger /\ ~IsLive(ledgers[t])}
           c == [at |-> "artifacts", session |-> s, own |-> TRUE, mine |-> NoLedger,
                 read |-> [t \in ended |-> ledgers[t]], others |-> [t \in ended |-> ledgers[t]],
                 old |-> Existing, list |-> ledgers, todo |-> {}]
<1>1. /\ p \in living /\ job[p] = Idle /\ cleaning[p] = Idle /\ mem[p] # NoSession
      /\ cleaning' = [cleaning EXCEPT ![p] = c]
      /\ UNCHANGED <<started, living, ledgers, under, dirs, made, where, present, mem, tmp, job,
                     writing, clobbered>>
  BY DEF CleanBegin, Free
<1>2. Grows /\ Unmade' = Unmade /\ Basics' /\ Gains
  BY <1>1, QuietGrows, StaysGains DEF Owners, Basics
<1>3. AllOf(ledgers)' /\ DirsOutside'
  BY <1>1, <1>2, LedgersOfStay, DirsOutsideStays DEF Owners
<1>4. \A q \in Shells \ {p} : Same(q)
  BY <1>1 DEF Same, Stays, Records, CleansKnown
<1>5. \A q \in Shells : Opens(q)' = Opens(q)
  BY <1>1 DEF Opens
<1>6. cleaning'[p] = c
  BY <1>1 DEF Records, CleansKnown
<1>7. /\ c.session = s /\ c.mine = NoLedger /\ c.list = ledgers /\ c.old = Existing
      /\ DOMAIN c.others = ended
      /\ \A t \in ended : c.others[t] = ledgers[t] /\ c.read[t] = ledgers[t]
      /\ ended \subseteq SessionIds /\ s \notin ended
      /\ \A t \in ended : ledgers[t].pid \notin living
  BY DEF IsLive
<1> HIDE DEF c, ended
<1>8. Own(p)'
  <2>1. Opened(p)' /\ Begun(p)' /\ WriteUnderWay(p)'
    BY <1>1, <1>2, OpenedStays, BegunStays, WriteUnderWayStays DEF Stays, Owners, Own
  <2>2. Of(NoLedger, s)'
    <3>1. PICK t : t = s
      OBVIOUS
    <3>2. Of(NoLedger, t)'
      BY <1>2, OfNoLedger, OfStays
    <3> QED BY <1>1, <3>1, <3>2
  <2>3. \A t \in ended : Of(ledgers[t], t)' /\ ledgers[t].arts \subseteq DOMAIN where
    <3>1. \A t \in ended : Of(ledgers[t], t)'
      BY <1>3, <1>7 DEF AllOf
    <3>2. \A t \in ended : ledgers[t].arts \subseteq DOMAIN where
      BY <1>7 DEF Owners, AllOf, Of
    <3> QED BY <3>1, <3>2
  <2>4. Existing.dirs \subseteq Dirs \ Unmade
    BY DEF Existing, Records, DirsMade
  <2>5. NoLedger.scratch \notin Dirs
    BY NoneIsNoDir DEF NoLedger
  <2>6. Cleaned(p)'
    <3>1. PICK e : e = c
      OBVIOUS
    <3>2. AllOf(e.list)' /\ Of(e.mine, e.session)'
      BY <1>1, <1>3, <1>7, <2>2, <3>1
    <3>3. \A t \in DOMAIN e.others :
            /\ t # e.session /\ Of(e.others[t], t)'
            /\ e.others[t].pid \notin living'
            /\ e.read[t].arts \subseteq DOMAIN where' /\ e.read[t].arts = e.others[t].arts
      BY <1>1, <1>7, <2>3, <3>1
    <3>4. cleaning'[p] = e /\ mem'[p].session = e.session /\ e.mine.scratch \notin Dirs
          /\ e.old.dirs \subseteq Dirs \ Unmade'
      BY <1>1, <1>2, <1>6, <1>7, <2>4, <2>5, <3>1
    <3> QED BY <3>2, <3>3, <3>4 DEF Cleaned
  <2> QED BY <2>1, <2>6 DEF Own
<1>9. Once'
  BY <1>5, OnceStays DEF Owners
<1>10. OldKnown'
  <2> SUFFICES ASSUME NEW x \in Shells, NEW y \in Shells, x # y, cleaning'[x] # Idle,
                      Opens(y)'.session = cleaning'[x].session
               PROVE  Opens(y)'.scratch \notin cleaning'[x].old.dirs
    BY DEF OldKnown
  <2>1. CASE x = p
    <3>1. Opens(p).session = s /\ s # "none"
      BY <1>1, NamesAssumption DEF Opens, Idle, Records, MemKnown, Session
    <3>2. Opens(y).session # s
      BY <2>1, <3>1 DEF Owners, Once
    <3> QED BY <1>5, <1>6, <1>7, <2>1, <3>2
  <2>2. CASE x # p
    BY <1>4, <1>5, <2>2 DEF Same, Owners, OldKnown
  <2> QED BY <2>1, <2>2
<1>11. Inherited'
  <2> SUFFICES ASSUME NEW q \in Shells, cleaning'[q] # Idle,
                      NEW t \in DOMAIN cleaning'[q].others \ clobbered',
                      NEW a \in ledgers'[t].arts \cap present',
                      where'[a] \in Dirs, where'[a] = cleaning'[q].others[t].scratch
               PROVE  a \in cleaning'[q].others[t].arts
    BY DEF Inherited
  <2>1. CASE q = p
    BY <1>1, <1>6, <1>7, <2>1
  <2>2. CASE q # p
    BY <1>1, <1>4, <2>2 DEF Same, Owners, Inherited
  <2> QED BY <2>1, <2>2
<1>12. \A q \in Shells : Own(q)'
  BY <1>2, <1>4, <1>8, OwnStays DEF Owners
<1> QED BY <1>2, <1>3, <1>9, <1>10, <1>11, <1>12 DEF Owners

\* A step of a clean that leaves its ledgers and its session as they are, but for
\* what it drops.
LEMMA CleanStepOwners ==
  ASSUME Records, Owners, NEW p \in Shells, p \in living,
         UNCHANGED <<started, living, under, made, where, tmp, job, writing>>,
         dirs' \subseteq dirs, present' \subseteq present,
         \A q \in Shells \ {p} : mem'[q] = mem[q] /\ cleaning'[q] = cleaning[q],
         mem'[p].session = mem[p].session, Less(mem'[p].ledger, mem[p].ledger),
         mem'[p].ledger.scratch = mem[p].ledger.scratch,
         mem'[p].base = mem[p].base \/ mem'[p].base.arts = mem'[p].ledger.arts,
         mem'[p] = NoSession <=> mem[p] = NoSession,
         AllOf(ledgers)', Gains, CleanGoes(p),
         cleaning'[p] # Idle =>
           LET c == cleaning[p]
               d == cleaning'[p] IN
           /\ Less(d.mine, c.mine)
           /\ d.own => c.own
           /\ d.list = c.list \/ AllOf(d.list)
  PROVE  Owners'
<1>1. Grows /\ Unmade' = Unmade /\ Basics'
  BY QuietGrows DEF Owners, Basics
<1>2. \A q \in Shells : Opens(q)' = Opens(q)
  BY DEF Opens
<1>3. \A q \in Shells \ {p} : Same(q)
  BY DEF Same, Stays
<1>4. Opened(p)'
  <2>1. CASE mem[p] = NoSession
    <3>1. job[p].at # "resuming" => Outside(p, tmp[p])
      BY <2>1 DEF Owners, Own, Opened
    <3>2. job[p].at # "resuming" => Outside(p, tmp[p])'
      BY <1>1, <3>1, OutsideStays
    <3> QED BY <2>1, <3>2 DEF Opened
  <2>2. CASE mem[p] # NoSession
    <3>1. PICK l, k, s : l = mem[p].ledger /\ k = mem'[p].ledger /\ s = mem[p].session
      OBVIOUS
    <3>2. /\ Of(k, s) /\ Home(p, k) /\ k.pid = p /\ Fresh(p, k.arts \ mem[p].base.arts)
          /\ Fresh(p, {})
      BY <2>2, <3>1, OfLess DEF Owners, Own, Opened, Less, Home, Fresh
    <3>3. PICK b : b = mem[p].base.arts
      OBVIOUS
    <3>4. /\ Of(k, s)' /\ Home(p, k)' /\ Fresh(p, k.arts \ b)' /\ Fresh(p, {})'
      BY <1>1, <3>2, <3>3, OfStays, HomeStays, FreshStays
    <3>5. mem'[p].ledger.arts \ mem'[p].base.arts \in {k.arts \ b, {}}
      BY <3>1, <3>3
    <3>6. Fresh(p, mem[p].ledger.arts \ mem[p].base.arts)'
      BY <3>4, <3>5
    <3> QED BY <2>2, <3>1, <3>2, <3>4, <3>6 DEF Opened
  <2> QED BY <2>1, <2>2
<1>5. Begun(p)'
  <2>1. job[p] # Idle => \A t \in SessionIds : Of(job[p].list[t], t)'
    BY <1>1, AllOfStays DEF Owners, Own, Begun
  <2>2. job[p] # Idle => AllOf(job[p].list)'
    BY <2>1 DEF AllOf
  <2>3. job[p].at = "resuming" => /\ Of(job[p].ledger, job[p].session)'
                                  /\ Of(job[p].previous, job[p].session)'
                                  /\ Home(p, job[p].ledger)'
    BY <1>1, OfStays, HomeStays DEF Owners, Own, Begun
  <2> QED BY <2>2, <2>3 DEF Begun, Owners, Own
<1>6. WriteUnderWay(p)'
  BY <1>1, WriteUnderWayStays DEF Less, Owners, Own
<1>7. Cleaned(p)'
  <2> SUFFICES ASSUME cleaning'[p] # Idle PROVE Cleaned(p)'
    BY DEF Cleaned
  <2>1. PICK c, d : c = cleaning[p] /\ d = cleaning'[p]
    OBVIOUS
  <2>2. c # Idle /\ d.session = c.session
    BY <2>1 DEF CleanGoes
  <2>3. /\ Of(c.mine, c.session) /\ AllOf(c.list)
        /\ c.mine.scratch \in Dirs => c.mine.pid = p
    BY <2>1, <2>2 DEF Owners, Own, Cleaned
  <2>4. Less(d.mine, c.mine)
    BY <2>1
  <2>5. Of(d.mine, d.session) /\ AllOf(d.list) /\ (d.mine.scratch \in Dirs => d.mine.pid = p)
    BY <2>1, <2>2, <2>3, <2>4, OfLess, NoneIsNoDir DEF Less
  <2> QED BY <1>1, <2>1, <2>5, CleanedGoes DEF Owners, Own
<1> QED BY <1>1, <1>2, <1>3, <1>4, <1>5, <1>6, <1>7, OwnersStep DEF Own

LEMMA CleanFields ==
  ASSUME Records, NEW p \in Shells, cleaning[p] # Idle
  PROVE  /\ Fields(cleaning[p]) /\ cleaning[p].session \in SessionIds
         /\ Known(cleaning[p].mine, Unmade)
         /\ cleaning[p].others = [t \in DOMAIN cleaning[p].others |-> cleaning[p].others[t]]
         /\ cleaning[p].todo \subseteq {cleaning[p].session} \cup DOMAIN cleaning[p].others
         /\ DOMAIN cleaning[p].others \subseteq SessionIds
         /\ \A t \in DOMAIN cleaning[p].others : Known(cleaning[p].others[t], Unmade)
BY DEF Records, CleansKnown, Clean, Fields, Others

LEMMA CleanArtifactOwners ==
  ASSUME Records, Owners, NEW p \in Shells, CleanArtifact(p) PROVE Owners'
<1>0. PICK c, l : c = cleaning[p] /\ l = mem[p].ledger
  OBVIOUS
<1> DEFINE without(x, a) == [x EXCEPT !.arts = @ \ {a}]
<1>1. PICK a \in DOMAIN where :
        /\ present' = present \ {a}
        /\ \/ /\ a \in Mine(p).arts
              /\ IF c.own
                 THEN mem' = [mem EXCEPT ![p].ledger = without(@, a)] /\ UNCHANGED cleaning
                 ELSE cleaning' = [cleaning EXCEPT ![p].mine = without(@, a)] /\ UNCHANGED mem
           \/ \E t \in DOMAIN c.others :
                /\ cleaning' = [cleaning EXCEPT ![p].others[t] = without(@, a)]
                /\ UNCHANGED mem
  BY <1>0 DEF CleanArtifact
<1>2. /\ p \in living /\ job[p] = Idle /\ c # Idle
      /\ UNCHANGED <<started, living, ledgers, under, dirs, made, where, tmp, job, writing, clobbered>>
  BY <1>0 DEF CleanArtifact, Free, Idle
<1>3. Grows /\ Gains /\ AllOf(ledgers)'
  <2>1. Grows
    BY <1>1, <1>2, QuietGrows
  <2> QED BY <1>2, <2>1, StaysGains, LedgersOfStay DEF Owners
<1>4. /\ Fields(c) /\ Known(c.mine, Unmade) /\ c.others = [t \in DOMAIN c.others |-> c.others[t]]
      /\ \A t \in DOMAIN c.others : Known(c.others[t], Unmade)
      /\ Known(l, Unmade) /\ Session(mem[p], Unmade)
  BY <1>0, <1>2, CleanFields DEF Records, MemKnown, Session
<1>5. ASSUME NEW x, Known(x, Unmade)
      PROVE  Less(without(x, a), x) /\ without(x, a).arts = x.arts \ {a} /\ without(x, a).scratch = x.scratch
  BY <1>5 DEF Known, Less
<1>6. ASSUME UNCHANGED mem, NEW d, cleaning' = [cleaning EXCEPT ![p] = d], d # Idle,
             d.session = c.session, d.old = c.old, d.read = c.read, d.own = c.own,
             d.list = c.list, Less(d.mine, c.mine), DOMAIN d.others = DOMAIN c.others,
             \A t \in DOMAIN c.others : /\ Less(d.others[t], c.others[t])
                                        /\ c.others[t].arts \ {a} \subseteq d.others[t].arts
      PROVE  Owners'
  <2>1. /\ cleaning'[p] = d /\ \A q \in Shells \ {p} : cleaning'[q] = cleaning[q]
    BY <1>6 DEF Records, CleansKnown
  <2>2. CleanGoes(p)
    BY <1>0, <1>1, <1>2, <1>6, <2>1 DEF CleanGoes
  <2>3. Less(l, l)
    BY DEF Less
  <2> QED BY <1>0, <1>1, <1>2, <1>3, <1>6, <2>1, <2>2, <2>3, CleanStepOwners
<1>7. CASE c.own /\ a \in Mine(p).arts /\ UNCHANGED cleaning
           /\ mem' = [mem EXCEPT ![p].ledger = without(@, a)]
  <2>1. PICK k : k = without(l, a)
    OBVIOUS
  <2>2. Less(k, l) /\ k.scratch = l.scratch
    BY <1>4, <1>5, <2>1
  <2>3. /\ mem'[p].session = mem[p].session /\ mem'[p].ledger = k /\ mem'[p].base = mem[p].base
        /\ \A q \in Shells \ {p} : mem'[q] = mem[q]
    BY <1>0, <1>4, <1>7, <2>1 DEF Records, MemKnown, Session
  <2>4. mem[p] # NoSession /\ mem'[p] # NoSession
    <3>1. mem[p].session = c.session /\ c.session \in SessionIds
      BY <1>0, <1>2, <1>7, CleanFields DEF Owners, Own, Cleaned
    <3> QED BY <2>3, <3>1, NamesAssumption DEF NoSession
  <2>5. CleanGoes(p) /\ Less(c.mine, c.mine)
    BY <1>7, CleanStaysGoes DEF Less
  <2> QED BY <1>0, <1>1, <1>2, <1>3, <1>7, <2>2, <2>3, <2>4, <2>5, CleanStepOwners
<1>8. CASE UNCHANGED mem /\ cleaning' = [cleaning EXCEPT ![p].mine = without(@, a)]
  <2>1. PICK k : k = without(c.mine, a)
    OBVIOUS
  <2>2. PICK d : d = [c EXCEPT !.mine = k]
    OBVIOUS
  <2>3. cleaning' = [cleaning EXCEPT ![p] = d]
    BY <1>0, <1>8, <2>1, <2>2
  <2>4. /\ d.session = c.session /\ d.old = c.old /\ d.read = c.read /\ d.own = c.own
        /\ d.list = c.list /\ d.mine = k /\ d.others = c.others /\ d.at = c.at
    BY <1>4, <2>2 DEF Fields
  <2>5. Less(k, c.mine) /\ \A t \in DOMAIN c.others : Less(c.others[t], c.others[t])
    BY <1>4, <1>5, <2>1 DEF Less
  <2>6. d # Idle
    BY <1>4, <2>2 DEF Fields, Idle
  <2> QED BY <1>6, <1>8, <2>3, <2>4, <2>5, <2>6
<1>9. ASSUME NEW t \in DOMAIN c.others, UNCHANGED mem,
             cleaning' = [cleaning EXCEPT ![p].others[t] = without(@, a)]
      PROVE  Owners'
  <2>1. PICK k : k = without(c.others[t], a)
    OBVIOUS
  <2>2. PICK o : o = [c.others EXCEPT ![t] = k]
    OBVIOUS
  <2>3. PICK d : d = [c EXCEPT !.others = o]
    OBVIOUS
  <2>4. cleaning' = [cleaning EXCEPT ![p] = d]
    BY <1>0, <1>9, <2>1, <2>2, <2>3
  <2>5. /\ d.session = c.session /\ d.old = c.old /\ d.read = c.read /\ d.own = c.own
        /\ d.list = c.list /\ d.mine = c.mine /\ d.others = o /\ d.at = c.at
    BY <1>4, <2>3 DEF Fields
  <2>6. d # Idle
    BY <1>4, <2>3 DEF Fields, Idle
  <2>7. Less(k, c.others[t]) /\ k.arts = c.others[t].arts \ {a}
    BY <1>4, <1>5, <2>1
  <2>8. /\ DOMAIN o = DOMAIN c.others /\ o[t] = k
        /\ \A x \in DOMAIN c.others : x # t => o[x] = c.others[x]
    BY <1>4, <1>9, <2>2
  <2>9. \A x \in DOMAIN c.others : /\ Less(o[x], c.others[x])
                                   /\ c.others[x].arts \ {a} \subseteq o[x].arts
    BY <2>7, <2>8 DEF Less
  <2>10. Less(c.mine, c.mine)
    BY DEF Less
  <2> QED BY <1>6, <1>9, <2>4, <2>5, <2>6, <2>8, <2>9, <2>10
<1> QED BY <1>1, <1>7, <1>8, <1>9

LEMMA CleanListOwners == ASSUME Records, Owners, NEW p \in Shells, CleanList(p) PROVE Owners'
<1>0. PICK c : c = cleaning[p]
  OBVIOUS
<1>1. /\ p \in living /\ job[p] = Idle /\ c # Idle
      /\ UNCHANGED <<started, living, ledgers, under, dirs, made, where, present, mem, tmp, job, writing,
                     clobbered>>
      /\ cleaning' = [cleaning EXCEPT ![p].at = "scratch", ![p].list = ledgers, ![p].todo = Groups(c)]
  BY <1>0 DEF CleanList, Free, Idle
<1>2. Gains /\ AllOf(ledgers)'
  <2>1. Grows
    BY <1>1, QuietGrows
  <2> QED BY <1>1, <2>1, StaysGains, LedgersOfStay DEF Owners
<1>3. Fields(c)
  BY <1>0, <1>1, CleanFields
<1>4. PICK d : d = [c EXCEPT !.at = "scratch", !.list = ledgers, !.todo = Groups(c)]
  OBVIOUS
<1>5. /\ d.session = c.session /\ d.old = c.old /\ d.read = c.read /\ d.own = c.own
      /\ d.list = ledgers /\ d.mine = c.mine /\ d.others = c.others
  BY <1>3, <1>4 DEF Fields
<1>6. cleaning'[p] = d /\ \A q \in Shells \ {p} : cleaning'[q] = cleaning[q]
  BY <1>0, <1>1, <1>4 DEF Records, CleansKnown
<1>7. CleanGoes(p) /\ AllOf(ledgers)
  BY <1>0, <1>1, <1>5, <1>6 DEF CleanGoes, Less, Owners
<1>8. Less(d.mine, c.mine) /\ Less(mem'[p].ledger, mem[p].ledger)
  BY <1>1, <1>5 DEF Less
<1> QED BY <1>0, <1>1, <1>2, <1>5, <1>6, <1>7, <1>8, CleanStepOwners

LEMMA CleanScratchOwners ==
  ASSUME Records, Owners, NEW p \in Shells, CleanScratch(p) PROVE Owners'
<1>0. PICK c : c = cleaning[p]
  OBVIOUS
<1> DEFINE done(t, others) == [cleaning EXCEPT ![p] =
             IF c.todo = {t} THEN [c EXCEPT !.at = "persist", !.others = others, !.todo = Groups(c)]
             ELSE [c EXCEPT !.others = others, !.todo = c.todo \ {t}]]
<1>1. /\ p \in living /\ job[p] = Idle /\ c # Idle
      /\ UNCHANGED <<started, living, ledgers, under, made, where, mem, tmp, job, writing, clobbered>>
      /\ dirs' \subseteq dirs /\ present' \subseteq present
      /\ \/ cleaning' = done(c.session, c.others)
         \/ \E t \in DOMAIN c.others : \E gone :
              cleaning' = done(t, [c.others EXCEPT ![t] = Tried(@, gone)])
  <2>1. /\ p \in living /\ job[p] = Idle /\ c # Idle
        /\ UNCHANGED <<started, living, ledgers, under, made, where, mem, tmp, job, writing, clobbered>>
    <3>1. Free(p) /\ c.at = "scratch"
      BY <1>0 DEF CleanScratch
    <3>2. UNCHANGED <<started, living, ledgers, under, made, where, mem, tmp, job, writing, clobbered>>
      BY DEF CleanScratch
    <3> QED BY <3>1, <3>2 DEF Free, Idle
  <2>2. \/ /\ \E gone : Delete(gone)
           /\ cleaning' = done(c.session, c.others)
        \/ /\ c.session \notin c.todo
           /\ \E t \in c.todo : \E gone :
                Delete(gone) /\ cleaning' = done(t, [c.others EXCEPT ![t] = Tried(@, gone)])
    BY <1>0 DEF CleanScratch
  <2>3. c.session \notin c.todo => c.todo \subseteq DOMAIN c.others
    BY <1>0, <2>1, CleanFields
  <2> QED BY <2>1, <2>2, <2>3, DeleteShrinks
<1>2. Gains /\ AllOf(ledgers)'
  <2>1. Grows
    BY <1>1, QuietGrows
  <2> QED BY <1>1, <2>1, StaysGains, LedgersOfStay DEF Owners
<1>3. /\ Fields(c) /\ c.others = [t \in DOMAIN c.others |-> c.others[t]]
      /\ \A t \in DOMAIN c.others : Known(c.others[t], Unmade)
  BY <1>0, <1>1, CleanFields
<1>4. ASSUME NEW t, NEW o, cleaning' = done(t, o), DOMAIN o = DOMAIN c.others,
             \A x \in DOMAIN c.others : Less(o[x], c.others[x]) /\ o[x].arts = c.others[x].arts
      PROVE  Owners'
  <2>1. PICK d : d = IF c.todo = {t} THEN [c EXCEPT !.at = "persist", !.others = o, !.todo = Groups(c)]
                     ELSE [c EXCEPT !.others = o, !.todo = c.todo \ {t}]
    OBVIOUS
  <2>2. /\ d.session = c.session /\ d.old = c.old /\ d.read = c.read /\ d.own = c.own
        /\ d.list = c.list /\ d.mine = c.mine /\ d.others = o
    <3>1. CASE c.todo = {t}
      BY <1>3, <2>1, <3>1 DEF Fields
    <3>2. CASE c.todo # {t}
      BY <1>3, <2>1, <3>2 DEF Fields
    <3> QED BY <3>1, <3>2
  <2>3. cleaning'[p] = d /\ \A q \in Shells \ {p} : cleaning'[q] = cleaning[q]
    BY <1>4, <2>1 DEF Records, CleansKnown
  <2> HIDE DEF done
  <2>4. CleanGoes(p)
    <3>1. \A x \in DOMAIN c.others : c.others[x].arts \cap present' \subseteq o[x].arts
      BY <1>4
    <3>2. cleaning[p] = c /\ cleaning'[p] = d /\ DOMAIN o = DOMAIN c.others
          /\ \A x \in DOMAIN c.others : Less(o[x], c.others[x])
      BY <1>0, <1>4, <2>3
    <3> QED BY <1>1, <2>2, <3>1, <3>2 DEF CleanGoes
  <2>5. Less(d.mine, c.mine) /\ Less(mem'[p].ledger, mem[p].ledger)
    BY <1>1, <2>2 DEF Less
  <2> QED BY <1>0, <1>1, <1>2, <2>2, <2>3, <2>4, <2>5, CleanStepOwners
<1> HIDE DEF done
<1>5. CASE cleaning' = done(c.session, c.others)
  <2>1. \A x \in DOMAIN c.others : Less(c.others[x], c.others[x])
    BY DEF Less
  <2> QED BY <1>4, <1>5, <2>1
<1>6. ASSUME NEW t \in DOMAIN c.others, NEW gone,
             cleaning' = done(t, [c.others EXCEPT ![t] = Tried(@, gone)])
      PROVE  Owners'
  <2>1. PICK o : o = [c.others EXCEPT ![t] = Tried(@, gone)]
    OBVIOUS
  <2>2. Less(Tried(c.others[t], gone), c.others[t]) /\ Tried(c.others[t], gone).arts = c.others[t].arts
    BY <1>3, LedgerLess
  <2>3. /\ DOMAIN o = DOMAIN c.others /\ o[t] = Tried(c.others[t], gone)
        /\ \A x \in DOMAIN c.others : x # t => o[x] = c.others[x]
    BY <1>3, <2>1
  <2>4. \A x \in DOMAIN c.others : Less(o[x], c.others[x]) /\ o[x].arts = c.others[x].arts
    BY <2>2, <2>3 DEF Less
  <2> QED BY <1>4, <1>6, <2>1, <2>3, <2>4
<1> QED BY <1>1, <1>5, <1>6

LEMMA CleanPersistOwners ==
  ASSUME Records, Owners, NEW p \in Shells, CleanPersist(p) PROVE Owners'
<1>0. PICK c, m : c = cleaning[p] /\ m = mem[p]
  OBVIOUS
<1>1. PICK t \in c.todo :
        /\ IF t = c.session
           THEN /\ Write(t, Mine(p), MyBase(p))
                /\ mem' = IF c.own THEN [mem EXCEPT ![p].base = Content(Mine(p))] ELSE mem
           ELSE Write(t, c.others[t], c.read[t]) /\ UNCHANGED mem
        /\ cleaning' = [cleaning EXCEPT ![p] = IF c.todo = {t} THEN Idle
                                               ELSE [c EXCEPT !.todo = c.todo \ {t}]]
  BY <1>0 DEF CleanPersist
<1>2. /\ p \in living /\ job[p] = Idle /\ c # Idle
      /\ UNCHANGED <<started, living, under, dirs, made, where, present, tmp, job, writing>>
  BY <1>0 DEF CleanPersist, Free, Idle
<1>3. Grows /\ Fields(c) /\ c.session \in SessionIds /\ Session(m, Unmade)
      /\ c.todo \subseteq {c.session} \cup DOMAIN c.others /\ DOMAIN c.others \subseteq SessionIds
  BY <1>0, <1>2, QuietGrows, CleanFields DEF Records, MemKnown
<1>4. /\ Of(c.mine, c.session)
      /\ c.own => m.session = c.session /\ m # NoSession /\ Of(m.ledger, c.session)
                  /\ Fresh(p, m.ledger.arts \ m.base.arts)
      /\ \A x \in DOMAIN c.others : Of(c.others[x], x)
  <2>1. c.own => m.session = c.session /\ m # NoSession
    BY <1>0, <1>2, <1>3, NamesAssumption DEF Owners, Own, Cleaned, NoSession
  <2>2. c.own => Of(m.ledger, c.session) /\ Fresh(p, m.ledger.arts \ m.base.arts)
    BY <1>0, <2>1 DEF Owners, Own, Opened
  <2> QED BY <1>0, <1>2, <2>1, <2>2 DEF Owners, Own, Cleaned
<1>5. /\ AllOf(ledgers)' /\ Gains
      /\ mem'[p].session = m.session /\ mem'[p].ledger = m.ledger
      /\ mem'[p].base = m.base \/ mem'[p].base.arts = m.ledger.arts
      /\ mem'[p] = NoSession <=> m = NoSession
      /\ \A q \in Shells \ {p} : mem'[q] = mem[q]
  <2>1. CASE t = c.session /\ c.own
    <3>1. Write(t, m.ledger, m.base) /\ mem' = [mem EXCEPT ![p].base = Content(m.ledger)]
      BY <1>0, <1>1, <2>1 DEF Mine, MyBase
    <3>2. AllOf(ledgers)' /\ Gains
      BY <1>2, <1>3, <1>4, <2>1, <3>1, WriteOf, FreshGains DEF Records, Owners
    <3>3. /\ mem'[p].session = m.session /\ mem'[p].ledger = m.ledger
          /\ mem'[p].base = Content(m.ledger)
          /\ \A q \in Shells \ {p} : mem'[q] = mem[q]
      BY <1>0, <1>3, <3>1 DEF Records, MemKnown, Session
    <3>4. Content(m.ledger).arts = m.ledger.arts
      BY <1>4, <2>1, ContentOf
    <3>5. m # NoSession /\ mem'[p] # NoSession
      <4>1. m.session \in SessionIds /\ mem'[p].session \in SessionIds
        BY <1>3, <1>4, <2>1, <3>3
      <4> QED BY <4>1, NamesAssumption DEF NoSession
    <3> QED BY <3>2, <3>3, <3>4, <3>5
  <2>2. CASE t = c.session /\ ~c.own
    <3>1. Write(t, c.mine, Unread) /\ mem' = mem
      BY <1>0, <1>1, <2>2 DEF Mine, MyBase
    <3>2. ledgers[t] # Unread
      BY <1>3, <2>2, UnreadIsNone DEF Records, LedgersKnown
    <3>3. AllOf(ledgers)' /\ Gains
      BY <1>3, <1>4, <2>2, <3>1, <3>2, WriteOf, FreshGains DEF Records, Owners
    <3> QED BY <1>0, <3>1, <3>3
  <2>3. CASE t # c.session
    <3>1. Write(t, c.others[t], c.read[t]) /\ mem' = mem /\ t \in DOMAIN c.others /\ t \in SessionIds
      BY <1>1, <1>3, <2>3
    <3>2. Of(c.others[t], t)
      BY <1>4, <3>1
    <3>3. Fresh(p, c.others[t].arts \ c.read[t].arts)
      BY <1>0, <1>2, <3>1 DEF Fresh, Owners, Own, Cleaned
    <3>4. AllOf(ledgers)' /\ Gains
      BY <1>2, <1>3, <3>1, <3>2, <3>3, WriteOf, FreshGains DEF Records, Owners
    <3> QED BY <1>0, <3>1, <3>4
  <2> QED BY <2>1, <2>2, <2>3
<1>6. PICK d : d = IF c.todo = {t} THEN Idle ELSE [c EXCEPT !.todo = c.todo \ {t}]
  OBVIOUS
<1>7. cleaning'[p] = d /\ \A q \in Shells \ {p} : cleaning'[q] = cleaning[q]
  BY <1>1, <1>6 DEF Records, CleansKnown
<1>8. d # Idle => /\ d.session = c.session /\ d.old = c.old /\ d.read = c.read /\ d.own = c.own
                  /\ d.list = c.list /\ d.mine = c.mine /\ d.others = c.others
  BY <1>3, <1>6 DEF Fields
<1>9. \A x : Less(x, x)
  BY DEF Less
<1>10. CleanGoes(p)
  BY <1>0, <1>2, <1>7, <1>8, <1>9 DEF CleanGoes
<1> QED BY <1>0, <1>2, <1>5, <1>7, <1>8, <1>9, <1>10, CleanStepOwners

LEMMA InitOwners == ScratchInit => Owners
<1> SUFFICES ASSUME ScratchInit PROVE Owners
  OBVIOUS
<1>1. /\ Unmade = Dirs /\ ledgers = [s \in SessionIds |-> NoLedger] /\ where = <<>>
      /\ living = {} /\ started = {} /\ dirs = {}
      /\ tmp = [q \in Shells |-> "root"] /\ mem = [q \in Shells |-> NoSession]
      /\ job = [q \in Shells |-> Idle] /\ cleaning = [q \in Shells |-> Idle]
      /\ writing = [q \in Shells |-> Idle]
  BY DEF ScratchInit, Unmade
<1>2. Basics /\ DirsOutside
  BY <1>1 DEF Basics, DirsOutside
<1>3. AllOf(ledgers)
  BY <1>1, OfNoLedger DEF AllOf
<1>4. \A q \in Shells : Own(q)
  BY <1>1 DEF Own, Opened, Begun, WriteUnderWay, Cleaned, Idle
<1>5. \A q \in Shells : Opens(q).session = "none"
  BY <1>1 DEF Opens, Idle, NoSession
<1>6. Once /\ OldKnown /\ Inherited
  BY <1>1, <1>5 DEF Once, OldKnown, Inherited
<1> QED BY <1>2, <1>3, <1>4, <1>6 DEF Owners

LEMMA OwnersNext == ASSUME IInv, Owners, [ScratchNext]_scratchVars PROVE Owners'
<1>1. Records
  BY DEF IInv
<1>2. CASE UNCHANGED scratchVars
  BY <1>1, <1>2, QuietOwners DEF scratchVars
<1>3. ASSUME NEW p \in Shells, NEW s \in SessionIds, NEW reload \in BOOLEAN, BeginSession(p, s, reload)
      PROVE  Owners'
  BY <1>1, <1>3, BeginRecovers, BeginMakes
<1>4. ASSUME NEW p \in Shells, Subagent(p) \/ SubagentEnds(p) PROVE Owners'
  <2>1. CASE Subagent(p)
    BY <1>1, <2>1, QuietOwners DEF Subagent
  <2>2. CASE SubagentEnds(p)
    BY <1>1, <2>2, QuietOwners DEF SubagentEnds
  <2> QED BY <1>4, <2>1, <2>2
<1>5. ASSUME NEW a \in present, Vanish(a) PROVE Owners'
  <2>1. present' \subseteq present
    BY <1>5 DEF Vanish
  <2> QED BY <1>1, <1>5, <2>1, QuietOwners DEF Vanish
<1>6. ASSUME NEW p \in Shells,
             Launch(p) \/ Record(p) \/ Sweep(p) \/ EndList(p) \/ End(p) \/ Exit(p)
      PROVE  Owners'
  BY <1>1, <1>6, LaunchOwners, RecordOwners, SweepOwners, EndListOwners, EndOwners, ExitOwners
<1>7. ASSUME NEW p \in Shells,
             \/ Capture(p) \/ Written(p) \/ CleanBegin(p) \/ CleanArtifact(p) \/ CleanList(p)
             \/ CleanScratch(p) \/ CleanPersist(p)
      PROVE  Owners'
  BY <1>1, <1>7, CaptureOwners, WrittenOwners, CleanBeginOwners, CleanArtifactOwners,
     CleanListOwners, CleanScratchOwners, CleanPersistOwners
<1> QED BY <1>2, <1>3, <1>4, <1>5, <1>6, <1>7 DEF ScratchNext

\* Whoever made a scratch directory and for which session, the ledgers, the open
\* sessions and the handlers, writes and cleans under way agree on it, and no
\* process makes a scratch inside one of its own.
THEOREM OwnersKept == ScratchSpec => [](IInv /\ Owners)
<1>1. ScratchInit => IInv /\ Owners
  <2>1. ScratchInit => EndsOpen
    BY DEF ScratchInit, EndsOpen, Idle
  <2> QED BY <2>1, InitInv, InitOwners DEF IInv
<1>2. IInv /\ Owners /\ [ScratchNext]_scratchVars => (IInv /\ Owners)'
  BY EndsStep, RecordsStep, OwnersNext DEF IInv
<1> QED BY <1>1, <1>2, PTL DEF ScratchSpec

----------------------------------------------------------------------------
(* What a removal spares.                                                  *)

LEMMA DirsAreDirs == ASSUME Records, NEW d \in dirs PROVE d \in Dirs \ Unmade /\ d # "none" /\ d # "root"
BY NoneIsNoDir DEF Records, DirsMade

\* What is held, and what is around it, stays.
LEMMA HeldStays ==
  ASSUME NEW p, NEW d, NEW arts, NEW held, NEW h \in held
  PROVE  /\ \A gone \in Removals(p, d, arts, held) : h \notin gone.dirs
         /\ \A old : h \notin Emptied(p, d, arts, held, old).dirs
<1>1. \A e : Within(h, e) => HoldsArtifact(e, arts, held)
  BY DEF HoldsArtifact
<1>2. \A old : h \notin Emptied(p, d, arts, held, old).dirs
  BY <1>1 DEF Emptied
<1>3. \A o : h \notin Nothing(o).dirs
  BY DEF Nothing
<1>4. h \notin Removal(p, d, arts, held).dirs
  <2>1. CASE d \notin dirs \/ HoldsArtifact(d, arts, held)
    BY <1>3, <2>1 DEF Removal
  <2>2. CASE d \in dirs /\ ~HoldsArtifact(d, arts, held) /\ HoldsSubagent(p, d)
    BY <1>2, <2>2 DEF Removal
  <2>3. CASE d \in dirs /\ ~HoldsArtifact(d, arts, held) /\ ~HoldsSubagent(p, d)
    BY <1>1, <2>3 DEF Removal
  <2> QED BY <2>1, <2>2, <2>3
<1> QED BY <1>2, <1>3, <1>4 DEF Removals

\* The artifacts that go with a scratch that lies in no other are its own, and not
\* listed.
LEMMA EmptiedArts ==
  ASSUME Records, NEW p, NEW d \in dirs, NEW arts, NEW held, NEW old,
         NEW a \in Emptied(p, d, arts, held, old).arts, where[a] \in Dirs, under[where[a]] = "root"
  PROVE  where[a] = d /\ a \notin arts
<1>1. d # "root"
  BY DirsAreDirs
<1>2. \A e \in dirs : Within(where[a], e) => e = where[a]
  BY DirsAreDirs, NoneIsNoDir DEF Within, Outer
<1> QED BY <1>1, <1>2 DEF Emptied

LEMMA RemovedArts ==
  ASSUME Records, NEW p, NEW d, NEW arts, NEW held, NEW gone \in Removals(p, d, arts, held),
         NEW a \in gone.arts, where[a] \in Dirs, under[where[a]] = "root"
  PROVE  d \in dirs /\ where[a] = d /\ a \notin arts
<1>1. gone = Removal(p, d, arts, held) /\ d \in dirs /\ ~HoldsArtifact(d, arts, held)
  BY DEF Removals, Removal, Nothing
<1>2. CASE HoldsSubagent(p, d)
  <2>1. gone = Emptied(p, d, arts, held, Existing)
    BY <1>1, <1>2 DEF Removal
  <2> QED BY <1>1, <2>1, EmptiedArts
<1>3. CASE ~HoldsSubagent(p, d)
  <2>1. Within(where[a], d)
    BY <1>1, <1>3 DEF Removal
  <2>2. where[a] = d
    BY <1>1, <2>1, DirsAreDirs, NoneIsNoDir DEF Within, Outer
  <2> QED BY <1>1, <2>1, <2>2 DEF HoldsArtifact
<1> QED BY <1>2, <1>3

----------------------------------------------------------------------------
(* What the steps that remove do.                                          *)

LEMMA RecordDoes ==
  ASSUME Records, Owners, NEW p \in Shells, Record(p)
  PROVE  LET j == job[p] IN
         /\ p \in living /\ j.session \in SessionIds /\ mem[p] = NoSession
         /\ Opens(p).session = j.session /\ j # Idle /\ job'[p] # j /\ AllOf(j.list)
         /\ Of(j.ledger, j.session) /\ Of(j.previous, j.session)
         /\ j.ledger.arts = j.previous.arts
         /\ Write(j.session, j.ledger, j.previous)
         /\ \/ UNCHANGED <<dirs, present>>
            \/ \E gone \in Removals(p, j.previous.scratch, j.ledger.arts,
                                    HeldDirs(p, j.list, j.session) \cup {j.ledger.scratch}) :
                 Delete(gone)
<1>1. /\ p \in living /\ job[p].at = "resuming"
      /\ Write(job[p].session, job[p].ledger, job[p].previous)
      /\ job' = [job EXCEPT ![p] = Sweeping(job[p].session, ledgers')]
      /\ \/ \E gone \in Removals(p, job[p].previous.scratch, job[p].ledger.arts,
                                 HeldDirs(p, job[p].list, job[p].session) \cup {job[p].ledger.scratch}) :
              Delete(gone)
         \/ Delete(Nothing("kept"))
  BY DEF Record
<1>2. Delete(Nothing("kept")) => UNCHANGED <<dirs, present>>
  BY DEF Delete, Nothing
<1>3. job[p] # Idle /\ job'[p] # job[p] /\ job[p].session \in SessionIds
  BY <1>1 DEF Records, JobsKnown, Job, Resuming, SweepKnown, Sweeping, Idle
<1>4. Opens(p).session = job[p].session
  BY <1>1 DEF Opens
<1> QED BY <1>1, <1>2, <1>3, <1>4 DEF Owners, Own, Begun

LEMMA SweepDoes ==
  ASSUME Records, Owners, NEW p \in Shells, Sweep(p)
  PROVE  LET j == job[p] IN
         /\ p \in living /\ j # Idle /\ job'[p] # j /\ AllOf(j.list) /\ mem[p].session \notin j.todo
         /\ \/ UNCHANGED <<dirs, present, ledgers, clobbered>>
            \/ \E s \in j.todo : \E gone, l :
                 /\ s \in SessionIds /\ ~IsLive(j.list[s])
                 /\ gone \in Removals(p, j.list[s].scratch, j.list[s].arts \cap present,
                                      HeldDirs(p, j.list, s))
                 /\ Delete(gone)
                 /\ Write(s, l, j.list[s])
                 /\ Of(l, s) /\ l.arts = j.list[s].arts \cap present
<1>1. /\ p \in living /\ job[p].at = "sweeping"
  BY DEF Sweep
<1>2. PICK s \in job[p].todo :
        LET rest == job[p].todo \ {s}
            old == job[p].list[s]
            ledger == [old EXCEPT !.arts = @ \cap present] IN
        /\ job' = [job EXCEPT ![p] = IF rest = {} THEN Idle ELSE [@ EXCEPT !.todo = rest]]
        /\ \/ UNCHANGED <<dirs, present, ledgers, clobbered>>
           \/ /\ Sweepable(old)
              /\ \E gone \in Removals(p, old.scratch, ledger.arts, HeldDirs(p, job[p].list, s)) :
                   Delete(gone) /\ Write(s, Tried(ledger, gone), old)
  BY DEF Sweep
<1>3. /\ job[p] = [at |-> job[p].at, list |-> job[p].list, todo |-> job[p].todo]
      /\ job[p].todo \subseteq SessionIds
      /\ \A t \in SessionIds : Known(job[p].list[t], Unmade)
  BY <1>1 DEF Records, JobsKnown, Job, Resuming, SweepKnown, Idle
<1>4. AllOf(job[p].list) /\ mem[p].session \notin job[p].todo /\ job[p] # Idle
  BY <1>1 DEF Owners, Own, Begun, Idle
<1>5. job'[p] # job[p]
  <2>1. PICK j : j = IF job[p].todo \ {s} = {} THEN Idle ELSE [job[p] EXCEPT !.todo = job[p].todo \ {s}]
    OBVIOUS
  <2>2. j # job[p]
    BY <1>2, <1>3, <1>4, <2>1
  <2> QED BY <1>2, <2>1, <2>2 DEF Records, JobsKnown
<1> DEFINE old == job[p].list[s]
           ledger == [old EXCEPT !.arts = @ \cap present]
<1>6. ASSUME NEW gone \in Removals(p, old.scratch, ledger.arts, HeldDirs(p, job[p].list, s)),
             Sweepable(old), Delete(gone), Write(s, Tried(ledger, gone), old)
      PROVE  /\ s \in SessionIds /\ ~IsLive(old)
             /\ gone \in Removals(p, old.scratch, old.arts \cap present, HeldDirs(p, job[p].list, s))
             /\ Of(Tried(ledger, gone), s) /\ Tried(ledger, gone).arts = old.arts \cap present
  <2>0. Known(old, Unmade) /\ old = job[p].list[s] /\ s \in SessionIds
    BY <1>2, <1>3
  <2> HIDE DEF old
  <2>1. Known(ledger, {}) /\ Less(ledger, old) /\ ledger.arts = old.arts \cap present
    BY <2>0 DEF Known, Less
  <2>2. Less(Tried(ledger, gone), ledger) /\ Tried(ledger, gone).arts = ledger.arts
    BY <2>1, LedgerLess
  <2>3. Of(Tried(ledger, gone), s)
    BY <1>4, <2>0, <2>1, <2>2, OfLess DEF AllOf
  <2> QED BY <1>6, <2>0, <2>1, <2>2, <2>3 DEF Sweepable
<1> QED BY <1>1, <1>2, <1>4, <1>5, <1>6

LEMMA EndDoes ==
  ASSUME IInv, Owners, NEW p \in Shells, End(p)
  PROVE  LET m == mem[p]  j == job[p] IN
         /\ p \in living /\ m.session \in SessionIds /\ Opens(p).session = m.session
         /\ j.at = "ending" /\ job'[p] # j /\ AllOf(j.list) /\ Of(m.ledger, m.session)
         /\ \E gone \in Removals(p, m.ledger.scratch, m.ledger.arts, HeldDirs(p, j.list, m.session)) :
            \E l :
              /\ Delete(gone)
              /\ Write(m.session, l, m.base)
              /\ Of(l, m.session) /\ l.arts = m.ledger.arts
<1>1. /\ p \in living /\ job[p].at = "ending" /\ job' = [job EXCEPT ![p] = Idle]
  BY DEF End
<1>2. PICK gone \in Removals(p, mem[p].ledger.scratch, mem[p].ledger.arts,
                             HeldDirs(p, job[p].list, mem[p].session)) :
        Delete(gone) /\ Write(mem[p].session, Tried(mem[p].ledger, gone), mem[p].base)
  BY DEF End
<1>3. mem[p] # NoSession /\ mem[p].session \in SessionIds /\ Known(mem[p].ledger, Unmade)
  BY <1>1 DEF IInv, EndsOpen, Records, MemKnown, Session
<1>4. Of(mem[p].ledger, mem[p].session) /\ job[p] # Idle /\ AllOf(job[p].list)
  <2>1. job[p] # Idle
    BY <1>1 DEF Idle
  <2> QED BY <1>3, <2>1 DEF Owners, Own, Opened, Begun
<1>5. job'[p] # job[p] /\ Opens(p).session = mem[p].session
  BY <1>1, <1>4 DEF IInv, Records, JobsKnown, Opens
<1>6. /\ Of(Tried(mem[p].ledger, gone), mem[p].session)
      /\ Tried(mem[p].ledger, gone).arts = mem[p].ledger.arts
  BY <1>3, <1>4, LedgerLess, OfLess
<1> QED BY <1>1, <1>2, <1>3, <1>4, <1>5, <1>6

LEMMA CleanScratchDoes ==
  ASSUME Records, Owners, NEW p \in Shells, CleanScratch(p)
  PROVE  LET c == cleaning[p] IN
         /\ p \in living /\ c # Idle /\ cleaning'[p] # c
         /\ \A q \in Shells \ {p} : cleaning'[q] = cleaning[q]
         /\ UNCHANGED <<job, mem, ledgers, clobbered>>
         /\ Of(c.mine, c.session) /\ c.session \in SessionIds /\ AllOf(c.list)
         /\ DOMAIN c.others \subseteq SessionIds
         /\ \/ UNCHANGED <<dirs, present>>
            \/ /\ Mine(p).scratch \in dirs
               /\ \E old \in {[dirs |-> {}, arts |-> {}], c.old} :
                    Delete(Emptied(p, Mine(p).scratch, Mine(p).arts,
                                   HeldDirs(p, c.list, c.session), old))
            \/ \E t \in DOMAIN c.others :
               \E gone \in Removals(p, c.others[t].scratch, c.others[t].arts, HeldDirs(p, c.list, t)) :
                 Delete(gone)
<1>0. PICK c : c = cleaning[p]
  OBVIOUS
<1>1. Free(p) /\ c.at = "scratch" /\ UNCHANGED <<job, mem, ledgers, clobbered>>
  BY <1>0 DEF CleanScratch
<1>2. p \in living /\ c # Idle
  BY <1>1 DEF Free, Idle
<1>3. /\ Fields(c) /\ c.session \in SessionIds /\ c.todo \subseteq {c.session} \cup DOMAIN c.others
      /\ DOMAIN c.others \subseteq SessionIds
  BY <1>0, <1>2, CleanFields
<1>4. Of(c.mine, c.session) /\ AllOf(c.list)
  BY <1>0, <1>2 DEF Owners, Own, Cleaned
<1> DEFINE done(t, others) == [cleaning EXCEPT ![p] =
             IF c.todo = {t} THEN [c EXCEPT !.at = "persist", !.others = others, !.todo = Groups(c)]
             ELSE [c EXCEPT !.others = others, !.todo = c.todo \ {t}]]
<1>5. \/ /\ c.session \in c.todo
         /\ \E old \in {[dirs |-> {}, arts |-> {}], c.old} :
              Delete(IF Mine(p).scratch \in dirs
                     THEN Emptied(p, Mine(p).scratch, Mine(p).arts, HeldDirs(p, c.list, c.session), old)
                     ELSE Nothing("absent"))
         /\ cleaning' = done(c.session, c.others)
      \/ /\ c.session \notin c.todo
         /\ \E t \in c.todo :
            \E gone \in Removals(p, c.others[t].scratch, c.others[t].arts, HeldDirs(p, c.list, t)) :
              /\ Delete(gone)
              /\ cleaning' = done(t, [c.others EXCEPT ![t] = Tried(@, gone)])
  BY <1>0 DEF CleanScratch
<1>6. ASSUME NEW t \in c.todo, NEW o, cleaning' = done(t, o)
      PROVE  cleaning'[p] # c /\ \A q \in Shells \ {p} : cleaning'[q] = cleaning[q]
  <2>1. PICK d : d = IF c.todo = {t} THEN [c EXCEPT !.at = "persist", !.others = o, !.todo = Groups(c)]
                     ELSE [c EXCEPT !.others = o, !.todo = c.todo \ {t}]
    OBVIOUS
  <2>2. d # c
    <3>1. CASE c.todo = {t}
      <4>1. d.at = "persist"
        BY <1>3, <2>1, <3>1 DEF Fields
      <4> QED BY <1>1, <4>1
    <3>2. CASE c.todo # {t}
      <4>1. d.todo = c.todo \ {t}
        BY <1>3, <2>1, <3>2 DEF Fields
      <4> QED BY <1>6, <4>1
    <3> QED BY <3>1, <3>2
  <2>3. cleaning' = [cleaning EXCEPT ![p] = d]
    BY <1>6, <2>1
  <2> QED BY <2>2, <2>3 DEF Records, CleansKnown
<1> HIDE DEF done
<1>7. Delete(Nothing("absent")) => UNCHANGED <<dirs, present>>
  BY DEF Delete, Nothing
<1>8. CASE /\ c.session \in c.todo
           /\ \E old \in {[dirs |-> {}, arts |-> {}], c.old} :
                Delete(IF Mine(p).scratch \in dirs
                       THEN Emptied(p, Mine(p).scratch, Mine(p).arts, HeldDirs(p, c.list, c.session), old)
                       ELSE Nothing("absent"))
           /\ cleaning' = done(c.session, c.others)
  BY <1>0, <1>1, <1>2, <1>3, <1>4, <1>6, <1>7, <1>8
<1>9. CASE /\ c.session \notin c.todo
           /\ \E t \in c.todo :
              \E gone \in Removals(p, c.others[t].scratch, c.others[t].arts, HeldDirs(p, c.list, t)) :
                /\ Delete(gone)
                /\ cleaning' = done(t, [c.others EXCEPT ![t] = Tried(@, gone)])
  BY <1>0, <1>1, <1>2, <1>3, <1>4, <1>6, <1>9
<1> QED BY <1>5, <1>8, <1>9

LEMMA CleanPersistDoes ==
  ASSUME Records, Owners, NEW p \in Shells, CleanPersist(p)
  PROVE  LET c == cleaning[p] IN
         \E t \in SessionIds : \E l, base :
           /\ Write(t, l, base) /\ Of(l, t)
           /\ base # Unread => \/ p \in living /\ t = mem[p].session /\ l = mem[p].ledger
                               \/ base.arts \cap present \subseteq l.arts
<1>0. PICK c : c = cleaning[p]
  OBVIOUS
<1>1. PICK t \in c.todo :
        IF t = c.session THEN Write(t, Mine(p), MyBase(p)) ELSE Write(t, c.others[t], c.read[t])
  BY <1>0 DEF CleanPersist
<1>2. p \in living /\ c # Idle
  BY <1>0 DEF CleanPersist, Free, Idle
<1>3. c.session \in SessionIds /\ c.todo \subseteq {c.session} \cup DOMAIN c.others /\ DOMAIN c.others \subseteq SessionIds
  BY <1>0, <1>2, CleanFields
<1>4. Of(c.mine, c.session)
      /\ \A x \in DOMAIN c.others : Of(c.others[x], x) /\ c.read[x].arts \cap present \subseteq c.others[x].arts
  BY <1>0, <1>2 DEF Owners, Own, Cleaned
<1>5. c.own => mem[p].session = c.session /\ Of(mem[p].ledger, c.session)
  <2>1. c.own => mem[p].session = c.session /\ mem[p] # NoSession
    BY <1>0, <1>2, <1>3, NamesAssumption DEF Owners, Own, Cleaned, NoSession
  <2> QED BY <2>1 DEF Owners, Own, Opened
<1>6. CASE t = c.session /\ c.own
  BY <1>0, <1>1, <1>2, <1>3, <1>5, <1>6 DEF Mine
<1>7. CASE t = c.session /\ ~c.own
  BY <1>0, <1>1, <1>3, <1>4, <1>7 DEF Mine, MyBase
<1>8. CASE t # c.session
  BY <1>1, <1>3, <1>4, <1>8
<1> QED BY <1>6, <1>7, <1>8

----------------------------------------------------------------------------
(* What is listed stays listed.                                            *)

LEMMA CalmLists == ASSUME ledgers' = ledgers PROVE ArtifactsListed
BY DEF ArtifactsListed, Listed

LEMMA WriteLists ==
  ASSUME Records, NEW s \in SessionIds, NEW l, NEW base, Write(s, l, base), Of(l, s),
         ledgers[s] = base => Listed(s) \cap base.arts \cap present' \subseteq l.arts
  PROVE  ArtifactsListed
<1> SUFFICES ASSUME NEW t \in SessionIds, NEW a \in Listed(t) \cap present', t \notin clobbered'
             PROVE  a \in ledgers'[t].arts
  BY DEF ArtifactsListed
<1>1. a \in ledgers[t].arts
  BY DEF Listed
<1>2. a \in ledgers'[t].arts \/ (t = s /\ ledgers[s] = base /\ a \in base.arts \ l.arts)
  BY <1>1, WriteGains DEF Records
<1> QED BY <1>2

LEMMA ListsStep == ASSUME IInv, Owners, [ScratchNext]_scratchVars PROVE ArtifactsListed
<1>0. Records
  BY DEF IInv
<1>1. ASSUME NEW p \in Shells, Record(p) PROVE ArtifactsListed
  <2>1. PICK s, l, base : s \in SessionIds /\ Write(s, l, base) /\ Of(l, s) /\ l.arts = base.arts
    BY <1>0, <1>1, RecordDoes
  <2> QED BY <1>0, <2>1, WriteLists
<1>2. ASSUME NEW p \in Shells, Sweep(p) PROVE ArtifactsListed
  <2>1. ledgers' = ledgers \/ \E s \in SessionIds : \E l, base, gone :
          Delete(gone) /\ Write(s, l, base) /\ Of(l, s) /\ l.arts = base.arts \cap present
    BY <1>0, <1>2, SweepDoes
  <2>2. CASE ledgers' = ledgers
    BY <2>2, CalmLists
  <2>3. ASSUME NEW s \in SessionIds, NEW l, NEW base, NEW gone,
               Delete(gone), Write(s, l, base), Of(l, s), l.arts = base.arts \cap present
        PROVE  ArtifactsListed
    <3>1. present' \subseteq present
      BY <2>3, DeleteShrinks
    <3> QED BY <1>0, <2>3, <3>1, WriteLists
  <2> QED BY <2>1, <2>2, <2>3
<1>3. ASSUME NEW p \in Shells, End(p) PROVE ArtifactsListed
  <2>1. PICK l : /\ p \in living /\ mem[p].session \in SessionIds
                 /\ Write(mem[p].session, l, mem[p].base) /\ Of(l, mem[p].session)
                 /\ l.arts = mem[p].ledger.arts
    BY <1>3, EndDoes
  <2>2. Listed(mem[p].session) \subseteq l.arts
    BY <2>1 DEF Listed
  <2> QED BY <1>0, <2>1, <2>2, WriteLists
<1>4. ASSUME NEW p \in Shells, Written(p) PROVE ArtifactsListed
  <2>0. PICK w : w = writing[p]
    OBVIOUS
  <2>1. p \in living /\ w # Idle /\ Write(w.session, w.ledger, w.base)
    BY <1>4, <2>0 DEF Written, Free
  <2>2. /\ w.session \in SessionIds /\ Of(w.ledger, w.session)
        /\ w.own => w.session = mem[p].session /\ mem[p].ledger.arts \subseteq w.ledger.arts
        /\ ~w.own => w.base = Unread
    BY <1>0, <2>0, <2>1 DEF Records, WritesKnown, Writing, Owners, Own, WriteUnderWay
  <2>3. w.own => Listed(w.session) \subseteq w.ledger.arts
    BY <2>1, <2>2 DEF Listed
  <2>4. ~w.own => ledgers[w.session] # w.base
    BY <1>0, <2>2, UnreadIsNone DEF Records, LedgersKnown
  <2> QED BY <1>0, <2>1, <2>2, <2>3, <2>4, WriteLists
<1>5. ASSUME NEW p \in Shells, CleanPersist(p) PROVE ArtifactsListed
  <2>1. PICK t, l, base :
          /\ t \in SessionIds
          /\ Write(t, l, base) /\ Of(l, t)
          /\ base # Unread => \/ p \in living /\ t = mem[p].session /\ l = mem[p].ledger
                              \/ base.arts \cap present \subseteq l.arts
    BY <1>0, <1>5, CleanPersistDoes
  <2>2. ledgers[t] # Unread /\ present' = present
    BY <1>0, <1>5, <2>1, UnreadIsNone DEF Records, LedgersKnown, CleanPersist
  <2>3. ledgers[t] = base => Listed(t) \cap base.arts \cap present' \subseteq l.arts
    BY <2>1, <2>2 DEF Listed
  <2> QED BY <1>0, <2>1, <2>3, WriteLists
<1>6. ASSUME NEW p \in Shells,
             \/ Launch(p) \/ EndList(p) \/ Exit(p) \/ Subagent(p) \/ SubagentEnds(p) \/ Capture(p)
             \/ CleanBegin(p) \/ CleanArtifact(p) \/ CleanList(p)
             \/ \E s \in SessionIds, reload \in BOOLEAN : BeginSession(p, s, reload)
      PROVE  ledgers' = ledgers
  BY <1>6 DEF Launch, EndList, Exit, Subagent, SubagentEnds, Capture, CleanBegin, CleanArtifact,
              CleanList, BeginSession
<1>7. ASSUME NEW p \in Shells, CleanScratch(p) PROVE ledgers' = ledgers
  BY <1>7 DEF CleanScratch
<1>8. ASSUME NEW a \in present, Vanish(a) PROVE ledgers' = ledgers
  BY <1>8 DEF Vanish
<1>9. CASE UNCHANGED scratchVars
  BY <1>9, CalmLists DEF scratchVars
<1> QED BY <1>1, <1>2, <1>3, <1>4, <1>5, <1>6, <1>7, <1>8, <1>9, CalmLists DEF ScratchNext

----------------------------------------------------------------------------
(* What goes by its own checks only.                                       *)

\* A step that removes no artifact, and one that is of no handler and no removal
\* of directories by a clean.
LEMMA CalmChecks == ASSUME present \subseteq present' PROVE OwnChecksOnly
BY DEF OwnChecksOnly

LEMMA QuietChecks ==
  ASSUME \A p \in Shells : job'[p] = job[p],
         \A p \in Shells : cleaning[p].at = "scratch" => cleaning'[p] = cleaning[p],
         living \subseteq Shells
  PROVE  OwnChecksOnly
BY DEF OwnChecksOnly, Handles, Cleans

\* A handler that removes the artifacts in gone, and writes a ledger over base.
LEMMA RemovalChecks ==
  ASSUME Records, NEW p, NEW t \in SessionIds, NEW old, NEW arts, NEW held, NEW l, NEW base,
         NEW gone \in Removals(p, old.scratch, arts, held), Delete(gone),
         Of(old, t), Write(t, l, base), Of(l, t),
         l.arts \cap present \subseteq arts,
         Listed(t) \cap base.arts \cap present \subseteq arts
  PROVE  OwnChecksOnly
<1> SUFFICES ASSUME NEW s \in SessionIds, NEW a \in Listed(s) \cap (present \ present'),
                    where[a] \in Dirs, under[where[a]] = "root", made[where[a]].session = s,
                    s \notin clobbered'
             PROVE  FALSE
  BY DEF OwnChecksOnly
<1>1. a \in gone.arts /\ a \in present
  BY DEF Delete
<1>2. where[a] = old.scratch /\ a \notin arts
  BY <1>1, RemovedArts
<1>3. s = t
  BY <1>2 DEF Of
<1>4. a \in ledgers[t].arts /\ (ledgers[t] = base \/ ledgers[t] = Content(l))
  BY <1>3 DEF Listed, Write
<1>5. Content(l).arts = l.arts
  BY ContentOf
<1> QED BY <1>1, <1>2, <1>3, <1>4, <1>5

LEMMA CleanScratchChecks ==
  ASSUME Records, Owners, NEW p \in Shells, CleanScratch(p) PROVE OwnChecksOnly
<1>0. PICK c : c = cleaning[p]
  OBVIOUS
<1>1. /\ p \in living /\ c # Idle
      /\ \A q \in Shells \ {p} : cleaning'[q] = cleaning[q]
      /\ UNCHANGED <<job, mem, ledgers, clobbered>>
      /\ Of(c.mine, c.session) /\ c.session \in SessionIds /\ DOMAIN c.others \subseteq SessionIds
  BY <1>0, CleanScratchDoes
<1> SUFFICES ASSUME NEW s \in SessionIds, NEW a \in Listed(s) \cap (present \ present'),
                    where[a] \in Dirs, under[where[a]] = "root", made[where[a]].session = s,
                    s \notin clobbered', c.session = s => c.own
             PROVE  FALSE
  <2>1. ASSUME NEW q \in living, Handles(q) \/ (Cleans(q) /\ cleaning[q].at = "scratch")
        PROVE  q = p /\ Cleans(q)
    BY <1>1, <2>1 DEF Handles, Cleans, Owners, Basics
  <2> QED BY <1>0, <2>1 DEF OwnChecksOnly
<1>2. a \in ledgers[s].arts /\ s \notin clobbered /\ ~(present \subseteq present')
  BY <1>1 DEF Listed
<1>3. ASSUME Mine(p).scratch \in dirs, NEW old,
             Delete(Emptied(p, Mine(p).scratch, Mine(p).arts, HeldDirs(p, c.list, c.session), old))
      PROVE  FALSE
  <2>1. where[a] = Mine(p).scratch /\ a \notin Mine(p).arts
    BY <1>3, EmptiedArts DEF Delete
  <2>2. CASE c.own
    <3>1. Mine(p) = mem[p].ledger /\ mem[p].session = c.session
      BY <1>0, <1>1, <2>2 DEF Mine, Owners, Own, Cleaned
    <3>2. Of(mem[p].ledger, mem[p].session)
      <4>1. mem[p] # NoSession
        BY <1>1, <3>1, NamesAssumption DEF NoSession
      <4> QED BY <4>1 DEF Owners, Own, Opened
    <3>3. s = mem[p].session
      BY <2>1, <3>1, <3>2 DEF Of
    <3> QED BY <1>1, <2>1, <3>1, <3>3 DEF Listed
  <2>3. CASE ~c.own
    <3>1. Mine(p) = c.mine
      BY <1>0, <2>3 DEF Mine
    <3> QED BY <1>1, <2>1, <2>3, <3>1 DEF Of
  <2> QED BY <2>2, <2>3
<1>4. ASSUME NEW t \in DOMAIN c.others,
             NEW gone \in Removals(p, c.others[t].scratch, c.others[t].arts, HeldDirs(p, c.list, t)),
             Delete(gone)
      PROVE  FALSE
  <2>1. where[a] = c.others[t].scratch /\ a \notin c.others[t].arts
    BY <1>4, RemovedArts DEF Delete
  <2>2. Of(c.others[t], t)
    BY <1>0, <1>1 DEF Owners, Own, Cleaned
  <2>3. s = t
    BY <2>1, <2>2 DEF Of
  <2> QED BY <1>0, <1>1, <1>2, <2>1, <2>3 DEF Owners, Inherited
<1> QED BY <1>0, <1>2, <1>3, <1>4, CleanScratchDoes

LEMMA ChecksStep == ASSUME IInv, Owners, [ScratchNext]_scratchVars PROVE OwnChecksOnly
<1>0. Records /\ living \subseteq Shells
  BY DEF IInv, Owners, Basics
<1>1. ASSUME NEW p \in Shells, Record(p) PROVE OwnChecksOnly
  <2>1. CASE UNCHANGED <<dirs, present>>
    BY <2>1, CalmChecks
  <2>2. CASE ~UNCHANGED <<dirs, present>>
    <3>1. PICK s, l, old, held :
             /\ s \in SessionIds
             /\ \E gone \in Removals(p, old.scratch, l.arts, held) :
                  /\ Delete(gone) /\ Write(s, l, old)
                  /\ Of(l, s) /\ Of(old, s) /\ l.arts = old.arts
      BY <1>0, <1>1, <2>2, RecordDoes
    <3> QED BY <1>0, <3>1, RemovalChecks
  <2> QED BY <2>1, <2>2
<1>2. ASSUME NEW p \in Shells, Sweep(p) PROVE OwnChecksOnly
  <2>1. CASE UNCHANGED <<dirs, present, ledgers, clobbered>>
    BY <2>1, CalmChecks
  <2>2. CASE ~UNCHANGED <<dirs, present, ledgers, clobbered>>
    <3>1. PICK s, gone, l :
             /\ s \in SessionIds
             /\ gone \in Removals(p, job[p].list[s].scratch, job[p].list[s].arts \cap present,
                                  HeldDirs(p, job[p].list, s))
             /\ Delete(gone) /\ Write(s, l, job[p].list[s]) /\ Of(l, s)
             /\ l.arts = job[p].list[s].arts \cap present
             /\ AllOf(job[p].list)
      BY <1>0, <1>2, <2>2, SweepDoes
    <3>2. PICK old : old = job[p].list[s]
      OBVIOUS
    <3>3. Of(old, s)
      BY <3>1, <3>2 DEF AllOf
    <3> QED BY <1>0, <3>1, <3>2, <3>3, RemovalChecks
  <2> QED BY <2>1, <2>2
<1>3. ASSUME NEW p \in Shells, End(p) PROVE OwnChecksOnly
  <2>1. PICK m : m = mem[p]
    OBVIOUS
  <2>2. PICK l, held : \E gone \in Removals(p, m.ledger.scratch, m.ledger.arts, held) :
          /\ p \in living /\ m.session \in SessionIds /\ Of(m.ledger, m.session)
          /\ Delete(gone) /\ Write(m.session, l, m.base) /\ Of(l, m.session)
          /\ l.arts = m.ledger.arts
    BY <1>3, <2>1, EndDoes
  <2>3. Listed(m.session) \subseteq m.ledger.arts
    BY <2>1, <2>2 DEF Listed
  <2> QED BY <1>0, <2>2, <2>3, RemovalChecks
<1>4. ASSUME NEW p \in Shells, CleanArtifact(p) PROVE OwnChecksOnly
  <2>1. /\ p \in living /\ cleaning[p].at = "artifacts" /\ job' = job
        /\ \A q \in Shells \ {p} : cleaning'[q] = cleaning[q]
    BY <1>0, <1>4 DEF CleanArtifact, Free, Records, CleansKnown
  <2> QED BY <1>0, <2>1, QuietChecks
<1>5. ASSUME NEW a \in present, Vanish(a) PROVE OwnChecksOnly
  BY <1>0, <1>5, QuietChecks DEF Vanish
<1>6. ASSUME NEW p \in Shells,
             \/ Launch(p) \/ EndList(p) \/ Exit(p) \/ Subagent(p) \/ SubagentEnds(p) \/ Capture(p)
             \/ Written(p) \/ CleanBegin(p) \/ CleanList(p) \/ CleanPersist(p)
             \/ \E s \in SessionIds, reload \in BOOLEAN : BeginSession(p, s, reload)
      PROVE  present \subseteq present'
  BY <1>6 DEF Launch, EndList, Exit, Subagent, SubagentEnds, Capture, Written, CleanBegin,
              CleanList, CleanPersist, BeginSession
<1>7. CASE UNCHANGED scratchVars
  BY <1>7, CalmChecks DEF scratchVars
<1> QED BY <1>0, <1>1, <1>2, <1>3, <1>4, <1>5, <1>6, <1>7, CalmChecks, CleanScratchChecks DEF ScratchNext

----------------------------------------------------------------------------
(* The scratch of an open session stays.                                   *)

LEMMA CalmScratch == ASSUME dirs \subseteq dirs' PROVE LiveScratchKept
BY DEF LiveScratchKept

\* The scratch of an open session is the one its process made for it.
LEMMA OpenScratch ==
  ASSUME Records, Owners, NEW p \in living, mem[p].ledger.scratch \in dirs
  PROVE  LET x == mem[p].ledger.scratch  s == mem[p].session IN
         /\ p \in Shells /\ s \in SessionIds /\ mem[p] # NoSession
         /\ x \in Dirs \ Unmade /\ made[x].by = p /\ made[x].session = s
         /\ Opens(p) = [session |-> s, scratch |-> x]
<1>1. p \in Shells /\ mem[p].ledger.scratch \in Dirs \ Unmade
  BY DirsAreDirs DEF Owners, Basics
<1>2. mem[p] # NoSession
  BY <1>1, NoneIsNoDir DEF NoSession, NoLedger
<1>3. mem[p].session \in SessionIds
  BY <1>1, <1>2 DEF Records, MemKnown, Session
<1>4. mem[p].ledger.pid = p /\ Of(mem[p].ledger, mem[p].session) /\ job[p].at # "resuming"
  BY <1>1, <1>2 DEF Owners, Own, Opened, Begun
<1> QED BY <1>1, <1>2, <1>3, <1>4 DEF Of, Opens

\* A listing that shows the scratch of an open session shows that its process
\* lives; the process that asks holds its own.
LEMMA ScratchHeld ==
  ASSUME Records, Owners, NEW p \in living, mem[p].ledger.scratch \in dirs,
         NEW q, NEW list, AllOf(list), NEW t, t # mem[p].session,
         list[mem[p].session].scratch = mem[p].ledger.scratch \/ q = p
  PROVE  mem[p].ledger.scratch \in HeldDirs(q, list, t)
<1> DEFINE s == mem[p].session
           x == mem[p].ledger.scratch
<1>1. s \in SessionIds /\ x \in Dirs /\ made[x].by = p /\ s # "none"
  BY OpenScratch, NamesAssumption
<1>2. CASE list[s].scratch = x
  <2>1. IsLive(list[s])
    BY <1>1, <1>2 DEF AllOf, Of, IsLive
  <2> QED BY <1>1, <1>2, <2>1 DEF HeldDirs
<1>3. CASE q = p
  BY <1>1, <1>3 DEF HeldDirs
<1> QED BY <1>2, <1>3

\* A removal for a session that q alone has open, or that ended, after a listing.
LEMMA HandlerKeeps ==
  ASSUME Records, Owners, NEW q \in living, Handles(q), AllOf(job[q].list),
         NEW t, NEW d, NEW arts, NEW held, HeldDirs(q, job[q].list, t) \subseteq held,
         NEW gone \in Removals(q, d, arts, held), Delete(gone),
         NEW p \in living, mem[p].ledger.scratch \in dirs \ dirs', t # mem[p].session
  PROVE  q # p /\ Outdated(q, mem[p].session, mem[p].ledger.scratch)
<1>1. mem[p].ledger.scratch \in gone.dirs
  BY DEF Delete
<1>2. mem[p].ledger.scratch \notin held
  BY <1>1, HeldStays
<1> QED BY <1>2, ScratchHeld DEF Outdated

LEMMA RecordKeeps ==
  ASSUME Records, Owners, NEW q \in Shells, Record(q) PROVE LiveScratchKept
<1>1. CASE UNCHANGED <<dirs, present>>
  BY <1>1, CalmScratch
<1>2. CASE ~UNCHANGED <<dirs, present>>
  <2>1. PICK t, d, arts, held :
          /\ q \in living /\ t \in SessionIds /\ mem[q] = NoSession /\ Opens(q).session = t
          /\ job[q] # Idle /\ job'[q] # job[q] /\ AllOf(job[q].list)
          /\ HeldDirs(q, job[q].list, t) \subseteq held
          /\ \E gone \in Removals(q, d, arts, held) : Delete(gone)
    <3>1. PICK j : j = job[q]
      OBVIOUS
    <3>2. /\ q \in living /\ j.session \in SessionIds /\ mem[q] = NoSession /\ Opens(q).session = j.session
          /\ j # Idle /\ job'[q] # job[q] /\ AllOf(j.list)
          /\ \E gone \in Removals(q, j.previous.scratch, j.ledger.arts,
                                  HeldDirs(q, j.list, j.session) \cup {j.ledger.scratch}) : Delete(gone)
      BY <1>2, <3>1, RecordDoes
    <3>3. HeldDirs(q, j.list, j.session) \subseteq HeldDirs(q, j.list, j.session) \cup {j.ledger.scratch}
      OBVIOUS
    <3> QED BY <3>1, <3>2, <3>3
  <2> SUFFICES ASSUME NEW p \in living, mem[p].ledger.scratch \in dirs \ dirs'
               PROVE  q # p /\ Outdated(q, mem[p].session, mem[p].ledger.scratch)
    BY <2>1 DEF LiveScratchKept
  <2>2. mem[p] # NoSession /\ Opens(p).session = mem[p].session /\ p \in Shells
    BY OpenScratch
  <2>3. t # mem[p].session
    BY <2>1, <2>2, NamesAssumption DEF Owners, Once
  <2>4. Handles(q)
    BY <2>1 DEF Handles
  <2> QED BY <2>1, <2>3, <2>4, HandlerKeeps
<1> QED BY <1>1, <1>2

LEMMA SweepKeeps ==
  ASSUME Records, Owners, NEW q \in Shells, Sweep(q) PROVE LiveScratchKept
<1>1. CASE UNCHANGED <<dirs, present, ledgers, clobbered>>
  BY <1>1, CalmScratch
<1>2. CASE ~UNCHANGED <<dirs, present, ledgers, clobbered>>
  <2>1. PICK t, gone :
          /\ t \in job[q].todo
          /\ q \in living /\ job[q] # Idle /\ job'[q] # job[q] /\ AllOf(job[q].list)
          /\ mem[q].session \notin job[q].todo /\ t \in SessionIds /\ ~IsLive(job[q].list[t])
          /\ gone \in Removals(q, job[q].list[t].scratch, job[q].list[t].arts \cap present,
                               HeldDirs(q, job[q].list, t))
          /\ Delete(gone)
    BY <1>2, SweepDoes
  <2> SUFFICES ASSUME NEW p \in living, mem[p].ledger.scratch \in dirs \ dirs'
               PROVE  q # p /\ Outdated(q, mem[p].session, mem[p].ledger.scratch)
    BY <2>1 DEF LiveScratchKept
  <2>2. Handles(q)
    BY <2>1 DEF Handles
  <2>3. CASE t # mem[p].session
    BY <2>1, <2>2, <2>3, HandlerKeeps
  <2>4. CASE t = mem[p].session
    <3>1. made[mem[p].ledger.scratch].by = p /\ mem[p].ledger.scratch \in Dirs
      BY OpenScratch
    <3>2. job[q].list[t].scratch # mem[p].ledger.scratch
      BY <2>1, <3>1 DEF AllOf, Of, IsLive
    <3> QED BY <2>1, <2>2, <2>4, <3>2 DEF Outdated
  <2> QED BY <2>3, <2>4
<1> QED BY <1>1, <1>2

LEMMA EndKeeps ==
  ASSUME IInv, Owners, NEW q \in Shells, End(q) PROVE LiveScratchKept
<1>1. PICK t, d, arts, gone :
        /\ q \in living /\ t \in SessionIds /\ Opens(q).session = t
        /\ job[q].at = "ending" /\ job'[q] # job[q] /\ AllOf(job[q].list)
        /\ gone \in Removals(q, d, arts, HeldDirs(q, job[q].list, t)) /\ Delete(gone)
  BY EndDoes
<1>2. Handles(q) /\ Records
  BY <1>1 DEF Handles, Idle, IInv
<1> SUFFICES ASSUME NEW p \in living, mem[p].ledger.scratch \in dirs \ dirs',
                    ~(job[p].at = "ending" /\ Handles(p))
             PROVE  q # p /\ Outdated(q, mem[p].session, mem[p].ledger.scratch)
  BY <1>1 DEF LiveScratchKept
<1>3. q # p
  BY <1>1, <1>2
<1>4. t # mem[p].session
  <2>1. Opens(p).session = mem[p].session /\ p \in Shells
    BY <1>2, OpenScratch
  <2> QED BY <1>1, <1>3, <2>1, NamesAssumption DEF Owners, Once
<1> QED BY <1>1, <1>2, <1>4, HandlerKeeps

\* No scratch that p made holds the one its session has.
LEMMA EntriesOutside ==
  ASSUME Records, Owners, NEW x \in Dirs \ Unmade, NEW p, made[x].by = p,
         NEW d \in Dirs, made[d].by = p, NEW e \in Dirs, under[e] = d
  PROVE  ~Within(x, e)
<1>1. PICK s \in SUBSET ((Dirs \ Unmade) \cup {"root"}) :
        /\ under[x] \in s
        /\ \A z \in s : Outer(z) \in s /\ (z \in Dirs => made[z].by # p)
  BY DEF Owners, DirsOutside, Outside
<1>2. Outer(x) = under[x] /\ Outer(e) = d
  BY DEF Outer
<1> QED BY <1>1, <1>2 DEF Within

LEMMA CleanScratchKeeps ==
  ASSUME Records, Owners, NEW q \in Shells, CleanScratch(q) PROVE LiveScratchKept
<1>0. PICK c : c = cleaning[q]
  OBVIOUS
<1>1. /\ q \in living /\ c # Idle /\ cleaning'[q] # c /\ job' = job
      /\ Of(c.mine, c.session) /\ c.session \in SessionIds /\ AllOf(c.list)
  BY <1>0, CleanScratchDoes
<1>2. Cleans(q)
  BY <1>0, <1>1 DEF Cleans
<1> SUFFICES ASSUME NEW p \in living, NEW x, x = mem[p].ledger.scratch, x \in dirs \ dirs',
                    NEW s, s = mem[p].session
             PROVE  (q # p /\ Outdated(q, s, x)) \/ Former(q, s)
  BY <1>1 DEF LiveScratchKept
<1>3. /\ p \in Shells /\ s \in SessionIds /\ mem[p] # NoSession /\ s # "none"
      /\ x \in Dirs \ Unmade /\ made[x].by = p /\ made[x].session = s
      /\ Opens(p) = [session |-> s, scratch |-> x]
  BY OpenScratch, NamesAssumption
<1>4. ASSUME NEW t, t # s, x \notin HeldDirs(q, c.list, t) PROVE q # p /\ Outdated(q, s, x)
  BY <1>0, <1>1, <1>2, <1>4, ScratchHeld DEF Outdated
<1>5. ASSUME Mine(q).scratch \in dirs, NEW old \in {[dirs |-> {}, arts |-> {}], c.old},
             Delete(Emptied(q, Mine(q).scratch, Mine(q).arts, HeldDirs(q, c.list, c.session), old))
      PROVE  q # p /\ Outdated(q, s, x)
  <2>1. x \in Emptied(q, Mine(q).scratch, Mine(q).arts, HeldDirs(q, c.list, c.session), old).dirs
    BY <1>5 DEF Delete
  <2>2. CASE c.session # s
    BY <1>4, <2>1, <2>2, HeldStays
  <2>3. CASE c.session = s /\ q = p
    <3>1. made[Mine(q).scratch].by = p /\ Mine(q).scratch \in Dirs
      <4>1. Mine(q).scratch \in Dirs
        BY <1>5, DirsAreDirs
      <4>2. CASE c.own
        BY <1>0, <1>3, <2>3, <4>2 DEF Mine
      <4>3. CASE ~c.own
        <5>1. c.mine.scratch \in Dirs => c.mine.pid = q
          BY <1>0, <1>1 DEF Owners, Own, Cleaned
        <5> QED BY <1>0, <1>1, <2>3, <4>1, <4>3, <5>1 DEF Mine, Of
      <4> QED BY <4>1, <4>2, <4>3
    <3>2. PICK e \in dirs : under[e] = Mine(q).scratch /\ Within(x, e)
      BY <2>1 DEF Emptied
    <3> QED BY <1>3, <3>1, <3>2, DirsAreDirs, EntriesOutside
  <2>4. CASE c.session = s /\ q # p
    <3>1. ~c.own
      <4>1. c.own => mem[q].session = s /\ mem[q] # NoSession
        BY <1>0, <1>1, <1>3, <2>4 DEF Owners, Own, Cleaned, NoSession
      <4>2. c.own => Opens(q).session = s
        BY <4>1 DEF Opens, Owners, Own, Begun
      <4> QED BY <1>3, <2>4, <4>2 DEF Owners, Once
    <3>2. x \notin c.old.dirs
      BY <1>0, <1>1, <1>3, <2>4 DEF Owners, OldKnown
    <3>3. x \notin old.dirs
      BY <3>2
    <3> QED BY <2>1, <3>3 DEF Emptied
  <2> QED BY <2>2, <2>3, <2>4
<1>6. ASSUME NEW t \in DOMAIN c.others,
             NEW gone \in Removals(q, c.others[t].scratch, c.others[t].arts, HeldDirs(q, c.list, t)),
             Delete(gone)
      PROVE  (q # p /\ Outdated(q, s, x)) \/ Former(q, s)
  <2>1. x \in gone.dirs
    BY <1>6 DEF Delete
  <2>2. CASE t = s
    BY <1>0, <1>2, <2>2 DEF Former
  <2>3. CASE t # s
    BY <1>4, <2>1, <2>3, HeldStays
  <2> QED BY <2>2, <2>3
<1> QED BY <1>0, <1>5, <1>6, CleanScratchDoes

LEMMA ScratchStep == ASSUME IInv, Owners, [ScratchNext]_scratchVars PROVE LiveScratchKept
<1>0. Records
  BY DEF IInv
<1>1. ASSUME NEW p \in Shells, Record(p) \/ Sweep(p) \/ End(p) \/ CleanScratch(p) PROVE LiveScratchKept
  BY <1>0, <1>1, RecordKeeps, SweepKeeps, EndKeeps, CleanScratchKeeps
<1>2. ASSUME NEW p \in Shells,
             \/ Launch(p) \/ EndList(p) \/ Exit(p) \/ Subagent(p) \/ SubagentEnds(p) \/ Capture(p)
             \/ Written(p) \/ CleanBegin(p) \/ CleanArtifact(p) \/ CleanList(p) \/ CleanPersist(p)
             \/ \E s \in SessionIds, reload \in BOOLEAN : BeginSession(p, s, reload)
      PROVE  dirs \subseteq dirs'
  BY <1>2 DEF Launch, EndList, Exit, Subagent, SubagentEnds, Capture, Written, CleanBegin,
              CleanArtifact, CleanList, CleanPersist, BeginSession
<1>3. ASSUME NEW a \in present, Vanish(a) PROVE dirs \subseteq dirs'
  BY <1>3 DEF Vanish
<1>4. CASE UNCHANGED scratchVars
  BY <1>4, CalmScratch DEF scratchVars
<1> QED BY <1>1, <1>2, <1>3, <1>4, CalmScratch DEF ScratchNext

\* What other processes, sweeps and cleans never take from a live session: its
\* scratch directory, the record of an artifact that exists, and an artifact that
\* did not pass its own checks; the exceptions the property names apart.
THEOREM RemovalsAreHeld == ScratchSpec => RemovalsHeld
<1>1. IInv /\ Owners /\ [ScratchNext]_scratchVars
        => [LiveScratchKept /\ ArtifactsListed /\ OwnChecksOnly]_scratchVars
  BY ScratchStep, ListsStep, ChecksStep
<1> QED BY <1>1, OwnersKept, PTL DEF ScratchSpec, RemovalsHeld
=============================================================================
