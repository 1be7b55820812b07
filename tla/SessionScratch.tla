---------------------------- MODULE SessionScratch ----------------------------
(***************************************************************************)
(* The scratch directory and the artifact ledger of a session:             *)
(* lib/session-scratch.ts and extensions/session-scratch.ts.  Processes    *)
(* share the ledger files and each other's directories, without a lock.  A *)
(* process started from the shell of a session inherits its TMPDIR, so its *)
(* own scratch lies in the one of that session.                            *)
(*                                                                         *)
(* The handlers of session_start and session_shutdown are synchronous: no  *)
(* other step of their process comes in between, but another process may   *)
(* act, or the process die, after each read of the ledgers.  clean awaits. *)
(* All temp roots lie outside the home.                                    *)
(***************************************************************************)
EXTENDS Naturals, Sequences, FiniteSetsExt

CONSTANTS
  Shells,      \* each is started once
  SessionIds,
  Dirs,        \* bound: the scratch directories that are made, one for each start
  MaxArtifacts, \* bound: how many clones and worktrees are made
  Cap,         \* LEDGER_ARTIFACTS_CAP
  Scenarios    \* bound: what each process may do or suffer: functions to subsets of
               \* {"nests", "dies", "fails", "reopens", "reloads", "makes", "delegates",
               \* "cleans"} and of the sessions it opens; one of them is tried

\* These stand for no process, no session and no scratch directory.
ASSUME NamesAssumption ==
  /\ {"none", "root", "unmade", "outside"} \cap Dirs = {}
  /\ "none" \notin Shells \cup SessionIds

VARIABLES
  roles,      \* the scenario
  started, living,
  ledgers,    \* the ledger file of each session
  under,      \* the directory each scratch was made in
  dirs,       \* the scratch directories that exist
  made,       \* who made a scratch, and whether a ledger has recorded it
  where,      \* the artifacts, numbered as they are made: where each was made
  present,    \* the artifacts that exist
  mem,        \* activeSessions: the ledger of the session of each process
  tmp,        \* TMPDIR of each process
  subs,       \* the directories in which a process holds a subagent's TMPDIR
  job,        \* a handler that is half way
  cleaning,   \* a clean that awaits
  writing,    \* a ledger on its way to its file
  forgotten,  \* directories that existed when a resumed session replaced their record
  clobbered   \* sessions whose ledger was overwritten unread

scratchVars == <<roles, started, living, ledgers, under, dirs, made, where, present, mem, tmp, subs,
                 job, cleaning, writing, forgotten, clobbered>>

NoLedger == [pid |-> "none", scratch |-> "none", arts |-> {}, root |-> "root"]
NoSession == [session |-> "none", ledger |-> NoLedger, base |-> NoLedger]
Idle == [at |-> "idle"]
Unread == [at |-> "unread"]

ScratchInit ==
  /\ roles \in Scenarios
  /\ started = {}
  /\ living = {}
  /\ ledgers = [s \in SessionIds |-> NoLedger]
  /\ under = [d \in Dirs |-> "unmade"]
  /\ dirs = {}
  /\ made = [d \in Dirs |-> [by |-> "none", session |-> "none", saved |-> FALSE]]
  /\ where = <<>>
  /\ present = {}
  /\ mem = [p \in Shells |-> NoSession]
  /\ tmp = [p \in Shells |-> "root"]
  /\ subs = [p \in Shells |-> {}]
  /\ job = [p \in Shells |-> Idle]
  /\ cleaning = [p \in Shells |-> Idle]
  /\ writing = [p \in Shells |-> Idle]
  /\ forgotten = {}
  /\ clobbered = {}

Free(p) == p \in living /\ job[p] = Idle

\* isLive(), where a pid that was reused is told by its start token.
IsLive(ledger) == ledger.pid \in living

Outer(x) == IF x \in Dirs THEN under[x] ELSE x
\* isWithin().  Directories nest three deep.
Within(x, d) == d \in {x, Outer(x), Outer(Outer(x))}

----------------------------------------------------------------------------
(* Removal.                                                                *)

\* heldBy(): what a removal through the ledger of s must keep beside its
\* artifacts.  The process that asks is live whatever the ledgers say.
HeldDirs(p, list, s) ==
  {list[t].scratch : t \in {t \in SessionIds \ {s} : IsLive(list[t])}}
    \cup (IF mem[p].session \notin {s, "none"} THEN {mem[p].ledger.scratch} ELSE {})

HoldsArtifact(x, arts, held) ==
  \/ \E a \in arts : Within(where[a], x)
  \/ \E d \in held : Within(d, x)

HoldsSubagent(p, x) == \E d \in subs[p] : Within(d, x)

\* What exists.
Existing == [dirs |-> dirs, arts |-> present]

\* The entries of d that go, with all they contain.  Only the entries in old may.
Emptied(p, d, arts, held, old) ==
  LET entries == {e \in dirs : under[e] = d}
      stays(e) == \/ HoldsArtifact(e, arts, held) \/ HoldsSubagent(p, e)
                  \/ \E x \in dirs : Within(x, e) /\ x \notin old.dirs
                  \/ \E a \in present : Within(where[a], e) /\ a \notin old.arts
      going == {x \in dirs : \E e \in entries : Within(x, e) /\ ~stays(e)} IN
  [outcome |-> "kept", dirs |-> going,
   arts |-> {a \in present : \/ where[a] \in going
                             \/ where[a] = d /\ a \in old.arts \ arts}]

Nothing(outcome) == [outcome |-> outcome, dirs |-> {}, arts |-> {}]

\* Mutant: a directory with a subagent's TMPDIR counts as removed.
Removal_SubagentIgnored(p, d, arts, held) ==
  IF d \notin dirs THEN Nothing("absent")
  ELSE IF HoldsArtifact(d, arts, held) THEN Nothing("kept")
  ELSE IF HoldsSubagent(p, d)
       THEN [Emptied(p, d, arts, held, Existing) EXCEPT !.outcome = "removed"]
  ELSE [outcome |-> "removed", dirs |-> {x \in dirs : Within(x, d)},
        arts |-> {a \in present : Within(where[a], d)}]

\* removeSessionScratch() of the directory d of a ledger with these artifacts.
Removal(p, d, arts, held) ==
  IF d \notin dirs THEN Nothing("absent")
  ELSE IF HoldsArtifact(d, arts, held) THEN Nothing("kept")
  ELSE IF HoldsSubagent(p, d) THEN Emptied(p, d, arts, held, Existing)
  ELSE [outcome |-> "removed", dirs |-> {x \in dirs : Within(x, d)},
        arts |-> {a \in present : Within(where[a], d)}]

\* What a removal may do: it may also fail.
Removals(p, d, arts, held) ==
  {Removal(p, d, arts, held)} \cup (IF "fails" \in roles[p] THEN {Nothing("refused")} ELSE {})

Delete(gone) ==
  /\ dirs' = dirs \ gone.dirs
  /\ present' = present \ gone.arts

\* The ledger once its scratch was tried.
Tried(ledger, gone) ==
  IF gone.outcome \in {"removed", "absent"} THEN [ledger EXCEPT !.scratch = "none"] ELSE ledger

\* persist(): the file is deleted when it would record nothing.
Content(ledger) ==
  IF ledger.scratch = "none" /\ ledger.arts = {} THEN NoLedger ELSE ledger

\* The file is written over what its writer took it to be, or unread.
Write(s, ledger, base) ==
  /\ ledgers' = [ledgers EXCEPT ![s] = Content(ledger)]
  /\ clobbered' = clobbered \cup IF ledgers[s] \in {base, Content(ledger)} THEN {} ELSE {s}

----------------------------------------------------------------------------
(* A session starts.                                                       *)

\* A clean and a write under way go on with the ledger they had.
Detach(p, ledger) ==
  /\ cleaning' = IF cleaning[p] # Idle /\ cleaning[p].own
                 THEN [cleaning EXCEPT ![p].own = FALSE, ![p].mine = ledger] ELSE cleaning
  /\ writing' = IF writing[p] # Idle
                THEN [writing EXCEPT ![p].own = FALSE, ![p].base = Unread] ELSE writing

\* isLiveScratch()
Recoverable(p, ledger) ==
  ledger.pid = p /\ ledger.scratch \in dirs /\ Within(tmp[p], ledger.scratch)

\* Where the new scratch is made.
InheritedRoot(p, previous, reload) ==
  IF reload /\ previous.pid = p THEN previous.root
  ELSE IF reload THEN Outer(tmp[p])
  ELSE tmp[p]

Unmade == {d \in Dirs : under[d] = "unmade"}

Sweeping(s, list) ==
  LET todo == {t \in SessionIds \ {s} : list[t] # NoLedger} IN
  IF todo = {} THEN Idle ELSE [at |-> "sweeping", list |-> list, todo |-> todo]

Launch(p) ==
  /\ p \in DOMAIN roles \ started
  /\ started' = started \cup {p}
  /\ living' = living \cup {p}
  /\ tmp' \in {[tmp EXCEPT ![p] = r] :
                 r \in IF "nests" \in roles[p] THEN {tmp[q] : q \in living} ELSE {"root"}}
  /\ UNCHANGED <<roles, ledgers, under, dirs, made, where, present, mem, subs, job, cleaning,
                 writing, forgotten, clobbered>>

\* startSession() up to the new scratch, or with the one it recovers.  A reload
\* finds the module's state gone.  A session is open in one process at a time.
BeginSession(p, s, reload) ==
  /\ Free(p)
  /\ mem[p].session = IF reload THEN s ELSE "none"
  /\ s \in roles[p]
  /\ reload => "reloads" \in roles[p]
  /\ \A q \in living \ {p} : s \notin {mem[q].session} \cup (IF job[q].at = "resuming"
                                                       THEN {job[q].session} ELSE {})
  /\ Detach(p, mem[p].ledger)
  /\ LET previous == ledgers[s]
         root == InheritedRoot(p, previous, reload) IN
     \/ /\ Recoverable(p, previous)
        /\ mem' = [mem EXCEPT ![p] = [session |-> s, ledger |-> previous, base |-> previous]]
        /\ job' = [job EXCEPT ![p] = Sweeping(s, ledgers)]
        /\ UNCHANGED <<under, dirs, made, tmp>>
     \/ /\ ~Recoverable(p, previous)
        /\ Unmade # {}
        /\ "reopens" \in roles[p] \/ \A d \in Dirs : made[d].by # p
        /\ LET d == IF root \in dirs \cup {"root"} THEN CHOOSE d \in Unmade : TRUE ELSE "none" IN
             /\ mem' = [mem EXCEPT ![p] = NoSession]
             /\ job' = [job EXCEPT ![p] =
                  [at |-> "resuming", session |-> s, previous |-> previous, list |-> ledgers,
                   ledger |-> [pid |-> p, scratch |-> d, arts |-> previous.arts, root |-> root]]]
             /\ tmp' = [tmp EXCEPT ![p] = IF d = "none" THEN root ELSE d]
             /\ IF d = "none" THEN UNCHANGED <<under, dirs, made>>
                ELSE /\ under' = [under EXCEPT ![d] = root]
                     /\ dirs' = dirs \cup {d}
                     /\ made' = [made EXCEPT ![d] = [by |-> p, session |-> s, saved |-> FALSE]]
  /\ UNCHANGED <<roles, started, living, ledgers, where, present, subs, forgotten, clobbered>>

\* The scratch an ended process left goes, unless it is in use; the new ledger
\* replaces its record in any case.
Record(p) ==
  /\ p \in living
  /\ job[p].at = "resuming"
  /\ LET s == job[p].session
         ledger == job[p].ledger
         old == job[p].previous IN
     /\ \E gone \in IF old.scratch # "none" /\ old.pid # p /\ ~IsLive(old)
                    THEN Removals(p, old.scratch, ledger.arts,
                                  HeldDirs(p, job[p].list, s) \cup {ledger.scratch})
                    ELSE {Nothing("kept")} :
          /\ Delete(gone)
          /\ forgotten' = forgotten \cup ({old.scratch} \cap dirs')
     /\ Write(s, ledger, old)
     /\ mem' = [mem EXCEPT ![p] = [session |-> s, ledger |-> ledger, base |-> Content(ledger)]]
     /\ job' = [job EXCEPT ![p] = Sweeping(s, ledgers')]
     /\ made' = IF ledger.scratch = "none" THEN made
                ELSE [made EXCEPT ![ledger.scratch].saved = TRUE]
  /\ UNCHANGED <<roles, started, living, under, where, tmp, subs, cleaning, writing>>

\* Mutant: the sweep takes every other ledger for one of an ended session.
Sweepable_Any(ledger) == TRUE

Sweepable(ledger) == ~IsLive(ledger)

\* One ledger of the sweep: skipped, or past its grace period.
Sweep(p) ==
  /\ p \in living
  /\ job[p].at = "sweeping"
  /\ \E s \in job[p].todo :
       LET rest == job[p].todo \ {s}
           old == job[p].list[s]
           ledger == [old EXCEPT !.arts = @ \cap present] IN
       /\ job' = [job EXCEPT ![p] = IF rest = {} THEN Idle ELSE [@ EXCEPT !.todo = rest]]
       /\ \/ UNCHANGED <<dirs, present, ledgers, clobbered>>
          \/ /\ Sweepable(old)
             /\ \E gone \in Removals(p, old.scratch, ledger.arts, HeldDirs(p, job[p].list, s)) :
                  /\ Delete(gone)
                  /\ Write(s, Tried(ledger, gone), old)
  /\ UNCHANGED <<roles, started, living, under, made, where, mem, tmp, subs, cleaning, writing, forgotten>>

----------------------------------------------------------------------------
(* A session ends.                                                         *)

EndList(p) ==
  /\ Free(p)
  /\ mem[p] # NoSession
  /\ job' = [job EXCEPT ![p] = [at |-> "ending", list |-> ledgers]]
  /\ UNCHANGED <<roles, started, living, ledgers, under, dirs, made, where, present, mem, tmp, subs,
                 cleaning, writing, forgotten, clobbered>>

\* endSession()
End(p) ==
  /\ p \in living
  /\ job[p].at = "ending"
  /\ LET s == mem[p].session
         ledger == mem[p].ledger IN
     \E gone \in Removals(p, ledger.scratch, ledger.arts, HeldDirs(p, job[p].list, s)) :
       /\ Delete(gone)
       /\ Write(s, Tried(ledger, gone), mem[p].base)
       /\ Detach(p, Tried(ledger, gone))
       /\ tmp' = [tmp EXCEPT ![p] = ledger.root]
  /\ mem' = [mem EXCEPT ![p] = NoSession]
  /\ job' = [job EXCEPT ![p] = Idle]
  /\ UNCHANGED <<roles, started, living, under, made, where, subs, forgotten>>

\* The process ends, or dies in the middle of anything.
Exit(p) ==
  /\ p \in living
  /\ \/ "dies" \in roles[p]
     \/ Free(p) /\ mem[p] = NoSession
  /\ living' = living \ {p}
  /\ mem' = [mem EXCEPT ![p] = NoSession]
  /\ job' = [job EXCEPT ![p] = Idle]
  /\ cleaning' = [cleaning EXCEPT ![p] = Idle]
  /\ writing' = [writing EXCEPT ![p] = Idle]
  /\ subs' = [subs EXCEPT ![p] = {}]
  /\ UNCHANGED <<roles, started, ledgers, under, dirs, made, where, present, tmp, forgotten, clobbered>>

----------------------------------------------------------------------------
(* What a session makes.                                                   *)

\* holdSubagentScratch() and releaseSubagentScratch() of the runner: a subagent
\* in quarantine keeps its TMPDIR when the session ends.
Subagent(p) ==
  /\ Free(p)
  /\ "delegates" \in roles[p]
  /\ mem[p] # NoSession
  /\ tmp[p] \in dirs \ subs[p]
  /\ subs' = [subs EXCEPT ![p] = @ \cup {tmp[p]}]
  /\ UNCHANGED <<roles, started, living, ledgers, under, dirs, made, where, present, mem, tmp, job,
                 cleaning, writing, forgotten, clobbered>>

SubagentEnds(p) ==
  /\ Free(p)
  /\ \E d \in subs[p] : subs' = [subs EXCEPT ![p] = @ \ {d}]
  /\ UNCHANGED <<roles, started, living, ledgers, under, dirs, made, where, present, mem, tmp, job,
                 cleaning, writing, forgotten, clobbered>>

\* capture(): the newest artifacts are kept.  One write is under way at a time.
Capture(p) ==
  /\ Free(p)
  /\ "makes" \in roles[p]
  /\ mem[p] # NoSession
  /\ writing[p] = Idle
  /\ Len(where) < MaxArtifacts
  /\ \E place \in {"outside"} \cup ({tmp[p]} \cap dirs) : where' = Append(where, place)
  /\ LET a == Len(where) + 1
         all == mem[p].ledger.arts \cup {a}
         ledger == [mem[p].ledger EXCEPT
                      !.arts = IF Cardinality(all) > Cap THEN all \ {Min(all)} ELSE all] IN
     /\ present' = present \cup {a}
     /\ mem' = [mem EXCEPT ![p].ledger = ledger]
     /\ writing' = [writing EXCEPT ![p] =
          [at |-> "writing", session |-> mem[p].session, ledger |-> ledger,
           base |-> mem[p].base, own |-> TRUE]]
  /\ UNCHANGED <<roles, started, living, ledgers, under, dirs, made, tmp, subs, job, cleaning,
                 forgotten, clobbered>>

Written(p) ==
  /\ Free(p)
  /\ writing[p] # Idle
  /\ Write(writing[p].session, writing[p].ledger, writing[p].base)
  /\ mem' = IF writing[p].own THEN [mem EXCEPT ![p].base = Content(writing[p].ledger)] ELSE mem
  /\ writing' = [writing EXCEPT ![p] = Idle]
  /\ UNCHANGED <<roles, started, living, under, dirs, made, where, present, tmp, subs, job, cleaning,
                 forgotten>>

\* A user or a command removes an artifact.
Vanish(a) ==
  /\ a \in present
  /\ present' = present \ {a}
  /\ UNCHANGED <<roles, started, living, ledgers, under, dirs, made, where, mem, tmp, subs, job,
                 cleaning, writing, forgotten, clobbered>>

----------------------------------------------------------------------------
(* /gentle:scratch clean.                                                  *)

\* The ledger of the session the clean began in, which is the session's own
\* object as long as the session lasts.
Mine(p) == IF cleaning[p].own THEN mem[p].ledger ELSE cleaning[p].mine
Groups(c) == {c.session} \cup DOMAIN c.others
MyBase(p) == IF cleaning[p].own THEN mem[p].base ELSE Unread

\* The ledgers of ended sessions are read once; old is what existed before.
CleanBegin(p) ==
  /\ Free(p)
  /\ "cleans" \in roles[p]
  /\ cleaning[p] = Idle
  /\ mem[p] # NoSession
  /\ LET s == mem[p].session
         ended == {t \in SessionIds \ {s} : ledgers[t] # NoLedger /\ ~IsLive(ledgers[t])} IN
     cleaning' = [cleaning EXCEPT ![p] =
       [at |-> "artifacts", session |-> s, own |-> TRUE, mine |-> NoLedger,
        read |-> [t \in ended |-> ledgers[t]], others |-> [t \in ended |-> ledgers[t]],
        old |-> Existing, list |-> ledgers, todo |-> {}]]
  /\ UNCHANGED <<roles, started, living, ledgers, under, dirs, made, where, present, mem, tmp, subs,
                 job, writing, forgotten, clobbered>>

\* An artifact that is gone, or that passed its checks before and after the user
\* confirmed, is dropped from its group; any other is kept.
CleanArtifact(p) ==
  /\ Free(p)
  /\ cleaning[p].at = "artifacts"
  /\ \E a \in DOMAIN where :
       LET without(ledger) == [ledger EXCEPT !.arts = @ \ {a}] IN
       /\ present' = present \ {a}
       /\ \/ /\ a \in Mine(p).arts
             /\ IF cleaning[p].own
                THEN mem' = [mem EXCEPT ![p].ledger = without(@)] /\ UNCHANGED cleaning
                ELSE cleaning' = [cleaning EXCEPT ![p].mine = without(@)] /\ UNCHANGED mem
          \/ \E t \in DOMAIN cleaning[p].others :
               /\ a \in cleaning[p].others[t].arts
               /\ cleaning' = [cleaning EXCEPT ![p].others[t] = without(@)]
               /\ UNCHANGED mem
  /\ UNCHANGED <<roles, started, living, ledgers, under, dirs, made, where, tmp, subs, job, writing,
                 forgotten, clobbered>>

CleanList(p) ==
  /\ Free(p)
  /\ cleaning[p].at = "artifacts"
  /\ cleaning' = [cleaning EXCEPT ![p].at = "scratch", ![p].list = ledgers,
                                  ![p].todo = Groups(cleaning[p])]
  /\ UNCHANGED <<roles, started, living, ledgers, under, dirs, made, where, present, mem, tmp, subs,
                 job, writing, forgotten, clobbered>>

\* The scratch of each ended session goes, and the entries of the own one that
\* did not change in the last minute.
CleanScratch(p) ==
  /\ Free(p)
  /\ cleaning[p].at = "scratch"
  /\ LET c == cleaning[p]
         done(t, others) == [cleaning EXCEPT ![p] =
           IF c.todo = {t} THEN [@ EXCEPT !.at = "persist", !.others = others, !.todo = Groups(c)]
           ELSE [@ EXCEPT !.others = others, !.todo = c.todo \ {t}]] IN
     \/ /\ c.session \in c.todo
        /\ \E old \in {[dirs |-> {}, arts |-> {}], c.old} :
             Delete(IF Mine(p).scratch \in dirs
                    THEN Emptied(p, Mine(p).scratch, Mine(p).arts,
                                 HeldDirs(p, c.list, c.session), old)
                    ELSE Nothing("absent"))
        /\ cleaning' = done(c.session, c.others)
     \/ /\ c.session \notin c.todo
        /\ \E t \in c.todo :
           \E gone \in Removals(p, c.others[t].scratch, c.others[t].arts,
                                HeldDirs(p, c.list, t)) :
             /\ Delete(gone)
             /\ cleaning' = done(t, [c.others EXCEPT ![t] = Tried(@, gone)])
  /\ UNCHANGED <<roles, started, living, ledgers, under, made, where, mem, tmp, subs, job, writing,
                 forgotten, clobbered>>

\* Every group is written back, the own one first.
CleanPersist(p) ==
  /\ Free(p)
  /\ cleaning[p].at = "persist"
  /\ LET c == cleaning[p] IN
     \E t \in c.todo :
       /\ t = c.session \/ c.session \notin c.todo
       /\ IF t = c.session
          THEN /\ Write(t, Mine(p), MyBase(p))
               /\ mem' = IF c.own THEN [mem EXCEPT ![p].base = Content(Mine(p))] ELSE mem
          ELSE Write(t, c.others[t], c.read[t]) /\ UNCHANGED mem
       /\ cleaning' = [cleaning EXCEPT ![p] = IF c.todo = {t} THEN Idle
                                              ELSE [@ EXCEPT !.todo = c.todo \ {t}]]
  /\ UNCHANGED <<roles, started, living, under, dirs, made, where, present, tmp, subs, job, writing,
                 forgotten>>

ScratchNext ==
  \/ \E p \in Shells :
       \/ Launch(p) \/ Record(p) \/ Sweep(p) \/ EndList(p) \/ End(p) \/ Exit(p)
       \/ \E s \in SessionIds, reload \in BOOLEAN : BeginSession(p, s, reload)
       \/ Subagent(p) \/ SubagentEnds(p) \/ Capture(p) \/ Written(p)
       \/ CleanBegin(p) \/ CleanArtifact(p) \/ CleanList(p) \/ CleanScratch(p) \/ CleanPersist(p)
  \/ \E a \in present : Vanish(a)

ScratchSpec == ScratchInit /\ [][ScratchNext]_scratchVars

----------------------------------------------------------------------------
(* Properties.                                                             *)

\* A directory is in the ledger of its session, where the next sweep finds it,
\* but for three cases: its process died before it wrote the ledger, or is about
\* to write it; a resumed session replaced the record while the directory could
\* not go; or the ledger was overwritten unread, by a clean, a sweep or a late
\* write.
NoScratchForgotten ==
  \A d \in dirs :
    \/ ledgers[made[d].session].scratch = d
    \/ ~made[d].saved
    \/ d \in forgotten
    \/ made[d].session \in clobbered

\* A process that takes a step of a handler, or of a clean.
Handles(p) == job[p] # Idle /\ job'[p] # job[p]
Cleans(p) == cleaning[p] # Idle /\ cleaning'[p] # cleaning[p] /\ job'[p] = job[p]

\* It listed the ledger of s before that named the scratch d, or it cleans from a
\* ledger of s that it read when s had ended.
Outdated(p, s, d) ==
  \/ Handles(p) /\ job[p].list[s].scratch # d
  \/ Cleans(p) /\ cleaning[p].list[s].scratch # d
Former(p, s) == Cleans(p) /\ s \in DOMAIN cleaning[p].others

\* The scratch of an open session goes at its end only, nor does a directory around
\* it go, but for two ways in which the code breaks what docs/readme-reference.md
\* promises: another process acts on a listing that does not show it, made too early
\* or of a ledger overwritten unread (:739, see RecordedScratchHeld), or a clean removes
\* what a former run of the same session left, around it (:743).
LiveScratchKept ==
  \A p \in living :
    /\ mem[p].ledger.scratch \in dirs \ dirs'
    /\ ~(job[p].at = "ending" /\ Handles(p))
    => \E q \in living :
         \/ q # p /\ Outdated(q, mem[p].session, mem[p].ledger.scratch)
         \/ Former(q, mem[p].session)

\* docs/readme-reference.md:739: the scratch that the ledger of a live session records
\* "is never removed through another session's ledger, by the sweep or by `clean`, and
\* neither is a directory that holds one".
Sweeps(q) == job[q].at = "sweeping" /\ Handles(q)
Recorded(p) ==
  mem[p] # NoSession /\ mem[p].ledger.scratch \in {ledgers[mem[p].session].scratch} \cap dirs
RecordedScratchHeld ==
  [][\A p \in living : \A q \in Shells \ {p} :
       Recorded(p) /\ (Sweeps(q) \/ Cleans(q)) => mem[p].ledger.scratch \in dirs']_scratchVars

\* What the ledger lists, and the session as well if it is open: an artifact that
\* newer ones pushed out is no longer listed.
Listed(s) == {a \in ledgers[s].arts : \A p \in living : mem[p].session = s => a \in mem[p].ledger.arts}

\* An artifact stays listed until it is gone, unless the ledger is overwritten
\* unread.
ArtifactsListed ==
  \A s \in SessionIds :
    \A a \in Listed(s) \cap present' : a \in ledgers'[s].arts \/ s \in clobbered'

\* An artifact in the scratch of its session is removed through its own checks
\* only, unless that scratch lies in the one of another session, the ledger is
\* overwritten unread, or a clean outlived the session it began in.
OwnChecksOnly ==
  \A s \in SessionIds, p \in living :
    Handles(p) \/ (Cleans(p) /\ cleaning[p].at = "scratch") =>
      \A a \in Listed(s) \cap (present \ present') :
        where[a] \in Dirs /\ under[where[a]] = "root" /\ made[where[a]].session = s =>
          \/ s \in clobbered'
          \/ Cleans(p) /\ cleaning[p].session = s /\ ~cleaning[p].own

RemovalsHeld == [][LiveScratchKept /\ ArtifactsListed /\ OwnChecksOnly]_scratchVars
=============================================================================
