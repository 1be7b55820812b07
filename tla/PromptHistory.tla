---------------------------- MODULE PromptHistory ----------------------------
(***************************************************************************)
(* The prompt history of one project, extensions/history/store.ts and      *)
(* hide-prompts.ts: append-only files shared by instances of Pi, without a *)
(* lock.  Each instance appends to a file of its own; a delete rewrites    *)
(* every file that holds the prompt, a compaction merges old files.  An    *)
(* instance runs one call at a time, and other instances, or its death,    *)
(* may come between any two steps of it.                                   *)
(*                                                                         *)
(* A file name leads to an inode; a descriptor keeps an inode readable     *)
(* after its name is gone.  Appending by path is two steps, open and       *)
(* write.  Lines are whole: the prompt.  The order of the lines that a     *)
(* rewrite keeps is left out.                                              *)
(***************************************************************************)
EXTENDS Naturals, SequencesExt

CONSTANTS
  Instances,
  Prompts,
  Files,      \* the files at the start: a sequence of names and their lines
  CallSets,   \* bound: sets of calls <<instance, kind, number>>, one set is tried
  MaxMishaps  \* bound: I/O errors and deaths

\* No two files share a name; a name with the process and the time of a call is
\* taken by that call only.
ASSUME FilesAssumption ==
  /\ Files \in Seq([name : {Files[i].name : i \in DOMAIN Files}, lines : Seq(Prompts)])
  /\ \A i, j \in DOMAIN Files : Files[i].name = Files[j].name => i = j
  /\ \A i \in DOMAIN Files : Files[i].name[1] \notin {"compact", "claim"}

VARIABLES
  links,      \* the project's directory: names to inodes
  data,       \* inodes to lines
  hidden,     \* hidden.json
  proc,       \* what each instance does
  put,        \* the late lines that an instance has read, and is to append
  calls,      \* the calls still to come
  mishaps,    \* errors and deaths so far
  captured,   \* prompts whose line was written
  doomed,     \* prompts a user began to delete
  unlucky,    \* prompts whose line was written to, or left in, an inode nobody
              \* reads again (see NothingLost)
  replaced    \* prompts in a file that was replaced unread

historyVars ==
  <<links, data, hidden, proc, put, calls, mishaps, captured, doomed, unlucky, replaced>>

Own(p) == <<"own", p>>                \* sessionFilePath()
Sibling(n, call) == <<"carry", n, call>>
Claimed(n, call) == <<"claim", n, call>>
Compacted(call) == <<"compact", call>>
AtRest == [pc |-> "idle"]
NoPut == [upto |-> 0]

Lines(i) == Range(data[i])
Linked == {links[n] : n \in DOMAIN links}
OnDisk == UNION {Lines(i) : i \in Linked}

\* The replaced or removed files of which a rewrite has yet to read the late lines.
Draining(p) == proc[p].pc \in {"carry", "drain"}
Held == {proc[p].of : p \in {q \in Instances : Draining(q) /\ put[q] = NoPut}}
Late(of) == SubSeq(data[of.fd], of.seen + 1, Len(data[of.fd]))

HistoryInit ==
  /\ links = [n \in {Files[i].name : i \in DOMAIN Files} |->
                CHOOSE i \in DOMAIN Files : Files[i].name = n]
  /\ data = [i \in DOMAIN Files |-> Files[i].lines]
  /\ hidden = {}
  /\ proc = [p \in Instances |-> AtRest]
  /\ put = [p \in Instances |-> NoPut]
  /\ calls \in CallSets
  /\ mishaps = 0
  /\ captured = UNION {Range(Files[i].lines) : i \in DOMAIN Files}
  /\ doomed = {}
  /\ unlucky = {}
  /\ replaced = {}

Goes(p, r) == proc' = [proc EXCEPT ![p] = r]
At(p, pc) == proc[p].pc = pc
Starts(p, kind, call) ==
  At(p, "idle") /\ call \in calls /\ call[1] = p /\ call[2] = kind /\ calls' = calls \ {call}
Fails == mishaps < MaxMishaps /\ mishaps' = mishaps + 1

\* The directory l with the name n for the inode i.
Named(n, i, l) == [m \in DOMAIN l \cup {n} |-> IF m = n THEN i ELSE l[m]]

\* A new file takes the name.
PutFile(n, lines) ==
  /\ data' = Append(data, lines)
  /\ links' = Named(n, Len(data) + 1, links)

Without(n) == [m \in DOMAIN links \ {n} |-> links[m]]
\* The next of the listed files, or of the claims: some fixed order.
Following(S) == CHOOSE x \in S : TRUE
\* The lines of a set of prompts, but for those of the keys.
Visible(lines, keys) == SetToSeq(lines \ keys)

----------------------------------------------------------------------------
(* appendSessionCapture().                                                 *)

CaptureOpen(p) ==
  /\ \E call \in calls : Starts(p, "capture", call)
  /\ \E k \in Prompts \ captured :
       /\ \A q \in Instances : At(q, "write") => proc[q].line # k
       /\ IF Own(p) \in DOMAIN links THEN UNCHANGED <<links, data>> ELSE PutFile(Own(p), <<>>)
       /\ Goes(p, [pc |-> "write", fd |-> links'[Own(p)], line |-> k])
  /\ UNCHANGED <<hidden, put, mishaps, captured, doomed, unlucky, replaced>>

CaptureWrite(p) ==
  /\ At(p, "write")
  /\ LET me == proc[p] IN
     /\ data' = [data EXCEPT ![me.fd] = Append(@, me.line)]
     /\ captured' = captured \cup {me.line}
     /\ unlucky' = IF me.fd \in Linked \cup {h.fd : h \in Held} THEN unlucky
                   ELSE unlucky \cup {me.line}
  /\ Goes(p, AtRest)
  /\ UNCHANGED <<links, hidden, put, calls, mishaps, doomed, replaced>>

----------------------------------------------------------------------------
(* The delete of the selector: sweepFiles(), then hidePrompt().            *)

Deleting(call, key, todo, found) ==
  [pc |-> "sweep", call |-> call, key |-> key, todo |-> todo, found |-> found]

DeletePrompt(p) ==
  /\ \E call \in calls, k \in OnDisk \ hidden :
       /\ Starts(p, "delete", call)
       /\ doomed' = doomed \cup {k}
       /\ Goes(p, Deleting(call, k, DOMAIN links, FALSE))
  /\ UNCHANGED <<links, data, hidden, put, mishaps, captured, unlucky, replaced>>

\* sweepFile() opens and reads the next file; one that is gone holds nothing.
SweepRead(p) ==
  /\ At(p, "sweep")
  /\ proc[p].todo # {}
  /\ LET me == proc[p]
         n == Following(me.todo)
         rest == me.todo \ {n} IN
       \/ /\ IF n \in DOMAIN links /\ me.key \in Lines(links[n])
             THEN Goes(p, [pc |-> "replace", call |-> me.call, key |-> me.key, todo |-> rest,
                           of |-> [name |-> n, fd |-> links[n], seen |-> Len(data[links[n]])]])
             ELSE Goes(p, Deleting(me.call, me.key, rest, me.found))
          /\ UNCHANGED mishaps
       \/ Fails /\ Goes(p, Deleting(me.call, me.key, rest, TRUE))
  /\ UNCHANGED <<links, data, hidden, put, calls, captured, doomed, unlucky, replaced>>

NextFile(p) == Goes(p, Deleting(proc[p].call, proc[p].key, proc[p].todo, TRUE))

\* The kept lines replace the file, whatever it is by now.
SweepReplace(p) ==
  /\ At(p, "replace")
  /\ LET me == proc[p]
         of == me.of IN
     \/ /\ PutFile(of.name, Visible(Range(SubSeq(data[of.fd], 1, of.seen)), {me.key}))
        /\ replaced' = IF of.name \in DOMAIN links /\ links[of.name] # of.fd
                       THEN replaced \cup Lines(links[of.name]) ELSE replaced
        /\ Goes(p, [pc |-> "carry", call |-> me.call, key |-> me.key, todo |-> me.todo, of |-> of])
        /\ UNCHANGED mishaps
     \/ Fails /\ NextFile(p) /\ UNCHANGED <<links, data, replaced>>
  /\ UNCHANGED <<hidden, put, calls, captured, doomed, unlucky>>

\* The files are done.  hidePrompt() reads hidden.json, unless nothing was found.
HideRead(p) ==
  /\ At(p, "sweep")
  /\ proc[p].todo = {}
  /\ Goes(p, IF proc[p].found THEN [pc |-> "hide", key |-> proc[p].key, keys |-> hidden]
             ELSE AtRest)
  /\ UNCHANGED <<links, data, hidden, put, calls, mishaps, captured, doomed, unlucky, replaced>>

HideWrite(p) ==
  /\ At(p, "hide")
  /\ \/ hidden' = proc[p].keys \cup {proc[p].key} /\ UNCHANGED mishaps
     \/ Fails /\ UNCHANGED hidden
  /\ Goes(p, AtRest)
  /\ UNCHANGED <<links, data, put, calls, captured, doomed, unlucky, replaced>>

----------------------------------------------------------------------------
(* gcProjectDir() at a session's shutdown.                                 *)

Opening(call, todo, keys, claims) ==
  [pc |-> "open", call |-> call, todo |-> todo, keys |-> keys, claims |-> claims]

\* Two or more files that are not the newest, not the instance's own.
Compact(p) ==
  /\ \E call \in calls, tail \in SUBSET (DOMAIN links \ {Own(p)}) :
       /\ Starts(p, "compact", call)
       /\ \E n, m \in tail : n # m
       /\ Goes(p, Opening(call, tail, hidden, {}))
  /\ UNCHANGED <<links, data, hidden, put, mishaps, captured, doomed, unlucky, replaced>>

\* claimFile() opens the file; one that cannot be opened is skipped.
ClaimOpen(p) ==
  /\ At(p, "open")
  /\ proc[p].todo # {}
  /\ LET me == proc[p]
         n == Following(me.todo)
         rest == me.todo \ {n} IN
       IF n \in DOMAIN links
       THEN Goes(p, [pc |-> "claim", call |-> me.call, todo |-> rest, keys |-> me.keys,
                     claims |-> me.claims, of |-> [name |-> n, fd |-> links[n], seen |-> 0]])
       ELSE Goes(p, Opening(me.call, rest, me.keys, me.claims))
  /\ UNCHANGED <<links, data, hidden, put, calls, mishaps, captured, doomed, unlucky, replaced>>

\* The rename fails when another instance moved the file, or with an error.
Claim(p) ==
  /\ At(p, "claim")
  /\ LET me == proc[p]
         n == me.of.name
         c == Claimed(n, me.call)
         Next(claims) == Goes(p, Opening(me.call, me.todo, me.keys, claims)) IN
     \/ /\ n \in DOMAIN links
        /\ links' = Named(c, links[n], Without(n))
        /\ Next(me.claims \cup {[me.of EXCEPT !.name = c]})
        /\ UNCHANGED mishaps
     \/ n \notin DOMAIN links /\ Next(me.claims) /\ UNCHANGED <<links, mishaps>>
     \/ n \in DOMAIN links /\ Fails /\ Next(me.claims) /\ UNCHANGED links
  /\ UNCHANGED <<data, hidden, put, calls, captured, doomed, unlucky, replaced>>

\* The next claim, or the end.
Merging(p, claims) ==
  Goes(p, IF claims = {} THEN AtRest
          ELSE [pc |-> "merge", call |-> proc[p].call, keys |-> proc[p].keys, claims |-> claims])

\* compactFiles(): the claims are read, and the merged file is published; an
\* error leaves every claim.
Merge(p) ==
  /\ At(p, "open")
  /\ proc[p].todo = {}
  /\ LET me == proc[p] IN
     \/ /\ me.claims # {}
        /\ PutFile(Compacted(me.call), Visible(UNION {Lines(c.fd) : c \in me.claims}, me.keys))
        /\ Merging(p, {[c EXCEPT !.seen = Len(data[c.fd])] : c \in me.claims})
        /\ UNCHANGED mishaps
     \/ me.claims = {} /\ Goes(p, AtRest) /\ UNCHANGED <<links, data, mishaps>>
     \/ me.claims # {} /\ Fails /\ Goes(p, AtRest) /\ UNCHANGED <<links, data>>
  /\ UNCHANGED <<hidden, put, calls, captured, doomed, unlucky, replaced>>

\* One claim c is left to be removed, or drained.
Removing(p, pc, c, claims) ==
  Goes(p, [pc |-> pc, call |-> proc[p].call, keys |-> proc[p].keys, claims |-> claims, of |-> c])

\* rmSync() of the claim; it throws when the claim is gone, or with an error.
RemoveClaim(p) ==
  /\ At(p, "remove")
  /\ LET me == proc[p]
         c == me.of IN
     \/ /\ c.name \in DOMAIN links
        /\ links' = Without(c.name)
        /\ replaced' = IF links[c.name] # c.fd THEN replaced \cup Lines(links[c.name])
                       ELSE replaced
        /\ Removing(p, "drain", c, me.claims)
        /\ UNCHANGED mishaps
     \/ /\ c.name \notin DOMAIN links
        /\ Merging(p, me.claims)
        /\ UNCHANGED <<links, mishaps, replaced>>
     \/ c.name \in DOMAIN links /\ Fails /\ Merging(p, me.claims) /\ UNCHANGED <<links, replaced>>
  /\ UNCHANGED <<data, hidden, put, calls, captured, doomed, unlucky>>

----------------------------------------------------------------------------
(* The late lines of a replaced or claimed file: carryIntoRewrite() of a   *)
(* delete ("carry"), carryCompleteLines() ("merge") and carryOver()        *)
(* ("drain") of a compaction.  They are read, then appended by path.       *)

Source(p) == IF At(p, "merge") THEN Following(proc[p].claims) ELSE proc[p].of
\* The lines that were read.
Raw(p) == SubSeq(data[Source(p).fd], Source(p).seen + 1, put[p].upto)
\* They go to the rewritten or merged file; when that fails, to a sibling or back
\* to the claim's name, which must be free.
Target(p) ==
  CASE At(p, "carry") /\ put[p].last -> Sibling(proc[p].of.name, proc[p].call)
    [] At(p, "carry") /\ ~put[p].last -> proc[p].of.name
    [] At(p, "drain") /\ put[p].last -> proc[p].of.name
    [] OTHER -> Compacted(proc[p].call)
Appended(p) ==
  IF At(p, "carry") \/ put[p].last THEN Raw(p) ELSE Visible(Range(Raw(p)), proc[p].keys)

Puts(p, r) == put' = [put EXCEPT ![p] = r]

\* The late lines are dealt with: the next file, or claim.
Settle(p, seen) ==
  CASE At(p, "carry") -> NextFile(p)
    [] At(p, "drain") -> Merging(p, proc[p].claims)
    [] At(p, "merge") -> Removing(p, "remove", [Source(p) EXCEPT !.seen = seen],
                                  proc[p].claims \ {Source(p)})

\* Mutant: what was appended to the replaced file is not carried over.
ReadLate_Drops(p) ==
  /\ proc[p].pc \in {"carry", "merge", "drain"}
  /\ put[p] = NoPut
  /\ IF Late(Source(p)) = <<>> \/ At(p, "carry")
     THEN Settle(p, Source(p).seen) /\ UNCHANGED put
     ELSE Puts(p, [upto |-> Len(data[Source(p).fd]), fd |-> 0, last |-> FALSE]) /\ UNCHANGED proc
  /\ UNCHANGED <<links, data, hidden, calls, mishaps, captured, doomed, unlucky, replaced>>

ReadLate(p) ==
  /\ proc[p].pc \in {"carry", "merge", "drain"}
  /\ put[p] = NoPut
  /\ IF Late(Source(p)) = <<>>
     THEN Settle(p, Source(p).seen) /\ UNCHANGED put
     ELSE Puts(p, [upto |-> Len(data[Source(p).fd]), fd |-> 0, last |-> FALSE]) /\ UNCHANGED proc
  /\ UNCHANGED <<links, data, hidden, calls, mishaps, captured, doomed, unlucky, replaced>>

\* The file is created when its name is gone.
OpenTarget(p) ==
  /\ put[p] # NoPut
  /\ put[p].fd = 0
  /\ LET n == Target(p) IN
     /\ IF n \in DOMAIN links THEN ~put[p].last /\ UNCHANGED <<links, data>> ELSE PutFile(n, <<>>)
     /\ Puts(p, [put[p] EXCEPT !.fd = links'[n]])
  /\ UNCHANGED <<hidden, proc, calls, mishaps, captured, doomed, unlucky, replaced>>

\* The lines go to the file that was opened, whatever became of its name.
WriteTarget(p) ==
  /\ put[p] # NoPut
  /\ put[p].fd # 0
  /\ LET i == put[p].fd IN
     /\ data' = [data EXCEPT ![i] = @ \o Appended(p)]
     /\ unlucky' = IF i \in Linked \cup {h.fd : h \in Held} THEN unlucky
                   ELSE unlucky \cup Range(Appended(p))
  /\ Settle(p, put[p].upto)
  /\ Puts(p, NoPut)
  /\ UNCHANGED <<links, hidden, calls, mishaps, captured, doomed, replaced>>

\* The append fails, at its open or its write: a claim that is still there stays.
AppendFails(p) ==
  /\ put[p] # NoPut
  /\ ~put[p].last
  /\ Fails
  /\ IF At(p, "merge") THEN Puts(p, NoPut) /\ Merging(p, proc[p].claims \ {Source(p)})
     ELSE Puts(p, [put[p] EXCEPT !.fd = 0, !.last = TRUE]) /\ UNCHANGED proc
  /\ UNCHANGED <<links, data, hidden, calls, captured, doomed, unlucky, replaced>>

\* The last resort fails too, or its name is taken.
GivesUp(p) ==
  /\ put[p] # NoPut
  /\ put[p].last
  /\ \/ Fails
     \/ put[p].fd = 0 /\ Target(p) \in DOMAIN links /\ UNCHANGED mishaps
  /\ unlucky' = unlucky \cup Range(Raw(p))
  /\ Settle(p, put[p].upto)
  /\ Puts(p, NoPut)
  /\ UNCHANGED <<links, data, hidden, calls, captured, doomed, replaced>>

\* What a rewrite under way will put back.
Promised(p) ==
  IF ~Draining(p) THEN {} ELSE Range(IF put[p] = NoPut THEN Late(proc[p].of) ELSE Raw(p))

----------------------------------------------------------------------------
\* The instance dies.  What only its memory, or its descriptor, still held is gone.
Dies(p) ==
  /\ ~At(p, "idle") /\ ~At(p, "dead")
  /\ Fails
  /\ unlucky' = unlucky \cup Promised(p)
  /\ Goes(p, [pc |-> "dead"])
  /\ Puts(p, NoPut)
  /\ UNCHANGED <<links, data, hidden, calls, captured, doomed, replaced>>

HistoryNext == \E p \in Instances :
  \/ CaptureOpen(p) \/ CaptureWrite(p)
  \/ DeletePrompt(p) \/ SweepRead(p) \/ SweepReplace(p) \/ HideRead(p) \/ HideWrite(p)
  \/ Compact(p) \/ ClaimOpen(p) \/ Claim(p) \/ Merge(p) \/ RemoveClaim(p)
  \/ ReadLate(p) \/ OpenTarget(p) \/ WriteTarget(p) \/ AppendFails(p) \/ GivesUp(p)
  \/ Dies(p)

HistorySpec == HistoryInit /\ [][HistoryNext]_historyVars

----------------------------------------------------------------------------
(* Properties.                                                             *)

\* What a reader finds, or a rewrite under way will put back.
Surviving == OnDisk \cup UNION {Promised(p) : p \in Instances}

\* However captures, deletes, compactions, errors and deaths interleave, a
\* prompt the user did not delete leaves the store in four ways only: its
\* capture had opened a file whose late lines were read, after it was replaced or
\* removed, before the write; a rewrite's own append had; a rewrite died before it
\* carried the late lines over, or could write them nowhere; or another rewrite
\* replaced the file that held it without having read it.
NothingLost == captured \ (doomed \cup unlucky \cup replaced) \subseteq Surviving

\* docs/prompt-history.md:279: prompts leave the store only through the delete
\* flow.  Left aside here are writes that come late, and deaths.
OnlyDeletesRemove == captured \ (doomed \cup unlucky) \subseteq Surviving
=============================================================================
