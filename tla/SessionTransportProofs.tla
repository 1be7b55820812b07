----------------------- MODULE SessionTransportProofs -----------------------
(***************************************************************************)
(* Proofs about SessionTransport, for every set of processes, sessions and *)
(* messages, all bounds and every scenario: messages enter the session and *)
(* the activation they were sent to, and presence records stay exactly as  *)
(* long as someone listens.                                                *)
(***************************************************************************)
EXTENDS SessionTransport, FiniteSetTheorems, WellFoundedInduction, TLAPS

Activation == [host : {Nobody} \union Hosts, session : {Nobody} \union SessionIds,
               step : {"none", "registry", "bind", "publish", "finish", "rollback", "over"},
               state : {"idle", "starting", "accepting", "active", "closed", "failed", "dead"},
               clean : {"no", "draining", "removing", "done"}, known : BOOLEAN,
               close : {"no", "aware", "blind", "ended"}, client : {"open", "closed"}]
Process == [session : {Nobody} \union SessionIds, bound : {0} \union Acts, gen : {0} \union Acts]
Exchange == [by : {0} \union Acts, to : {Nobody} \union SessionIds, pin : {0} \union Acts,
             step : {"unsent", "consent", "scan", "sweep", "connect", "sent", "over"},
             todo : SUBSET Acts, found : SUBSET Acts, swept : {"no", "removed"},
             target : {0} \union Acts,
             result : {"none", "busy", "failed", "lost", "refused", "timeout", "accepted"}]

Types ==
    /\ process \in [Hosts -> Process]
    /\ act \in [Acts -> Activation]
    /\ socket \in [Acts -> {"none", "listening", "gone", "dead"}]
    /\ files \subseteq Acts /\ misjudged \subseteq Acts
    /\ msg \in [Messages -> Exchange]
    /\ conn \in [Messages -> {"none", "backlog", "open", "accepted", "refused", "closed"}]
    /\ got \in [Messages -> SUBSET (Acts \X SessionIds)]
    /\ faults \in Nat

\* Activations are numbered in the order they start.
Numbered == Used = 1 .. Cardinality(Used)

\* The transport that a process has as its own is its own, and lives with it.
Hosted(h) == LET k == process[h].bound IN
    k # 0 => /\ act[k].host = h /\ act[k].state # "dead"
             /\ act[k].step \notin {"none", "registry"}

\* Activations whose record is, or was, or will never be in the directory.
Past == {k \in Acts : act[k].step \in {"finish", "rollback", "over"}}

\* How far the startup of an activation is, and the state of its listener.
Staged(k) == LET a == act[k] IN
    /\ a.step # "none" => a.host \in Hosts /\ a.session \in SessionIds
    /\ a.step \in {"none", "registry"} => a.state = "idle" /\ socket[k] # "listening"
    /\ a.state = "idle" => a.step \in {"none", "registry"}
    /\ a.state = "starting" => a.step \in {"bind", "rollback"}
    /\ a.state = "accepting" => a.step \in {"publish", "finish", "rollback"}
    /\ a.state \in {"active", "dead"} => a.step = "over"
    /\ a.state \in {"idle", "starting", "accepting", "active"} =>
         a.close = "no" /\ (a.step # "rollback" => a.clean = "no")
    /\ a.state \in {"accepting", "active"} /\ a.step # "rollback" => socket[k] = "listening"
    /\ a.clean = "no" /\ a.step # "over" => a.state \notin {"closed", "failed"}
    /\ socket[k] = "listening" => a.clean = "no"

\* What became of its record.  A fault is to blame for every one that outlives
\* an attempt to remove it.
Recorded(k) == LET a == act[k] IN
    /\ a.state = "active" \/ (a.state = "accepting" /\ a.step = "finish") =>
         k \in files \union misjudged
    /\ k \in files => k \in Past
    /\ a.known /\ a.step # "over" => faults >= 1
    /\ a.close = "aware" => a.known /\ (a.clean = "done" /\ k \in files => faults >= 1)
    /\ a.close = "blind" /\ a.step = "over" /\ k \in files => faults >= IF a.known THEN 2 ELSE 1
    /\ a.close = "ended" => /\ a.step = "over"
                            /\ k \in files => faults >= IF a.known THEN 2 ELSE 1

\* A connection is to the activation the user was shown, and it delivers its
\* message once.
Calls(m) == LET c == msg[m] IN
    /\ c.todo \subseteq Past /\ c.found \subseteq Past
    /\ c.target # 0 => c.target \in Past
    /\ c.step \in {"unsent", "consent", "scan", "sweep", "connect"} => conn[m] = "none"
    /\ c.step \in {"connect", "sent"} \/ conn[m] # "none" => c.target # 0 /\ c.pin \in {0, c.target}
    /\ got[m] = IF conn[m] = "accepted" THEN {<<c.target, c.to>>} ELSE {}
    /\ conn[m] = "accepted" => act[c.target].session = c.to
    /\ c.result = "accepted" => conn[m] = "accepted"
    /\ c.result = "refused" => faults > 0 \/ c.target \notin files

IInv ==
    /\ plan \in Plans
    /\ Types
    /\ Numbered
    /\ \A h \in Hosts : Hosted(h)
    /\ \A k \in Acts : Staged(k) /\ Recorded(k)
    /\ \A m \in Messages : Calls(m)

\* What no step undoes.
Kept ==
    /\ \A k \in Acts : act[k].step # "none" => /\ act'[k].host = act[k].host
                                             /\ act'[k].session = act[k].session
    /\ Past \subseteq Past'
    /\ files' \intersect Past \subseteq files
    /\ misjudged \subseteq misjudged'
    /\ faults' >= faults

----------------------------------------------------------------------------
\* A nonempty set of activations has a greatest one.
LEMMA Greatest ==
  ASSUME NEW n \in Nat, NEW S \in SUBSET (1 .. n), S # {}
  PROVE  Max(S) \in S
<1> DEFINE Above == {b \in Nat : \A y \in S : y <= b}
<1>1. n \in Above
  OBVIOUS
<1>2. PICK b \in Above : \A c \in Above : ~ (<<c, b>> \in OpToRel(<, Nat))
  BY <1>1, NatLessThanWellFounded, WFMin
<1>3. \A c \in Above : ~ (c < b)
  BY <1>2 DEF OpToRel
<1>4. b \in S
  <2> SUFFICES ASSUME b \notin S PROVE FALSE
    OBVIOUS
  <2>1. b - 1 \in Above
    <3>1. PICK y \in S : TRUE
      OBVIOUS
    <3>2. \A z \in S : z \in Nat /\ z # b /\ z <= b /\ z >= 1
      OBVIOUS
    <3> QED BY <3>1, <3>2
  <2> QED BY <2>1, <1>3
<1>5. \E x \in S : \A y \in S : x >= y
  BY <1>4
<1> QED BY <1>5 DEF Max

\* A call goes on as it was, or is settled; its connection is left, or destroyed.
LEMMA CallKept ==
  ASSUME IInv, Types', Kept, NEW m \in Messages, got'[m] = got[m],
         msg'[m] \in {msg[m], Over(msg[m], "failed"), Over(msg[m], "lost")},
         conn'[m] = conn[m] \/ (conn[m] \in {"backlog", "open"} /\ conn'[m] = "closed")
  PROVE  Calls(m)'
<1> USE DEF IInv
<1>1. /\ Calls(m) /\ faults \in Nat /\ faults' \in Nat
      /\ msg[m] \in Exchange
  BY DEF Types
<1>2. /\ msg'[m].target = msg[m].target /\ msg'[m].to = msg[m].to
      /\ msg'[m].pin = msg[m].pin
      /\ msg'[m].todo \subseteq msg[m].todo /\ msg'[m].found \subseteq msg[m].found
      /\ msg'[m].step \in {msg[m].step, "over"}
      /\ msg'[m].result \in {msg[m].result, "failed", "lost"}
  BY <1>1 DEF Over, Exchange
<1>3. msg[m].target \in Past => act'[msg[m].target].session = act[msg[m].target].session
  BY DEF Kept, Past
<1>4. /\ msg'[m].todo \subseteq Past' /\ msg'[m].found \subseteq Past'
      /\ msg'[m].target # 0 => msg'[m].target \in Past'
  BY <1>1, <1>2 DEF Kept, Calls
<1>5. msg'[m].result = "refused" => faults' > 0 \/ msg'[m].target \notin files'
  <2> SUFFICES ASSUME msg'[m].result = "refused", ~(faults' > 0) PROVE msg'[m].target \notin files'
    OBVIOUS
  <2>1. msg[m].result = "refused" /\ ~(faults > 0)
    BY <1>1, <1>2 DEF Kept
  <2>2. msg[m].target \notin files /\ (msg[m].target # 0 => msg[m].target \in Past)
    BY <1>1, <2>1 DEF Calls
  <2>3. 0 \notin files'
    BY DEF Types, Acts
  <2> QED BY <1>2, <2>2, <2>3 DEF Kept
<1>6. conn[m] = "accepted" => act[msg[m].target].session = msg[m].to /\ msg[m].target \in Past
  BY <1>1 DEF Calls
<1>7. got'[m] = IF conn'[m] = "accepted" THEN {<<msg'[m].target, msg'[m].to>>} ELSE {}
  <2>1. conn'[m] = "accepted" <=> conn[m] = "accepted"
    OBVIOUS
  <2> QED BY <1>1, <1>2, <2>1 DEF Calls
<1>8. conn'[m] = "accepted" => act'[msg'[m].target].session = msg'[m].to
  BY <1>2, <1>3, <1>6
<1>9. /\ msg'[m].step \in {"unsent", "consent", "scan", "sweep", "connect"} => conn'[m] = "none"
      /\ msg'[m].step \in {"connect", "sent"} \/ conn'[m] # "none" =>
           msg'[m].target # 0 /\ msg'[m].pin \in {0, msg'[m].target}
      /\ msg'[m].result = "accepted" => conn'[m] = "accepted"
  BY <1>1, <1>2 DEF Calls
<1> QED BY <1>4, <1>5, <1>7, <1>8, <1>9 DEF Calls

\* An activation that a step leaves alone, with or without its record.
LEMMA ActKept ==
  ASSUME IInv, Types', Kept, NEW k \in Acts, act'[k] = act[k], socket'[k] = socket[k],
         k \in files' => k \in files,
         k \in files /\ k \notin files' =>
            k \in misjudged' \/ socket[k] # "listening" \/ act[k].close # "no"
              \/ act[k].clean # "no" \/ act[k].step = "rollback"
  PROVE  Staged(k)' /\ Recorded(k)'
<1> USE DEF IInv
<1>1. /\ Staged(k) /\ Recorded(k) /\ faults \in Nat /\ faults' \in Nat
  BY DEF Types
<1>2. Staged(k)'
  BY <1>1 DEF Staged
<1>3. act[k].state = "active" \/ (act[k].state = "accepting" /\ act[k].step = "finish") =>
         k \in files' \union misjudged'
  BY <1>1 DEF Staged, Recorded, Kept
<1>4. k \in files' => k \in Past'
  BY <1>1 DEF Recorded, Kept
<1>5. Recorded(k)'
  BY <1>1, <1>3, <1>4 DEF Recorded, Kept
<1> QED BY <1>2, <1>5

\* The numbers stand as long as no activation begins.
LEMMA NumbersKept ==
  ASSUME IInv, \A k \in Acts : act'[k].step = "none" <=> act[k].step = "none"
  PROVE  Numbered'
<1>1. Used' = Used
  BY DEF Used
<1> QED BY <1>1 DEF Numbered, IInv

\* A step of a call: only records change, and those that go belong to nobody who
\* listens, or are counted as misjudged.
LEMMA CallStep ==
  ASSUME IInv, Types', UNCHANGED <<plan, hosts>>,
         files' \subseteq files, misjudged \subseteq misjudged', faults' >= faults,
         \A k \in files \ files' : k \in misjudged' \/ socket[k] # "listening",
         NEW m \in Messages, Calls(m)',
         \A j \in Messages \ {m} : msg'[j] = msg[j] /\ conn'[j] = conn[j] /\ got'[j] = got[j]
  PROVE  IInv'
<1> USE DEF hosts
<1>1. Kept
  BY DEF Kept, Past
<1>2. plan' \in Plans /\ Numbered'
  BY NumbersKept DEF IInv
<1>3. \A h \in Hosts : Hosted(h)'
  BY DEF Hosted, IInv
<1>4. \A k \in Acts : Staged(k)' /\ Recorded(k)'
  BY <1>1, ActKept
<1>5. \A j \in Messages : Calls(j)'
  BY <1>1, CallKept
<1> QED BY <1>2, <1>3, <1>4, <1>5 DEF IInv

\* What a call becomes when it ends.
LEMMA OverCall ==
  ASSUME NEW c \in Exchange, NEW r \in {"none", "busy", "failed", "lost", "refused", "timeout", "accepted"}
  PROVE  /\ Over(c, r) \in Exchange
         /\ Over(c, r).step = "over" /\ Over(c, r).result = r
         /\ Over(c, r).todo = {} /\ Over(c, r).found = {}
         /\ Over(c, r).target = c.target /\ Over(c, r).to = c.to /\ Over(c, r).pin = c.pin
BY DEF Over, Exchange

\* A scan begins with records that are there, or gives up.
LEMMA ScanningCall ==
  ASSUME NEW c \in Exchange, files \subseteq Acts
  PROVE  /\ Scanning(c) \in Exchange
         /\ Scanning(c).step \in {"scan", "sweep", "over"}
         /\ Scanning(c).result \in {c.result, "busy"}
         /\ Scanning(c).todo \subseteq files /\ Scanning(c).found = {}
         /\ Scanning(c).target = c.target /\ Scanning(c).to = c.to /\ Scanning(c).pin = c.pin
<1> DEFINE names == IF c.to = Nobody THEN files ELSE {k \in files : act[k].session = c.to}
           busy == Cardinality(names) > Cap
           d == [c EXCEPT !.step = IF busy THEN "sweep" ELSE "scan",
                          !.todo = IF busy THEN files ELSE names, !.found = {}]
<1>1. names \subseteq files
  OBVIOUS
<1>2. d \in Exchange /\ d.step \in {"scan", "sweep"} /\ d.result = c.result
      /\ d.todo \subseteq files /\ d.found = {}
      /\ d.target = c.target /\ d.to = c.to /\ d.pin = c.pin
  <2> HIDE DEF names
  <2>1. (IF busy THEN files ELSE names) \subseteq files
    BY <1>1
  <2> HIDE DEF busy
  <2> QED BY <2>1 DEF Exchange
<1>3. Scanning(c) = IF busy /\ c.swept # "no" THEN Over(c, "busy") ELSE d
  BY DEF Scanning
<1> HIDE DEF d, busy
<1> QED BY <1>2, <1>3, OverCall

----------------------------------------------------------------------------
\* The steps of a call.
LEMMA StoppedStep ==
  ASSUME IInv, UNCHANGED plan, NEW m \in Messages,
         NEW r \in {"busy", "failed", "timeout", "accepted"}, Stopped(m, r),
         msg[m].step # "unsent", r = "accepted" => conn[m] = "accepted"
  PROVE  IInv'
<1>1. msg[m] \in Exchange /\ Calls(m)
  BY DEF Types, IInv
<1>2. Types'
  BY <1>1, OverCall DEF Types, hosts, Stopped, IInv
<1>3. msg'[m] = Over(msg[m], r)
  BY DEF Types, Stopped, IInv
<1>4. Calls(m)'
  <2>1. /\ msg'[m].step = "over" /\ msg'[m].result = r
        /\ msg'[m].todo = {} /\ msg'[m].found = {}
        /\ msg'[m].target = msg[m].target /\ msg'[m].to = msg[m].to /\ msg'[m].pin = msg[m].pin
    BY <1>1, <1>3, OverCall
  <2>2. Past' = Past /\ UNCHANGED <<act, conn, got>>
    BY DEF Past, hosts, Stopped
  <2> QED BY <1>1, <2>1, <2>2 DEF Calls
<1> QED BY <1>2, <1>4, CallStep DEF Types, Stopped, IInv

\* A step of a call that has no connection yet.
LEMMA UnconnectedStep ==
  ASSUME IInv, UNCHANGED <<plan, hosts, conn, got>>, faults' \in Nat, faults' >= faults,
         files' \subseteq files, misjudged \subseteq misjudged', misjudged' \subseteq Acts,
         \A k \in files \ files' : k \in misjudged' \/ socket[k] # "listening",
         NEW m \in Messages, NEW c \in Exchange, msg' = [msg EXCEPT ![m] = c],
         conn[m] = "none", c.todo \subseteq Past, c.found \subseteq Past,
         c.target \in {0, msg[m].target} \/ c.target \in Past,
         c.step \in {"connect", "sent"} => c.target # 0 /\ c.pin \in {0, c.target},
         c.result = "accepted" => msg[m].result = "accepted",
         c.result = "refused" => \/ (msg[m].result = "refused" /\ c.target = msg[m].target)
                                 \/ faults' > 0
                                 \/ c.target \notin files'
  PROVE  IInv'
<1>1. Calls(m) /\ msg \in [Messages -> Exchange] /\ msg[m] \in Exchange /\ faults \in Nat
  BY DEF IInv, Types
<1>2. Types'
  BY <1>1 DEF Types, IInv, hosts
<1>3. msg'[m] = c /\ (\A j \in Messages \ {m} : msg'[j] = msg[j])
  BY <1>1
<1>4. Past' = Past /\ UNCHANGED <<act, conn, got>>
  BY DEF Past, hosts
<1>5. c.target # 0 => c.target \in Past'
  BY <1>1, <1>4 DEF Calls
<1>6. c.result = "refused" => faults' > 0 \/ c.target \notin files'
  BY <1>1 DEF Calls
<1>7. Calls(m)'
  BY <1>1, <1>3, <1>4, <1>5, <1>6 DEF Calls
<1> QED BY <1>2, <1>3, <1>4, <1>7, CallStep

\* Records are those of activations past their publication.
LEMMA FilesPast ==
  ASSUME IInv
  PROVE  files \subseteq Past /\ files \subseteq Acts /\ Past \subseteq Used
<1>1. files \subseteq Acts /\ \A k \in Acts : Recorded(k)
  BY DEF IInv, Types
<1>2. Past \subseteq Used
  BY DEF Past, Used
<1> QED BY <1>1, <1>2 DEF Recorded

LEMMA FaultsTyped ==
  ASSUME IInv
  PROVE  faults \in Nat /\ misjudged \subseteq Acts /\ faults >= faults
BY DEF IInv, Types

LEMMA CallBegins ==
  ASSUME IInv, UNCHANGED plan, ScenariosOK,
         NEW m \in Messages, NEW k \in Used, NEW to \in SessionIds \union {Nobody}, Call(m, k, to)
  PROVE  IInv'
<1> DEFINE c == [NoCall EXCEPT !.by = k, !.to = to]
           d == IF to = Nobody THEN Scanning(c) ELSE [c EXCEPT !.step = "consent"]
<1>1. c \in Exchange /\ [c EXCEPT !.step = "consent"] \in Exchange
  BY DEF NoCall, Exchange, Used
<1>2. Scanning(c) \in Exchange /\ Scanning(c).step \in {"scan", "sweep", "over"}
      /\ Scanning(c).result \in {"none", "busy"} /\ Scanning(c).todo \subseteq Past
      /\ Scanning(c).found = {} /\ Scanning(c).target = 0
  <2>1. c.result = "none" /\ c.target = 0
    BY DEF NoCall
  <2> HIDE DEF c
  <2> QED BY <1>1, <2>1, ScanningCall, FilesPast
<1>3. d \in Exchange /\ d.step \in {"consent", "scan", "sweep", "over"}
      /\ d.result \in {"none", "busy"} /\ d.todo \subseteq Past
      /\ d.found = {} /\ d.target = 0
  <2>1. CASE to = Nobody
    BY <1>2, <2>1
  <2>2. CASE to # Nobody
    BY <1>1, <2>2 DEF NoCall, Exchange
  <2> QED BY <2>1, <2>2
<1>4. conn[m] = "none" /\ msg' = [msg EXCEPT ![m] = d]
  BY DEF Call, IInv, Calls
<1>5. UNCHANGED <<hosts, files, misjudged, conn, got, faults>>
  BY DEF Call
<1> HIDE DEF d
<1> QED BY <1>3, <1>4, <1>5, FaultsTyped, UnconnectedStep

LEMMA ReadStep ==
  ASSUME IInv, UNCHANGED plan, NEW m \in Messages, Read(m)
  PROVE  IInv'
<1>1. msg[m] \in Exchange /\ Calls(m)
  BY DEF Types, IInv
<1>2. PICK k \in msg[m].todo : \E taken \in BOOLEAN :
         /\ msg[m].step = "scan"
         /\ msg' = [msg EXCEPT ![m].todo = @ \ {k}, ![m].found = IF taken THEN @ \union {k} ELSE @]
         /\ UNCHANGED <<hosts, files, misjudged, conn, got, faults>>
  BY DEF Read
<1>3. PICK taken \in BOOLEAN :
         /\ msg[m].step = "scan"
         /\ msg' = [msg EXCEPT ![m].todo = @ \ {k}, ![m].found = IF taken THEN @ \union {k} ELSE @]
         /\ UNCHANGED <<hosts, files, misjudged, conn, got, faults>>
  BY <1>2
<1> DEFINE c == [msg[m] EXCEPT !.todo = @ \ {k}, !.found = IF taken THEN @ \union {k} ELSE @]
<1>4. msg' = [msg EXCEPT ![m] = c]
  BY <1>3
<1>5. c \in Exchange /\ c.step = "scan" /\ c.target = msg[m].target /\ c.result = msg[m].result
      /\ c.todo \subseteq msg[m].todo /\ c.found \subseteq msg[m].found \union {k}
  BY <1>1, <1>2, <1>3 DEF Exchange
<1>6. conn[m] = "none" /\ c.todo \subseteq Past /\ c.found \subseteq Past
  BY <1>1, <1>3, <1>5 DEF Calls
<1> HIDE DEF c
<1> QED BY <1>3, <1>4, <1>5, <1>6, FaultsTyped, UnconnectedStep

LEMMA SweepStep ==
  ASSUME IInv, UNCHANGED plan, NEW m \in Messages, Sweep(m)
  PROVE  IInv'
<1>1. msg[m] \in Exchange /\ Calls(m) /\ faults \in Nat /\ misjudged \subseteq Acts
  BY DEF Types, IInv
<1>2. PICK k \in msg[m].todo : \E removed \in {FALSE, TRUE} :
         /\ msg[m].step = "sweep"
         /\ CASE k \notin files -> NoFault /\ UNCHANGED misjudged
              [] k \in files /\ socket[k] # "listening" -> removed /\ NoFault /\ UNCHANGED misjudged
              [] OTHER -> IF removed THEN Fault /\ misjudged' = misjudged \union {k}
                          ELSE NoFault /\ UNCHANGED misjudged
         /\ files' = IF removed THEN files \ {k} ELSE files
         /\ msg' = [msg EXCEPT ![m].todo = @ \ {k}, ![m].swept = IF removed THEN "removed" ELSE @]
         /\ UNCHANGED <<hosts, conn, got>>
  BY DEF Sweep
<1>3. PICK removed \in {FALSE, TRUE} :
         /\ msg[m].step = "sweep"
         /\ CASE k \notin files -> NoFault /\ UNCHANGED misjudged
              [] k \in files /\ socket[k] # "listening" -> removed /\ NoFault /\ UNCHANGED misjudged
              [] OTHER -> IF removed THEN Fault /\ misjudged' = misjudged \union {k}
                          ELSE NoFault /\ UNCHANGED misjudged
         /\ files' = IF removed THEN files \ {k} ELSE files
         /\ msg' = [msg EXCEPT ![m].todo = @ \ {k}, ![m].swept = IF removed THEN "removed" ELSE @]
         /\ UNCHANGED <<hosts, conn, got>>
  BY <1>2
<1> DEFINE c == [msg[m] EXCEPT !.todo = @ \ {k}, !.swept = IF removed THEN "removed" ELSE @]
<1>4. msg' = [msg EXCEPT ![m] = c]
  BY <1>3
<1>5. c \in Exchange /\ c.step = "sweep" /\ c.target = msg[m].target /\ c.result = msg[m].result
      /\ c.todo \subseteq msg[m].todo /\ c.found = msg[m].found
  BY <1>1, <1>3 DEF Exchange
<1>6. conn[m] = "none" /\ c.todo \subseteq Past /\ c.found \subseteq Past
  BY <1>1, <1>3, <1>5 DEF Calls
<1>7. k \in Acts
  BY <1>1, <1>2 DEF Exchange
<1>8. /\ faults' \in Nat /\ faults' >= faults /\ files' \subseteq files
      /\ misjudged \subseteq misjudged' /\ misjudged' \subseteq Acts
      /\ \A j \in files \ files' : j \in misjudged' \/ socket[j] # "listening"
  BY <1>1, <1>3, <1>7 DEF Fault, NoFault
<1> HIDE DEF c
<1> QED BY <1>3, <1>4, <1>5, <1>6, <1>8, UnconnectedStep

LEMMA SweptStep ==
  ASSUME IInv, UNCHANGED plan, NEW m \in Messages, Swept(m)
  PROVE  IInv'
<1> DEFINE c == IF msg[m].swept = "removed" THEN Scanning(msg[m]) ELSE Over(msg[m], "busy")
<1>1. msg[m] \in Exchange /\ Calls(m) /\ files \subseteq Past /\ files \subseteq Acts
  BY FilesPast DEF Types, IInv
<1>2. msg' = [msg EXCEPT ![m] = c] /\ conn[m] = "none"
  BY <1>1 DEF Swept, Calls, IInv, Types
<1>3. c \in Exchange /\ c.step \in {"scan", "sweep", "over"} /\ c.target = msg[m].target
      /\ c.result \in {msg[m].result, "busy"} /\ c.todo \subseteq Past /\ c.found \subseteq Past
  BY <1>1, OverCall, ScanningCall
<1>4. UNCHANGED <<hosts, files, misjudged, conn, got, faults>>
  BY DEF Swept
<1> HIDE DEF c
<1> QED BY <1>2, <1>3, <1>4, FaultsTyped, UnconnectedStep

LEMMA ConsentStep ==
  ASSUME IInv, UNCHANGED plan, NEW m \in Messages, Consent(m)
  PROVE  IInv'
<1> DEFINE c == IF act[msg[m].by].client = "closed" THEN Over(msg[m], "failed") ELSE Scanning(msg[m])
<1>1. msg[m] \in Exchange /\ Calls(m) /\ files \subseteq Past /\ files \subseteq Acts
  BY FilesPast DEF Types, IInv
<1>2. msg' = [msg EXCEPT ![m] = c] /\ conn[m] = "none"
  BY <1>1 DEF Consent, Calls, IInv, Types
<1>3. c \in Exchange /\ c.step \in {"scan", "sweep", "over"} /\ c.target = msg[m].target
      /\ c.result \in {msg[m].result, "busy", "failed"} /\ c.todo \subseteq Past /\ c.found \subseteq Past
  BY <1>1, OverCall, ScanningCall
<1>4. UNCHANGED <<hosts, files, misjudged, conn, got, faults>>
  BY DEF Consent
<1> HIDE DEF c
<1> QED BY <1>2, <1>3, <1>4, FaultsTyped, UnconnectedStep

LEMMA ListedStep ==
  ASSUME IInv, UNCHANGED plan, NEW m \in Messages, Listed(m)
  PROVE  IInv'
<1>1. msg[m] \in Exchange /\ Calls(m) /\ act \in [Acts -> Activation]
  BY DEF Types, IInv
<1>2. msg[m].step = "scan" /\ msg[m].todo = {} /\ conn[m] = "none"
  BY <1>1 DEF Listed, Scanned, Calls
<1>3. UNCHANGED <<hosts, files, misjudged, conn, got, faults>>
  BY DEF Listed
<1>4. CASE Current(msg[m].by) /\ msg[m].found # {}
  <2>1. PICK k \in Newest(msg[m].found) :
           msg' = [msg EXCEPT ![m].step = "consent", ![m].to = act[k].session,
                              ![m].pin = k, ![m].found = {}, ![m].swept = "no"]
    BY <1>4 DEF Listed
  <2> DEFINE c == [msg[m] EXCEPT !.step = "consent", !.to = act[k].session,
                                 !.pin = k, !.found = {}, !.swept = "no"]
  <2>2. msg' = [msg EXCEPT ![m] = c]
    BY <2>1
  <2>3. k \in Acts
    BY <1>1, <2>1 DEF Newest, Exchange
  <2>4. act[k].session \in {Nobody} \union SessionIds
    BY <1>1, <2>3 DEF Activation
  <2>5. c \in Exchange /\ c.step = "consent" /\ c.target = msg[m].target /\ c.result = msg[m].result
        /\ c.todo \subseteq Past /\ c.found \subseteq Past
    BY <1>1, <1>2, <2>3, <2>4 DEF Exchange
  <2> HIDE DEF c
  <2> QED BY <1>2, <1>3, <2>2, <2>5, FaultsTyped, UnconnectedStep
<1>5. CASE ~(Current(msg[m].by) /\ msg[m].found # {})
  <2> DEFINE c == Over(msg[m], "failed")
  <2>1. msg' = [msg EXCEPT ![m] = c]
    BY <1>1, <1>5 DEF Listed, IInv, Types
  <2>2. c \in Exchange /\ c.step = "over" /\ c.target = msg[m].target /\ c.result = "failed"
        /\ c.todo \subseteq Past /\ c.found \subseteq Past
    BY <1>1, OverCall
  <2> HIDE DEF c
  <2> QED BY <1>2, <1>3, <2>1, <2>2, FaultsTyped, UnconnectedStep
<1> QED BY <1>4, <1>5

LEMMA ResolvedStep ==
  ASSUME IInv, UNCHANGED plan, ScenariosOK, NEW m \in Messages, Resolved(m)
  PROVE  IInv'
<1> DEFINE targets == {k \in Newest(msg[m].found) : msg[m].pin \in {0, k} /\ Current(msg[m].by)}
           failed == Over(msg[m], "failed")
           found == [Over(msg[m], "none") EXCEPT !.step = "connect", !.target = Max(targets)]
           c == IF targets = {} THEN failed ELSE found
<1>1. msg[m] \in Exchange /\ Calls(m)
  BY DEF Types, IInv
<1>2. conn[m] = "none"
  BY <1>1 DEF Resolved, Scanned, Calls
<1>3. UNCHANGED <<hosts, files, misjudged, conn, got, faults>>
  BY DEF Resolved
<1>4. msg' = [msg EXCEPT ![m] = c]
  BY DEF Resolved
<1>5. failed \in Exchange /\ failed.step = "over" /\ failed.target = msg[m].target
      /\ failed.result = "failed" /\ failed.todo \subseteq Past /\ failed.found \subseteq Past
  BY <1>1, OverCall
<1>6. ASSUME targets # {}
      PROVE  /\ found \in Exchange /\ found.target \in Past /\ found.target # 0
             /\ found.pin \in {0, found.target} /\ found.result = "none"
             /\ found.todo \subseteq Past /\ found.found \subseteq Past
  <2>1. targets \subseteq msg[m].found /\ targets \subseteq 1 .. MaxActivations
    BY <1>1 DEF Newest, Exchange, Acts
  <2>2. Max(targets) \in targets
    <3> HIDE DEF targets
    <3> QED BY <1>6, <2>1, Greatest DEF ScenariosOK
  <2>3. Max(targets) \in Past /\ Max(targets) \in Acts /\ Max(targets) # 0
        /\ msg[m].pin \in {0, Max(targets)}
    <3>1. \A k \in targets : k \in Past /\ k \in Acts /\ k # 0 /\ msg[m].pin \in {0, k}
      BY <1>1, <2>1 DEF Calls, Acts
    <3> HIDE DEF targets
    <3> QED BY <2>2, <3>1
  <2> DEFINE t == Max(targets)
             o == Over(msg[m], "none")
  <2>4. o \in Exchange /\ o.todo = {} /\ o.found = {} /\ o.pin = msg[m].pin
    BY <1>1 DEF Over, Exchange
  <2>5. found = [o EXCEPT !.step = "connect", !.target = t] /\ o.result = "none"
    BY <1>1 DEF Over, Exchange
  <2> HIDE DEF t, o, found
  <2>6. t \in Past /\ t \in Acts /\ t # 0 /\ msg[m].pin \in {0, t}
    BY <2>3 DEF t
  <2> QED BY <2>4, <2>5, <2>6 DEF Exchange
<1>7. /\ c \in Exchange /\ (c.target = msg[m].target \/ c.target \in Past)
      /\ c.step \in {"connect", "sent"} => c.target # 0 /\ c.pin \in {0, c.target}
      /\ c.result \in {"none", "failed"} /\ c.todo \subseteq Past /\ c.found \subseteq Past
  <2> HIDE DEF targets, failed, found
  <2> QED BY <1>5, <1>6
<1> HIDE DEF c
<1> QED BY <1>2, <1>3, <1>4, <1>7, FaultsTyped, UnconnectedStep

\* What a removal of a record, or the failure to remove it, comes to.
LEMMA RemovedRecord ==
  ASSUME IInv, NEW k, RemoveOwn(k)
  PROVE  /\ faults' \in Nat /\ faults' >= faults /\ files' \subseteq files
         /\ files \ files' \subseteq {k}
         /\ k \in files' => faults' = faults + 1
BY FaultsTyped DEF RemoveOwn, Fault, NoFault

LEMMA RefusedStep ==
  ASSUME IInv, UNCHANGED plan, NEW m \in Messages, Refused(m)
  PROVE  IInv'
<1> DEFINE c == Over(msg[m], "refused")
<1>1. msg[m] \in Exchange /\ Calls(m) /\ faults \in Nat
  BY DEF Types, IInv
<1>2. /\ conn[m] = "none" /\ socket[msg[m].target] # "listening"
      /\ RemoveOwn(msg[m].target) /\ UNCHANGED <<hosts, misjudged, conn, got>>
      /\ msg' = [msg EXCEPT ![m] = c]
  BY <1>1 DEF Refused, Calls
<1>3. c \in Exchange /\ c.step = "over" /\ c.target = msg[m].target /\ c.result = "refused"
      /\ c.todo \subseteq Past /\ c.found \subseteq Past
  BY <1>1, OverCall
<1>4. /\ faults' \in Nat /\ faults' >= faults /\ files' \subseteq files
      /\ \A k \in files \ files' : k \in misjudged' \/ socket[k] # "listening"
      /\ faults' > 0 \/ c.target \notin files'
  BY <1>1, <1>2, <1>3, RemovedRecord
<1> HIDE DEF c
<1> QED BY <1>2, <1>3, <1>4, FaultsTyped, UnconnectedStep

LEMMA ConnectedStep ==
  ASSUME IInv, UNCHANGED plan, NEW m \in Messages, Connected(m)
  PROVE  IInv'
<1>1. msg[m] \in Exchange /\ Calls(m)
  BY DEF Types, IInv
<1>2. /\ msg[m].step = "connect" /\ msg' = [msg EXCEPT ![m].step = "sent"]
      /\ conn' = [conn EXCEPT ![m] = "backlog"]
      /\ UNCHANGED <<hosts, files, misjudged, got, faults>>
  BY DEF Connected
<1>3. Types'
  BY <1>1, <1>2 DEF Types, IInv, hosts, Exchange
<1>4. Calls(m)'
  <2>1. msg'[m] = [msg[m] EXCEPT !.step = "sent"] /\ conn'[m] = "backlog"
    BY <1>2 DEF Types, IInv
  <2>2. Past' = Past /\ UNCHANGED <<act, got, files, faults>>
    BY <1>2 DEF Past, hosts
  <2> QED BY <1>1, <1>2, <2>1, <2>2 DEF Calls, Exchange
<1> QED BY <1>2, <1>3, <1>4, FaultsTyped, CallStep DEF IInv, Types

LEMMA AcceptStep ==
  ASSUME IInv, UNCHANGED plan, NEW m \in Messages, Accept(m)
  PROVE  IInv'
<1>1. msg[m] \in Exchange /\ Calls(m)
  BY DEF Types, IInv
<1>2. PICK s \in {"open", "closed"} :
      /\ conn[m] = "backlog" /\ conn' = [conn EXCEPT ![m] = s]
      /\ UNCHANGED <<hosts, files, misjudged, msg, got, faults>>
  BY DEF Accept
<1>3. Types'
  BY <1>1, <1>2 DEF Types, IInv, hosts
<1>4. Calls(m)'
  <2>1. conn'[m] = s
    BY <1>2 DEF Types, IInv
  <2>2. Past' = Past /\ UNCHANGED <<act, msg, got, files, faults>>
    BY <1>2 DEF Past, hosts
  <2> QED BY <1>1, <1>2, <2>1, <2>2 DEF Calls
<1> QED BY <1>2, <1>3, <1>4, FaultsTyped, CallStep DEF IInv, Types

\* A message enters the session that is open, which the listener belongs to.
LEMMA ServeStep ==
  ASSUME IInv, UNCHANGED plan, NEW m \in Messages, Serve(m)
  PROVE  IInv'
<1> DEFINE k == msg[m].target
<1>1. msg[m] \in Exchange /\ Calls(m) /\ msg \in [Messages -> Exchange]
      /\ got \in [Messages -> SUBSET (Acts \X SessionIds)]
  BY DEF Types, IInv
<1>2. /\ conn[m] = "open" /\ UNCHANGED <<hosts, files, misjudged, msg, faults>>
  BY DEF Serve
<1>3. k \in Past /\ k \in Acts /\ got[m] = {}
  BY <1>1, <1>2 DEF Calls, Past
<1>4. Past' = Past /\ UNCHANGED <<act, msg, files, faults>>
  BY <1>2 DEF Past, hosts
<1>5. CASE Current(k) /\ msg[m].to = act[k].session
  <2>1. process[act[k].host].session = act[k].session
    BY <1>5 DEF Current, Fresh
  <2>2. act[k].session \in SessionIds
    BY <1>3 DEF IInv, Staged, Past
  <2>3. /\ got' = [got EXCEPT ![m] = {<<k, msg[m].to>>}]
        /\ conn' = [conn EXCEPT ![m] = "accepted"]
    BY <1>3, <1>5, <2>1 DEF Serve
  <2>4. got' \in [Messages -> SUBSET (Acts \X SessionIds)] /\ got'[m] = {<<k, msg[m].to>>}
    BY <1>1, <1>3, <1>5, <2>2, <2>3
  <2>5. conn'[m] = "accepted"
    BY <2>3 DEF Types, IInv
  <2>6. Types'
    BY <1>2, <2>3, <2>4 DEF Types, IInv, hosts
  <2>7. Calls(m)'
    BY <1>1, <1>2, <1>4, <1>5, <2>4, <2>5 DEF Calls
  <2>8. \A j \in Messages \ {m} : msg'[j] = msg[j] /\ conn'[j] = conn[j] /\ got'[j] = got[j]
    BY <1>1, <1>2, <2>3 DEF Types, IInv
  <2> QED BY <1>2, <2>6, <2>7, <2>8, FaultsTyped, CallStep
<1>6. CASE ~(Current(k) /\ msg[m].to = act[k].session)
  <2>1. conn' = [conn EXCEPT ![m] = "refused"] /\ UNCHANGED got
    BY <1>6 DEF Serve
  <2>2. conn'[m] = "refused"
    BY <2>1 DEF Types, IInv
  <2>3. Types'
    BY <1>2, <2>1 DEF Types, IInv, hosts
  <2>4. Calls(m)'
    BY <1>1, <1>2, <1>4, <2>1, <2>2 DEF Calls
  <2>5. \A j \in Messages \ {m} : msg'[j] = msg[j] /\ conn'[j] = conn[j] /\ got'[j] = got[j]
    BY <1>1, <1>2, <2>1 DEF Types, IInv
  <2> QED BY <1>2, <2>3, <2>4, <2>5, FaultsTyped, CallStep
<1> QED BY <1>5, <1>6

----------------------------------------------------------------------------
\* A step of one activation: its startup, its closing, or the end of its listener.
LEMMA ActStep ==
  ASSUME IInv, Types', UNCHANGED <<plan, misjudged, got>>,
         NEW k \in Acts, NEW a \in Activation, act' = [act EXCEPT ![k] = a],
         a.step \notin {"none", "registry"}, act[k].step # "none",
         a.host = act[k].host, a.session = act[k].session,
         k \in Past => a.step \in {"finish", "rollback", "over"},
         a.state = "dead" => act[k].state = "dead",
         \A j \in Acts \ {k} : socket'[j] = socket[j] /\ (j \in files' <=> j \in files),
         k \in files' => k \in files \/ k \notin Past,
         faults' >= faults,
         \A h \in Hosts : \/ process'[h].bound \in {0, process[h].bound}
                          \/ (process'[h].bound = k /\ a.host = h /\ a.state # "dead"),
         \A m \in Messages :
            /\ msg'[m] \in {msg[m], Over(msg[m], "failed"), Over(msg[m], "lost")}
            /\ conn'[m] = conn[m] \/ (conn[m] \in {"backlog", "open"} /\ conn'[m] = "closed"),
         Staged(k)', Recorded(k)'
  PROVE  IInv'
<1>1. act \in [Acts -> Activation] /\ files \subseteq Acts /\ files' \subseteq Acts
  BY DEF IInv, Types
<1>2. act'[k] = a /\ \A j \in Acts \ {k} : act'[j] = act[j]
  BY <1>1
<1>3. Kept
  <2>1. \A j \in Acts : act'[j].host = act[j].host /\ act'[j].session = act[j].session
    BY <1>2
  <2>2. Past \subseteq Past'
    BY <1>2 DEF Past
  <2>3. files' \intersect Past \subseteq files
    BY <1>1
  <2> QED BY <2>1, <2>2, <2>3 DEF Kept
<1>4. \A j \in Acts \ {k} : Staged(j)' /\ Recorded(j)'
  BY <1>2, <1>3, ActKept
<1>5. Numbered'
  BY <1>2, NumbersKept
<1>6. \A h \in Hosts : Hosted(h)'
  <2> SUFFICES ASSUME NEW h \in Hosts PROVE Hosted(h)'
    OBVIOUS
  <2>1. Hosted(h) /\ process[h].bound \in {0} \union Acts
    BY DEF IInv, Types, Process
  <2>2. CASE process'[h].bound \in {0, process[h].bound}
    BY <1>2, <2>1, <2>2 DEF Hosted
  <2>3. CASE process'[h].bound = k /\ a.host = h /\ a.state # "dead"
    BY <1>2, <2>3 DEF Hosted
  <2> QED BY <2>2, <2>3
<1>7. \A m \in Messages : Calls(m)'
  BY <1>3, CallKept
<1> QED BY <1>4, <1>5, <1>6, <1>7 DEF IInv

\* What the invariant says of one activation, with its types.
LEMMA ActFacts ==
  ASSUME IInv, NEW k \in Acts
  PROVE  /\ act[k] \in Activation /\ act \in [Acts -> Activation]
         /\ Staged(k) /\ Recorded(k) /\ faults \in Nat
         /\ socket \in [Acts -> {"none", "listening", "gone", "dead"}]
         /\ socket[k] \in {"none", "listening", "gone", "dead"}
         /\ files \subseteq Acts
BY DEF IInv, Types

LEMMA DrainedStep ==
  ASSUME IInv, UNCHANGED plan, NEW k \in Acts, Drained(k)
  PROVE  IInv'
<1> DEFINE a == [act[k] EXCEPT !.clean = IF act[k].known THEN "removing" ELSE "done"]
<1>1. /\ act[k].clean = "draining" /\ act' = [act EXCEPT ![k] = a]
      /\ UNCHANGED <<process, socket, files, misjudged, calls, faults>>
  BY DEF Drained
<1>2. a \in Activation /\ a.step = act[k].step /\ a.host = act[k].host /\ a.session = act[k].session
      /\ a.state = act[k].state /\ a.known = act[k].known /\ a.close = act[k].close
      /\ a.clean = IF act[k].known THEN "removing" ELSE "done"
  BY ActFacts DEF Activation
<1> HIDE DEF a
<1>3. act'[k] = a
  BY <1>1, ActFacts
<1>4. Types'
  BY <1>1, <1>2 DEF IInv, Types, calls
<1>5. Staged(k)'
  BY <1>1, <1>2, <1>3, ActFacts DEF Staged
<1>6. Recorded(k)'
  BY <1>1, <1>2, <1>3, ActFacts DEF Staged, Recorded, Past
<1>7. a.step \notin {"none", "registry"}
  BY <1>1, <1>2, ActFacts DEF Staged
<1> QED BY <1>1, <1>2, <1>4, <1>5, <1>6, <1>7, FaultsTyped, ActStep DEF calls, Past

LEMMA RemovedStep ==
  ASSUME IInv, UNCHANGED plan, NEW k \in Acts, Removed(k)
  PROVE  IInv'
<1> DEFINE a == [act[k] EXCEPT !.clean = "done"]
<1>1. /\ act[k].clean = "removing" /\ act' = [act EXCEPT ![k] = a] /\ RemoveOwn(k)
      /\ UNCHANGED <<process, socket, misjudged, calls>>
  BY DEF Removed
<1>2. a \in Activation /\ a.step = act[k].step /\ a.host = act[k].host /\ a.session = act[k].session
      /\ a.state = act[k].state /\ a.known = act[k].known /\ a.close = act[k].close
      /\ a.clean = "done"
  BY ActFacts DEF Activation
<1> HIDE DEF a
<1>3. act'[k] = a
  BY <1>1, ActFacts
<1>4. /\ faults' \in Nat /\ faults' >= faults /\ files' \subseteq files
      /\ files \ files' \subseteq {k} /\ (k \in files' => faults' = faults + 1)
  BY <1>1, RemovedRecord
<1>5. Types'
  BY <1>1, <1>2, <1>4 DEF IInv, Types, calls
<1>6. Staged(k)'
  BY <1>1, <1>2, <1>3, ActFacts DEF Staged
<1>7. Recorded(k)'
  BY <1>1, <1>2, <1>3, <1>4, ActFacts DEF Staged, Recorded, Past
<1>8. a.step \notin {"none", "registry"}
  BY <1>1, <1>2, ActFacts DEF Staged
<1> QED BY <1>1, <1>2, <1>4, <1>5, <1>6, <1>7, <1>8, ActStep DEF calls, Past

LEMMA CloseEndsStep ==
  ASSUME IInv, UNCHANGED plan, NEW k \in Acts, CloseEnds(k)
  PROVE  IInv'
<1> DEFINE a == [act[k] EXCEPT !.close = "ended"]
<1>1. /\ act[k].close \in {"aware", "blind"} /\ act[k].clean = "done" /\ act[k].step = "over"
      /\ act' = [act EXCEPT ![k] = a]
      /\ IF act[k].close = "aware" THEN RemoveOwn(k) ELSE UNCHANGED <<files, faults>>
      /\ UNCHANGED <<process, socket, misjudged, calls>>
  BY DEF CloseEnds
<1>2. a \in Activation /\ a.step = "over" /\ a.host = act[k].host /\ a.session = act[k].session
      /\ a.state = act[k].state /\ a.known = act[k].known /\ a.close = "ended"
      /\ a.clean = "done"
  BY <1>1, ActFacts DEF Activation
<1> HIDE DEF a
<1>3. act'[k] = a
  BY <1>1, ActFacts
<1>4. /\ faults' \in Nat /\ faults' >= faults /\ files' \subseteq files
      /\ files \ files' \subseteq {k}
      /\ k \in files' /\ act[k].close = "aware" => faults' = faults + 1
  <2>1. CASE act[k].close = "aware"
    BY <1>1, <2>1, RemovedRecord
  <2>2. CASE act[k].close # "aware"
    BY <1>1, <2>2, FaultsTyped
  <2> QED BY <2>1, <2>2
<1>5. Types'
  BY <1>1, <1>2, <1>4 DEF IInv, Types, calls
<1>6. Staged(k)'
  BY <1>1, <1>2, <1>3, ActFacts DEF Staged
<1>7. Recorded(k)'
  <2>1. k \in files' => faults' >= IF a.known THEN 2 ELSE 1
    BY <1>1, <1>2, <1>4, ActFacts DEF Recorded
  <2>2. k \in files' => k \in Past'
    BY <1>1, <1>2, <1>3 DEF Past
  <2> QED BY <1>1, <1>2, <1>3, <1>4, <2>1, <2>2, ActFacts DEF Staged, Recorded
<1> QED BY <1>1, <1>2, <1>4, <1>5, <1>6, <1>7, ActStep DEF calls, Past

LEMMA RegistryStep ==
  ASSUME IInv, UNCHANGED plan, NEW k \in Acts, RegistryMade(k)
  PROVE  IInv'
<1>1. /\ act[k].step = "registry" /\ UNCHANGED <<socket, files, misjudged, calls>>
      /\ act[k].state = "idle" /\ act[k].clean = "no" /\ act[k].close = "no"
      /\ socket[k] # "listening" /\ k \notin files /\ k \notin Past
      /\ act[k].host \in Hosts /\ (act[k].known => faults >= 1)
  BY ActFacts DEF RegistryMade, Staged, Recorded, Past
<1>2. CASE /\ act' = [act EXCEPT ![k].step = "bind", ![k].state = "starting"]
           /\ process' = [process EXCEPT ![act[k].host].bound = k]
           /\ NoFault
  <2> DEFINE a == [act[k] EXCEPT !.step = "bind", !.state = "starting"]
  <2>1. act' = [act EXCEPT ![k] = a] /\ faults' = faults
    BY <1>2 DEF NoFault
  <2>2. a \in Activation /\ a.step = "bind" /\ a.host = act[k].host /\ a.session = act[k].session
        /\ a.state = "starting" /\ a.close = "no" /\ a.clean = "no"
    <3>1. act[k] \in Activation /\ act[k].clean = "no" /\ act[k].close = "no"
      BY <1>1, ActFacts
    <3>2. a \in Activation
      BY <3>1 DEF Activation
    <3> QED BY <3>1, <3>2 DEF Activation
  <2>2a. a.known = act[k].known
    BY ActFacts DEF Activation
  <2> HIDE DEF a
  <2>3. act'[k] = a
    BY <2>1, ActFacts
  <2>4. process' \in [Hosts -> Process]
    BY <1>1, <1>2 DEF IInv, Types, Process
  <2>5. Types'
    BY <1>1, <2>1, <2>2, <2>4 DEF IInv, Types, calls
  <2>6. \A h \in Hosts : \/ process'[h].bound = process[h].bound
                         \/ (process'[h].bound = k /\ a.host = h)
    BY <1>1, <1>2, <2>2 DEF IInv, Types, Process
  <2>7. Staged(k)'
    BY <1>1, <2>2, <2>3, ActFacts DEF Staged
  <2>8. Recorded(k)'
    BY <1>1, <2>1, <2>2, <2>2a, <2>3 DEF Recorded
  <2> QED BY <1>1, <2>1, <2>2, <2>5, <2>6, <2>7, <2>8, FaultsTyped, ActStep DEF calls
<1>3. CASE /\ act' = [act EXCEPT ![k].step = "over", ![k].state = "closed"]
           /\ UNCHANGED process
           /\ IF Fresh(k) THEN Fault ELSE NoFault
  <2> DEFINE a == [act[k] EXCEPT !.step = "over", !.state = "closed"]
  <2>0. faults' \in Nat /\ faults' >= faults
    <3>1. Fault \/ NoFault
      BY <1>3
    <3> QED BY <3>1, FaultsTyped DEF Fault, NoFault
  <2>1. act' = [act EXCEPT ![k] = a] /\ faults' \in Nat /\ faults' >= faults
    BY <1>3, <2>0
  <2>2. a \in Activation /\ a.step = "over" /\ a.host = act[k].host /\ a.session = act[k].session
        /\ a.state = "closed" /\ a.close = "no" /\ a.clean = "no"
    <3>1. act[k] \in Activation /\ act[k].clean = "no" /\ act[k].close = "no"
      BY <1>1, ActFacts
    <3>2. a \in Activation
      BY <3>1 DEF Activation
    <3> QED BY <3>1, <3>2 DEF Activation
  <2>2a. a.known = act[k].known
    BY ActFacts DEF Activation
  <2> HIDE DEF a
  <2>3. act'[k] = a
    BY <2>1, ActFacts
  <2>4. Types'
    BY <1>1, <1>3, <2>1, <2>2 DEF IInv, Types, calls
  <2>5. Staged(k)'
    BY <1>1, <2>2, <2>3, ActFacts DEF Staged
  <2>6. Recorded(k)'
    BY <1>1, <2>1, <2>2, <2>2a, <2>3 DEF Recorded
  <2> QED BY <1>1, <1>3, <2>1, <2>2, <2>4, <2>5, <2>6, ActStep DEF calls
<1> QED BY <1>2, <1>3 DEF RegistryMade

LEMMA BindStep ==
  ASSUME IInv, UNCHANGED plan, NEW k \in Acts, Bind(k)
  PROVE  IInv'
<1> DEFINE a == [act[k] EXCEPT !.step = "publish", !.state = "accepting"]
<1>1. /\ act[k].step = "bind" /\ act' = [act EXCEPT ![k] = a]
      /\ socket' = [socket EXCEPT ![k] = "listening"]
      /\ UNCHANGED <<process, files, misjudged, calls, faults>>
      /\ act[k].clean = "no" /\ act[k].close = "no" /\ k \notin files /\ k \notin Past
      /\ (act[k].known => faults >= 1)
  BY ActFacts DEF Bind, Proceeds, OwnsStartup, Staged, Recorded, Past
<1>2. a \in Activation /\ a.step = "publish" /\ a.host = act[k].host /\ a.session = act[k].session
      /\ a.state = "accepting" /\ a.close = "no" /\ a.clean = "no"
  <2>1. act[k] \in Activation /\ act[k].clean = "no" /\ act[k].close = "no"
    BY <1>1, ActFacts
  <2>2. a \in Activation
    BY <2>1 DEF Activation
  <2> QED BY <2>1, <2>2 DEF Activation
<1>2a. a.known = act[k].known
  BY ActFacts DEF Activation
<1> HIDE DEF a
<1>3. act'[k] = a /\ socket'[k] = "listening" /\ \A j \in Acts \ {k} : socket'[j] = socket[j]
  BY <1>1, ActFacts
<1>4. Types'
  BY <1>1, <1>2 DEF IInv, Types, calls
<1>5. Staged(k)'
  BY <1>1, <1>2, <1>3, ActFacts DEF Staged
<1>6. Recorded(k)'
  BY <1>1, <1>2, <1>2a, <1>3 DEF Recorded
<1> QED BY <1>1, <1>2, <1>3, <1>4, <1>5, <1>6, FaultsTyped, ActStep DEF calls

LEMMA PublishStep ==
  ASSUME IInv, UNCHANGED plan, NEW k \in Acts, Publish(k)
  PROVE  IInv'
<1> DEFINE a == [act[k] EXCEPT !.step = "finish"]
<1>1. /\ act[k].step = "publish" /\ act' = [act EXCEPT ![k] = a] /\ files' = files \union {k}
      /\ UNCHANGED <<process, socket, misjudged, calls, faults>>
      /\ k \notin Past /\ (act[k].known => faults >= 1)
  BY ActFacts DEF Publish, Recorded, Past
<1>2. a \in Activation /\ a.step = "finish" /\ a.host = act[k].host /\ a.session = act[k].session
      /\ a.state = act[k].state /\ a.known = act[k].known /\ a.close = act[k].close
      /\ a.clean = act[k].clean
  BY <1>1, ActFacts DEF Activation
<1> HIDE DEF a
<1>3. act'[k] = a
  BY <1>1, ActFacts
<1>4. Types'
  BY <1>1, <1>2 DEF IInv, Types, calls
<1>5. Staged(k)'
  BY <1>1, <1>2, <1>3, ActFacts DEF Staged
<1>6. Recorded(k)'
  <2>1. k \in Past'
    BY <1>2, <1>3 DEF Past
  <2> QED BY <1>1, <1>2, <1>3, <2>1, ActFacts DEF Recorded
<1> QED BY <1>1, <1>2, <1>4, <1>5, <1>6, FaultsTyped, ActStep DEF calls

LEMMA FinishStep ==
  ASSUME IInv, UNCHANGED plan, NEW k \in Acts, FinishStartup(k)
  PROVE  IInv'
<1> DEFINE a == [act[k] EXCEPT !.step = "over", !.state = "active"]
<1>1. /\ act[k].step = "finish" /\ act' = [act EXCEPT ![k] = a]
      /\ UNCHANGED <<process, socket, files, misjudged, calls, faults>>
      /\ act[k].clean = "no" /\ act[k].close = "no" /\ socket[k] = "listening"
      /\ k \in files \union misjudged /\ k \in Past
  BY ActFacts DEF FinishStartup, Proceeds, OwnsStartup, Staged, Recorded, Past
<1>2. a \in Activation /\ a.step = "over" /\ a.host = act[k].host /\ a.session = act[k].session
      /\ a.state = "active" /\ a.close = "no" /\ a.clean = "no"
  <2>1. act[k] \in Activation /\ act[k].clean = "no" /\ act[k].close = "no"
    BY <1>1, ActFacts
  <2>2. a \in Activation
    BY <2>1 DEF Activation
  <2> QED BY <2>1, <2>2 DEF Activation
<1>2a. a.known = act[k].known
  BY ActFacts DEF Activation
<1> HIDE DEF a
<1>3. act'[k] = a
  BY <1>1, ActFacts
<1>4. Types'
  BY <1>1, <1>2 DEF IInv, Types, calls
<1>5. Staged(k)'
  BY <1>1, <1>2, <1>3, ActFacts DEF Staged
<1>6. Recorded(k)'
  <2>1. k \in Past'
    BY <1>2, <1>3 DEF Past
  <2> QED BY <1>1, <1>2, <1>2a, <1>3, <2>1 DEF Recorded
<1> QED BY <1>1, <1>2, <1>4, <1>5, <1>6, FaultsTyped, ActStep DEF calls

\* Two fields of an activation, replaced.
LEMMA Replaced ==
  ASSUME NEW a \in Activation,
         NEW step \in {"bind", "publish", "finish", "rollback", "over"},
         NEW client \in {"open", "closed"},
         NEW st \in {"closed", "failed"}, NEW close \in {"aware", "blind", "ended"}
  PROVE  /\ [a EXCEPT !.step = step, !.client = client] \in Activation
         /\ [a EXCEPT !.state = st, !.close = close] \in Activation
<1> DEFINE b == [a EXCEPT !.step = step]
<1>1. b \in Activation
  BY DEF Activation
<1>2. [b EXCEPT !.client = client] \in Activation
  <2> HIDE DEF b
  <2> QED BY <1>1 DEF Activation
<1>3. [a EXCEPT !.step = step, !.client = client] = [b EXCEPT !.client = client]
  BY DEF Activation
<1>4. [a EXCEPT !.state = st, !.close = close] \in Activation
  BY DEF Activation
<1> QED BY <1>2, <1>3, <1>4

\* What cleanup() makes of an activation.
LEMMA CleanedAct ==
  ASSUME NEW a \in Activation, NEW known \in BOOLEAN
  PROVE  LET b == Cleaned(a, known) IN
         /\ b \in Activation /\ b.step = a.step /\ b.host = a.host /\ b.session = a.session
         /\ b.state = a.state /\ b.close = a.close /\ b.clean # "no"
         /\ a.clean # "no" => b = a
         /\ a.clean = "no" => b.known = known /\ b.clean = "draining"
<1> DEFINE b == [a EXCEPT !.clean = "draining", !.known = known]
<1>1. Cleaned(a, known) = IF a.clean # "no" THEN a ELSE b
  BY DEF Cleaned
<1>2. b \in Activation
  BY DEF Activation
<1>3. b.step = a.step /\ b.host = a.host /\ b.session = a.session
         /\ b.state = a.state /\ b.close = a.close /\ b.clean = "draining"
  BY DEF Activation
<1>4. b.known = known
  BY DEF Activation
<1> HIDE DEF b
<1> QED BY <1>1, <1>2, <1>3, <1>4

\* Its sockets go, and the calls it has are settled.
LEMMA Ends ==
  ASSUME IInv, NEW ks
  PROVE  /\ \A m \in Messages : \/ Destroyed(ks)[m] = conn[m]
                                 \/ (conn[m] \in {"backlog", "open"} /\ Destroyed(ks)[m] = "closed")
         /\ Destroyed(ks) \in [Messages -> {"none", "backlog", "open", "accepted", "refused", "closed"}]
         /\ \A m \in Messages : Settled(ks)[m] \in {msg[m], Over(msg[m], "failed")}
         /\ Settled(ks) \in [Messages -> Exchange]
         /\ \A j \in Acts : Unlinked(ks)[j] = IF j \in ks /\ socket[j] = "listening" THEN "gone" ELSE socket[j]
         /\ Unlinked(ks) \in [Acts -> {"none", "listening", "gone", "dead"}]
<1>1. msg \in [Messages -> Exchange]
      /\ conn \in [Messages -> {"none", "backlog", "open", "accepted", "refused", "closed"}]
      /\ socket \in [Acts -> {"none", "listening", "gone", "dead"}]
  BY DEF IInv, Types
<1>2. /\ \A m \in Messages : \/ Destroyed(ks)[m] = conn[m]
                              \/ (conn[m] \in {"backlog", "open"} /\ Destroyed(ks)[m] = "closed")
      /\ Destroyed(ks) \in [Messages -> {"none", "backlog", "open", "accepted", "refused", "closed"}]
  <2>1. \A m \in Messages : Destroyed(ks)[m] =
           IF msg[m].target \in ks /\ conn[m] \in {"backlog", "open"} THEN "closed" ELSE conn[m]
    BY DEF Destroyed
  <2>2. Destroyed(ks) = [m \in Messages |-> Destroyed(ks)[m]]
    BY DEF Destroyed
  <2>3. \A m \in Messages :
           \/ Destroyed(ks)[m] = conn[m]
           \/ (conn[m] \in {"backlog", "open"} /\ Destroyed(ks)[m] = "closed")
    BY <2>1
  <2>4. \A m \in Messages :
           Destroyed(ks)[m] \in {"none", "backlog", "open", "accepted", "refused", "closed"}
    BY <1>1, <2>3
  <2> QED BY <2>2, <2>3, <2>4
<1>3. /\ \A m \in Messages : Settled(ks)[m] \in {msg[m], Over(msg[m], "failed")}
      /\ Settled(ks) \in [Messages -> Exchange]
  <2>1. \A m \in Messages : msg[m] \in Exchange /\ Over(msg[m], "failed") \in Exchange
    BY <1>1, OverCall
  <2> QED BY <2>1 DEF Settled
<1>4. /\ \A j \in Acts : Unlinked(ks)[j] = IF j \in ks /\ socket[j] = "listening" THEN "gone" ELSE socket[j]
      /\ Unlinked(ks) \in [Acts -> {"none", "listening", "gone", "dead"}]
  BY <1>1 DEF Unlinked
<1> QED BY <1>2, <1>3, <1>4

LEMMA FailsStep ==
  ASSUME IInv, UNCHANGED plan, NEW k \in Acts, Fails(k)
  PROVE  IInv'
<1> DEFINE b == Cleaned(act[k], TRUE)
           a == [b EXCEPT !.step = "rollback"]
<1>1. /\ act[k].step \in {"bind", "publish", "finish"} /\ act' = [act EXCEPT ![k] = a]
      /\ socket' = Unlinked({k}) /\ conn' = Destroyed({k})
      /\ UNCHANGED <<process, files, misjudged, msg, got>>
      /\ IF OwnsStartup(k) \/ act[k].step = "publish" THEN Fault ELSE NoFault
  BY DEF Fails, RollBack
<1>2. b \in Activation /\ b.step = act[k].step /\ b.host = act[k].host /\ b.session = act[k].session
      /\ b.state = act[k].state /\ b.close = act[k].close /\ b.clean # "no"
      /\ (act[k].clean # "no" => b = act[k])
  BY ActFacts, CleanedAct
<1>3. a \in Activation /\ a.step = "rollback" /\ a.host = act[k].host /\ a.session = act[k].session
      /\ a.state = act[k].state /\ a.close = act[k].close /\ a.clean # "no" /\ a.clean = b.clean
  <2> HIDE DEF b
  <2> QED BY <1>2 DEF Activation
<1>2a. a.known = b.known
  <2> HIDE DEF b
  <2> QED BY <1>2 DEF Activation
<1> HIDE DEF a, b
<1>4. act'[k] = a
  BY <1>1, ActFacts
<1>5. faults' \in Nat /\ faults' >= faults /\ (OwnsStartup(k) => faults' >= 1)
  BY <1>1, FaultsTyped DEF Fault, NoFault
<1>6. Types'
  BY <1>1, <1>3, <1>5, Ends DEF IInv, Types
<1>7. socket'[k] # "listening" /\ \A j \in Acts \ {k} : socket'[j] = socket[j]
  BY <1>1, Ends
<1>8. Staged(k)'
  BY <1>1, <1>3, <1>4, <1>7, ActFacts DEF Staged
<1>9. Recorded(k)'
  <2>1. k \in files' => k \in Past'
    BY <1>3, <1>4, ActFacts, <1>1 DEF Past
  <2>2. a.known => faults' >= 1
    <3>1. CASE act[k].clean = "no"
      <4>1. OwnsStartup(k)
        BY <1>1, <3>1, ActFacts DEF Staged, OwnsStartup, Activation
      <4> QED BY <4>1, <1>5
    <3>2. CASE act[k].clean # "no"
      <4>1. a.known = act[k].known
        BY <1>2, <1>2a, <3>2
      <4>2. act[k].known => faults >= 1
        BY <1>1, ActFacts DEF Recorded
      <4> QED BY <4>1, <4>2, <1>5, FaultsTyped
    <3> QED BY <3>1, <3>2
  <2>3. a.close = "aware" => a.known /\ (a.clean = "done" /\ k \in files' => faults' >= 1)
    <3>1. act[k].close = "aware" => act[k].clean # "no"
      BY <1>1, ActFacts DEF Staged, Activation
    <3>2. a.close = "aware" => a.known
      <4>1. act[k].close = "aware" => act[k].known
        BY ActFacts DEF Recorded
      <4>2. act[k].close = "aware" => a.known = act[k].known
        BY <1>2, <1>2a, <3>1
      <4> QED BY <4>1, <4>2, <1>3
    <3> QED BY <2>2, <3>2
  <2>4. a.close # "ended" /\ a.state # "active" 
    BY <1>1, <1>3, ActFacts DEF Recorded, Staged
  <2> QED BY <1>3, <1>4, <2>1, <2>2, <2>3, <2>4 DEF Recorded
<1>10. \A m \in Messages :
            /\ msg'[m] \in {msg[m], Over(msg[m], "failed"), Over(msg[m], "lost")}
            /\ conn'[m] = conn[m] \/ (conn[m] \in {"backlog", "open"} /\ conn'[m] = "closed")
  BY <1>1, Ends
<1> QED BY <1>1, <1>3, <1>5, <1>6, <1>7, <1>8, <1>9, <1>10, ActStep DEF Past

\* The startup is rolled back: the second attempt to remove the record.
LEMMA RolledBackStep ==
  ASSUME IInv, UNCHANGED plan, NEW k \in Acts, RolledBack(k)
  PROVE  IInv'
<1> DEFINE x == IF act[k].state = "failed" THEN "failed" ELSE "closed"
           y == IF act[k].close = "no" THEN "blind" ELSE act[k].close
           b == [act[k] EXCEPT !.step = "over", !.client = "closed"]
           a == [act[k] EXCEPT !.step = "over", !.client = "closed", !.state = x, !.close = y]
<1>0. act' = [act EXCEPT ![k] = a]
  BY DEF RolledBack
<1>1. /\ act[k].step = "rollback" /\ act[k].clean = "done" /\ act' = [act EXCEPT ![k] = a]
      /\ RemoveOwn(k) /\ msg' = Settled({k})
      /\ process' = [h \in Hosts |-> IF process[h].bound = k THEN [process[h] EXCEPT !.bound = 0]
                                                             ELSE process[h]]
      /\ UNCHANGED <<socket, misjudged, conn, got>>
  <2> HIDE DEF a
  <2> QED BY <1>0 DEF RolledBack
<1>2. x \in {"closed", "failed"} /\ y \in {"aware", "blind", "ended"}
      /\ (y # "blind" => act[k].close = y)
  BY ActFacts DEF Activation
<1>3. a \in Activation
  <2>0. act[k] \in Activation
    BY ActFacts
  <2>1. b \in Activation
    BY <2>0, Replaced
  <2>2. a = [b EXCEPT !.state = x, !.close = y]
    BY <2>0 DEF Activation
  <2> HIDE DEF a, b, x, y
  <2> QED BY <1>2, <2>1, <2>2 DEF Activation
<1>4. a.step = "over" /\ a.host = act[k].host /\ a.session = act[k].session
      /\ a.state = x /\ a.clean = "done" /\ a.close = y
  <2> HIDE DEF x, y
  <2> QED BY <1>1, <1>2, ActFacts DEF Activation
<1>5. a.known = act[k].known
  <2> HIDE DEF x, y
  <2> QED BY <1>2, ActFacts DEF Activation
<1> HIDE DEF a, x, y
<1>6. act'[k] = a
  BY <1>1, ActFacts
<1>7. /\ faults' \in Nat /\ faults' >= faults /\ files' \subseteq files
      /\ files \ files' \subseteq {k} /\ (k \in files' => faults' = faults + 1)
  BY <1>1, RemovedRecord
<1>8. \A h \in Hosts : process'[h] \in Process /\ process'[h].bound \in {0, process[h].bound}
  BY <1>1 DEF IInv, Types, Process
<1>9. Types'
  <2>1. process' \in [Hosts -> Process]
    BY <1>1, <1>8
  <2> QED BY <1>1, <1>3, <1>7, <2>1, Ends DEF IInv, Types
<1>10. Staged(k)'
  BY <1>1, <1>2, <1>4, <1>6, ActFacts DEF Staged
<1>11. Recorded(k)'
  <2>1. act[k].known => faults >= 1
    BY <1>1, ActFacts DEF Recorded
  <2>2. k \in files' => faults' >= (IF a.known THEN 2 ELSE 1)
    BY <1>5, <1>7, <2>1, FaultsTyped
  <2>3. k \in files' => k \in Past'
    BY <1>4, <1>6, ActFacts DEF Past
  <2>4. a.close # "ended" /\ (a.close = "aware" => a.known)
    BY <1>1, <1>2, <1>4, <1>5, ActFacts DEF Recorded
  <2>5. k \in files' => faults' >= 1
    BY <1>7, FaultsTyped
  <2> QED BY <1>2, <1>4, <1>6, <2>2, <2>3, <2>4, <2>5 DEF Recorded
<1>12. \A m \in Messages : msg'[m] \in {msg[m], Over(msg[m], "failed"), Over(msg[m], "lost")}
  BY <1>1, Ends
<1> QED BY <1>1, <1>2, <1>3, <1>4, <1>7, <1>8, <1>9, <1>10, <1>11, <1>12, ActStep DEF Past

LEMMA ListenerFailsStep ==
  ASSUME IInv, UNCHANGED plan, NEW k \in Acts, ListenerFails(k)
  PROVE  IInv'
<1> DEFINE b == Cleaned(act[k], TRUE)
           a == [b EXCEPT !.state = "failed", !.close = "aware"]
<1>1. /\ socket[k] = "listening" /\ act[k].state \notin {"closed", "failed"} /\ Fault
      /\ act' = [act EXCEPT ![k] = a]
      /\ socket' = Unlinked({k}) /\ conn' = Destroyed({k})
      /\ UNCHANGED <<process, files, misjudged, msg, got>>
  BY DEF ListenerFails
<1>2. b \in Activation /\ b.step = act[k].step /\ b.host = act[k].host /\ b.session = act[k].session
      /\ b.clean = "draining" /\ b.known = TRUE
  <2>1. act[k].clean = "no"
    BY <1>1, ActFacts DEF Staged
  <2> QED BY <2>1, ActFacts, CleanedAct
<1>3. a \in Activation
  <2> HIDE DEF b
  <2> QED BY <1>2 DEF Activation
<1>4. a.step = act[k].step /\ a.host = act[k].host /\ a.session = act[k].session
      /\ a.state = "failed" /\ a.close = "aware" /\ a.clean = "draining" /\ a.known
  <2> HIDE DEF b
  <2> QED BY <1>2 DEF Activation
<1> HIDE DEF a, b
<1>5. act'[k] = a
  BY <1>1, ActFacts
<1>6. faults' \in Nat /\ faults' >= faults /\ faults' >= 1
  BY <1>1, FaultsTyped DEF Fault
<1>7. Types'
  BY <1>1, <1>3, <1>6, Ends DEF IInv, Types
<1>8. socket'[k] # "listening" /\ \A j \in Acts \ {k} : socket'[j] = socket[j]
  BY <1>1, Ends
<1>9. act[k].step \notin {"none", "registry"}
  BY <1>1, ActFacts DEF Staged
<1>10. Staged(k)'
  BY <1>1, <1>4, <1>5, <1>8, <1>9, ActFacts DEF Staged
<1>11. Recorded(k)'
  <2>1. k \in files' => k \in Past'
    BY <1>1, <1>4, <1>5, ActFacts DEF Past, Recorded
  <2> QED BY <1>4, <1>5, <1>6, <2>1 DEF Recorded
<1>12. \A m \in Messages :
            /\ msg'[m] \in {msg[m], Over(msg[m], "failed"), Over(msg[m], "lost")}
            /\ (conn'[m] = conn[m] \/ (conn[m] \in {"backlog", "open"} /\ conn'[m] = "closed"))
  BY <1>1, Ends
<1> QED BY <1>1, <1>3, <1>4, <1>6, <1>7, <1>8, <1>9, <1>10, <1>11, <1>12, ActStep DEF Past

----------------------------------------------------------------------------
\* What close() makes of a transport.
LEMMA ClosedAct ==
  ASSUME NEW a \in Activation
  PROVE  LET b == Closed(a) IN
         /\ b \in Activation /\ b.step = a.step /\ b.host = a.host /\ b.session = a.session
         /\ a.state \in {"closed", "failed"} =>
              /\ b.state = a.state /\ b.clean = a.clean /\ b.close = a.close
              /\ b.known = a.known
         /\ a.state \notin {"closed", "failed"} =>
              /\ b.state = "closed" /\ b.clean # "no"
              /\ b.close = IF a.state = "active" THEN "aware" ELSE "blind"
              /\ (a.clean = "no" => (b.clean = "draining" /\ b.known = (a.state = "active")))
              /\ (a.clean # "no" => (b.clean = a.clean /\ b.known = a.known))
<1> DEFINE known == a.state = "active"
           c == Cleaned(a, known)
           close == IF known THEN "aware" ELSE "blind"
           d == [c EXCEPT !.state = "closed", !.close = close]
           e == IF a.state \in {"closed", "failed"} THEN a ELSE d
           b == [e EXCEPT !.client = "closed"]
<1>1. Closed(a) = b
  BY DEF Closed
<1>2. c \in Activation /\ c.step = a.step /\ c.host = a.host /\ c.session = a.session
      /\ c.clean # "no" /\ (a.clean # "no" => c = a)
      /\ (a.clean = "no" => (c.known = known /\ c.clean = "draining"))
  <2>1. known \in BOOLEAN
    OBVIOUS
  <2> HIDE DEF known
  <2> QED BY <2>1, CleanedAct
<1>3. d \in Activation
  <2>1. close \in {"aware", "blind"} /\ c \in Activation
    BY <1>2
  <2> HIDE DEF c, close
  <2> QED BY <2>1, Replaced
<1>4. d.step = c.step /\ d.host = c.host /\ d.session = c.session /\ d.clean = c.clean
      /\ d.state = "closed" /\ d.close = close
  <2> HIDE DEF c
  <2> QED BY <1>2 DEF Activation
<1>5. d.known = c.known
  <2> HIDE DEF c
  <2> QED BY <1>2 DEF Activation
<1>6. e \in Activation
  <2> HIDE DEF d
  <2> QED BY <1>3
<1>7. b \in Activation
  <2> HIDE DEF e
  <2> QED BY <1>6 DEF Activation
<1>8. b.step = e.step /\ b.host = e.host /\ b.session = e.session /\ b.clean = e.clean
      /\ b.state = e.state /\ b.close = e.close
  <2> HIDE DEF e
  <2> QED BY <1>6 DEF Activation
<1>9. b.known = e.known
  <2> HIDE DEF e
  <2> QED BY <1>6 DEF Activation
<1>10. b.step = a.step /\ b.host = a.host /\ b.session = a.session
  <2> HIDE DEF b, c, d
  <2> QED BY <1>2, <1>4, <1>8
<1>11. ASSUME a.state \in {"closed", "failed"}
       PROVE  /\ b.state = a.state /\ b.clean = a.clean /\ b.close = a.close
              /\ b.known = a.known
  <2>1. e = a
    BY <1>11
  <2> HIDE DEF b, e
  <2> QED BY <1>8, <1>9, <2>1
<1>12. ASSUME a.state \notin {"closed", "failed"}
       PROVE  /\ b.state = "closed" /\ b.clean # "no"
              /\ b.close = IF a.state = "active" THEN "aware" ELSE "blind"
              /\ (a.clean = "no" => (b.clean = "draining" /\ b.known = (a.state = "active")))
              /\ (a.clean # "no" => (b.clean = a.clean /\ b.known = a.known))
  <2>1. e = d
    BY <1>12
  <2>2. b.state = "closed" /\ b.clean = c.clean /\ b.close = close
    <3> HIDE DEF b, c, d, e
    <3> QED BY <1>4, <1>8, <2>1
  <2>3. b.known = c.known
    <3> HIDE DEF b, c, d, e
    <3> QED BY <1>5, <1>9, <2>1
  <2>4. a.clean = "no" => (b.clean = "draining" /\ b.known = (a.state = "active"))
    <3> HIDE DEF b, c, d, e
    <3> QED BY <1>2, <2>2, <2>3
  <2>5. a.clean # "no" => (b.clean = a.clean /\ b.known = a.known)
    <3> HIDE DEF b, c, d, e
    <3> QED BY <1>2, <2>2, <2>3
  <2> HIDE DEF b, c, d, e
  <2> QED BY <1>2, <2>2, <2>4, <2>5
<1> HIDE DEF b, c, d, e
<1> QED BY <1>1, <1>7, <1>10, <1>11, <1>12

\* A transport that is bound keeps what the invariant says of it when it closes.
LEMMA BoundCloses ==
  ASSUME IInv, Types', Kept, UNCHANGED <<files, faults>>,
         NEW k \in Acts, act[k].step \notin {"none", "registry"}, act[k].state # "dead",
         act'[k] = Closed(act[k]), socket'[k] # "listening"
  PROVE  Staged(k)' /\ Recorded(k)'
<1> DEFINE b == Closed(act[k])
<1>1. act[k] \in Activation /\ Staged(k) /\ Recorded(k) /\ faults \in Nat
  BY ActFacts
<1>2. b.step = act[k].step /\ b.host = act[k].host /\ b.session = act[k].session
  BY <1>1, ClosedAct
<1>3. k \in files' => k \in Past'
  BY <1>1, <1>2 DEF Recorded, Past
<1>4. CASE act[k].state \in {"closed", "failed"}
  <2>1. b.state = act[k].state /\ b.clean = act[k].clean /\ b.close = act[k].close
    BY <1>1, <1>4, ClosedAct
  <2>2. b.known = act[k].known
    BY <1>1, <1>4, ClosedAct
  <2> HIDE DEF b
  <2>3. act'[k] = b
    BY DEF b
  <2>4. Staged(k)'
    BY <1>1, <1>2, <2>1, <2>3, <1>4 DEF Staged
  <2>5. Recorded(k)'
    BY <1>1, <1>2, <1>3, <1>4, <2>1, <2>2, <2>3 DEF Recorded
  <2> QED BY <2>4, <2>5
<1>5. CASE act[k].state \notin {"closed", "failed"}
  <2>1. b.state = "closed" /\ b.clean # "no"
        /\ b.close = (IF act[k].state = "active" THEN "aware" ELSE "blind")
    BY <1>1, <1>5, ClosedAct
  <2>2. act[k].clean = "no" => (b.clean = "draining" /\ b.known = (act[k].state = "active"))
    BY <1>1, <1>5, ClosedAct
  <2>3. act[k].clean # "no" => (b.clean = act[k].clean /\ b.known = act[k].known)
    BY <1>1, <1>5, ClosedAct
  <2> HIDE DEF b
  <2>4. act'[k] = b
    BY DEF b
  <2>5. Staged(k)'
    BY <1>1, <1>2, <2>1, <2>4, <1>5 DEF Staged
  <2>6. act[k].state = "active" => (act[k].step = "over" /\ act[k].clean = "no")
    BY <1>1 DEF Staged
  <2>7. act[k].step = "over" => act[k].state = "active"
    BY <1>1, <1>5 DEF Staged, Activation
  <2>8. b.known /\ b.step # "over" => faults' >= 1
    BY <1>1, <1>2, <2>2, <2>3, <2>6 DEF Recorded
  <2>9. b.close = "aware" => (b.known /\ b.clean = "draining")
    BY <2>1, <2>2, <2>6
  <2>10. ~ (b.close = "blind" /\ b.step = "over") /\ b.close # "ended"
    BY <1>2, <2>1, <2>7
  <2>11. Recorded(k)'
    BY <1>3, <2>1, <2>4, <2>8, <2>9, <2>10 DEF Recorded
  <2> QED BY <2>5, <2>11
<1> QED BY <1>4, <1>5

\* The transport of a process closes, and the process may have begun another.
LEMMA ProcessCloses ==
  ASSUME IInv, UNCHANGED <<plan, files, misjudged, faults>>, NEW h \in Hosts,
         NEW acts \in [Acts -> Activation], CloseTransports(Bound(h), acts),
         process' \in [Hosts -> Process], process'[h].bound = 0,
         \A i \in Hosts \ {h} : process'[i] = process[i],
         \A j \in Acts : \/ acts[j] = act[j]
                         \/ (/\ act[j].step = "none" /\ acts[j].step = "registry"
                             /\ acts[j].state = "idle" /\ acts[j].clean = "no"
                             /\ acts[j].close = "no" /\ acts[j].known = FALSE
                             /\ acts[j].host \in Hosts /\ acts[j].session \in SessionIds),
         Numbered'
  PROVE  IInv'
<1> DEFINE ks == Bound(h)
<1>1. \A k \in ks : /\ k \in Acts /\ act[k].host = h /\ act[k].state # "dead"
                    /\ act[k].step \notin {"none", "registry"} /\ acts[k] = act[k]
  BY DEF Bound, IInv, Hosted, Types, Process
<1>2. /\ act' = [k \in Acts |-> IF k \in ks THEN Closed(acts[k]) ELSE acts[k]]
      /\ socket' = Unlinked(ks) /\ conn' = Destroyed(ks) /\ msg' = Settled(ks)
      /\ UNCHANGED got
  BY DEF CloseTransports
<1> HIDE DEF ks
<1>3. \A k \in ks : act'[k] = Closed(act[k]) /\ act[k] \in Activation
  BY <1>1, <1>2, ActFacts
<1>4. \A k \in Acts \ ks : act'[k] = acts[k] /\ socket'[k] = socket[k]
  BY <1>2, Ends
<1>5. \A k \in Acts : act'[k] \in Activation
  <2>1. \A k \in ks : Closed(act[k]) \in Activation
    BY <1>3, ClosedAct
  <2> QED BY <1>3, <1>4, <2>1
<1>6. Types'
  <2>1. act' \in [Acts -> Activation]
    <3>1. act' = [k \in Acts |-> act'[k]]
      BY <1>2
    <3> QED BY <1>5, <3>1
  <2> QED BY <1>2, <2>1, Ends DEF IInv, Types
<1>7. \A k \in ks : act'[k].step = act[k].step /\ act'[k].host = act[k].host
                     /\ act'[k].session = act[k].session
  BY <1>3, ClosedAct
<1>8. Kept
  <2>1. \A k \in Acts : act[k].step # "none" => /\ act'[k].host = act[k].host
                                                /\ act'[k].session = act[k].session
    BY <1>4, <1>7
  <2>2. \A k \in Acts : act[k].step # "none" => act'[k].step = act[k].step
    BY <1>4, <1>7
  <2>3. Past \subseteq Past'
    BY <2>2 DEF Past
  <2> QED BY <2>1, <2>3, FaultsTyped DEF Kept
<1>9. \A k \in ks : Staged(k)' /\ Recorded(k)'
  <2>1. \A k \in ks : socket'[k] # "listening"
    BY <1>1, <1>2, Ends
  <2> QED BY <1>1, <1>3, <1>6, <1>8, <2>1, BoundCloses
<1>10. ASSUME NEW k \in Acts \ ks, acts[k] = act[k]
       PROVE  Staged(k)' /\ Recorded(k)'
  BY <1>4, <1>6, <1>8, <1>10, ActKept
<1>11. ASSUME NEW k \in Acts \ ks, acts[k] # act[k]
       PROVE  Staged(k)' /\ Recorded(k)'
  <2>1. /\ act[k].step = "none" /\ act'[k].step = "registry"
        /\ act'[k].state = "idle" /\ act'[k].clean = "no"
        /\ act'[k].close = "no" /\ act'[k].known = FALSE
        /\ act'[k].host \in Hosts /\ act'[k].session \in SessionIds
    BY <1>4, <1>11
  <2>2. socket'[k] # "listening" /\ k \notin files'
    BY <1>4, <2>1, ActFacts DEF Staged, Recorded, Past
  <2>3. Staged(k)'
    BY <2>1, <2>2 DEF Staged
  <2>4. Recorded(k)'
    BY <2>1, <2>2 DEF Recorded
  <2> QED BY <2>3, <2>4
<1>12. \A k \in Acts : Staged(k)' /\ Recorded(k)'
  BY <1>9, <1>10, <1>11
<1>13. ASSUME NEW i \in Hosts PROVE Hosted(i)'
  <2>1. CASE i = h
    BY <2>1 DEF Hosted
  <2>2. CASE i # h
    <3> DEFINE k == process[i].bound
    <3>1. process'[i].bound = k /\ Hosted(i) /\ k \in {0} \union Acts
      BY <2>2 DEF IInv, Types, Process
    <3>2. k # 0 => k \notin ks /\ acts[k] = act[k]
      BY <1>1, <2>2, <3>1 DEF Hosted
    <3>3. k # 0 => act'[k] = act[k]
      BY <1>4, <3>1, <3>2
    <3> QED BY <3>1, <3>3 DEF Hosted
  <2> QED BY <2>1, <2>2
<1>14. \A m \in Messages : Calls(m)'
  <2>1. \A m \in Messages :
            /\ msg'[m] \in {msg[m], Over(msg[m], "failed"), Over(msg[m], "lost")}
            /\ (conn'[m] = conn[m] \/ (conn[m] \in {"backlog", "open"} /\ conn'[m] = "closed"))
    BY <1>2, Ends
  <2> QED BY <1>2, <1>6, <1>8, <2>1, CallKept
<1> QED BY <1>6, <1>12, <1>13, <1>14 DEF IInv

\* The next number is free.
LEMMA NextNumber ==
  ASSUME IInv, ScenariosOK, Used # Acts
  PROVE  LET k == Cardinality(Used) + 1 IN
         /\ k \in Acts /\ act[k].step = "none"
         /\ Used \union {k} = 1 .. Cardinality(Used \union {k})
<1> DEFINE n == Cardinality(Used)
<1>1. Used = 1 .. n
  BY DEF IInv, Numbered
<1>2. MaxActivations \in Nat /\ Used \subseteq Acts
  BY DEF ScenariosOK, Used
<1>3. n \in Nat
  <2>1. IsFiniteSet(Acts)
    BY <1>2, FS_Interval DEF Acts
  <2> QED BY <1>2, <2>1, FS_Subset, FS_CardinalityType
<1> HIDE DEF n
<1>4. n <= MaxActivations
  <2>1. CASE n = 0
    BY <1>2, <2>1
  <2>2. CASE n # 0
    <3>1. n \in 1 .. MaxActivations
      BY <1>1, <1>2, <1>3, <2>2 DEF Acts
    <3> QED BY <3>1, <1>2
  <2> QED BY <2>1, <2>2
<1>5. n # MaxActivations
  BY <1>1 DEF Acts
<1>6. n + 1 \in Acts /\ n + 1 \notin Used
  BY <1>1, <1>2, <1>3, <1>4, <1>5 DEF Acts
<1>7. Used \union {n + 1} = 1 .. (n + 1)
  BY <1>1, <1>3
<1>8. Cardinality(1 .. (n + 1)) = n + 1
  BY <1>3, FS_Interval
<1> QED BY <1>6, <1>7, <1>8 DEF Used, n

LEMMA StartStep ==
  ASSUME IInv, UNCHANGED plan, ScenariosOK, NEW h \in Hosts, NEW s \in SessionIds, Start(h, s)
  PROVE  IInv'
<1> DEFINE k == Cardinality(Used) + 1
           new == [NoAct EXCEPT !.host = h, !.session = s, !.step = "registry"]
           acts == [act EXCEPT ![k] = new]
<1>1. /\ process' = [process EXCEPT ![h] = [session |-> s, bound |-> 0, gen |-> k]]
      /\ CloseTransports(Bound(h), acts)
      /\ UNCHANGED <<files, misjudged, faults>>
      /\ Used # Acts
  BY DEF Start
<1>2. k \in Acts /\ act[k].step = "none" /\ Used \union {k} = 1 .. Cardinality(Used \union {k})
  BY <1>1, NextNumber
<1> HIDE DEF k
<1>3. new \in Activation /\ new.step = "registry" /\ new.state = "idle" /\ new.clean = "no"
      /\ new.close = "no" /\ new.known = FALSE /\ new.host = h /\ new.session = s
  BY DEF NoAct, Activation
<1> HIDE DEF new
<1>4. acts \in [Acts -> Activation] /\ acts[k] = new /\ \A j \in Acts \ {k} : acts[j] = act[j]
  BY <1>2, <1>3, ActFacts
<1>5. /\ process' \in [Hosts -> Process] /\ process'[h].bound = 0
      /\ \A i \in Hosts \ {h} : process'[i] = process[i]
  BY <1>1, <1>2 DEF IInv, Types, Process
<1> HIDE DEF acts
<1>6. \A j \in Acts : act'[j].step = acts[j].step
  <2>1. \A j \in Acts : act'[j] = IF j \in Bound(h) THEN Closed(acts[j]) ELSE acts[j]
    BY <1>1 DEF CloseTransports
  <2>2. \A j \in Acts : Closed(acts[j]).step = acts[j].step
    BY <1>4, ClosedAct
  <2> QED BY <2>1, <2>2
<1>7. Numbered'
  <2>1. Used' = Used \union {k}
    BY <1>2, <1>3, <1>4, <1>6 DEF Used
  <2> QED BY <1>2, <2>1 DEF Numbered
<1>8. \A j \in Acts : \/ acts[j] = act[j]
                      \/ (/\ act[j].step = "none" /\ acts[j].step = "registry"
                          /\ acts[j].state = "idle" /\ acts[j].clean = "no"
                          /\ acts[j].close = "no" /\ acts[j].known = FALSE
                          /\ acts[j].host \in Hosts /\ acts[j].session \in SessionIds)
  BY <1>2, <1>3, <1>4
<1>9. UNCHANGED <<plan, files, misjudged, faults>>
  BY <1>1
<1> HIDE DEF acts
<1> QED BY <1>1, <1>4, <1>5, <1>7, <1>8, <1>9, ProcessCloses

LEMMA ShutdownStep ==
  ASSUME IInv, UNCHANGED plan, NEW h \in Hosts, Shutdown(h)
  PROVE  IInv'
<1>1. /\ process' = [process EXCEPT ![h] = Quiet] /\ CloseTransports(Bound(h), act)
      /\ UNCHANGED <<files, misjudged, faults>>
  BY DEF Shutdown
<1>2. /\ process' \in [Hosts -> Process] /\ process'[h].bound = 0
      /\ \A i \in Hosts \ {h} : process'[i] = process[i]
  BY <1>1 DEF IInv, Types, Process, Quiet
<1>3. \A j \in Acts : act'[j].step = act[j].step
  <2>1. \A j \in Acts : act'[j] = IF j \in Bound(h) THEN Closed(act[j]) ELSE act[j]
    BY <1>1 DEF CloseTransports
  <2>2. \A j \in Acts : act[j] \in Activation
    BY ActFacts
  <2>3. \A j \in Acts : Closed(act[j]).step = act[j].step
    BY <2>2, ClosedAct
  <2> QED BY <2>1, <2>3
<1>4. Numbered'
  BY <1>3, NumbersKept
<1>5. act \in [Acts -> Activation]
  BY DEF IInv, Types
<1> QED BY <1>1, <1>2, <1>4, <1>5, ProcessCloses

\* A process dies: whatever its transports had to do is left undone.
LEMMA DieStep ==
  ASSUME IInv, UNCHANGED plan, NEW h \in Hosts, Die(h)
  PROVE  IInv'
<1> DEFINE dead == {k \in Used : act[k].host = h}
           Buried(a) == [a EXCEPT !.step = "over", !.state = "dead", !.clean = "done",
                                  !.close = "no", !.client = "closed"]
<1>1. /\ process' = [process EXCEPT ![h] = Quiet] /\ Fault
      /\ act' = [k \in Acts |-> IF k \in dead THEN Buried(act[k]) ELSE act[k]]
      /\ socket' = [k \in Acts |-> IF k \in dead /\ socket[k] = "listening" THEN "dead" ELSE socket[k]]
      /\ conn' = Destroyed(dead)
      /\ msg' = [m \in Messages |-> IF msg[m].by \in dead THEN Over(msg[m], "lost") ELSE msg[m]]
      /\ UNCHANGED <<files, misjudged, got>>
  BY DEF Die
<1>2. dead \subseteq Acts /\ \A k \in dead : act[k].step # "none" /\ act[k].host = h
  BY DEF Used
<1>3. ASSUME NEW a \in Activation
      PROVE  /\ Buried(a) \in Activation /\ Buried(a).step = "over" /\ Buried(a).state = "dead"
             /\ Buried(a).clean = "done" /\ Buried(a).close = "no" /\ Buried(a).host = a.host
             /\ Buried(a).session = a.session
  <2> DEFINE b == [a EXCEPT !.step = "over", !.state = "dead"]
  <2>1. b \in Activation
    BY DEF Activation
  <2> DEFINE d == [b EXCEPT !.clean = "done"]
             c == [d EXCEPT !.close = "no"]
  <2>2. c \in Activation
    <3>1. d \in Activation
      <4> HIDE DEF b
      <4> QED BY <2>1 DEF Activation
    <3> HIDE DEF d
    <3> QED BY <3>1 DEF Activation
  <2>3. [c EXCEPT !.client = "closed"] \in Activation
    <3> HIDE DEF c
    <3> QED BY <2>2 DEF Activation
  <2>4. Buried(a) = [c EXCEPT !.client = "closed"]
    BY DEF Activation
  <2>5. /\ Buried(a).step = "over" /\ Buried(a).state = "dead"
        /\ Buried(a).clean = "done" /\ Buried(a).close = "no" /\ Buried(a).host = a.host
        /\ Buried(a).session = a.session
    BY DEF Activation
  <2> HIDE DEF c
  <2> QED BY <2>3, <2>4, <2>5
<1> HIDE DEF dead, Buried
<1>4. \A k \in Acts : act'[k] = IF k \in dead THEN Buried(act[k]) ELSE act[k]
  BY <1>1
<1>5. \A k \in dead : /\ act'[k] \in Activation /\ act'[k].step = "over" /\ act'[k].state = "dead"
                      /\ act'[k].clean = "done" /\ act'[k].close = "no" /\ act'[k].host = h
                      /\ act'[k].session = act[k].session
  BY <1>2, <1>3, <1>4, ActFacts
<1>6. \A m \in Messages : msg[m] \in Exchange /\ msg'[m] \in {msg[m], Over(msg[m], "lost")}
  BY <1>1 DEF IInv, Types
<1>7. Types'
  <2>1. act' \in [Acts -> Activation]
    <3>1. \A k \in Acts : act'[k] \in Activation
      BY <1>4, <1>5, ActFacts
    <3>2. act' = [k \in Acts |-> act'[k]]
      BY <1>1
    <3> QED BY <3>1, <3>2
  <2>2. msg' \in [Messages -> Exchange]
    <3>1. \A m \in Messages : msg'[m] \in Exchange
      BY <1>6, OverCall
    <3>2. msg' = [m \in Messages |-> msg'[m]]
      BY <1>1
    <3> QED BY <3>1, <3>2
  <2>3. socket' \in [Acts -> {"none", "listening", "gone", "dead"}]
    BY <1>1, ActFacts
  <2>4. process' \in [Hosts -> Process]
    BY <1>1 DEF IInv, Types, Process, Quiet
  <2>5. faults' \in Nat
    BY <1>1, FaultsTyped DEF Fault
  <2> QED BY <1>1, <2>1, <2>2, <2>3, <2>4, <2>5, Ends DEF IInv, Types
<1>8. Kept
  <2>1. \A k \in Acts : act'[k].host = act[k].host /\ act'[k].session = act[k].session
    BY <1>2, <1>4, <1>5
  <2>2. Past \subseteq Past'
    BY <1>4, <1>5 DEF Past
  <2>3. faults' >= faults
    BY <1>1, FaultsTyped DEF Fault
  <2> QED BY <1>1, <2>1, <2>2, <2>3 DEF Kept
<1>9. ASSUME NEW k \in dead PROVE Staged(k)' /\ Recorded(k)'
  <2>1. /\ k \in Acts /\ socket'[k] # "listening" /\ act[k].host \in Hosts
        /\ act[k].session \in SessionIds
    BY <1>1, <1>2, <1>9, ActFacts DEF Staged
  <2>2. k \in Past'
    BY <1>5, <1>9, <2>1 DEF Past
  <2>3. Staged(k)'
    BY <1>5, <1>9, <2>1 DEF Staged
  <2>4. Recorded(k)'
    BY <1>5, <1>9, <2>2 DEF Recorded
  <2> QED BY <2>3, <2>4
<1>10. ASSUME NEW k \in Acts \ dead PROVE Staged(k)' /\ Recorded(k)'
  <2>1. act'[k] = act[k] /\ socket'[k] = socket[k]
    BY <1>1, <1>4
  <2> QED BY <1>1, <1>7, <1>8, <2>1, ActKept
<1>11. Numbered'
  <2>1. \A k \in Acts : act'[k].step = "none" <=> act[k].step = "none"
    BY <1>2, <1>4, <1>5
  <2> QED BY <2>1, NumbersKept
<1>12. ASSUME NEW i \in Hosts PROVE Hosted(i)'
  <2>1. CASE i = h
    BY <1>1, <2>1 DEF Hosted, IInv, Types, Quiet
  <2>2. CASE i # h
    <3> DEFINE k == process[i].bound
    <3>1. process'[i].bound = k /\ Hosted(i) /\ k \in {0} \union Acts
      BY <1>1, <2>2 DEF IInv, Types, Process
    <3>2. k # 0 => act'[k] = act[k]
      BY <1>2, <1>4, <2>2, <3>1 DEF Hosted
    <3> QED BY <3>1, <3>2 DEF Hosted
  <2> QED BY <2>1, <2>2
<1>13. \A m \in Messages : Calls(m)'
  <2>1. \A m \in Messages :
            conn'[m] = conn[m] \/ (conn[m] \in {"backlog", "open"} /\ conn'[m] = "closed")
    BY <1>1, Ends
  <2> QED BY <1>1, <1>6, <1>7, <1>8, <2>1, CallKept
<1> QED BY <1>7, <1>9, <1>10, <1>11, <1>12, <1>13 DEF IInv

----------------------------------------------------------------------------
LEMMA Initially ==
  ASSUME TransportInit, ScenariosOK
  PROVE  IInv
<1> DEFINE n == Len(plan.stand)
           last(h) == {k \in 1 .. n : plan.stand[k][1] = h}
<1>1. /\ plan \in Plans /\ MaxActivations \in Nat
      /\ plan.stand \in Seq(Hosts \X SessionIds) /\ n <= MaxActivations /\ n \in Nat
  BY DEF TransportInit, ScenariosOK
<1>2. /\ process = [h \in Hosts |-> IF last(h) = {} THEN Quiet
                    ELSE LET k == Max(last(h)) IN
                         [session |-> plan.stand[k][2], bound |-> k, gen |-> k]]
      /\ act = [k \in Acts |-> IF k <= n THEN Standing(k) ELSE NoAct]
      /\ socket = [k \in Acts |-> IF k <= n THEN "listening" ELSE "none"]
      /\ files = 1 .. n /\ misjudged = {} /\ faults = 0
      /\ msg = [m \in Messages |-> NoCall]
      /\ conn = [m \in Messages |-> "none"]
      /\ got = [m \in Messages |-> {}]
  BY DEF TransportInit
<1>3. \A k \in 1 .. n : k \in Acts /\ plan.stand[k][1] \in Hosts /\ plan.stand[k][2] \in SessionIds
  BY <1>1 DEF Acts
<1>4. \A k \in 1 .. n : /\ Standing(k) \in Activation
                        /\ Standing(k).host = plan.stand[k][1] /\ Standing(k).session = plan.stand[k][2]
                        /\ Standing(k).step = "over" /\ Standing(k).state = "active"
                        /\ Standing(k).clean = "no" /\ Standing(k).close = "no"
                        /\ Standing(k).known = FALSE
  BY <1>3 DEF Standing, NoAct, Activation
<1>5. NoAct \in Activation /\ NoAct.step = "none" /\ NoAct.state = "idle" /\ NoAct.clean = "no"
      /\ NoAct.close = "no" /\ NoAct.known = FALSE
  BY DEF NoAct, Activation
<1>6. \A k \in Acts : k <= n => k \in 1 .. n
  BY <1>1 DEF Acts
<1>7. \A h \in Hosts : last(h) # {} => Max(last(h)) \in last(h)
  <2> SUFFICES ASSUME NEW h \in Hosts, last(h) # {} PROVE Max(last(h)) \in last(h)
    OBVIOUS
  <2>1. last(h) \in SUBSET (1 .. n)
    OBVIOUS
  <2> HIDE DEF last
  <2> QED BY <1>1, <2>1, Greatest
<1>8. ASSUME NEW h \in Hosts
      PROVE  process[h] \in Process /\ Hosted(h)
  <2>1. CASE last(h) = {}
    BY <1>2, <2>1 DEF Quiet, Process, Hosted
  <2>2. CASE last(h) # {}
    <3> DEFINE k == Max(last(h))
    <3>1. k \in 1 .. n /\ plan.stand[k][1] = h
      <4>1. k \in last(h)
        BY <1>7, <2>2
      <4> HIDE DEF k
      <4> QED BY <4>1
    <3>2. process[h] = [session |-> plan.stand[k][2], bound |-> k, gen |-> k]
      BY <1>2, <2>2
    <3> HIDE DEF k, last, n
    <3>3. k \in Acts /\ plan.stand[k][2] \in SessionIds /\ k # 0 /\ k <= n
      BY <1>1, <1>3, <3>1
    <3>4. process[h] \in Process /\ process[h].bound = k
      BY <3>2, <3>3 DEF Process
    <3>5. act[k] = Standing(k)
      BY <1>2, <3>3
    <3>6. act[k].host = h /\ act[k].state = "active" /\ act[k].step = "over"
      BY <1>4, <3>1, <3>5
    <3> QED BY <3>4, <3>6 DEF Hosted
  <2> QED BY <2>1, <2>2
<1> HIDE DEF n, last
<1>9. \A k \in Acts : act[k] = IF k \in 1 .. n THEN Standing(k) ELSE NoAct
  BY <1>1, <1>2, <1>6
<1>10. \A k \in Acts : Staged(k) /\ Recorded(k)
  <2> SUFFICES ASSUME NEW k \in Acts PROVE Staged(k) /\ Recorded(k)
    OBVIOUS
  <2>1. CASE k \in 1 .. n
    <3>1. act[k] = Standing(k) /\ socket[k] = "listening" /\ k \in files
      BY <1>1, <1>2, <1>9, <2>1
    <3>2. k \in Past
      BY <1>4, <2>1, <3>1 DEF Past
    <3>3. Staged(k)
      BY <1>3, <1>4, <2>1, <3>1 DEF Staged
    <3>4. Recorded(k)
      BY <1>4, <2>1, <3>1, <3>2 DEF Recorded
    <3> QED BY <3>3, <3>4
  <2>2. CASE k \notin 1 .. n
    <3>1. act[k] = NoAct /\ socket[k] = "none" /\ k \notin files
      BY <1>2, <1>6, <1>9, <2>2
    <3>2. Staged(k)
      BY <1>5, <3>1 DEF Staged
    <3>3. Recorded(k)
      BY <1>5, <3>1 DEF Recorded
    <3> QED BY <3>2, <3>3
  <2> QED BY <2>1, <2>2
<1>11. NoCall \in Exchange
  BY DEF NoCall, Exchange
<1>12. \A m \in Messages : Calls(m)
  BY <1>2 DEF Calls, NoCall
<1>13. Types
  <2>1. process \in [Hosts -> Process]
    BY <1>2, <1>8
  <2>2. act \in [Acts -> Activation]
    BY <1>2, <1>4, <1>5, <1>9
  <2>3. files \subseteq Acts
    BY <1>2, <1>3
  <2>4. msg \in [Messages -> Exchange]
    BY <1>2, <1>11
  <2> QED BY <1>2, <2>1, <2>2, <2>3, <2>4 DEF Types
<1>14. Numbered
  <2>1. Used = 1 .. n
    BY <1>3, <1>4, <1>5, <1>9 DEF Used
  <2>2. Cardinality(1 .. n) = n
    BY <1>1, FS_Interval
  <2> QED BY <2>1, <2>2 DEF Numbered
<1> QED BY <1>1, <1>8, <1>10, <1>12, <1>13, <1>14 DEF IInv

\* Every step preserves the invariant.
LEMMA Inductive ==
  ASSUME ScenariosOK
  PROVE  IInv /\ [TransportNext]_transportVars => IInv'
<1> SUFFICES ASSUME IInv, [TransportNext]_transportVars PROVE IInv'
  OBVIOUS
<1>1. CASE UNCHANGED transportVars
  <2> USE <1>1 DEF transportVars, state, hosts, calls
  <2>1. Types' /\ plan' \in Plans
    BY DEF IInv, Types
  <2>2. Numbered'
    BY DEF IInv, Numbered, Used
  <2>3. \A h \in Hosts : Hosted(h)'
    BY DEF IInv, Hosted
  <2>4. \A k \in Acts : Staged(k)' /\ Recorded(k)'
    BY DEF IInv, Staged, Recorded, Past
  <2>5. \A m \in Messages : Calls(m)'
    BY DEF IInv, Calls, Past
  <2> QED BY <2>1, <2>2, <2>3, <2>4, <2>5 DEF IInv
<1>2. ASSUME UNCHANGED plan, NEW h \in Hosts, Shutdown(h) \/ Die(h)
      PROVE  IInv'
  BY <1>2, ShutdownStep, DieStep
<1>3. ASSUME UNCHANGED plan, NEW h \in Hosts, NEW s \in SessionIds, Start(h, s)
      PROVE  IInv'
  BY <1>3, StartStep
<1>4. ASSUME UNCHANGED plan, NEW k \in Acts, Startup(k)
      PROVE  IInv'
  BY <1>4, RegistryStep, BindStep, PublishStep, FinishStep, FailsStep, RolledBackStep DEF Startup
<1>5. ASSUME UNCHANGED plan, NEW k \in Acts, Closing(k) \/ ListenerFails(k)
      PROVE  IInv'
  BY <1>5, DrainedStep, RemovedStep, CloseEndsStep, ListenerFailsStep DEF Closing
<1>6. ASSUME UNCHANGED plan, NEW m \in Messages, NEW k \in Used,
             NEW to \in SessionIds \union {Nobody}, Call(m, k, to)
      PROVE  IInv'
  BY <1>6, CallBegins
<1>7. ASSUME UNCHANGED plan, NEW m \in Messages, Reply(m)
      PROVE  IInv'
  <2>1. CASE conn[m] = "accepted"
    BY <1>7, <2>1, StoppedStep DEF Reply
  <2>2. CASE conn[m] # "accepted"
    BY <1>7, <2>2, StoppedStep DEF Reply
  <2> QED BY <2>1, <2>2
<1>8. ASSUME UNCHANGED plan, NEW m \in Messages, TimeOut(m) \/ GiveUp(m)
      PROVE  IInv'
  BY <1>8, StoppedStep DEF TimeOut, GiveUp
<1>9. ASSUME UNCHANGED plan, NEW m \in Messages, Calling(m)
      PROVE  IInv'
  BY <1>7, <1>9, ReadStep, SweepStep, SweptStep, ListedStep, ResolvedStep, ConnectedStep,
     RefusedStep DEF Calling
<1>10. ASSUME UNCHANGED plan, NEW m \in Messages, Consent(m) \/ Accept(m) \/ Serve(m)
       PROVE  IInv'
  BY <1>10, ConsentStep, AcceptStep, ServeStep
<1>11. CASE TransportNext
  BY <1>2, <1>3, <1>4, <1>5, <1>6, <1>8, <1>9, <1>10, <1>11 DEF TransportNext
<1> QED BY <1>1, <1>11

----------------------------------------------------------------------------
\* The inductive invariant holds, whatever the scenarios.
THEOREM Invariant == TransportSpec => []IInv
<1> USE PlansFit
<1>1. TransportInit => IInv
  BY Initially
<1>2. IInv /\ [TransportNext]_transportVars => IInv'
  BY Inductive
<1> QED BY <1>1, <1>2, PTL DEF TransportSpec

\* Messages enter the session and the activation they were sent to, once, and the
\* sender is told no more than that (the callback of the listener, beforeConnect);
\* the record of a transport is there as long as it listens, and goes with it or
\* with the call that it refused, but for the faults (removeOwn, finishClose,
\* the catch of doStart, sweepStaleRecords).
THEOREM TransportSafe == TransportSpec => []TransportInv
<1>1. ASSUME IInv PROVE TransportInv
  <2> USE <1>1
  <2>1. TransportTypeOK
    BY DEF IInv, Types, TransportTypeOK, Process
  <2>2. Received
    <3> SUFFICES ASSUME NEW m \in Messages
                 PROVE  /\ msg[m].result = "accepted" => got[m] # {}
                        /\ Cardinality(got[m]) <= 1
                        /\ \A d \in got[m] : /\ d[2] = msg[m].to /\ act[d[1]].session = msg[m].to
                                             /\ msg[m].pin \in {0, d[1]}
      BY DEF Received
    <3>1. Calls(m)
      BY DEF IInv
    <3>2. Cardinality(got[m]) <= 1
      <4>1. got[m] = {} \/ got[m] = {<<msg[m].target, msg[m].to>>}
        BY <3>1 DEF Calls
      <4>2. Cardinality({}) = 0 /\ Cardinality({<<msg[m].target, msg[m].to>>}) = 1
        BY FS_EmptySet, FS_Singleton
      <4> QED BY <4>1, <4>2
    <3>3. msg[m].result = "accepted" => got[m] # {}
      BY <3>1 DEF Calls
    <3>4. ASSUME NEW d \in got[m]
          PROVE  /\ d[2] = msg[m].to /\ act[d[1]].session = msg[m].to
                 /\ msg[m].pin \in {0, d[1]}
      <4>1. conn[m] = "accepted" /\ d = <<msg[m].target, msg[m].to>>
        BY <3>1, <3>4 DEF Calls
      <4> QED BY <3>1, <4>1 DEF Calls
    <3> QED BY <3>2, <3>3, <3>4
  <2>3. Found /\ NothingLeft
    BY DEF IInv, Recorded, Found, NothingLeft
  <2>4. RefusedForgotten
    BY DEF IInv, Calls, RefusedForgotten
  <2> QED BY <2>1, <2>2, <2>3, <2>4 DEF TransportInv
<1> QED BY <1>1, Invariant, PTL
=============================================================================
