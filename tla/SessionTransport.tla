-------------------------- MODULE SessionTransport --------------------------
(***************************************************************************)
(* The messages that the orchestrators of several Pi processes send each   *)
(* other.  Each session that opens starts a transport: a listener on a     *)
(* socket of its own, the presence record that advertises it in a shared   *)
(* directory, and a client.  An activation is numbered by the order of the *)
(* records' createdAt.  Ids are fresh, so the listener's window of seen    *)
(* ids never refuses one; the delivery callback does not wait, so its      *)
(* deadline never fires; a grant only spares the user the question.        *)
(***************************************************************************)
EXTENDS Naturals, Sequences, FiniteSets, FiniteSetsExt

CONSTANTS Hosts,         \* the Pi processes
          SessionIds,
          Plans,         \* the scenarios: the sessions that stand at the start, the
                         \* <<process, session>> that may open, the hosts that may end or
                         \* die, the calls of orchestrator_send_message, the faults
          MaxActivations,     \* bound on the activations
          Messages,      \* the calls
          Cap,           \* MAX_ENTRIES
          MaxCallbacks   \* MAX_CALLBACKS

Acts == 1 .. MaxActivations
Nobody == "none"

\* What the scenarios are made of.
ScenariosOK ==
    /\ MaxActivations \in Nat /\ Nobody \notin SessionIds
    /\ \A p \in Plans : /\ p.stand \in Seq(Hosts \X SessionIds) /\ Len(p.stand) <= MaxActivations
                        /\ p.opens \subseteq Hosts \X SessionIds
                        /\ p.calls \subseteq Messages \X (SessionIds \union {Nobody})

ASSUME PlansFit == ScenariosOK

VARIABLES
    plan,       \* the scenario
    process,    \* the open session, activeSessionTransport, the last generation
    act,        \* the startup, listener and client of each activation
    socket,     \* the endpoint of each activation
    files,      \* the presence records in the directory
    misjudged,  \* live activations a sweep took for dead
    msg,        \* each call
    conn,       \* the connection of each call, as the listener has it
    got,        \* what each call had delivered: the activations, with the session
    faults      \* deaths and I/O errors so far

hosts == <<process, act, socket>>
calls == <<msg, conn, got>>
state == <<hosts, files, misjudged, calls, faults>>
transportVars == <<plan, state>>

Quiet == [session |-> Nobody, bound |-> 0, gen |-> 0]
NoAct == [host |-> Nobody, session |-> Nobody, step |-> "none", state |-> "idle",
          clean |-> "no", known |-> FALSE, close |-> "no", client |-> "open"]
NoCall == [by |-> 0, to |-> Nobody, pin |-> 0, step |-> "unsent", todo |-> {},
           found |-> {}, swept |-> "no", target |-> 0, result |-> "none"]

\* A session that stands is one whose startup has ended.
Standing(k) == [NoAct EXCEPT !.host = plan.stand[k][1], !.session = plan.stand[k][2],
                             !.step = "over", !.state = "active"]
TransportInit ==
    /\ plan \in Plans
    /\ LET n == Len(plan.stand)
           last(h) == {k \in 1 .. n : plan.stand[k][1] = h} IN
       /\ process = [h \in Hosts |-> IF last(h) = {} THEN Quiet
                    ELSE LET k == Max(last(h)) IN
                         [session |-> plan.stand[k][2], bound |-> k, gen |-> k]]
       /\ act = [k \in Acts |-> IF k <= n THEN Standing(k) ELSE NoAct]
       /\ socket = [k \in Acts |-> IF k <= n THEN "listening" ELSE "none"]
       /\ files = 1 .. n
    /\ misjudged = {} /\ faults = 0
    /\ msg = [m \in Messages |-> NoCall]
    /\ conn = [m \in Messages |-> "none"]
    /\ got = [m \in Messages |-> {}]

Used == {k \in Acts : act[k].step # "none"}
\* The startup, or the tool call, belongs to the session that is open now.
Fresh(k) == LET h == process[act[k].host] IN h.session = act[k].session /\ h.gen = k
Current(k) == Fresh(k) /\ process[act[k].host].bound = k
OwnsStartup(k) == act[k].state \in {"starting", "accepting"}

Fault == faults < plan.faults /\ faults' = faults + 1
NoFault == UNCHANGED faults
\* removeOwn: the names of the records are unique, and a failure is swallowed.
RemoveOwn(k) == \/ files' = files \ {k} /\ NoFault
                \/ UNCHANGED files /\ Fault

(***************************************************************************)
(* The connections of a listener, and the calls that its client has.       *)
(***************************************************************************)
Sockets(k) == {m \in Messages : msg[m].target = k /\ conn[m] = "open"}
\* Those that server.close() waits for: an answered one until its client closes it.
Connections(k) == Sockets(k) \union
    {m \in Messages : /\ msg[m].target = k /\ conn[m] \in {"accepted", "refused"}
                      /\ msg[m].step # "over"}
Pending(k) == {m \in Messages : /\ msg[m].by = k /\ msg[m].to # Nobody
                                /\ msg[m].step \in {"scan", "sweep", "connect", "sent"}}

Over(c, result) == [c EXCEPT !.step = "over", !.todo = {}, !.found = {}, !.swept = "no",
                             !.result = result]
\* Mutant: the sockets that are being served are left to end.
Destroyed_Answered(ks) == [m \in Messages |->
    IF msg[m].target \in ks /\ conn[m] = "backlog" THEN "closed" ELSE conn[m]]
\* The listeners of ks destroy their sockets, and so does the system with
\* the connections that they have not accepted.
Destroyed(ks) == [m \in Messages |->
    IF msg[m].target \in ks /\ conn[m] \in {"backlog", "open"} THEN "closed" ELSE conn[m]]
\* ActiveSessionClient.close() settles its calls.
Settled(ks) == [m \in Messages |->
    IF \E k \in ks : m \in Pending(k) THEN Over(msg[m], "failed") ELSE msg[m]]
Unlinked(ks) == [k \in Acts |-> IF k \in ks /\ socket[k] = "listening" THEN "gone" ELSE socket[k]]

(***************************************************************************)
(* Closing.  The first cleanup() is the only one: it removes the record    *)
(* when its caller knew it.  The record is known to close() once published.*)
(***************************************************************************)
Cleaned(a, known) == IF a.clean # "no" THEN a ELSE [a EXCEPT !.clean = "draining", !.known = known]
\* close() of the listener and of the client.
Closed(a) ==
    [(IF a.state \in {"closed", "failed"} THEN a
      ELSE [Cleaned(a, a.state = "active") EXCEPT !.state = "closed",
               !.close = IF a.state = "active" THEN "aware" ELSE "blind"])
     EXCEPT !.client = "closed"]

\* close() of the transports ks, with what it does to their connections and calls.
CloseTransports(ks, acts) ==
    /\ act' = [k \in Acts |-> IF k \in ks THEN Closed(acts[k]) ELSE acts[k]]
    /\ socket' = Unlinked(ks)
    /\ conn' = Destroyed(ks)
    /\ msg' = Settled(ks)
    /\ UNCHANGED got

Drained(k) ==
    /\ act[k].clean = "draining" /\ Connections(k) = {}
    /\ act' = [act EXCEPT ![k].clean = IF act[k].known THEN "removing" ELSE "done"]
    /\ UNCHANGED <<process, socket, files, misjudged, calls, faults>>

Removed(k) ==
    /\ act[k].clean = "removing"
    /\ RemoveOwn(k)
    /\ act' = [act EXCEPT ![k].clean = "done"]
    /\ UNCHANGED <<process, socket, misjudged, calls>>

\* finishClose() waits for the startup, and removes again the record it knew.
CloseEnds(k) ==
    /\ act[k].close \in {"aware", "blind"} /\ act[k].clean = "done" /\ act[k].step = "over"
    /\ IF act[k].close = "aware" THEN RemoveOwn(k) ELSE UNCHANGED <<files, faults>>
    /\ act' = [act EXCEPT ![k].close = "ended"]
    /\ UNCHANGED <<process, socket, misjudged, calls>>

(***************************************************************************)
(* Sessions open, close and die; startSessionTransport.                    *)
(***************************************************************************)
Bound(h) == {process[h].bound} \ {0}

Start(h, s) ==
    /\ <<h, s>> \in plan.opens /\ Used # Acts
    /\ LET k == Cardinality(Used) + 1 IN
       /\ process' = [process EXCEPT ![h] = [session |-> s, bound |-> 0, gen |-> k]]
       /\ CloseTransports(Bound(h), [act EXCEPT ![k] =
              [NoAct EXCEPT !.host = h, !.session = s, !.step = "registry"]])
    /\ UNCHANGED <<files, misjudged, faults>>

Shutdown(h) ==
    /\ h \in plan.ends /\ process[h].session # Nobody
    /\ process' = [process EXCEPT ![h] = Quiet]
    /\ CloseTransports(Bound(h), act)
    /\ UNCHANGED <<files, misjudged, faults>>

\* The process dies: its records stay, and its sockets refuse.
Die(h) ==
    /\ h \in plan.ends /\ Fault
    /\ LET dead == {k \in Used : act[k].host = h} IN
       /\ \E k \in dead : act[k].close # "ended" /\ act[k].state # "dead"
       /\ process' = [process EXCEPT ![h] = Quiet]
       /\ act' = [k \in Acts |-> IF k \in dead
                   THEN [act[k] EXCEPT !.step = "over", !.state = "dead", !.clean = "done",
                                       !.close = "no", !.client = "closed"]
                   ELSE act[k]]
       /\ socket' = [k \in Acts |-> IF k \in dead /\ socket[k] = "listening"
                                    THEN "dead" ELSE socket[k]]
       /\ conn' = Destroyed(dead)
       /\ msg' = [m \in Messages |-> IF msg[m].by \in dead THEN Over(msg[m], "lost") ELSE msg[m]]
    /\ UNCHANGED <<files, misjudged, got>>

\* A step of the startup that finds the listener closed, or that throws.
RollBack(k) ==
    /\ act' = [act EXCEPT ![k] = [Cleaned(@, TRUE) EXCEPT !.step = "rollback"]]
    /\ socket' = Unlinked({k})
    /\ conn' = Destroyed({k})
    /\ UNCHANGED <<process, files, misjudged, msg, got>>
Proceeds(k, at) == act[k].step = at /\ OwnsStartup(k)
Fails(k) ==
    /\ act[k].step \in {"bind", "publish", "finish"}
    /\ IF OwnsStartup(k) \/ act[k].step = "publish" THEN Fault ELSE NoFault
    /\ RollBack(k)

\* createRegistry() has resolved: the session may be another by now.
RegistryMade(k) ==
    /\ act[k].step = "registry"
    /\ \/ /\ Fresh(k)
          /\ act' = [act EXCEPT ![k].step = "bind", ![k].state = "starting"]
          /\ process' = [process EXCEPT ![act[k].host].bound = k]
          /\ NoFault
       \/ /\ act' = [act EXCEPT ![k].step = "over", ![k].state = "closed"]
          /\ UNCHANGED process
          /\ IF Fresh(k) THEN Fault ELSE NoFault
    /\ UNCHANGED <<socket, files, misjudged, calls>>

\* The server listens and its socket is checked; nobody knows the endpoint yet.
Bind(k) ==
    /\ Proceeds(k, "bind")
    /\ act' = [act EXCEPT ![k].step = "publish", ![k].state = "accepting"]
    /\ socket' = [socket EXCEPT ![k] = "listening"]
    /\ UNCHANGED <<process, files, misjudged, calls, faults>>

\* publish() asks nothing: the record appears even when the listener was
\* closed meanwhile.
Publish(k) ==
    /\ act[k].step = "publish"
    /\ files' = files \union {k}
    /\ act' = [act EXCEPT ![k].step = "finish"]
    /\ UNCHANGED <<process, socket, misjudged, calls, faults>>

FinishStartup(k) ==
    /\ Proceeds(k, "finish")
    /\ act' = [act EXCEPT ![k].step = "over", ![k].state = "active"]
    /\ UNCHANGED <<process, socket, files, misjudged, calls, faults>>

\* Mutant: the catch leaves the record to cleanup(), which close() may have begun.
RolledBack_Cleaned(k) ==
    /\ act[k].step = "rollback" /\ act[k].clean = "done"
    /\ act' = [act EXCEPT ![k].step = "over", ![k].client = "closed",
                          ![k].state = IF @ = "failed" THEN @ ELSE "closed",
                          ![k].close = IF @ = "no" THEN "blind" ELSE @]
    /\ process' = [h \in Hosts |->
                    IF process[h].bound = k THEN [process[h] EXCEPT !.bound = 0] ELSE process[h]]
    /\ msg' = Settled({k})
    /\ UNCHANGED <<socket, files, misjudged, conn, got, faults>>

\* The catch of doStart(), then the one of startSessionTransport.
RolledBack(k) ==
    /\ act[k].step = "rollback" /\ act[k].clean = "done"
    /\ RemoveOwn(k)
    /\ act' = [act EXCEPT ![k].step = "over", ![k].client = "closed",
                          ![k].state = IF @ = "failed" THEN @ ELSE "closed",
                          ![k].close = IF @ = "no" THEN "blind" ELSE @]
    /\ process' = [h \in Hosts |->
                    IF process[h].bound = k THEN [process[h] EXCEPT !.bound = 0] ELSE process[h]]
    /\ msg' = Settled({k})
    /\ UNCHANGED <<socket, misjudged, conn, got>>

\* The server reports an error: the listener closes, and the session keeps
\* its client.
ListenerFails(k) ==
    /\ socket[k] = "listening" /\ act[k].state \notin {"closed", "failed"} /\ Fault
    /\ act' = [act EXCEPT ![k] = [Cleaned(@, TRUE) EXCEPT !.state = "failed", !.close = "aware"]]
    /\ socket' = Unlinked({k})
    /\ conn' = Destroyed({k})
    /\ UNCHANGED <<process, files, misjudged, msg, got>>

(***************************************************************************)
(* orchestrator_send_message.  A scan reads the records that the directory *)
(* had when it began, all of them for a list, those of the recipient to    *)
(* resolve it; over the cap it sweeps once, and scans again.               *)
(***************************************************************************)
Scanning(c) ==
    LET names == IF c.to = Nobody THEN files ELSE {k \in files : act[k].session = c.to}
        busy == Cardinality(names) > Cap IN
    IF busy /\ c.swept # "no" THEN Over(c, "busy")
    ELSE [c EXCEPT !.step = IF busy THEN "sweep" ELSE "scan",
                   !.todo = IF busy THEN files ELSE names, !.found = {}]

Call(m, k, to) ==
    /\ <<m, to>> \in plan.calls
    /\ msg[m].step = "unsent" /\ Current(k) /\ to # act[k].session
    /\ msg' = [msg EXCEPT ![m] =
          LET c == [NoCall EXCEPT !.by = k, !.to = to] IN
          IF to = Nobody THEN Scanning(c) ELSE [c EXCEPT !.step = "consent"]]
    /\ UNCHANGED <<hosts, files, misjudged, conn, got, faults>>

\* A record that is gone when it is read is skipped; a list also skips those
\* of its own session and those whose socket is gone.
Read(m) == \E k \in msg[m].todo :
    /\ msg[m].step = "scan"
    /\ LET listed == act[k].session # act[msg[m].by].session /\ socket[k] # "gone"
           taken == k \in files /\ (msg[m].to # Nobody \/ listed) IN
       msg' = [msg EXCEPT ![m].todo = @ \ {k}, ![m].found = IF taken THEN @ \union {k} ELSE @]
    /\ UNCHANGED <<hosts, files, misjudged, conn, got, faults>>

\* A sweep removes a record whose socket is gone or refuses, neither of which
\* ends; an error of the probe, but a timeout, counts as a refusal too.  A record
\* that another sweep has removed since the listing may count as removed.
Sweep(m) == \E k \in msg[m].todo :
    /\ msg[m].step = "sweep"
    /\ \E removed \in {FALSE, TRUE} :
       /\ CASE k \notin files -> NoFault /\ UNCHANGED misjudged
            [] k \in files /\ socket[k] # "listening" -> removed /\ NoFault /\ UNCHANGED misjudged
            [] OTHER -> IF removed THEN Fault /\ misjudged' = misjudged \union {k}
                        ELSE NoFault /\ UNCHANGED misjudged
       /\ files' = IF removed THEN files \ {k} ELSE files
       /\ msg' = [msg EXCEPT ![m].todo = @ \ {k},
                             ![m].swept = IF removed THEN "removed" ELSE @]
    /\ UNCHANGED <<hosts, conn, got>>

Swept(m) ==
    /\ msg[m].step = "sweep" /\ msg[m].todo = {}
    /\ msg' = [msg EXCEPT ![m] = IF @.swept = "removed" THEN Scanning(@) ELSE Over(@, "busy")]
    /\ UNCHANGED <<hosts, files, misjudged, conn, got, faults>>

\* The newest activation of each session, chosen by the user among several.
Newest(ks) == {k \in ks : \A j \in ks : act[j].session = act[k].session => j <= k}
Scanned(m) == msg[m].step = "scan" /\ msg[m].todo = {}

Listed(m) ==
    /\ Scanned(m) /\ msg[m].to = Nobody
    /\ IF Current(msg[m].by) /\ msg[m].found # {}
       THEN \E k \in Newest(msg[m].found) :
              msg' = [msg EXCEPT ![m].step = "consent", ![m].to = act[k].session,
                                 ![m].pin = k, ![m].found = {}, ![m].swept = "no"]
       ELSE msg' = [msg EXCEPT ![m] = Over(@, "failed")]
    /\ UNCHANGED <<hosts, files, misjudged, conn, got, faults>>

\* The user consents, or a grant of the session did: sendNotification().
Consent(m) ==
    /\ msg[m].step = "consent"
    /\ msg' = [msg EXCEPT ![m] = IF act[@.by].client = "closed" THEN Over(@, "failed")
                                 ELSE Scanning(@)]
    /\ UNCHANGED <<hosts, files, misjudged, conn, got, faults>>

\* The activation must be the one that was listed, and the call's session the
\* open one (beforeConnect).
Resolved(m) ==
    /\ Scanned(m) /\ msg[m].to # Nobody
    /\ LET c == msg[m]
           targets == {k \in Newest(c.found) : c.pin \in {0, k} /\ Current(c.by)} IN
       msg' = [msg EXCEPT ![m] = IF targets = {} THEN Over(c, "failed")
                 ELSE [Over(c, "none") EXCEPT !.step = "connect", !.target = Max(targets)]]
    /\ UNCHANGED <<hosts, files, misjudged, conn, got, faults>>

Connected(m) ==
    /\ msg[m].step = "connect" /\ socket[msg[m].target] = "listening"
    /\ msg' = [msg EXCEPT ![m].step = "sent"]
    /\ conn' = [conn EXCEPT ![m] = "backlog"]
    /\ UNCHANGED <<hosts, files, misjudged, got, faults>>

\* ENOENT and ECONNREFUSED: the record is removed before the call ends.
Refused(m) ==
    /\ msg[m].step = "connect" /\ socket[msg[m].target] # "listening"
    /\ RemoveOwn(msg[m].target)
    /\ msg' = [msg EXCEPT ![m] = Over(@, "refused")]
    /\ UNCHANGED <<hosts, misjudged, conn, got>>

\* The timers of the connection and of the acknowledgement, the user's abort,
\* an error of the directory or of the connection.
Stopped(m, result) ==
    /\ msg' = [msg EXCEPT ![m] = Over(@, result)]
    /\ UNCHANGED <<hosts, files, misjudged, conn, got, faults>>
TimeOut(m) == msg[m].step \in {"connect", "sent"} /\ Stopped(m, "timeout")
GiveUp(m) == msg[m].step \notin {"unsent", "over"} /\ Stopped(m, "failed")

\* The client reads the acknowledgement, or the end of the connection.
Reply(m) ==
    /\ msg[m].step = "sent" /\ conn[m] \in {"accepted", "refused", "closed"}
    /\ Stopped(m, IF conn[m] = "accepted" THEN "accepted" ELSE "failed")

(***************************************************************************)
(* The listener: accept(), then the frame that the client wrote.           *)
(***************************************************************************)
Accept(m) ==
    /\ conn[m] = "backlog"
    /\ LET k == msg[m].target
           takes == act[k].state \in {"accepting", "active"}
                    /\ Cardinality(Sockets(k)) < MaxCallbacks IN
       conn' = [conn EXCEPT ![m] = IF takes THEN "open" ELSE "closed"]
    /\ UNCHANGED <<hosts, files, misjudged, msg, got, faults>>

\* The callback of the listener refuses what is not for the session that is open.
Serve(m) ==
    /\ conn[m] = "open"
    /\ LET k == msg[m].target IN
       IF Current(k) /\ msg[m].to = act[k].session
       THEN /\ got' = [got EXCEPT ![m] = @ \union {<<k, process[act[k].host].session>>}]
            /\ conn' = [conn EXCEPT ![m] = "accepted"]
       ELSE conn' = [conn EXCEPT ![m] = "refused"] /\ UNCHANGED got
    /\ UNCHANGED <<hosts, files, misjudged, msg, faults>>

Startup(k) == \/ RegistryMade(k) \/ Bind(k) \/ Publish(k) \/ FinishStartup(k)
              \/ Fails(k) \/ RolledBack(k)
Closing(k) == Drained(k) \/ Removed(k) \/ CloseEnds(k)
Calling(m) == \/ Read(m) \/ Sweep(m) \/ Swept(m) \/ Listed(m) \/ Resolved(m)
              \/ Connected(m) \/ Refused(m) \/ Reply(m)

TransportNext ==
  /\ UNCHANGED plan
  /\ \/ \E h \in Hosts : Shutdown(h) \/ Die(h)
     \/ \E h \in Hosts, s \in SessionIds : Start(h, s)
     \/ \E k \in Acts : Startup(k) \/ Closing(k) \/ ListenerFails(k)
     \/ \E m \in Messages :
        \/ \E k \in Used, to \in SessionIds \union {Nobody} : Call(m, k, to)
        \/ Calling(m) \/ Consent(m) \/ TimeOut(m) \/ GiveUp(m) \/ Accept(m) \/ Serve(m)

\* The promises of the file system and the timers of the client go on; neither
\* the users do, nor the listener that is asked.
TransportProgress ==
    \/ \E k \in Acts : Startup(k) \/ Closing(k)
    \/ \E m \in Messages : Calling(m) \/ TimeOut(m)
TransportFairness == WF_state(TransportProgress)

TransportSpec == TransportInit /\ [][TransportNext]_transportVars /\ TransportFairness

(***************************************************************************)
(* Properties.                                                             *)
(***************************************************************************)
TransportTypeOK ==
    /\ process \in [Hosts -> [session : {Nobody} \union SessionIds,
                           bound : {0} \union Acts, gen : {0} \union Acts]]
    /\ files \subseteq Acts /\ misjudged \subseteq Acts
    /\ got \in [Messages -> SUBSET (Acts \X SessionIds)]

\* "accepted" reaches the sender only for a message that entered the session it
\* was sent to, once, and the very activation the user was shown.
Received == \A m \in Messages :
    /\ msg[m].result = "accepted" => got[m] # {}
    /\ Cardinality(got[m]) <= 1
    /\ \A d \in got[m] : /\ d[2] = msg[m].to /\ act[d[1]].session = msg[m].to
                         /\ msg[m].pin \in {0, d[1]}
\* The record of a session that listens is there, unless a sweep took the session
\* for dead.
Found == \A k \in Acts : act[k].state = "active" => k \in files \union misjudged
\* A transport that has closed leaves no record, however its closing met its
\* startup: its removal is tried twice, and once when it closed before the record
\* was known to it.
NothingLeft == \A k \in Acts :
    act[k].close = "ended" /\ k \in files => faults >= IF act[k].known THEN 2 ELSE 1
\* The record of an activation that refuses does not survive the call it failed.
RefusedForgotten == \A m \in Messages :
    msg[m].result = "refused" => faults > 0 \/ msg[m].target \notin files

TransportInv == TransportTypeOK /\ Received /\ Found /\ NothingLeft /\ RefusedForgotten

\* Every call ends, but for the consent of its user, though nobody may serve its
\* connection; so does every startup, and every close, which waits for its peers.
AllEnded ==
    /\ \A m \in Messages : msg[m].step \in {"unsent", "consent", "over"}
    /\ \A k \in Acts : act[k].step \in {"none", "over"} /\ act[k].close \in {"no", "ended"}
TransportEnds == ~ AllEnded ~> AllEnded
=============================================================================
