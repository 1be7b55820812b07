------------------------ MODULE NotificationScheduler ------------------------
(***************************************************************************)
(* The sounds of the notifications: a scheduler that coalesces, throttles  *)
(* and expires them, and the service that replaces the scheduler when the  *)
(* settings, the session or the owner change while a sound may still be    *)
(* playing.  Time is counted in ticks; a timer may run late.               *)
(***************************************************************************)
EXTENDS Integers, FiniteSets, FiniteSetsExt

CONSTANTS Occurrences,  \* the events that may be notified
          Priority,     \* NOTIFICATION_PRIORITY of each event
          TTL,          \* NOTIFICATION_TTL_MS
          Coalesce,     \* audio.coalesceWindowMs
          Interval,     \* audio.minimumIntervalMs
          MaxTime,      \* bound on the clock
          Replacements  \* bound on the schedulers that take the place of another

Schedulers == 1 .. Replacements + 1

\* Windows and intervals are numbers of ticks.
LimitsOK ==
    /\ TTL \in Nat /\ Coalesce \in Nat /\ Interval \in Nat
    /\ MaxTime \in Nat /\ Replacements \in Nat
    /\ \A o \in Occurrences : Priority[o] \in Int
ASSUME LimitsFit == LimitsOK

VARIABLES
    now,       \* the clock
    cur,       \* the scheduler of the service
    sch,       \* the state of each scheduler
    playback,  \* holder.playback: the scheduler whose backend is at work, or 0
    seen       \* events already offered

soundVars == <<now, cur, sch, playback, seen>>

\* pending, active, timer and expiry are optional: sets of at most one element.
Fresh(on) == [on |-> on, disposed |-> FALSE, pending |-> {}, active |-> {}, timer |-> {},
              expiry |-> {}, last |-> -Interval]

Started(r) == \E a \in r.active : a.phase = "sounding"

SoundsInit ==
    /\ now = 0 /\ cur = 1 /\ playback = 0 /\ seen = {}
    /\ sch = [s \in Schedulers |-> Fresh(s = 1)]

---------------------------------------------------------------------------
\* play() of a candidate: the player is called.
Played(r, p) ==
    [r EXCEPT !.pending = {}, !.timer = {}, !.expiry = {p.expires},
              !.active = {[at |-> p.at, held |-> p.held, expires |-> p.expires, auto |-> TRUE,
                           aborted |-> FALSE, phase |-> "called"]}]

Due(r, p) == Max({p.ready, r.last + Interval})

\* Time spent behind a sound that plays does not count for the expiry.
Resumed(r, p) ==
    IF p.paused = {} \/ Started(r) THEN p
    ELSE [p EXCEPT !.expires = @ + now - Max(p.paused), !.paused = {}]

\* schedule(): pauses, drops or plays the candidate, or sets the timer for it.
Scheduled(r) ==
    LET kept == {p \in {Resumed(r, x) : x \in r.pending} : p.paused # {} \/ now < p.expires}
    IN IF ~r.on \/ r.pending = {} THEN [r EXCEPT !.timer = {}]
       ELSE IF kept = {} THEN [r EXCEPT !.timer = {}, !.pending = {}]
       ELSE LET p == CHOOSE x \in kept : TRUE IN
            IF Started(r)
            THEN [r EXCEPT !.timer = {},
                           !.pending = {[p EXCEPT !.paused = IF @ = {} THEN {now} ELSE @]}]
            ELSE IF r.active = {} /\ now >= Due(r, p) THEN Played(r, p)
            ELSE [r EXCEPT !.pending = {p},
                           !.timer = {IF r.active # {} THEN p.expires
                                      ELSE Min({Due(r, p), p.expires})}]

\* invalidate(): the candidate goes, the playback is told to stop, and stays
\* active until its backend settles.
Invalidated(r) ==
    [r EXCEPT !.pending = {}, !.timer = {}, !.expiry = {},
              !.active = {[a EXCEPT !.aborted = TRUE] : a \in @}]

\* Mutant: the player is not refused a backend that is still at work.
Free_Always(s) == TRUE

\* No other scheduler's backend is at work.
Free(s) == playback \in {0, s}

\* Scheduler s goes on as r.  A player it has called takes the backend, or is
\* refused; one that has settled gives it back.
Becomes(s, r) ==
    LET called == \E a \in r.active : a.phase = "called"
    IN /\ sch' = [sch EXCEPT ![s] = [r EXCEPT !.active =
                     {IF a.phase # "called" THEN a
                      ELSE [a EXCEPT !.phase = IF Free(s) THEN "detecting" ELSE "over"] : a \in @}]]
       /\ playback' = IF called /\ Free(s) THEN s
                       ELSE IF playback = s /\ r.active = {} THEN 0 ELSE playback

---------------------------------------------------------------------------
\* One candidate: a later event of the same or a higher priority replaces it.
Candidate(r, p) == {p}

\* enqueue() of an event that occurred d ticks ago; each is offered once.
Enqueue(o, d) ==
    LET r    == sch[cur]
        held == {p \in r.pending : p.paused # {} \/ now < p.expires}
        p    == [at |-> now - d, held |-> 0, expires |-> now - d + TTL, priority |-> Priority[o],
                 ready |-> IF held = {} THEN now + Coalesce ELSE (CHOOSE x \in held : TRUE).ready,
                 paused |-> IF Started(r) THEN {now} ELSE {}]
    IN /\ o \notin seen /\ d <= now
       /\ seen' = seen \union {o}
       /\ IF ~r.on \/ now >= now - d + TTL THEN UNCHANGED <<sch, playback>>
          ELSE IF \E x \in held : Priority[o] < x.priority
          THEN UNCHANGED <<sch, playback>>
          ELSE Becomes(cur, Scheduled([r EXCEPT !.pending = Candidate([r EXCEPT !.pending = held], p)]))
       /\ UNCHANGED <<now, cur>>

\* configure(): the user mutes or unmutes, or the settings say so.
Configure(on) ==
    /\ LET r == [sch[cur] EXCEPT !.on = on]
       IN Becomes(cur, IF on THEN Scheduled(r) ELSE Invalidated(r))
    /\ UNCHANGED <<now, cur, seen>>

\* setConfig, attach, or the claim of another owner: the scheduler is disposed
\* of, and another one takes its place.
Replace(on) ==
    /\ cur + 1 \in Schedulers
    /\ sch' = [sch EXCEPT ![cur] = [Invalidated(@) EXCEPT !.on = FALSE, !.disposed = TRUE],
                          ![cur + 1] = Fresh(on)]
    /\ cur' = cur + 1
    /\ UNCHANGED <<now, playback, seen>>

\* preview(): at once, and whatever the settings, but only when nothing is
\* active, a candidate, or left of a former scheduler's playback.
Preview ==
    LET r == sch[cur] IN
    /\ r.active = {} /\ r.pending = {} /\ playback = 0
    /\ Becomes(cur, [r EXCEPT !.active = {[at |-> now, held |-> 0, expires |-> MaxTime + TTL,
                                           auto |-> FALSE, aborted |-> FALSE,
                                           phase |-> "called"]}])
    /\ UNCHANGED <<now, cur, seen>>

\* The scheduler's timer, and the one that gives up a playback that has not
\* started when its event expires.
TimerFires(s) ==
    /\ \E t \in sch[s].timer : t <= now
    /\ Becomes(s, Scheduled([sch[s] EXCEPT !.timer = {}]))
    /\ UNCHANGED <<now, cur, seen>>

ExpiryFires(s) ==
    /\ \E t \in sch[s].expiry : t <= now
    /\ LET r == sch[s] IN
         sch' = [sch EXCEPT ![s] =
                   [r EXCEPT !.expiry = {},
                             !.active = {IF a.phase = "sounding" THEN a
                                         ELSE [a EXCEPT !.aborted = TRUE] : a \in @}]]
    /\ UNCHANGED <<now, cur, playback, seen>>

\* Mutant: the expiry is left to the timer.
Permitted_Expired(s, a) ==
    /\ ~a.aborted /\ ~sch[s].disposed
    /\ a.auto => sch[s].on

\* permit.start(): the last word before the player's process is spawned.
Permitted(s, a) ==
    /\ ~a.aborted /\ ~sch[s].disposed
    /\ a.auto => sch[s].on /\ now < a.expires

PermitStart(s) ==
    \E a \in sch[s].active :
        /\ a.phase = "detecting"
        /\ IF Permitted(s, a)
           THEN Becomes(s, Scheduled([sch[s] EXCEPT !.active = {[a EXCEPT !.phase = "sounding"]},
                                                    !.last = now, !.expiry = {}]))
           ELSE Becomes(s, [sch[s] EXCEPT !.active = {[a EXCEPT !.phase = "over"]}])
        /\ UNCHANGED <<now, cur, seen>>

\* finish()
Finished(r) == Scheduled([r EXCEPT !.active = {}, !.expiry = {}])

\* The backend settles: the sound is over, was refused, aborted or failed.
Settle(s) ==
    /\ sch[s].active # {}
    /\ Becomes(s, Finished(sch[s]))
    /\ UNCHANGED <<now, cur, seen>>

\* A tick; the candidates behind a sound are counted as held for it.
Tick ==
    /\ now < MaxTime
    /\ now' = now + 1
    /\ sch' = [s \in Schedulers |->
                 IF Started(sch[s])
                 THEN [sch[s] EXCEPT !.pending = {[p EXCEPT !.held = @ + 1] : p \in @}]
                 ELSE sch[s]]
    /\ UNCHANGED <<cur, playback, seen>>

SoundsNext ==
    \/ \E o \in Occurrences, d \in 0 .. TTL : Enqueue(o, d)
    \/ \E on \in BOOLEAN : Configure(on) \/ Replace(on)
    \/ Preview
    \/ \E s \in Schedulers : \/ TimerFires(s) \/ ExpiryFires(s)
                             \/ PermitStart(s) \/ Settle(s)
    \/ Tick

SoundsSpec == SoundsInit /\ [][SoundsNext]_soundVars

---------------------------------------------------------------------------
Times == -Interval .. MaxTime + TTL + MaxTime

SoundsTypeOK ==
    /\ now \in 0 .. MaxTime /\ cur \in Schedulers /\ playback \in {0} \union Schedulers
    /\ seen \subseteq Occurrences
    /\ \A s \in Schedulers :
        /\ sch[s].on \in BOOLEAN /\ sch[s].disposed \in BOOLEAN
        /\ sch[s].last \in Times
        /\ \A part \in {"pending", "active", "timer", "expiry"} : Cardinality(sch[s][part]) <= 1
        /\ sch[s].timer \subseteq Times /\ sch[s].expiry \subseteq Times

\* Two sounds never overlap, though the settings, the session or the owner
\* change while one plays, and however late its backend settles.
OneSound == Cardinality({s \in Schedulers : Started(sch[s])}) <= 1

\* A candidate is never forgotten: a timer is set for it, or a sound plays
\* whose end will look at it; and a scheduler that is off has none.
CandidateHasWake ==
    \A s \in Schedulers : sch[s].pending # {} =>
        sch[s].on /\ (sch[s].timer # {} \/ Started(sch[s]))

\* A playback whose settings, session or owner went has been told to stop.
SilencedIsAborted ==
    \A s \in Schedulers : \A a \in sch[s].active :
        sch[s].disposed \/ (a.auto /\ ~sch[s].on) => a.aborted

StartsNow(s) == ~Started(sch[s]) /\ Started(sch[s])'

\* A sound that starts is not stale: its event is younger than its time to
\* live, not counting the time it waited behind another sound.
FreshWhenStarted ==
    [][\A s \in Schedulers : StartsNow(s) =>
         \A a \in sch[s].active : a.auto => now - a.at - a.held < TTL]_soundVars

\* A scheduler's automatic sounds start a minimum interval after its last start.
StartsThrottled ==
    [][\A s \in Schedulers : StartsNow(s) =>
         \A a \in sch[s].active : a.auto => now - sch[s].last >= Interval]_soundVars

\* Sounds do not overlap, no candidate is forgotten, silencing reaches the backend.
SoundsInv == SoundsTypeOK /\ OneSound /\ CandidateHasWake /\ SilencedIsAborted

\* Every automatic sound starts fresh and throttled.
StartsInTime == FreshWhenStarted /\ StartsThrottled
=============================================================================
