# TLA+ models of gentle-pi

gentle-pi ("gentle-shell") is a coding-agent shell on top of the Pi host: one
Node process per session, extended with subagents that run in child processes,
background jobs, an evidence-based review flow, and a terminal UI. This
directory holds TLA+ modules translated from that code, the TLC configurations
that check them on small instances, and TLAPS proofs about eleven of them for
every value of the constants. `PROJECT.json` maps each definition to the lines
it stands for, and lists components, runs, theorems, findings and hazards.

- [1. The system](#1-the-system)
- [2. Modules](#2-modules)
- [3. What the runs check](#3-what-the-runs-check)
- [4. Fairness](#4-fairness)
- [5. What is proved](#5-what-is-proved)
- [6. Where the code disagrees with its comments](#6-where-the-code-disagrees-with-its-comments)
- [7. Not modelled](#7-not-modelled)
- [8. Plan](#8-plan)

Run a model with `tlc -config X.cfg M`, for instance
`tlc -config AgentSessions.cfg AgentSessionsMC.tla`, and check the proofs with
`tlapm AgentRunnerProofs.tla`.

## 1. The system

### Components with concurrency or failure in them

| component | state it keeps | operations | hard behaviour | what makes it correct |
|---|---|---|---|---|
| Subagent runner `lib/agents-runner.ts` | queue, live slots, verdicts, timers, quarantine, waiters | `run`, `waitFor`, `cancel`, `cancelAll`, `steer`, `pump`, child events, timers | an exit may come before, after or never; descendants outlive a child; launches fail half way; questions race the end | a process not proven gone keeps its slot, claim and TMPDIR; one report per task; the first verdict wins; no queued work beside a free slot |
| Writer registry `lib/writer-surfaces.ts` | claims by owner | claim, release | a claim released too early or never | overlapping writers never run together |
| Parent delivery `extensions/gentle-agents.ts`, `lib/agents-*-delivery.ts` | completion and message queues, delivered and consumed sets, wake, grace, retry, session | flushes, wake dispatch, Pi's events, results read by the parent | sends that fail, prompts that never start a run, compaction, session changes | each completion once, to its session, unless already read; stored content gets a run |
| Background jobs `lib/background-jobs.ts`, `lib/background-monitor.ts` | jobs, runs, monitors, batches, notices | start, stop, output lines, time-outs, exits | five ways to end a job race; batches overflow, merge and are requeued | lines neither lost nor reordered; one end per job |
| Review lock `lib/review-lock.ts` | a lock directory, `owner.json`, intents, quarantine destinations | acquire, release, recover, recoverIncomplete | several processes, a crash between any two calls; a record read before its process is looked up | mutual exclusion; a live owner keeps its lock (see 6 for when not) |
| Child IPC `lib/agents-messaging.ts` | pending admissions and queries on both sides | notify, query, reply, expire, close | time-outs on both ends, a reply whose send fails, frames that come twice | a notification enters once; one outcome per query, both ends agreeing; every promise settles |
| Session transport `lib/agents-session-transport.ts` | listener, client, presence records, connections | startup, publish, close, sweep, send, serve | closing while publishing; records of dead processes; time-outs against late answers | a record exists exactly as long as someone listens; a message reaches the session and activation it was sent to; everything ends |
| Review transactions `lib/review-transaction.ts`, `lib/review-object-store.ts` | root sets, three CURRENT slots, a journal per lineage | create, run an operation, repair, read | a stop between any two writes; readers without the lock | the authority only grows; an idempotency key acts once |
| Review reducers `lib/review-policy-*.ts` | findings, batches, budgets, phase | discovery, resolution, fix, validation, final verification | actors that omit, repeat or add | no severe finding is lost on the way to approval |
| Standing permission `lib/review-session-standing-permission*.ts`, `extensions/gentle-ai.ts` | grants and epochs of a session, the channel of a child | consent, grant, revoke, ask, answer | revocation while a call awaits Git, the user or the provider; late answers | a revoked permission grants nothing; a child learns of none that was gone |
| Notification scheduler `lib/notification-scheduler.ts`, `lib/notification-service.ts` | one candidate, one active sound, timers | enqueue, preview, configure, replace | an aborted backend that settles late | sounds never overlap, none starts stale, none is forgotten |
| Prompt history `extensions/history/store.ts`, `hide-prompts.ts` | append-only files shared by processes, tombstones | capture, delete, compact | a file is replaced while others append, rewrite or claim it | prompts leave through deletes only |
| Session scratch `lib/session-scratch.ts`, `extensions/session-scratch.ts` | a ledger file per session, scratch directories | start, resume, capture, sweep, clean, end | nested sessions, dead processes, ledgers written back late | nothing of a live session is removed, no directory is forgotten |
| Task store `lib/agents-protocol.ts` | records, active lists, retained ended tasks | add, update, end, restore | retention at its limit | an active task is never dropped |
| Session profiles `lib/session-profile-*.ts` | pending selection, generations, per-file evidence | bind, clear, replay, confirm | appends observed late, copied sessions | a selection never activates in a session it was not confirmed in |

The others (launcher and installers, adapters to the `gentle-ai` binary,
permission modes, editor engines, views) are sequential or mostly I/O; they are
listed in `PROJECT.json` under `components` with the reason they are left out.

### How they interact

- The parent's tools call the **runner**. The runner calls back `onFinish`,
  `onNotification`, `onQuery` and `onQuerySettled` of `gentle-agents.ts`, which
  feed the two **delivery** queues. Both run in the event loop of one process:
  what interleaves are turns of that loop, and the modules have one action per
  turn.
- The runner claims and releases **writer surfaces** around a task's life, owns
  a scratch directory that lies in the one of its **session**, and keeps its
  half of the **IPC channel** of each child.
- The transports of several processes meet in a presence directory and in Unix
  sockets; what they deliver is sent to Pi at once.
- Delivery sends to **Pi**, which is external: it rejects sends, starts runs
  for prompts or not, compacts, and replaces sessions.
- **Background jobs** use the same router, wake and retry as completions.
- The **review lock** is shared by processes, through the file system only;
  `ReviewTransactionStore.withLock()` calls `acquire()` and `release()`, so the
  **graph store** is modelled with one mutation at a time.
- The **prompt history** and the **scratch ledgers** are shared by processes
  without any lock.

## 2. Modules

| module | models | proofs |
|---|---|---|
| `AgentRunner` | `lib/agents-runner.ts`, life of a task; claims of `lib/writer-surfaces.ts` | `AgentRunnerProofs` |
| `TaskSlots` | abstract specification: a pool of slots and conflicting tasks | `AgentRunnerProofs` |
| `ReviewLock` | `lib/review-lock.ts` | `ReviewProofs` |
| `ParentDelivery` | the delivery and wake parts of `extensions/gentle-agents.ts`, `lib/agents-completion-delivery.ts`, `lib/agents-message-delivery.ts` | `ParentDeliveryProofs` |
| `BackgroundJobs` | `lib/background-jobs.ts`, `lib/background-monitor.ts`, `lib/background-jobs-tools.ts`, and their notices in `extensions/gentle-agents.ts` | `BackgroundJobsProofs` |
| `ChildMessaging` | `lib/agents-messaging.ts` and the half of the channel in `lib/agents-runner.ts` | `RunnerServicesProofs` |
| `SessionTransport` | `lib/agents-session-transport.ts` and its use in `extensions/gentle-agents.ts` | `SessionTransportProofs` |
| `NotificationScheduler` | `lib/notification-scheduler.ts`, the player of `lib/notification-service.ts` | `RunnerServicesProofs` |
| `ReviewStore` | `lib/review-object-store.ts` and the operations of `lib/review-transaction.ts` | `ReviewProofs` |
| `ReviewLedger` | abstract specification of the store: a history that only grows | `ReviewProofs` |
| `ReviewPolicy` | `lib/review-policy-ordinary.ts`, `lib/review-policy-judgment-day.ts` | `ReviewProofs` |
| `StandingPermission` | `lib/review-session-standing-permission*.ts`, the consent in `extensions/gentle-ai.ts` | `ReviewProofs` |
| `PromptHistory` | `extensions/history/store.ts`, `hide-prompts.ts` | `PromptHistoryProofs` |
| `SessionScratch` | `lib/session-scratch.ts`, `extensions/session-scratch.ts` | `SessionScratchProofs` |
| `AgentRunnerMC`, `ReviewLockMC`, `ParentDeliveryMC`, `BackgroundJobsMC`, `PromptHistoryMC`, `SessionScratchMC` | instances of one module | |
| `AgentSessionsMC` | AgentRunner with two overlapping writers, SessionTransport | |
| `RunnerServicesMC` | the runner without process groups, ChildMessaging, StandingPermission with a child, NotificationScheduler | |
| `ParentSessionMC` | ParentDelivery twice: with prompts and a change of session, and left to what is forwarded to it | |
| `ServicesMC` | ReviewLock twice, ReviewStore twice, ReviewPolicy, PromptHistory, SessionScratch, StandingPermission without a child | |

The last four hold parts that share no state, or instances of the same part. A variable `subject`, chosen in
the initial state, says which part a behaviour is about; the others keep their
initial values, so the states of the parts add up instead of multiplying, and
the properties of all of them hold throughout. Each EXTENDS the modules whose
properties it checks as they stand, and those its theorems are about; a second
instance, or a part with other constants, is an INSTANCE with variables of its own.

Definitions whose name has an underscore (`Requeued_All`,
`Timeout_Unchecked`, ...) are mutants: what the definition they are named after
would be with a plausible bug. Replacing the definition by its mutant makes
TLC report the property the mutant is listed with.

### AgentRunner

`status` is the record in the task store; `queue`, `live`, `terminal`,
`grace`, `quarantined`, `childExit` and `claims` are the fields of the runner
with those names (`grace` says which callback the timer behind `cancelGrace`
will run). `child` and `stray` are the world: the child process, and whether a
descendant of it is alive in its process group. `pump` splits `pump()` into its
iterations, since launching calls hooks; no other host code runs in between.

An action is a synchronous run of the event loop. Time is abstracted: an armed
timer may fire at any later turn, a deadline that is compared with the clock
may or may not have passed. `Posix = FALSE` is Windows, where no process group
can be probed.

`TaskSlots` is what the runner promises: tasks enter if no open task conflicts,
wait, take one of `Capacity` slots, finish, and may keep their slot until later.
`ImplementsTaskSlots` maps `live` to the slots.

### ReviewLock

One action is one call of the system by one process, so a crash (`Crash`), an
I/O error (`Fail`, `RecoveryFails`) or any step of another process may fall between
any two. A recovery reads the owner's record (`ReadOwner`), looks its process up
(`ProveOwnerDead`), reserves the destination and renames, in four steps. `dir` and `by`
are the lock directory and whose `owner.json` or `mkdir` it is, `intents` the
intent files, `dests` the quarantine destinations made so far. An *attempt* is
one call of `acquire()` with the token it generates. Recoveries
judge an owner by its pid: a live process is never taken for dead, and a dead one
may be taken for live (a reused pid), which the model covers because a
recovery may always stop.
A torn `owner.json`, and a recovery that dies after it reserved its
destination, leave a lock nothing can recover: it fails closed. It does not fail
closed when the record it read is outdated: `tookOther` marks a recovery that moved
another attempt's lock than the one it had read, and the properties say what holds
until then (`Undisturbed`) and how it comes about (`Misled`). A recovery that read
the record of an owner that died with the lock never gets there, because the
destination named after a token can be taken once.

### ParentDelivery

`queue` holds both queues, as a set of contents; `delivered`
and `consumed` are the sets of the completion queue. `wake`
is `wakeOwed`, `wakeQueued` and `promptStarting`; `timers` are the boundary
flush and the retry with its count. `host` is Pi. `FlushAll` is used by every
event that flushes, with the whole order of the code: messages, then
completions, requeueing what the host rejects, then the wake.

`SlowPrompts = FALSE` assumes that a prompt starts its run within the grace and
before a run already in progress ends. Only `NoRacingWakes` (`WakesNeverRace` in the
run) needs it: the comment at `gentle-agents.ts:1099-1102` accepts that a wake may be sent
after the grace.

### BackgroundJobs

`status` and `run` are a job's record and the promise of its run; `active`,
`batch`, `flushing` and `recent` the monitor's controller; `desk` is the notice
queue with the retry, the wake and what the parent was told. A callback can
hand over two notices, each with a flush of its own, so the operators on the
desk return the set of its outcomes. The code's queue is one array; the model's
has, per job, the events that wait and the end that waits behind them. `EndsLast`
says why that is all there is: `queueJobNotice()` merges events into the job's
last notice, and no events come after an end. The order across jobs is left out, as
no notice says anything of another job. Event lines are numbered, which is what
the properties tell apart. The routing and the wake are those of
ParentDelivery, with a coarser host: its prompts always start a run.

### ChildMessaging

An id stands for the frame that carries it. `ask` is the promise the child has
for an id, `query` and `writes` the runner's record of it and the replies whose
send has not called back; `up` and `down` are the channel, which may close or
lose its peer at any point. Both sides' timers may fire at any turn. Ids in
`Repeatable` may be sent twice, which no `ChildMessenger` does but the runner
allows for.

### SessionTransport

`act` is an activation: the progress of its startup (`step`), the listener's
`state`, the memoized cleanup (`clean`, and whether it was `known` which record
to remove) and the promise of `close()` (`close`). Activations are
numbered in the order of their records' times. `msg` is a call of
`orchestrator_send_message` from its list or recipient to its outcome, `conn`
its connection as the listener has it, `got` what it had delivered. A scan
and a sweep take one record at a time; binding and checking the socket are one
step, since nobody knows the endpoint before it is published.
`beforeConnect`, `remember()` and the callback are as in the code, but
ids are fresh and the callback does not wait, so a duplicate or a callback
deadline never happens.

### ReviewStore

A root set is its whole history. `slot` are the three CURRENT files, rewritten
one by one; the authority is what two of them agree on. `Interrupt` is a throw
or a death between any two writes; the next operation may follow at once, over slots
that are torn, as in the code: nothing there makes a repair come first. `lost` notes
that an operation ended while no two slots agreed. That takes two interruptions, the
second of which stops after the first slot of an authority that the first one left
torn; until then `Authority` is the old history or the new one.

### ReviewPolicy

A list of results gives each finding asked for an answer or `missing`, and says
whether it holds entries that are dropped: what distinguishes defects in
the code. Two things the model showed that no document denies: after a fix,
validation whose acceptance tests fail throws, so a lineage whose fix cannot
pass has no exit but by hand, where `docs/readme-reference.md:868` speaks of an
escalation; and Judgment Day judges again only the findings still active, not
those verified before its second fix.

### StandingPermission

`call` is one `gentle_review` with the identity and the epoch it saw before each
await; `granted` and `epoch` are the registry; `client`, `broker`, `up` and
`down` the channel of one child.

### NotificationScheduler

Time is counted in ticks and a timer may run late. `sch` holds the schedulers
of the service, of which one is current; a replaced one may still hold the
backend.

### PromptHistory

A name leads to an inode, an open descriptor keeps an inode. Appending by path is an
open and a write, two steps for a capture as for the carry-over of a rewrite: what was
opened may be replaced, and read for the last time, before it is written. `put` holds
the late lines a rewrite has read and is to append (`ReadLate`, `OpenTarget`,
`WriteTarget`). `Held` are the inodes that have lost their name and whose late lines a
rewrite will still read; what it cannot append goes to a file of its own, unless that
name is taken (`AppendFails`, `GivesUp`). A name that contains the process
and the time of a call is taken by that call only. The order of the files in a
sweep is fixed (`Following`). Observed on the way: two `hidePrompt()` calls that overlap
lose a tombstone, and a compaction that read `hidden.json` before a delete
copies the deleted prompt into the compact file.

### SessionScratch

`ledgers` are the files, `mem` what each process holds of its own, `under` which
directory a scratch lies in, `job` and `cleaning` an operation of the
extension between two reads or awaits. The properties name what the code does not
prevent: the clone of an ended session that lies in the scratch of another one
goes with it, without the checks of its own removal (`heldBy()` keeps the
outer ledger's artifacts and the directories of live sessions); a session that
resumes replaces the record of a scratch that could not be removed; a
clean, a sweep or a late capture may write over a ledger it has not read since
it changed; a sweep or a clean acts on a listing that does not show a session that
started since, inside a directory it removes; a clean that read a session's ledger
when that had ended removes the old scratch with the one of the resumed session in it,
if the process that resumed it was started from the old shell. The last two break what
the documentation promises (see 6). The properties
name these cases one by one; that there is no other is what `NothingForgotten` and
`RemovalsAreHeld` prove.

## 3. What the runs check

Every run is exhaustive for its constants. `CHECK_DEADLOCK FALSE` is set
everywhere because the systems do stop: all tasks have ended, all attempts are
over, or a bound (`Max...`) is used up.

| run | question | instance |
|---|---|---|
| `agent_sessions` | slots, exclusion, scratch, reports, verdicts, refinement; the stop ladder ends; a late exit frees its slot; transports of sessions | two overlapping writers, two slots, a waiter, two questions open at once; three activations, up to two calls, up to two faults |
| `runner_quarantine` | violated, see 6 | one task |
| `runner_services` | slots and wake-ups of the runner without process groups; one outcome and agreeing ends of the child's channel, and that its promises settle; the child's permission; sounds | two tasks for one slot; two notifications, two queries, one frame sent twice, windows and limits of one; two sessions, two revocations, two requests; three events |
| `services` | mutual exclusion, live owners, attributable acquisitions; the graph store as a ledger; severe findings; the history; scratch directories; revocations | see below |
| `review_lock_moves` | violated, see 6 | three attempts, two processes, two recoveries |
| `review_store_quorum` | violated, see 6 | two lineages, two interruptions |
| `prompt_history_overlap` | violated, see 6 | two deletes and a capture |
| `parent_session` | no wake lost, none racing; exactly-once forwarding to the right session, and that it happens | one talking task, two sessions, a prompt, a vanishing prompt, one retry; two tasks and one session without prompts, two retries; in both a compaction and two rejected sends |
| `parent_delivery_vanish` | violated, see 6 | two tasks, one rejected send, one vanishing prompt |
| `background_jobs` | lines, ends and sessions of jobs | a monitor with two lines and a command, a notice of one line, two sessions, one rejected send |
| `background_jobs_end` | violated, see 6 | one monitor, one rejected send |
| `session_scratch_held` | violated, see 6 | three processes: one dies, one nests, one sweeps |

`services` takes, by subject: three acquisitions in three processes and two
recoveries; two acquisitions with `recoverIncomplete()`; two lineages and two
interruptions, with retries at once; a reader and one interruption; two findings; three pairs of
deletes and compactions beside a capture, over two files, with one death or
error (`CallSets`); five castings of processes that nest, die,
resume, reload, delegate and clean over three directories and one artifact
(`SessionScratch.Scenarios`, `Cap` of one candidate removed by a sweep); a consent with
two repositories and two revocations. The transport in `agent_sessions` has five
`Plans`: the recipient starts and dies at any point, the sender is replaced, two calls
meet a listener that takes one, three records exceed a cap of two, a death meets a
sweep that goes wrong.

Properties with several parts:

- `RunnerInv`: `SlotsBoundProcesses` and `NoLostWakeup`, with one slot for two
  tasks. `VerdictsFinal`: a verdict is kept until the report, and a reported
  record does not change.
- `ChannelInv`: one answer to a query, no question left behind, and ends that
  agree. `PromisesSettle`: the child's promises and the parent's `reply()` calls.
- `SoundsInv`, `StartsInTime`: one sound, a candidate has something that will
  wake it, silencing reaches the backend; fresh and throttled when it starts.
- `MutualExclusion`, `LiveLockKept`: one live holder, and a live owner that loses the
  lock by its own release only, but for what `review_lock_moves` shows: both speak of
  behaviours up to the first recovery that moved a lock it had not read, and
  `LiveLockKept` says that this one was misled.
- `OneEnd`: a job's end is told at most once, never while it runs, and not at all for
  a job that `job_stop` stopped while it ran (`halted`), whose tool call tells it.
- `StoreInv`, `IsLedger`: answers stand in the journal, keys act once, only the first
  publication leaves no authority, all until two interruptions lost it; a loss takes
  two; reads without the lock are current.
- `CompletionsArrive`, `ContentSeen`: `CompletionForwarded` and `StoredContentSeen` of
  ParentDelivery, in a parent that nobody prompts. `WakesNeverRace`: `NoRacingWakes`,
  where there are prompts. The two instances differ in `RetryLimit` (1 and 2), so that
  the retries run out in one and cover the rejected sends in the other.
- `VerdictReported`, `LateExitsFreed`: for all tasks at once: whenever some task has a
  verdict without a report, or some child whose exit came after its quarantine (`late`)
  a slot, there will be a moment when none has.
- `NothingLost` of PromptHistory: but for four named ways (a capture, or the append of
  a rewrite, that writes to an inode nobody reads again; a rewrite that dies or fails
  before late lines are carried over; a file replaced unread) a prompt that was not
  deleted is in a file or in lines that a rewrite will put back.
- `NoScratchForgotten`: directories stay on record, but for the cases its comment
  names. `RemovalsHeld`: the scratch of a live session stays (`LiveScratchKept`), what
  a ledger lists stays listed while it exists (`ArtifactsListed`), and an artifact in
  the scratch of its session goes through its own checks only (`OwnChecksOnly`).
- `TransportInv`: an accepted message was delivered, once, to the session and
  the activation that was meant; a listening session has its record unless a
  sweep misjudged it; a closed one has none, unless every removal
  it tries failed; a refused record is gone. `TransportEnds`: calls, startups and closes end.

Why the bounds are enough: the properties relate one task to itself or two
tasks to each other, and nothing in the code counts beyond the limits that are
constants. Two tasks with one slot make a queue meet a full pool, with two
slots they race; three processes let one recover what another left while the
third acquires; one or two rejected sends are enough to fail part of a flush
and the flush that follows; two sessions show a change of session. In
`background_jobs`, limits of one make overflow, merging and flooding
happen with two lines. A window, a limit or a cap of one or two is met and
exceeded by the next id, query, callback or record. Two interruptions are the
fewest that tear three slots apart (`LossTakesTwo`). The
scenarios of the file-based parts fix which calls meet, never their order. Where TLAPS proves the property the bound no longer
matters.

## 4. Fairness

- **AgentRunner**, `Fairness`: the microtask and the timers of Node run, a
  spawned child reports spawn or error, and the exit of a dead child is
  observed. No fairness for children, users or calls. `KillFairness` adds
  that SIGKILL ends a process group the runner has killed.
- **ParentDelivery**, `Fairness`: armed timers and the wake's microtask run; of
  the host, that an announced prompt starts or joins a run, that a run and a
  compaction end, and, strongly, that a run settles (a run may be
  continued before it does). Nothing says that a user prompts.
- **BackgroundJobs**, `FairSpec`: the same, and that a log is closed
  (`output.end` calls back, with an error too). Commands need not end.
  `ExitTold` has no more rejected sends than retries; beyond the limit the notice
  waits for the parent's next event, as the code intends.
- **ChildMessaging**, `Fairness`: the timers of both sides and the callbacks of
  sends. Neither frames nor peers are fair: a promise settles without them.
- **SessionTransport**, `Fairness`: the promises of the file system and the
  timers of a client go on. The user's consent, the connection being
  accepted and served are not fair. `close()` waits for peers it has answered: a peer
  that is suspended, so that neither its reads nor its timers run, keeps it
  waiting.
- The parts of `services` are checked for safety: callers of the lock give up instead
  of waiting, and the others are bounded sequences of file system calls.

## 5. What is proved

For every value of the constants that satisfies the named assumptions of the
modules, with no bound on tasks, processes, sessions or limits:

| module | theorems |
|---|---|
| `AgentRunnerProofs` | `TypeCorrect`, `Invariant`, `SlotsBound`, `WritersExclude`, `ScratchKept`, `FinishReportedOnce`, `WakeupNotLost`, `VerdictsStand`, `Refinement` |
| `ParentDeliveryProofs` | `TypeCorrect`, `Invariant`, `DeliveredOnce`, `Served`, `ToItsSession`, `LostNever`, `ReplayedNever`, `HeldInBusyParent`, `WakesDoNotRace` |
| `BackgroundJobsProofs` | `Invariant`, `LinesKept`, `EndedOnce`, `ToTheirSession` |
| `RunnerServicesProofs` (channel) | `ChannelInvariant`, `ChannelKept` |
| `SessionTransportProofs` | `Invariant`, `TransportSafe` |
| `RunnerServicesProofs` (sounds) | `SoundsInvariant`, `SoundsKept`, `StartsKept` |
| `ReviewProofs` (lock) | `LockTypeCorrect`, `LockInvariant`, `Exclusion`, `OwnerKept`, `Attributed` |
| `ReviewProofs` (reducers) | `PolicyTypeCorrect`, `PolicyInvariant`, `FindingsSettled` |
| `ReviewProofs` (permission) | `PermissionInvariant`, `PermissionsHold`, `RevokedForGood` |
| `ReviewProofs` (store) | `StoreInvariant`, `StoreSafe`, `LedgerKept` |
| `SessionScratchProofs` | `RecordsKept`, `NothingForgotten`, `OwnersKept`, `RemovalsAreHeld` |
| `PromptHistoryProofs` | `CopiesAreKept`, `PromptsKept` |

The hypotheses, beside the constants' types and what `PlansFit` and `LimitsFit` say
of scenarios and delays: `~IncompleteRecovery` for
`LockInvariant`, `Exclusion` and `OwnerKept` (no code under `lib/` calls
`recoverIncomplete()`, and with it exclusion fails, see 6; `Attributed` does
without); `~SlowPrompts` for `WakesDoNotRace` (a prompt starts its run within the grace).

**AgentRunner.** None of the safety properties is inductive: what a step does to a slot
depends on the queue, the registry and the timers together. `IInv` adds
`QueueInv` (the queue holds exactly the queued tasks, once each), `SlotInv`
(who owns a slot, with which verdict and timer), `ClaimInv` (a writer has its
claim while it is queued or owns a slot, and claims do not overlap) and
`ProcessInv` (a process that is alive belongs to a slot; a scratch directory
exists while it may be used). Lemmas for
`finish`, `completeExit`, `requestStop` and the queue's splice are shared by
the actions; `StepInv` has a step per action. `Refinement` maps each step to
a step of `TaskSlots` or a stutter: `SlotInv` tells whether a slot is freed by
finishing or given back later, and `ClaimInv` that an admitted writer overlaps
no open task. `VerdictsStand` shows `VerdictKept` of every action: each way to
finish a task or to judge its child first looks whether that was done, and `IInv`
relates what it looks at to the verdict.

**ReviewLock.** `LockInv` says, for every program point of an attempt, what
the lock path holds: between its `mkdir` and its move the directory is the
attempt's own as long as it is alive. What a recovery read stays there until its owner
gives the lock back or the one destination named after its token is taken; so two
recoveries cannot move one owner's lock and then its successor's, and the recovery
that first takes a lock it had not read was misled (`OwnerKept`). All of it is said of
the states before such a recovery, since none of it survives one.

**ParentDelivery.** `DeliveryInv`: content that is pending was never received,
a completion counts as delivered only if its task ended, and an owed wake has a
microtask, a timer, a prompt or a busy host. The helpers are relations between
queue, wake and timers (`FlushAll`, `Send`, `Held`), so
the proof first shows what a flush guarantees (`StepGood`), then that every
action is such a step; the action properties follow from the same lemma.

`WakesDoNotRace` adds `StartInv`: outside a run the extension knows of every prompt
that is starting, and none is left when a run ends.

**BackgroundJobs.** `LinesAccounted` and `LinesInOrder` are not inductive. `IInv`
(`Kept`) says that the lines told, those pending and those in the batch are, one
behind the other, a rising sequence of the lines that were printed, counting those
omitted, and that a job's end was handed over as often as it ended (`Ended`). A
job that speaks belongs to the open session, so the queue drops nothing of it.
Lemmas treat the steps of the desk apart: a merge, a flush under any set of
rejected sends (`FlushServes`), a batch handed over and an end behind it
(`BatchHanded`, `EndHanded`); an action changes one job, and a frame lemma covers
the others.

**ChildMessaging.** `NoteInv` says why a window of identifiers suffices: a
notification followed by less than a window of others is still in it. `ReplyInv`
follows a query's answer through the frame, the send and its callback, so that both
ends agree. The lemmas on sequences treat frames that are inserted, removed and
acknowledged.

**SessionTransport.** `IInv` counts the faults: a record that outlives the
listener has survived every removal that was tried, and each of them cost a fault
(`Recorded`). `Staged` relates the startup, the state of the listener and its
memoized cleanup; `Calls` says which activation a call may have found. The
argument about a message is that an activation never changes its session (`Kept`).

**NotificationScheduler.** Per scheduler (`Sound`), a candidate has a timer or waits
behind a sound that has started, and what a replacement or a change of settings
silences is aborted; across schedulers (`PlaybackInv`), the backend is at work for
the one that `playback` names.

**ReviewStore.** `SlotInv` is the quorum argument: until the authority is lost, the
second slot holds it, whether or not the third was ever repaired, and another slot
agrees but between the first two writes of a publication. `WellInv` (each key acts
once in what is or may become the authority) and `ReadInv` (a value two reads agree
on was the authority at some time of the reading) rest on it, and `LedgerKept` shows
that each step appends to the history or leaves it: the refinement of `ReviewLedger`.
`FaultInv` counts the interruptions that a loss takes.

**ReviewPolicy, StandingPermission.** `OrdinaryInv` and `JudgmentInv` say, per
phase, what is known of each severe finding, which is what an approval later
relies on. `CallInv` ties what a call saw before an await to the epoch it captured, and
`LineInv` the channel of a child to the one request whose answer it accepts.

**SessionScratch.** A step that writes a ledger may be far from the read it rests on.
`IInv` (`Records`) says what each of them carries: the scratch of a session that lasts
is the same in its memory, in what it takes the file for and in the write under way
(`Session`, `Writing`); a sweep or a clean drops a scratch only once it is gone
(`Others`); a resumption's ledger names its own session's scratch (`Resuming`). So a
write that loses a record that is still needed either replaces it knowingly
(`forgotten`) or replaces a ledger it has not read since that changed (`clobbered`).

What a removal may take depends on who made what, which no ledger says. `Owners` adds
it: any ledger, however old the listing it stands in, names a scratch that its own
process made for its own session (`Of`), so a listing that shows the scratch of a live
session also shows it live, and the removal holds it. No process makes a scratch
inside one of its own (`Outside`, a closed set of directories around it): a clean that
empties a session's directory cannot reach the scratch it works in. A session is open
once (`Once`); a clean that outlives its session tells by the age of an entry what a
later process made (`OldKnown`); and what lies in the scratch of an ended session was in
the ledger that the clean read (`Inherited`). A frame (`Grows`, `Gains`, `CleanGoes`)
says what a step of another process can change of this: directories and artifacts
are made once, and a ledger gains only what a live process made in its own place. The
three parts of `RemovalsHeld` follow per action (`ScratchStep`, `ListsStep`,
`ChecksStep`) from two facts on removals: what is held stays (`HeldStays`), and an
artifact that goes with its scratch was not in the list the remover held (`RemovedArts`).

**PromptHistory.** `NothingLost` is not inductive: by the time a rewrite carries late
lines over, the copy of the earlier ones may itself have been rewritten. Inodes are
numbered as they are made. `Safe(k, i)` says that a prompt is excused, or in
an inode younger than `i` that a reader finds or a rewrite will read, and `HInv` that
each rewrite's read lines are safe beyond the inode it read. A step that takes a
name from an inode leaves its lines safe beyond it (`TargetsNewer`), which needs that
the names a call will create are nobody else's (`NamesFree`). Lines on their way from a
read to a write count as safe as long as their rewrite goes on (`Promised`); a write to
an inode that nobody will read again excuses them.

Only model-checked:

- liveness (`VerdictReported`, `LateExitsFreed`, `CompletionsArrive`,
  `ContentSeen`, `ExitTold`, `PromisesSettle`, `TransportEnds`) and everything
  that needs ENABLED: out of the prover's reach.
- `RunnerInv` and `IncompleteAttributed` are about a second instance of AgentRunner
  and ReviewLock; `SlotsBound`, `WakeupNotLost` and `Attributed` prove what they
  say for every instance.

## 6. Where the code disagrees with its comments

Each is a run with one property that TLC refutes; `findings` quotes the lines.

- `runner_quarantine`: a descendant that outlives an exit observed *before* the
  quarantine is never probed again. The comment at
  `agents-runner.ts:1124-1126` promises to probe until it is gone.
- `review_lock_moves`: `recover()` reads the record of an owner that then releases the
  lock and ends; another process acquires it; the old owner is found dead, and the
  rename takes the new owner's lock. Two processes can hold the lock after that.
- `parent_delivery_vanish`: a wake cancels the retry of another completion; if
  its prompt starts no run, an idle parent keeps that completion queued.
- `review_store_quorum`: two publications in a row that stop half way leave three
  different CURRENT slots, which neither a read nor the repair can resolve.
- `prompt_history_overlap`: two deletes that overlap discard a prompt that a third
  instance appends in between.
- `session_scratch_held`: a sweep lists the ledgers once; a session started from the
  shell of a dead one, which records its scratch inside the dead one's directory
  afterwards, loses it with that directory.
- `background_jobs_end`: a monitor's events notice whose send fails is
  requeued behind the exit that the same flush sends.

Noticed without a run of its own: `recoverIncomplete()` can be given the intent of a
dead loser, and moves away the directory of a live acquisition, where
`tests/review-lock.test.ts:172` wants a dead one (`QuarantinesDeadIncomplete` in
`ReviewLock`: `ReviewLockMoves.cfg` with `IncompleteRecovery = TRUE` and that property
shows it). The sweep of presence records takes every
probe error but a time-out for a refusal, so a process that runs out of
descriptors while it sweeps removes the records of live sessions, where the
comment at `agents-session-transport.ts:254-255` keeps a record on an unexpected
error; `misjudged` in `TransportInv` is that exception. A listener that fails
leaves its session with a client and without a listener until the next session.
`/gentle:scratch clean` reads the ledgers of ended sessions before it waits for Git and
the user, and `heldBy()` skips what the present ledger of the same session names
(`session-scratch.ts:122-130`, `285-341`): a session that was resumed meanwhile inside
its old directory loses its live scratch. `docs/readme-reference.md:739` rules that out for
removals through another session's ledger, and this one goes through an outdated ledger
of the same session; the list of what a clean keeps (`:743`) names the scratch of other
live sessions without that exception. It is `Former` in `LiveScratchKept`; the window needs a process started from the shell of the
one that died. `Outdated` there is the case of `session_scratch_held`, of which a clean
and a late listing of an ended session are other instances.

## 7. Not modelled

- In modelled files: the overlap algorithm of `writer-surfaces.ts`, the Windows
  path of `moveNoReplace()`, staleness texts, the output tail and log of a job,
  the foreground yield of a TASK-mode child, the validation of frames and
  records, the grants of `session-messaging-grants.ts` (they spare a question),
  the limit of eight outbound calls, the migration of old history
  files, torn lines, `TMPDIR` policies of the scratch, more than one write of a
  ledger under way.
- Pi itself, the `gentle-ai` binary, audio backends and the file systems are
  external; the actions standing for them allow what the code allows for.
- Everything `PROJECT.json` lists as `not_modelled`, with the reason there.

## 8. Plan

1. `TaskStore`: retention and active lists; `WriterSurfaces`: the overlap
   decision as operators, against a definition by sets of paths.
2. `SessionProfiles`: pending selections and generations against copied
   sessions; then voice dictation and the design canvas.

None of the modules uses RECURSIVE, so each can get a proof module. A new part
joins the MC module whose runs have room.
