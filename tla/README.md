# Formal models of the ClawHQ platform

This directory holds TLA+ models of the concurrent core of the platform,
configurations that check them with TLC on small instances, and theorems about
them that TLAPS checks for every instance. The code is the reference: every
definition names in `PROJECT.json` (`map`) the lines it is translated from.
Paths below are relative to `src/services/openclaw/src/` unless they start
with `services/` or `apps/`.

    tlc -workers 2 -config CommandQueue.cfg MCCommandQueue.tla
    tlapm CommandQueueProofs.tla

## 1. The system

The repository is a monorepo of products that talk to each other over HTTP. Its
logic that is hard to test sits in the OpenClaw gateway, a single Node.js
process that turns inbound messages, timers and hooks into agent turns and
sends the answers out. What follows is the inventory; parts are listed with
the reason where they are not modelled.

| Component | State | Operations | Interacts with | Hard because | Correct when |
|---|---|---|---|---|---|
| Command queue, `process/command-queue.ts` | per lane: queue, active ids, limit, generation, `draining`; a global drain flag | enqueue, pump, resize, clear, mark draining, reset all, wait for active | every agent turn runs in it; the run loop resets and drains it | a task runs inside `pump` until its first await and may call back; restarts disown running tasks | entries kept once, slots exact, no stall, "drained" true, everything started or cleared |
| Followup queue, `auto-reply/reply/queue/*.ts`, `utils/queue-helpers.ts` | per session: items, dropped summary, settings, drain flag; registry; recent ids | enqueue, debounce, collect / one-by-one / summary turn, clear | `agent-runner.ts` fills it while a run is active and kicks it when one ends | the array is edited while a turn over a copy of it is awaited; the registry entry may be replaced under a drain | nothing lost, nothing run twice, run in the order of arrival, one destination for what the check of a collected turn saw, no stranded queue |
| Outbound delivery queue, `infra/outbound/*` | one file per message, `.delivered` marker, `failed/` | enqueue, send, ack, fail, move to failed, startup scan | channels; server start-up | crashes, partial sends, failing files, scans beside live sends | never lost, sent again only for a reason, finitely many attempts, every entry resolved |
| Heartbeat wakes and runner, `infra/heartbeat-wake.ts`, `infra/heartbeat-runner.ts` | handler, pending wakes, one timer, `running`, `scheduled`; per runner an interval timer | request, timer callback, run, retry, start/stop runner, config reload, enable/disable | cron, hooks, exec events, the main lane of the command queue, gateway restarts | one-shot timers, a batch that outlives its runner | no wake forgotten or downgraded, none without a timer, heartbeats go on |
| Gateway run loop and restart, `cli/gateway-cli/run-loop.ts`, `infra/restart.ts` | restart resolver, shutting-down flag, deferral polls, lock | signals, deferral, drain, restart in process | command queue, embedded runs, all servers | signals at any await; two polls; queued work during a drain | work is refused only for a restart; one server, with the lock; a restart asked for comes; shutdowns end |
| Embedded run lanes, `agents/pi-embedded-runner/*` | active runs by session | queue in session lane, then in a global lane | command queue | a slot is held while waiting for another | no circular wait |
| Exec approvals, `gateway/exec-approval-manager.ts` | pending map, timers, grace entries | register, resolve, expire, await, consume once | exec tools, operators | a decision races the expiry | one outcome; allow-once used once |
| Session and file locks, `agents/session-write-lock.ts`, `plugin-sdk/file-lock.ts`, `infra/gateway-lock.ts` | lock file, held map, watchdog | acquire, reclaim stale, release | several processes | check, remove, create are three steps | one holder |
| Announce and keyed queues, `agents/subagent-announce-queue.ts`, `plugin-sdk/keyed-async-queue.ts` | items, draining; tails per key | enqueue, drain | shares `queue-helpers.ts` with the followup queue | as the followup queue | as the followup queue |
| Cron service, `cron/service/*` | jobs file, running marker, timer | add, edit, run, catch up | heartbeats, isolated runs | crash between run and store; edits during a run | one execution of a job at a time, no slot skipped, no timer lost, a one-shot once |
| Subagent registry, `agents/subagent-registry.ts` | runs, announcements | register, complete, announce, sweep | embedded runs | persisted, retried announcements | each completion announced |
| Channel manager, inbound debounce | account status, restart counters, buffers | start, stop, auto restart, flush | channels | stop races automatic restart | no orphaned account |
| OpenFang provider cooldown and kernel, `services/openfang/crates/*` | breakers, approvals, quotas | record, check, probe, approve | LLM drivers | results of requests older than the state | breaker state matches results |
| Paperclip issue checkout and heartbeat service, `services/paperclip/server` | database rows | checkout, release, adopt, runs | agents | read then conditional update | one run owns an issue |
| Hermes, dashboard, registry, worker, UI, docs | none, or a database elsewhere | request handlers | | sequential I/O | out of scope |

## 2. Plan

Ordered by how much of the system depends on the component. A module that has
theorems declares no recursive operator.

| Stage | Modules | Abstract specification | Runs | Theorems |
|---|---|---|---|---|
| 1, done | `CommandQueue`, `LanePool` | a first-come first-served pool of lanes | `command_queue` | types, slots, no stall, conservation, drained, refinement |
| 1, done | `FollowupQueue` | | safety, lossless, overflow | types, one route, not stranded, no rerun, order, nothing vanishes |
| 1, done | `DeliveryQueue`, `Outbox` | a box in which messages are retried until they leave for good | overlap, live, in-flight | types, never lost, not sent twice, bounded attempts, refinement |
| 1, done | `HeartbeatWake` | | heartbeat, disabled | types, wakes heard, wakes kept, heartbeat goes on, bounded overlap |
| 2, done | `GatewayRestart`, which extends `CommandQueue` | | `gateway_restart` | types, the queue's theorems under restarts, refusals, one server, disowned tasks |
| 2, done | `CronService` | | `cron` | types, one execution, timer, no slot skipped, one-shots end |
| 2, done | `SessionLock` | a mutual exclusion, as long as no file is removed in a named way | `session_lock` | types, locks kept |
| left | `EmbeddedRuns` (tasks of two lanes over `CommandQueue`), the announce queue as a variant of `FollowupQueue`, `plugin-sdk/file-lock.ts` and `infra/gateway-lock.ts` as variants of `SessionLock`, `ExecApproval`, `IssueCheckout`, `AuthCooldown` | a one-shot decision for `ExecApproval` | as they come | |

Runs are kept few: one for each question. Where a disagreement between code
and text is not a run of its own, section 6 says how to see it in a run that
exists.

## 3. The modules and what their runs show

In every `MC` module the constants are model values and the specification is
the checked one; no definition is replaced. Operators marked "Mutant" are
variants of the definition below them, with a bug such code could have; they
are not used by any specification and serve to show that each property can fail.

### CommandQueue and LanePool

JavaScript is single threaded but re-entrant: `pump` calls `entry.task()`, and
what the task does before its first await runs inside `pump`. The call stack
is therefore a variable (`stack`, of pump and task frames); only its top frame
moves, and timers, promise continuations and outside callers wait until it is
empty (`EventLoop`). `Enqueue`, `ClearCommandLane`, and `MarkGatewayDraining` are
possible from the event loop and from inside a task; resizing (only config
reloads call it) and resetting (only the run loop does) from the event loop.
`Complete` is `completeTask` with the pump that follows; a task of an older
generation frees nothing. `resetAllLanes` drains the lanes one by one, so
other steps of synchronous code come in between (`toDrain`). Tasks stand for
their ids, as an entry starts once.

* `command_queue` (three tasks in one lane, or one of them in a lane of its own;
  limits from `MCLimits`, one reset, shutdown waits): `QueuedOnce`, `SlotsExact`,
  `NoStall`, `DrainedMeansEnded`, that the queue implements `LanePool` with its
  queue as the waiting line and its active set as the servers
  (`ImplementsPool`), and that accepted tasks are started or cleared
  (`NothingWaitsForever`). Three tasks suffice for a running, a
  nested and a waiting one, one reset for a task of an older generation to
  settle; the theorems of section 4 need no such bound. Weak fairness of
  `RunToCompletion` is what JavaScript is; strong fairness of `TaskSettles`
  stands for the time limit every run carries and for the event loop, which
  serves a settled promise however often others come first.

### GatewayRestart

`GatewayRestart` extends `CommandQueue`: the variables of the lanes are shared,
the run loop's drain is the queue's `gatewayDraining` and `waiter`, and
`Resume` is an iteration of the loop with `resetAllLanes`. `loop` is where
`runGatewayLoop` waits, `shutdown` and `phase` where the asynchronous function in
`request()` is: draining, closing the server, releasing the lock, exiting or
taking the lock again. Every way to ask for a restart ends in an emit of SIGUSR1
whose listener runs at once (`Emit`), so tokens and authorizations never
outlive a step. The deferral polls of earlier watchers go on after a restart
(`polls`). A successor process that was spawned, or an exit because the lock is
another's, ends the process in the model. `activeRun` is the table of embedded
runs the drain also waits for. `ServerCloses` closes the server or throws before
the last step of `server-close.ts` has closed the HTTP server (lines 69 to 75
await channels and a watcher without a handler): `request()` logs the error,
forgets the server and hands the lock over, with the server still listening.
`missedServer`, `stray`, `gaveUpLock` and `queuedAtDrain` are history: they name the
situations in which the plain statements do not hold (section 6).
`missedServer` is set by a restart that goes past a starting server and ends with
the next reset of the lanes; `stray` stays.

* `gateway_restart` (one lane with two tasks, two restarts asked for in any of
  the ways, stops, closes that hang or throw, starts that fail):
  `RefusesOnlyForRestart`, `OneServer`, `DisownedAfterWait`, `ShutdownsEnd`, and
  `AskedIsServed`: whatever a restart that was asked for waits with (the timer, a
  poll of its own, the watcher's poll) survives starts, closes and other
  restarts, and the restart comes or the process ends. Two restarts are what a
  restart during a restart takes. Strong fairness of `LoopSteps` stands for timers
  and promises that the event loop serves; every wait has a deadline in the
  code, and the closing of the server, which has none, is not in it.

### CronService

Sections under `locked()` are one action each and end with the store on disk, so
a crash lies between them; what is awaited outside is `runs`. A run is checked
(a manual run between its two sections), due, running, or ended, waiting for
the section that settles it; a tick and a start settle their batch together.
`StartClears`, `StartPlans`, `StartApplies`, `StartArms` are the sections of
`start()` with its catch-up; `TimerFires`, `TickApplies` those of `onTimer`;
`Preflight`, `Reserve`, `ManualApplies` those of `run()`. `NextRun`, `Maintained`,
`Recomputed` and `Settled` are `computeJobNextRunAtMs`, the two recomputations
and `applyJobResult` on whole units of time; `Walk` is the normalization every
recomputation begins with. A copy of a job that outlives a reload of the store
is the choice in `Begin`.

The lock serves sections in the order of the calls. That order matters between
the reservation of a manual run, which `prepareManualRun` calls for only after
its check has returned, and a section that settles a batch: `ahead` of a checked
run holds the batches that had ended when it was checked. Their sections may
have been called for while the check waited, or may come later; a batch that
ends after the check is behind the reservation. `Settle` respects this, and a
section may come before the reservation or after it in all other cases.

Three history variables name what the plain statements leave out. `unguarded`: since
the job was last not executed at all it was disabled (by a client, or because
it is a finished one-shot that is forced), or its marker was older than
STUCK_RUN_MS; these are the causes in the code, not the loss of the marker.
`beside` of a manual run: the job was being executed when it was checked. `putOff`:
a one-shot had run when it was deferred.

* `cron` (a one-shot and a recurring job of either kind, times 1 to 2, two edits
  or manual runs, or one of them and a crash): `OneExecution`, `TimerKept`,
  `OneShotOnce`, `NoSlotSkipped`. A period is one unit, so that a slot becomes due
  during a run; a marker expires after one unit too (`StuckAfter` is 0, and it
  must be older). The clock starts when a first slot has passed. With one
  immediate catch-up, another job is deferred. No liveness: a schedule is about
  times, and `TimerKept` says that a timer is set whenever one is needed.

### SessionLock

One session file and its lock file. Each await of `acquireSessionWriteLock` is a
state of the client (`pc`): creating the file, writing its payload, reading and
inspecting a file that is there, reclaiming it. A lock is the number of its
file, so that "the same file" is a matter of numbers where the code compares
only paths. `removing` are locks that are out of the table and whose `rm` is still
to come; `Watchdog` and `Signal` release locks under their users. `Crash` and `Exit`
end a process, `Restart` gives it a new start time: where the platform tells
start times (`starttimes`) pid reuse is noticed, elsewhere not. `Ages` makes a
file old at any time, `SweepReads` and `SweepRemoves` are `cleanStaleLockFiles`.
`broken` records the first removal of a file of another live lock, and how:
a lock that was too old or whose pid looked dead ("live"), a contender that
read an older file ("race"), a sweep.

* `session_lock` (two clients in one process, a third in another that may end
  once; three acquisitions, one sweep): `LockKept`, that whoever counts on the
  lock has its file at the path unless `broken` says otherwise, and
  `EveryTryEnds`. Three clients are the least at which one reclaims, one has
  just created and one shares. Fairness: file operations return, users
  release, files grow old; deadlines need not pass.

### FollowupQueue

One session; sessions share no state. The registry entry (`current`) and the
queue objects (`Queues`) are apart, because a drain keeps its object while a
clear removes the entry and the next message makes a new one. `drain[q]` is the
loop of `scheduleFollowupDrain`: debounce, then one turn at a time, each a
snapshot (`batch`, `summary`) that the code awaits and afterwards removes from
the array as the array is then. A collected turn has an await of its own before
that: `CollectCheck` looks at the routes (`drain.ts:102`), and `CollectBatch` takes,
one await later and without looking again, what is in the queue by then (`117`);
`checked` is history, the messages the check saw. `StartMain`/`EndMain` are runs
outside the queue; `AfterEnqueue` is the check of `agent-runner.ts` that kicks the drain
when the run ended meanwhile. `fate` is history: what became of each message.

* `followup_safety`: both modes, all policies, cap 2, clears: `NoRerun`,
  `BatchHasOneRoute` (of two messages of a batch from different places the later
  one joined after the check), and `RunsInOrder`: a drain runs no message before
  one that waits ahead of it, though the drop policy may evict what a turn that failed
  is about to run again.
* `followup_lossless`: policy "new", nothing cleared, so nothing may be lost:
  `Accounted`, `NotStranded`, `EveryMessageRuns`. Four
  messages reach a full queue beside a running turn. Fairness: runs and timers
  end, and a turn that is tried again and again succeeds at some time.
* `followup_overflow` finds `Accounted` violated, see section 6.

### DeliveryQueue and Outbox

A message's file (`json` with its retry count, `marker`, `failed`) is worked on
by the call that delivers it (`Live`) and by start-up scans (`Recoveries`);
`job[m][w]` is the await each has reached. Each file operation is one step and
may fail (`DiskMayFail`), except that writing a temporary file and renaming it
is one. A crash takes all workers away; an in-process restart takes none. The
retry loop of the restart sentinel is inside the state "sending". A copy to the
transcript that fails after a full send makes the send throw (`Mirrored`), and a
failing rename inside a scan is a failed delivery there: both are excused in
`got`. Bounds: crashes; counts stop one above the largest number they are
compared with. `Outbox` is what the queue promises with workers, scans, files and
crashes left out: a message is taken in once, its retries are counted one by
one, and it leaves once and for good, acknowledged only if the recipient has it
or the caller cancelled it. `Place`, `Tries` and `Done` are the refinement mapping.

* `delivery_overlap`: one message, the live call and two scans at once, a crash,
  failing files: `NeverLost`.
* `delivery_live`: scans that have the queue to themselves (`Overlap = FALSE`),
  two messages, two crashes: a repetition has an unrecorded success before it
  (`NeverTwice`), `AttemptsBounded`, `EveryEntryResolves`, and that the whole is an
  `Outbox` (`ImplementsOutbox`). No timer starts
  a scan, so the fairness of `Restart` is an assumption about operations: the
  gateway is restarted again and again. Strong fairness of the attempt at the
  first entry says that its backoff, ten minutes at most, does not coincide
  with every one of infinitely many scans.
* `delivery_inflight` finds `NeverTwice` violated, see section 6.

### HeartbeatWake

A wake of a target has a priority (interval 1, default 2, action 3); `pending`
keeps the highest for each target, `batch[b]` is one execution of the timer's
callback: the wakes it took, those still to do, the one being run and its
answer. `RunReturns` is `run`'s finally block, which sets the interval timer
again; `Ran`, `Busy` and `Threw` are what the callback does with the answer. All
delays of the wake layer are at most the retry delay, so a timer that is set is
never the worse one (`Schedule`), and time is left out. The order of targets in
a batch, and which agents are due, are left open. Batches are alike, and so are
runners, so the next one used is a fixed choice among the unused (`OneOf`).
What is turned down because heartbeats are off or the runner is stopped takes no
time and is one step with what follows. `MaxSetbacks` bounds runs that find the
main lane busy or throw: liveness is claimed for wakes that are not put off for
ever.

* `heartbeat`: two runners (one restart), two targets, an urgent wake beside
  the interval's, one setback, heartbeats switched off and on. `WakeHeard`,
  `WakeKept`, `StopsOnlyWhenOff`, `BatchesBounded` and, under weak fairness of timers
  and callbacks, `EveryWakeAnswered`. Two runners are the least at which a batch
  outlives its runner and overlaps with the next one's; the bound is reached.
* `heartbeat_disabled` finds `HeartbeatGoesOn` violated, see section 6.

## 4. What is proved

All proofs are checked by `tlapm` with no step left out. They hold for every
value of the constants that satisfies the named assumption of the module.

| Theorem | Module | Argument |
|---|---|---|
| `TypeCorrect` | `CommandQueueProofs` | one step per action |
| `WorkConserving` | | `PumpInv`: a set `draining` flag has its pump frame on the stack, and a lane that could start something has a pump frame or is still to be drained by the reset. `NoStall` alone is not inductive: it says nothing while the stack is not empty. |
| `SlotsAreExact`, `NeverLostOrDuplicated` | | `SlotInv`: what is in a queue is what is queued there, without repetition; frames on the stack are of started tasks; no task is of a later generation than its lane |
| `DrainedIsTrue` | | `WaiterInv`: what is waited for was started |
| `QueueImplementsPool` | | each step is one of `LanePool` or a stutter, from `SlotInv` |
| `LanesOutliveRestarts` | `GatewayRestartProofs` | the five theorems of the queue, of the gateway's behaviours: nothing is lost, leaked or stalled by a drain, a forced reset or an in-process restart. By the lemma `GatewayIsAClient`: the run loop moves the lanes only by operations of the queue, which is how the module is built |
| `GatewayTypeCorrect` | | with `AskedFor`: polls, timers and pending requests are no more than what was asked for |
| `RefusalsHaveReason`, `ServersAreHandedOver` | | `HandOver`: what must be true while the loop may be resumed, who accounts for the lock, and that it is taken again only in a restart. The properties alone say nothing of a server that is still to be closed. The second is about gateways in which no restart went past a starting server and no close threw. |
| `OnlyWaitedForIsDisowned` | | `DrainInv`, over the types of the queue and `NeverLostOrDuplicated`: while the gateway drains, what is active was active or queued when it began |
| `TypeCorrect` | `DeliveryQueueProofs` | a worker at work belongs to a scan that runs |
| `StoredIsNeverLost` | | `SafeInv`: a worker that acknowledges has delivered, the caller cancelled, or the message is of `BestEffort`. No assumption on overlap, crashes or disks. |
| `RecordedIsNotSentAgain`, `RetriesAreBounded` | | `SequentialInv`: one scan at a time, or deliveries (`Alone`); what a scan has read is still true when it comes to the entry (`ReadIsTrue`); whoever works on an entry has it until the rename (`HasEntry`); the retry count lags behind the attempts by the one at work, and by one for each crash (`Budget`). Both assume `~Overlap`: with overlap `NeverTwice` is violated (section 6). `RetriesAreBounded` also assumes `~DiskMayFail`: a count that is not stored is an attempt that is not counted. |
| `QueueImplementsOutbox` | | each step is one of `Outbox` or a stutter, from `SequentialInv`, `SafeInv` (nothing is acknowledged for nothing) and `FiledOnce`: an entry that was moved to `failed/` is not in the queue too. Assumes `~Overlap`: with overlap `failDelivery` brings entries back (section 6). Files may fail. |
| `TypeCorrect` | `FollowupQueueProofs` | lemmas on the sequence operators (`MakeRoom`, `TailIs`) and on what scheduling and ending a drain does to the registry |
| `OneRoutePerTurn` | | what the check saw stays in front of what joined the queue in the await after it, through evictions, clears and redeliveries; then the batch is those messages, which share a route, followed by newcomers, and a drain is left alone by every step but its own |
| `NeverStranded` | | with `OneDrain`: only the registry's queue is drained. Assumes that nothing is cleared: a clear leaves a drain on a queue the registry does not know, and its end may delete the entry of another. |
| `NeverRerun` | | `Known` (what waits or is run is in the dedupe cache), `Once` (a message is at one place of its queue, and of one live queue) and `Removable` (what is being run is nowhere but where the success will remove it). For every message whose own id stays in the cache, whatever others are forgotten or cleared. |
| `FirstComeFirstRun` | | `Front`: what a turn runs stands ahead of what it does not. That the turn's messages are a prefix is not invariant, as the drop policy evicts from the front; `Moved` says how any step changes a live queue: items leave at the front, one newcomer comes to the back. No assumption: no message overtakes another, and one that can be forgotten is excused only from being run before those ahead of it. |
| `NothingVanishes` | | `AtFront` (what a turn runs is still at the front of its queue) and `Queued`. Assumes `Keeps`: no clears, and a full queue refuses newcomers; where it evicts, `Accounted` is violated (section 6). |
| `TypeCorrect` | `HeartbeatWakeProofs` | lemmas on the three ways a batch can change |
| `PendingIsHeard` | | inductive as it stands, from `StepKinds`, which says for all steps but `StartRunner` what becomes of batches, `running` and the timer |
| `OverlapIsBounded` | | `WakeInv`: when `running` is false there is a whole batch to spare. `BatchesBounded` alone would not survive the start of a batch. |
| `WakesAreKept` | | `WakeSteps`: every step leaves wakes alone, raises them, fires, records an answer or goes on with a batch. Then the highest wake held for a target is held after the step by the same holder, or was passed on to `pending` or to the new batch (`CarriedOn`). |
| `HeartbeatStopsOnlyWhenOff` | | by the same kinds of steps, what keeps the interval going is passed on. Needs `HandlerLive`: a batch turns wakes down if its runner is not live, which the registered one is. |
| `TypeCorrect` | `CronServiceProofs` | lemmas on the operators on jobs: each recomputation gives a well-typed store. A result may give a disabled one-shot a time, which the maintenance in the same section takes away (`Fair`, `Good`). |
| `OneExecutionAtATime` | | `CronInv`: a marker has a run (`Marked`), a run without a marker is `unguarded` (`Guarded`), a guarded job has one run (`Alone`). The property needs all three: a batch takes jobs without a marker, which excludes other runs only through `Guarded`. As `unguarded` is set by its causes, that no other step takes a marker from under a run is part of the proof. The second half of the property has the hypothesis `~unguarded`. |
| `TimerAlwaysSet` | | only a one-shot that ended well has no time (`Fair`), so a reading call, which arms nothing, gives no job a time |
| `SlotsAreKept` | | from `Guarded`, a due job with a result has a run that lost its marker, or is run for a slot it had before; what each section leaves alone of such a job is in lemmas on the operators. Exempt are the end of a run of the job, an update or removal of it, its deferral, any add and the last section of a start; checks and reading calls are not |
| `OneShotsEnd` | | `OnceInv`: a one-shot that is over has no time unless it was put off, and what a client found due is not over when it reserves it, unless it was checked beside a run that had lost its marker. The second half rests on `AheadInv`: a section that may be served between the check and the reservation is of a batch that had ended, so if it ran the job, the check met its marker or ran beside it. |
| `CronSlotIsNext` | | of the operator `NextRun`, for every time and period: a cron job gets the first slot after now; from division by the period |
| `EverySlotIsNext` | | the same for an "every" job whose last run is a period ago: the first slot after its anchor that has not passed, where now still counts |
| `ResultsMoveOn` | | `RunsMoveOn`, a step property stated with the proof: a result leaves a recurring job a time not before the run's end or its backoff, and after its beginning unless a client forced it. `TimesInv` (a run ends after it began, a batch has one run of a job, the catch-up runs nothing it deferred), the two facts above, and that the maintenance after a result recomputes only a forced run's slot |
| `TypeCorrect` | `SessionLockProofs` | `Basic`: types, and that nobody works on no lock |
| `LocksAreKept` | | `LockInv`: as long as nothing is broken, who counts on a file has it (`Kept`), nobody else does (`Apart`), the count is the number of users (`Counted`), and a file found stale has no live lock (`Judged`) |

Only model-checked: liveness and fairness (`NothingWaitsForever`, `ShutdownsEnd`, `AskedIsServed`,
`EveryMessageRuns`, `EveryEntryResolves`, `EveryWakeAnswered`, `EveryTryEnds`), which
are out of the prover's reach. Every other property of a passing run is a theorem.

## 5. Bounds

`Tasks`, `Messages`, `Targets`, `Runners`, `Recoveries` are the sizes of the instances.
`MaxGeneration`, `MaxCrashes`, `MaxRequests`, `MaxSetbacks`, `MaxAsked`, `MaxEdits`, `MaxEvents`,
`MaxTries`, `MaxEnds`, `MaxSweeps` cap what the environment may do, in guards;
`MaxTime` ends the clock of `CronService`, `MaxErrors` its count of errors. `Queues` bounds the queue objects alive at one
time, `Batches` the callbacks in flight; `OverlapIsBounded` shows that as many
`Batches` as `Runners` are never too few. Symmetry is used in safety runs only,
over sets whose members no property orders. Deadlock checking is off where the
system may stop for good: when all tasks or messages of the instance are done,
or when the last runner is stopped.

## 6. Where the code and its texts disagree

Checked as runs that must find a violation:

* `followup_overflow`: while a collected turn runs, a new message that exceeds
  the cap removes the oldest items of the same array (`queue-helpers.ts:96`); when
  the turn ends, `items.splice(0, items.length)` (`drain.ts:138`) removes as many
  as the turn had from the front, among them messages that were not in it.
* `delivery_inflight`: the scan at start-up (`gateway/server.impl.ts:1139`) is not
  awaited; it finds the entry of a message the same process is sending and
  sends it as well.
* `heartbeat_disabled`: the interval timer fires while heartbeats are switched
  off; `run` returns before its finally block, and nothing sets the timer again
  when they are switched on (`heartbeat-runner.ts:1073`).

Visible with other constants, for a reader who wants to see them:

* `OneByOneDefault` for `Settings` in `FollowupQueue_overflow.cfg`: after a summary
  turn the drain shifts a head that was not run (`drain.ts:152`).
* `MayClear = TRUE` in `FollowupQueue_lossless.cfg`: a drain that ends deletes the
  registry entry of the queue made after a clear (`drain.ts:180`).
* `{[collect |-> FALSE, cap |-> 1, drop |-> "summarize"]}` for `Settings` under
  `FairSpec`: `drain[q].pc = "debounce" ~> drain[q].pc # "debounce"` fails. What is
  left is a summary without an item to answer, and the drain is scheduled for
  ever without a turn (`drain.ts:164`, `183`).
* without `drain[q].checked` in `BatchHasOneRoute` of `FollowupQueue_safety.cfg`: a
  message of another route that arrives in the await of `drain.ts:104`, between
  the check and the batch, is answered at the place of the batch, although
  `docs/concepts/queue.md` says that messages for different channels or threads
  drain individually.
* drops that arrive during a summary turn are forgotten when its state is
  cleared (`drain.ts:166`).
* `BestEffort = {1}` in `DeliveryQueue_overlap.cfg`, and `NeverLost` for all
  `Messages`: a scan acknowledges a
  best-effort message that was not sent, having no `onError`
  (`delivery-queue-recovery.ts:194`).
* `failDelivery` reads and writes the entry with awaits in between, so it can
  bring an acknowledged entry back (`delivery-queue-storage.ts:182`).
* the end of a batch of a stopped runner resets `running` under the next
  runner's batch, so that two batches of one runner overlap
  (`heartbeat-wake.ts:187`); `BatchesBounded` is the bound that does hold.

In `GatewayRestart`, by dropping a disjunct of the property:

* without `missedServer`: a restart accepted while `params.start()` runs finds no
  resolver (`run-loop.ts:92`); the drain flag stays, so new work is refused,
  until the next reset, and the server that comes up is one the restart did not
  close.
* without `stray`: a close that throws before the HTTP server is closed
  (`server-close.ts:69`) is logged (`run-loop.ts:167`), and the lock is handed over
  with the old server listening.
* without `gaveUpLock`: after a failed in-process start the lock is released
  (`run-loop.ts:247`) and the next iteration starts a server without it.
* without `queuedAtDrain`: tasks that waited when the drain began start during
  it and are disowned by the reset, though nobody waited for them.
* a stop during a restart is ignored (`shuttingDown`), as the log line says.

In `CronService`:

* without `Add` and `StartArms` in `NoSlotSkipped`: `add`
  (`cron/service/ops.ts:251`) and the last section of `start` (`ops.ts:124`)
  advance a past-due slot of any job, although `timer.ts:988` wants such values
  to "execute on a future tick instead of being silently advanced".
* without `putOff` in `OneShotOnce`: a one-shot that ran while it was deferred
  gets a new time (`timer.ts:975`). Without `beside`: a manual run that is checked
  while a run with an expired marker has ended reserves the one-shot after the
  result of that run was settled, as the reservation looks only at the marker
  (`ops.ts:442`).
* without `unguarded` in `OneExecution`: disabling a running job clears its
  marker, so that after enabling it runs beside itself, and the result of the
  first run clears the marker of the second. A finished one-shot that is kept is
  disabled, so while it is forced any reading call clears its marker
  (`jobs.ts:362`) and it can be forced beside itself. And a marker older than
  STUCK_RUN_MS is cleared under a run that goes on.
* a one-shot interrupted by a crash is not replayed by the catch-up, as the test
  `cron/service.restart-catchup.test.ts:195` wants, but stays due for the first tick.

In `SessionLock`, by dropping `broken = "never"`:

* two contenders behind a crashed process remove each other's lock
  (`agents/session-write-lock.ts:558`), the watchdog and signals take locks
  from users that go on (`205`), the sweep removes a file whose payload is not
  written yet, which `acquire` spares (`446`), and without start times a
  process may take its own fresh file for an orphan.

## 7. Not modelled

In modelled components: logging, formatting and the `onWait` callback of the
command queue; `refreshQueuedFollowupSession` and the callback cache of the
followup queue (production callers never restart a drain through it); the
migration of delivery entries of older versions; what one heartbeat does; how a
successor process is spawned and hot reloads of single subsystems; cron services
replaced by a config reload, failing writes of the cron store, schedules that
cannot be computed, stagger of cron slots, `MIN_REFIRE_GAP_MS`, the session
reaper; the order in which sections of the cron lock are served, except between
the reservation of a manual run and a section that settles a batch (`ahead`); an
`rm` that fails when a session lock is released.

Of the components in section 1 that have no module, those listed as left in
section 2 can be modelled in the same way. The others are sequential I/O around
services, user interface and text.
