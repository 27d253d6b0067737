---------------------------- MODULE CronService ----------------------------
(***************************************************************************)
(* The cron service of the OpenClaw gateway (cron/service/): jobs with a    *)
(* schedule, the timer's ticks that collect, run and settle the due ones,   *)
(* the catch-up of a start after a crash, manual runs, and clients that     *)
(* edit jobs meanwhile.                                                     *)
(*                                                                         *)
(* Every section under locked() is one action: sections of one store are    *)
(* served one after the other and end with a rename of the store file, so a *)
(* crash falls between them and memory is what is on disk.  Executions and  *)
(* everything else that waits happens outside them.                         *)
(***************************************************************************)
EXTENDS Integers, FiniteSets

CONSTANTS
    Jobs,
    Manuals,        \* clients that run jobs
    Kinds,          \* which schedule kinds the jobs may have: functions
    Kept,           \* jobs without deleteAfterRun
    Period,         \* of recurring jobs
    Backoff,        \* by consecutive errors
    MaxAttempts,    \* retries of a one-shot after transient errors
    MaxErrors,      \* bound: errors are not counted further
    StuckAfter,     \* STUCK_RUN_MS
    Concurrency,    \* maxConcurrentRuns
    MaxImmediate,   \* maxMissedJobsPerRestart
    Stagger,        \* missedJobStaggerMs
    MaxTime,        \* bound
    MaxEdits,       \* bound: edits and manual runs by clients
    MaxCrashes,     \* bound
    MaxEvents       \* bound: edits, manual runs and crashes

ASSUME CronAssumption ==
    /\ IsFiniteSet(Jobs)
    /\ Kinds \subseteq [Jobs -> {"every", "at", "cron"}]
    /\ Kept \subseteq Jobs
    /\ Period \in Nat \ {0}
    /\ MaxErrors \in Nat /\ MaxAttempts \in 0 .. MaxErrors - 1
    /\ Backoff \in [1 .. MaxErrors -> Nat]
    /\ StuckAfter \in Nat /\ Concurrency \in Nat \ {0} /\ MaxImmediate \in Nat
    /\ Stagger \in Nat
    /\ MaxTime \in Nat /\ MaxEdits \in Nat /\ MaxCrashes \in Nat
    /\ MaxEvents \in Nat
    /\ Manuals \cap {"start", "tick"} = {}

VARIABLES
    now,
    kind,           \* the kind of each job, fixed
    store,          \* the jobs, in memory and on disk
    boot,           \* how far start() is, or "down"
    interrupted,    \* startupInterruptedJobIds
    deferred,       \* deferredJobIds of the catch-up plan
    armed,          \* whether a timer is set
    running,        \* state.running: a tick has taken due jobs
    runs,           \* runs checked, waiting, going on, or not yet settled
    unguarded,      \* history: a marker of the job's runs may be cleared
    putOff,         \* history: one-shots that were done when they were deferred
    edits, crashes

vars == <<now, kind, store, boot, interrupted, deferred, armed, running, runs,
          unguarded, putOff, edits, crashes>>

NoTime == -1
Times == Nat \cup {NoTime}
Results == {"ok", "skipped", "transient", "permanent"}
Actors == Manuals \cup {"start", "tick"}

(* base: the `at` of a one-shot, the anchor of an "every" job.              *)
Job == [stored: {"new", "yes", "removed"}, enabled: BOOLEAN, base: Nat,
        next: Times, marked: Times, lastRun: Times,
        lastStatus: {"none", "ok", "skipped", "error"}, errors: 0 .. MaxErrors]

(* force: mode "force" of a manual run.  ahead: whose settling sections may *)
(* be in front of its reservation in the queue of the lock.  beside:        *)
(* history, the job was being run when it was checked.                      *)
Run == [by: Actors, job: Jobs, force: BOOLEAN,
        phase: {"checked", "due", "running", "ended"}, at: Nat, until: Nat,
        result: Results, ahead: SUBSET Actors, beside: BOOLEAN]

Holders(rs, j) == {r \in rs : r.job = j /\ r.phase # "checked"}

TypeOK ==
    /\ now \in Nat
    /\ kind \in [Jobs -> {"every", "at", "cron"}]
    /\ store \in [Jobs -> Job]
    /\ boot \in {"down", "planning", "running", "arming", "up"}
    /\ interrupted \subseteq Jobs
    /\ deferred \subseteq Jobs
    /\ armed \in BOOLEAN
    /\ running \in BOOLEAN
    /\ runs \subseteq Run
    /\ unguarded \in [Jobs -> BOOLEAN]
    /\ putOff \subseteq Jobs
    /\ edits \in Nat /\ crashes \in Nat
    /\ \A r \in runs :
          /\ r.by = "start" => boot = "running"
          /\ r.by = "tick" => running
          /\ r.phase = "checked" => r.by \in Manuals
    /\ \A j \in Jobs :
          store[j].stored = "yes" /\ ~store[j].enabled => store[j].next = NoTime

-----------------------------------------------------------------------------
Gone == [stored |-> "removed", enabled |-> FALSE, base |-> 0, next |-> NoTime,
         marked |-> NoTime, lastRun |-> NoTime, lastStatus |-> "none", errors |-> 0]

Greater(a, b) == IF a < b THEN b ELSE a

(* computeJobNextRunAtMs: an "every" job keeps its distance to the last     *)
(* run, or else to its anchor, where a slot that is now counts as next; a   *)
(* cron slot is after now; a one-shot stays due until it is done.           *)
NextRun(j, job, t) ==
    CASE ~job.enabled -> NoTime
      [] job.enabled /\ kind[j] = "every" ->
            IF job.lastRun # NoTime /\ job.lastRun + Period > t
            THEN job.lastRun + Period
            ELSE IF t < job.base THEN job.base
            ELSE job.base + Period * Greater(1, (t - job.base + Period - 1) \div Period)
      [] job.enabled /\ kind[j] = "at" ->
            IF job.lastStatus = "ok" /\ job.base <= job.lastRun
            THEN NoTime ELSE job.base
      [] job.enabled /\ kind[j] = "cron" -> Period * (t \div Period + 1)

(* normalizeJobTickState, for jobs that are stored.                         *)
Normalized(job) ==
    CASE ~job.enabled -> [job EXCEPT !.next = NoTime, !.marked = NoTime]
      [] job.enabled /\ job.marked # NoTime /\ now - job.marked > StuckAfter ->
            [job EXCEPT !.marked = NoTime]
      [] OTHER -> job

Due(job) ==
    /\ job.stored = "yes" /\ job.enabled /\ job.marked = NoTime
    /\ job.next # NoTime /\ job.next <= now

(* walkSchedulableJobs normalizes every job of a store, before what is done *)
(* with the schedulable ones.                                               *)
Walk(s) == [j \in Jobs |-> IF s[j].stored = "yes" THEN Normalized(s[j]) ELSE s[j]]

(* recomputeJobNextRunAtMs of those among the jobs.                         *)
Recompute(s, js) ==
    [j \in Jobs |-> IF j \in js /\ s[j].stored = "yes" /\ s[j].enabled
                    THEN [s[j] EXCEPT !.next = NextRun(j, s[j], now)] ELSE s[j]]

(* recomputeNextRuns: what is missing or past due.                          *)
Recomputed(s) ==
    LET w == Walk(s)
    IN Recompute(w, {j \in Jobs : w[j].next = NoTime \/ w[j].next <= now})

(* Mutant: the maintenance recomputes what is past due.                     *)
MaintainedFully(s, expired) == Recomputed(s)

(* recomputeNextRunsForMaintenance: what is missing and, for some callers,  *)
(* a slot that was executed.                                                *)
Maintained(s, expired) ==
    LET w == Walk(s)
    IN Recompute(w, {j \in Jobs :
                       \/ w[j].next = NoTime
                       \/ /\ expired
                          /\ w[j].next <= now /\ w[j].marked = NoTime
                          /\ w[j].lastRun >= w[j].next})

(* applyJobResult and the deletion of a one-shot that is done.              *)
Settled(j, job, r) ==
    LET failed == r.result \in {"transient", "permanent"}
        errors == IF failed
                  THEN IF job.errors < MaxErrors THEN job.errors + 1 ELSE MaxErrors
                  ELSE 0
        done == [job EXCEPT !.marked = NoTime, !.lastRun = r.at, !.errors = errors,
                            !.lastStatus = IF failed THEN "error" ELSE r.result]
        natural == IF r.force /\ kind[j] = "every"
                   THEN NextRun(j, [done EXCEPT !.lastRun = job.lastRun], r.until)
                   ELSE NextRun(j, done, r.until)
        retry == r.until + Backoff[Greater(1, errors)]
    IN IF kind[j] # "at"
       THEN [done EXCEPT !.next = IF ~job.enabled THEN NoTime
                                  ELSE IF failed THEN Greater(natural, retry)
                                  ELSE natural]
       ELSE IF r.result = "ok" /\ j \notin Kept THEN Gone
       ELSE IF r.result = "transient" /\ errors <= MaxAttempts
       THEN [done EXCEPT !.next = retry]
       ELSE [done EXCEPT !.enabled = FALSE, !.next = NoTime]

(* The runs of a batch, or one manual run, settled; results of jobs that    *)
(* were removed are discarded.                                              *)
AllSettled(s, ended) ==
    [j \in Jobs |->
        IF s[j].stored = "yes" /\ \E r \in ended : r.job = j
        THEN Settled(j, s[j], CHOOSE r \in ended : r.job = j) ELSE s[j]]

Mark(s, js) == [j \in Jobs |-> IF j \in js THEN [s[j] EXCEPT !.marked = now] ELSE s[j]]

(* A due run of a tick or a start.                                          *)
NewRun(by, j) ==
    [by |-> by, job |-> j, force |-> FALSE, phase |-> "due", at |-> 0, until |-> 0,
     result |-> "ok", ahead |-> {}, beside |-> FALSE]

(* All runs of a batch have ended: its settling section is called for.      *)
Settling(by) ==
    /\ \/ \E r \in runs : r.by = by
       \/ by = "start" /\ boot = "running"
    /\ \A r \in runs : r.by = by => r.phase = "ended"

(* A manual run that passed its check: the reservation is called for only   *)
(* now; batches that have ended are about to call for their sections too,   *)
(* or did while the check waited, and may be in front of it.                *)
CheckedRun(m, j, force) ==
    [NewRun(m, j) EXCEPT !.force = force, !.phase = "checked", !.at = now,
                         !.ahead = {by \in Actors : Settling(by)},
                         !.beside = Holders(runs, j) # {}]

(* Mutant: a slot that has passed does not set the timer.                   *)
WakesLater(s) == \E j \in Jobs : s[j].stored = "yes" /\ s[j].enabled /\ s[j].next > now

(* nextWakeAtMs: armTimer sets the timer if there is a time to wake at.     *)
Wakes(s) == \E j \in Jobs : s[j].stored = "yes" /\ s[j].enabled /\ s[j].next # NoTime

(* A one-shot that ended well, and was not given a later time since.        *)
Done(s, j) ==
    kind[j] = "at" /\ s[j].lastStatus = "ok" /\ s[j].base <= s[j].lastRun

(* While it is run, a job may lose its marker to a call that walks the      *)
(* store: once it is disabled, by a client or because it is done, and once  *)
(* the marker is older than STUCK_RUN_MS.                                   *)
Guard == unguarded' =
    [j \in Jobs |->
        /\ Holders(runs', j) # {}
        /\ \/ unguarded[j]
           \/ ~store'[j].enabled
           \/ store[j].marked # NoTime /\ now - store[j].marked > StuckAfter]

-----------------------------------------------------------------------------
Fresh(j, base, t) ==
    LET job == [Gone EXCEPT !.stored = "yes", !.enabled = TRUE, !.base = base]
    IN [job EXCEPT !.next = NextRun(j, job, t)]

(* The store that an earlier process left at time 0, with some of the jobs; *)
(* a first slot has passed since.                                           *)
Init ==
    /\ now = Period
    /\ kind \in Kinds
    /\ \E js \in SUBSET Jobs :
          store = [j \in Jobs |-> IF j \in js
                                  THEN Fresh(j, IF kind[j] = "at" THEN Period ELSE 0, 0)
                                  ELSE [Gone EXCEPT !.stored = "new"]]
    /\ boot = "down"
    /\ interrupted = {}
    /\ deferred = {}
    /\ armed = FALSE
    /\ running = FALSE
    /\ runs = {}
    /\ unguarded = [j \in Jobs |-> FALSE]
    /\ putOff = {}
    /\ edits = 0
    /\ crashes = 0

Elapse ==
    /\ now < MaxTime
    /\ now' = now + 1
    /\ UNCHANGED <<kind, store, boot, interrupted, deferred, armed, running, runs,
                   unguarded, putOff, edits, crashes>>

Crash ==
    /\ boot # "down"
    /\ crashes < MaxCrashes /\ edits + crashes < MaxEvents
    /\ crashes' = crashes + 1
    /\ boot' = "down"
    /\ interrupted' = {}
    /\ deferred' = {}
    /\ armed' = FALSE
    /\ running' = FALSE
    /\ runs' = {}
    /\ UNCHANGED <<now, kind, store, putOff, edits>>
    /\ Guard

-----------------------------------------------------------------------------
(* start(): its first section is the first of the process.                  *)
StartClears ==
    /\ boot = "down"
    /\ boot' = "planning"
    /\ interrupted' = {j \in Jobs : store[j].marked # NoTime}
    /\ store' = [j \in Jobs |-> [store[j] EXCEPT !.marked = NoTime]]
    /\ UNCHANGED <<now, kind, deferred, armed, running, runs, putOff, edits, crashes>>
    /\ Guard

(* A one-shot with a result waits for a retry; a recurring job for the end  *)
(* of its backoff, if a later slot was scheduled; a cron job that ran       *)
(* before has missed a slot also if a slot has passed since its last run.   *)
MissedAtStart(j) ==
    LET job == store[j]
        backedOff == job.lastStatus = "error"
                     /\ now < job.lastRun + Backoff[Greater(1, job.errors)]
    IN /\ job.stored = "yes" /\ job.enabled /\ job.marked = NoTime
       /\ j \notin interrupted
       /\ \/ kind[j] = "at" /\ Due(job)
             /\ \/ job.lastStatus = "none"
                \/ job.lastStatus = "error" /\ job.next > job.lastRun
          \/ kind[j] # "at" /\ Due(job)
          \/ /\ kind[j] = "cron" /\ job.next > now /\ ~backedOff
             /\ job.lastRun # NoTime
             /\ Period * ((now - 1) \div Period) > job.lastRun

(* planStartupCatchup: as many as are allowed at once, the earliest first.  *)
StartPlans ==
    /\ boot = "planning"
    /\ LET missed == {j \in Jobs : MissedAtStart(j)}
       IN \E chosen \in SUBSET missed :
             /\ Cardinality(chosen) <= MaxImmediate
             /\ chosen = missed \/ Cardinality(chosen) = MaxImmediate
             /\ \A j \in chosen, k \in missed \ chosen : store[j].next <= store[k].next
             /\ deferred' = missed \ chosen
             /\ store' = Mark(store, chosen)
             /\ runs' = runs \cup {NewRun("start", j) : j \in chosen}
             /\ boot' = IF missed = {} THEN "arming" ELSE "running"
    /\ interrupted' = {}
    /\ UNCHANGED <<now, kind, armed, running, putOff, edits, crashes>>
    /\ Guard

(* The runs of a batch leave the queue of the lock with its section.        *)
Without(by) ==
    {IF r.phase = "checked" THEN [r EXCEPT !.ahead = @ \ {by}] ELSE r :
        r \in {q \in runs : q.by # by}}

(* Mutant: a batch is over when one of its runs is.                         *)
SettleFirst(by) ==
    LET over == {r \in runs : r.by = by /\ r.phase = "ended"}
    IN /\ over # {}
       /\ \A r \in runs : r.phase # "checked"
       /\ runs' = runs \ over

(* Mutant: the section takes place before a reservation that was called for *)
(* earlier.                                                                 *)
SettleOutOfTurn(by) ==
    /\ Settling(by)
    /\ runs' = Without(by)

(* The section takes place in its turn: a reservation that is under way is  *)
(* behind it only if it was called for later.                               *)
Settle(by) ==
    /\ Settling(by)
    /\ \A r \in runs : r.phase = "checked" => by \in r.ahead
    /\ runs' = Without(by)

(* The runs that a section settles.                                         *)
EndedOf(by) == {r \in runs : r.by = by}

(* applyStartupCatchupOutcomes: the deferred jobs get times of their own.   *)
StartApplies ==
    /\ boot = "running"
    /\ Settle("start")
    /\ LET s == AllSettled(store, EndedOf("start"))
           later == {j \in deferred : s[j].stored = "yes" /\ s[j].enabled}
       IN \E rank \in [later -> 1 .. Cardinality(later)] :
             /\ \A j, k \in later : rank[j] = rank[k] => j = k
             /\ putOff' = putOff \cup {j \in later : Done(s, j)}
             /\ store' = Maintained(
                    [j \in Jobs |-> IF j \in later
                                    THEN [s[j] EXCEPT !.next = now + Stagger * rank[j]]
                                    ELSE s[j]], FALSE)
    /\ boot' = "arming"
    /\ deferred' = {}
    /\ UNCHANGED <<now, kind, interrupted, armed, running, edits, crashes>>
    /\ Guard

(* The last section of start().                                             *)
StartArms ==
    /\ boot = "arming"
    /\ boot' = "up"
    /\ store' = Recomputed(store)
    /\ armed' = Wakes(store')
    /\ UNCHANGED <<now, kind, interrupted, deferred, running, runs, putOff, edits, crashes>>
    /\ Guard

-----------------------------------------------------------------------------
(* onTimer with its first section, which marks the due jobs, or else        *)
(* maintains the store and ends the tick with armTimer.  While a tick runs, *)
(* the timer is only set again.                                             *)
TimerFires ==
    /\ armed
    /\ ~running
    /\ LET due == {j \in Jobs : Due(store[j])}
       IN /\ store' = IF due = {} THEN Maintained(store, TRUE) ELSE Mark(store, due)
          /\ runs' = runs \cup {NewRun("tick", j) : j \in due}
          /\ running' = (due # {})
          /\ armed' = IF due = {} THEN Wakes(store') ELSE TRUE
    /\ UNCHANGED <<now, kind, boot, interrupted, deferred, putOff, edits, crashes>>
    /\ Guard

(* The second section, running = false and armTimer.                        *)
TickApplies ==
    /\ running
    /\ Settle("tick")
    /\ store' = Maintained(AllSettled(store, EndedOf("tick")), FALSE)
    /\ running' = FALSE
    /\ armed' = Wakes(store')
    /\ UNCHANGED <<now, kind, boot, interrupted, deferred, putOff, edits, crashes>>
    /\ Guard

(* A worker takes a due job; those of the tick set the marker again, unless *)
(* the store was reloaded and their job is a copy.                          *)
Begin(r) ==
    /\ r.phase = "due"
    /\ Cardinality({q \in runs : q.by = r.by /\ q.phase = "running"})
          < IF r.by = "start" THEN 1 ELSE Concurrency
    /\ runs' = (runs \ {r}) \cup {[r EXCEPT !.phase = "running", !.at = now]}
    /\ \/ UNCHANGED store
       \/ r.by = "tick" /\ store[r.job].stored = "yes" /\ store' = Mark(store, {r.job})
    /\ UNCHANGED <<now, kind, boot, interrupted, deferred, armed, running, putOff, edits, crashes>>
    /\ Guard

(* executeJobCoreWithTimeout answers.  To a recurring job all errors are    *)
(* the same.                                                                *)
End(r) ==
    /\ r.phase = "running"
    /\ \E result \in IF kind[r.job] = "at" THEN Results ELSE {"ok", "transient"} :
          runs' = (runs \ {r}) \cup
                      {[r EXCEPT !.phase = "ended", !.until = now, !.result = result]}
    /\ UNCHANGED <<now, kind, store, boot, interrupted, deferred, armed, running,
                   putOff, edits, crashes>>
    /\ Guard

-----------------------------------------------------------------------------
Client ==
    /\ boot # "down"
    /\ edits < MaxEdits /\ edits + crashes < MaxEvents
    /\ edits' = edits + 1

(* A one-shot is given a time to come, an "every" job begins anew.          *)
Base(j) == IF kind[j] = "at" THEN now + 1 ELSE now

Add(j) ==
    /\ Client
    /\ store[j].stored = "new"
    /\ store' = Recomputed([store EXCEPT ![j] = Fresh(j, Base(j), now)])
    /\ armed' = Wakes(store')
    /\ UNCHANGED <<now, kind, boot, interrupted, deferred, running, runs, putOff, crashes>>
    /\ Guard

(* A patch of `enabled` or of the schedule.                                 *)
Update(j) ==
    /\ Client
    /\ store[j].stored = "yes"
    /\ \E job \in {[store[j] EXCEPT !.enabled = ~store[j].enabled],
                   [store[j] EXCEPT !.base = Base(j)]} :
          store' = [store EXCEPT ![j] =
                [job EXCEPT !.next = NextRun(j, job, now),
                            !.marked = IF job.enabled THEN job.marked ELSE NoTime]]
    /\ armed' = Wakes(store')
    /\ UNCHANGED <<now, kind, boot, interrupted, deferred, running, runs, putOff, crashes>>
    /\ Guard

Remove(j) ==
    /\ Client
    /\ store[j].stored = "yes"
    /\ store' = [store EXCEPT ![j] = Gone]
    /\ armed' = Wakes(store')
    /\ UNCHANGED <<now, kind, boot, interrupted, deferred, running, runs, putOff, crashes>>
    /\ Guard

(* inspectManualRunPreflight, which maintains the store like the reading    *)
(* calls do, and finds the job due, free to be forced, or not.              *)
Preflight(m, j) ==
    /\ Client
    /\ \A r \in runs : r.by # m
    /\ store[j].stored = "yes"
    /\ store' = Maintained(store, FALSE)
    /\ \E force \in BOOLEAN :
          runs' = IF IF force THEN store'[j].marked = NoTime ELSE Due(store'[j])
                  THEN runs \cup {CheckedRun(m, j, force)} ELSE runs
    /\ UNCHANGED <<now, kind, boot, interrupted, deferred, armed, running, putOff, crashes>>
    /\ Guard

Reserved(r) == [r EXCEPT !.phase = "running", !.ahead = {}]

(* Mutant: the marker is not looked at again.                               *)
ReserveUnchecked(r) ==
    /\ r.phase = "checked"
    /\ runs' = (runs \ {r}) \cup {Reserved(r)}
    /\ store' = [store EXCEPT ![r.job].marked = r.at]
    /\ UNCHANGED <<now, kind, boot, interrupted, deferred, armed, running, putOff, edits, crashes>>
    /\ Guard

(* prepareManualRun's second section.                                       *)
Reserve(r) ==
    /\ r.phase = "checked"
    /\ IF store[r.job].stored = "yes" /\ store[r.job].marked = NoTime
       THEN /\ runs' = (runs \ {r}) \cup {Reserved(r)}
            /\ store' = [store EXCEPT ![r.job].marked = r.at]
       ELSE runs' = runs \ {r} /\ UNCHANGED store
    /\ UNCHANGED <<now, kind, boot, interrupted, deferred, armed, running, putOff, edits, crashes>>
    /\ Guard

(* finishPreparedManualRun, once the run has ended.                         *)
ManualApplies(m) ==
    /\ Settle(m)
    /\ IF \E r \in EndedOf(m) : store[r.job].stored = "yes"
       THEN /\ store' = Maintained(AllSettled(store, EndedOf(m)), TRUE)
            /\ armed' = Wakes(store')
       ELSE UNCHANGED <<store, armed>>
    /\ UNCHANGED <<now, kind, boot, interrupted, deferred, running, putOff, edits, crashes>>
    /\ Guard

-----------------------------------------------------------------------------
RunSteps(r) == Begin(r) \/ End(r) \/ Reserve(r)

ServiceSteps ==
    \/ StartClears \/ StartPlans \/ StartApplies \/ StartArms
    \/ TimerFires \/ TickApplies
    \/ \E r \in runs : RunSteps(r)
    \/ \E m \in Manuals : ManualApplies(m)

Next ==
    \/ ServiceSteps
    \/ \E j \in Jobs : Add(j) \/ Update(j) \/ Remove(j)
    \/ \E m \in Manuals, j \in Jobs : Preflight(m, j)
    \/ Elapse \/ Crash

Spec == Init /\ [][Next]_vars

-----------------------------------------------------------------------------
(* A marker always has a run that will take it away, and a job is run once  *)
(* at a time unless, since it was last not run at all, it was disabled (by  *)
(* a client, or as a finished one-shot that is forced) or its marker got    *)
(* older than STUCK_RUN_MS: nothing else takes a marker from under a run.   *)
OneExecution ==
    boot # "down" =>
        \A j \in Jobs :
            /\ store[j].marked # NoTime => Holders(runs, j) # {}
            /\ ~unguarded[j] => Cardinality(Holders(runs, j)) <= 1

(* A one-shot that ended well is run again only if a client forces it or    *)
(* gives it a later time, if the catch-up of a start, which goes by what    *)
(* was due before, gives it one, or if a manual run was let in beside a run *)
(* that had lost its marker.                                                *)
OneShotOnce ==
    [][\A j \in Jobs :
          Done(store, j) =>
             \A r \in Holders(runs', j) :
                r.force \/ r.beside \/ j \in putOff
                    \/ \E q \in Holders(runs, j) : q.by = r.by]_vars

(* The time of a due job changes only if the slot was run, by the end of a  *)
(* run of it, an edit of it, its deferral, or the two full recomputations,  *)
(* of add and of start: a tick, a manual run or an edit of another job, a   *)
(* check of any job and a reading call never skip a slot.                   *)
NoSlotSkipped ==
    [][\A j \in Jobs :
          Due(store[j]) /\ store'[j].next # store[j].next =>
              \/ store[j].lastRun >= store[j].next
              \/ \E r \in Holders(runs, j) : r.phase = "ended" /\ r \notin runs'
              \/ j \in deferred /\ StartApplies
              \/ Update(j) \/ Remove(j)
              \/ \E k \in Jobs : Add(k)
              \/ StartArms]_vars

(* No tick, start, manual run or edit leaves a job that has a time without  *)
(* a timer that will look at it.                                            *)
TimerKept ==
    boot = "up" =>
        \A j \in Jobs :
            store[j].stored = "yes" /\ store[j].enabled /\ store[j].next # NoTime => armed
=============================================================================
