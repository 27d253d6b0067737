---------------------------- MODULE HeartbeatWake ----------------------------
(***************************************************************************)
(* The wake queue of heartbeats and the runners that register with it       *)
(* (services/openclaw/src/infra/heartbeat-wake.ts and startHeartbeatRunner  *)
(* in heartbeat-runner.ts).                                                 *)
(*                                                                         *)
(* A wake asks for a heartbeat of a target and says how much it matters.    *)
(* Wakes of a target coalesce.  One timer takes everything pending as a     *)
(* batch, and calls the registered handler for each target in turn.  The    *)
(* handler is the run function of a runner, which also keeps an interval    *)
(* timer of its own.  An in-process restart stops a runner and starts       *)
(* another one while a batch of the first may still be waiting for a run.   *)
(***************************************************************************)
EXTENDS Integers, FiniteSets

CONSTANTS
    Targets,      \* keys of pendingWakes
    Everyone,          \* the key of a wake without a target, "::"
    Reasons,      \* priorities of the wakes that are requested
    Runners,      \* heartbeat runners, one for each start of the gateway
    NoRunner,
    Batches,      \* executions of the timer's callback
    MaxRequests,  \* bound: wakes requested other than by interval timers
    MaxSetbacks,  \* bound: runs that find the main lane busy, or throw
    MayDisable    \* set-heartbeats is used

ASSUME HeartbeatAssumption ==
    /\ Everyone \in Targets
    /\ Reasons \subseteq 0 .. 3
    /\ NoRunner \notin Runners
    /\ IsFiniteSet(Batches)
    /\ MaxRequests \in Nat /\ MaxSetbacks \in Nat
    /\ MayDisable \in BOOLEAN

VARIABLES
    handler,    \* the runner whose run function is registered
    pending,    \* pendingWakes: the priority of each target's wake, or NoWake
    timer,      \* timerKind, or "none"
    scheduled,
    running,
    batch,      \* what each execution of the callback has left to do
    enabled,    \* heartbeatsEnabled
    life,       \* whether each runner is started, and stopped
    agents,     \* whether its configuration has agents with a heartbeat
    armed,      \* whether its interval timer is set
    requests,   \* wakes requested so far
    setbacks    \* runs that were put off so far

wakeLayer == <<handler, pending, timer, scheduled, running, batch>>
runners == <<life, agents, armed>>
bounds == <<requests, setbacks>>
vars == <<wakeLayer, enabled, runners, bounds>>

-----------------------------------------------------------------------------
INTERVAL == 1
NoWake == -1

Wakes == [Targets -> NoWake .. 3]
None == [t \in Targets |-> NoWake]
Higher(p, q) == IF q > p THEN q ELSE p

(* Mutant: the wake that is pending stays, whatever its priority.           *)
MergeKeepingFirst(p, q) ==
    [t \in Targets |-> IF p[t] = NoWake THEN q[t] ELSE p[t]]

(* queuePendingWakeReason: a wake replaces one that matters no more than it. *)
Merge(p, q) == [t \in Targets |-> Higher(p[t], q[t])]
One(t, priority) == [None EXCEPT ![t] = priority]
Asking(p) == {t \in Targets : p[t] # NoWake}

Results == {"running", "ran", "requests-in-flight", "threw"}
Batch == [runner : Runners, wakes : Wakes, todo : SUBSET Targets,
          current : Targets, result : Results]
Over == [runner |-> NoRunner, wakes |-> None, todo |-> {},
         current |-> Everyone, result |-> "ran"]
InFlight == {b \in Batches : batch[b] # Over}
Started == {r \in Runners : life[r] # "new"}

(* Batches and runners are alike: which of them is next makes no difference. *)
OneOf(S) == CHOOSE x \in S : TRUE

(* A batch calls the handler once for each wake it took. *)
Orderly(work) ==
    /\ work.wakes[work.current] # NoWake
    /\ work.todo \subseteq Asking(work.wakes) \ {work.current}

TypeOK ==
    /\ handler \in Runners \cup {NoRunner}
    /\ pending \in Wakes
    /\ timer \in {"none", "normal", "retry"}
    /\ scheduled \in BOOLEAN /\ running \in BOOLEAN
    /\ batch \in [Batches -> Batch \cup {Over}]
    /\ \A b \in InFlight : Orderly(batch[b])
    /\ enabled \in BOOLEAN
    /\ life \in [Runners -> {"new", "live", "stopped"}]
    /\ agents \in [Runners -> BOOLEAN]
    /\ armed \in [Runners -> BOOLEAN]
    /\ requests \in 0 .. MaxRequests
    /\ setbacks \in 0 .. MaxSetbacks

Init ==
    /\ handler = NoRunner
    /\ pending = None
    /\ timer = "none"
    /\ scheduled = FALSE /\ running = FALSE
    /\ batch = [b \in Batches |-> Over]
    /\ enabled = TRUE
    /\ life = [r \in Runners |-> "new"]
    /\ agents = [r \in Runners |-> FALSE]
    /\ armed = [r \in Runners |-> FALSE]
    /\ requests = 0
    /\ setbacks = 0

-----------------------------------------------------------------------------
(* schedule.  A timer that is set is kept: every delay is at most the retry *)
(* delay, so a retry is never sooner than it, and no request made while a   *)
(* retry is due may be.  (One of two normal timers is as good as the other.) *)
Schedule(set, kind) == IF set = "none" THEN kind ELSE set

(* requestHeartbeatNow *)
Ask(t, priority) ==
    /\ pending' = Merge(pending, One(t, priority))
    /\ timer' = Schedule(timer, "normal")
    /\ UNCHANGED <<handler, scheduled, running, batch, enabled, life, agents,
                   setbacks>>

Request(t, priority) ==
    /\ requests < MaxRequests
    /\ requests' = requests + 1
    /\ Ask(t, priority)
    /\ UNCHANGED armed

(* The interval timer that scheduleNext sets. *)
IntervalFires(r) ==
    /\ armed[r]
    /\ armed' = [armed EXCEPT ![r] = FALSE]
    /\ Ask(Everyone, INTERVAL)
    /\ UNCHANGED requests

-----------------------------------------------------------------------------
(* run does nothing but say "disabled" for a runner that is not ready. *)
Ready(r) == life[r] = "live" /\ enabled /\ agents[r]

(* Mutant: the loop does not advance.                                       *)
NextCallWithoutAdvance(b, work) ==
    /\ Ready(work.runner)
    /\ \E t \in work.todo :
           batch' = [batch EXCEPT ![b] =
                        [work EXCEPT !.current = t, !.result = "running"]]

(* The loop of the callback: the next call of the handler ...              *)
NextCall(b, work) ==
    /\ Ready(work.runner)
    /\ \E t \in work.todo :
           batch' = [batch EXCEPT ![b] =
                        [work EXCEPT !.todo = @ \ {t}, !.current = t,
                                     !.result = "running"]]

(* ... or its end, where nothing is left or all that is left is turned down. *)
NoCall(work) == work.todo = {} \/ ~Ready(work.runner)

(* Mutant: no finally block, so `running` stays.                             *)
EndWithoutReset(b, wakes, set) ==
    /\ batch' = [batch EXCEPT ![b] = Over]
    /\ pending' = wakes
    /\ timer' = IF wakes # None \/ scheduled THEN Schedule(set, "normal")
                                             ELSE set
    /\ UNCHANGED running

(* The finally block. *)
End(b, wakes, set) ==
    /\ batch' = [batch EXCEPT ![b] = Over]
    /\ running' = FALSE
    /\ pending' = wakes
    /\ timer' = IF wakes # None \/ scheduled THEN Schedule(set, "normal")
                                             ELSE set

-----------------------------------------------------------------------------
(* The timer's callback: nobody to call, ...                               *)
TimerFiresUnheard ==
    /\ timer # "none"
    /\ handler = NoRunner
    /\ timer' = "none" /\ scheduled' = FALSE
    /\ UNCHANGED <<handler, pending, running, batch, enabled, runners, bounds>>

(* ... the last batch not over yet, ...                                     *)
TimerFiresBusy ==
    /\ timer # "none"
    /\ handler # NoRunner /\ running
    /\ scheduled' = TRUE
    /\ UNCHANGED <<handler, pending, timer, running, batch, enabled, runners,
                   bounds>>

(* Mutant: the callback does not look at `running`.                         *)
TimerFiresAnyway(b) ==
    /\ timer # "none"
    /\ handler # NoRunner
    /\ b \notin InFlight /\ b = OneOf(Batches \ InFlight)
    /\ LET work == [runner |-> handler, wakes |-> pending,
                    todo |-> Asking(pending), current |-> Everyone,
                    result |-> "running"] IN
       \/ NextCall(b, work) /\ running' = TRUE
       \/ NoCall(work) /\ UNCHANGED <<batch, running>>
    /\ pending' = None
    /\ timer' = "none" /\ scheduled' = FALSE
    /\ UNCHANGED <<handler, enabled, runners, bounds>>

(* ... or a new batch, of everything that is pending.                       *)
TimerFires(b) ==
    /\ timer # "none"
    /\ handler # NoRunner /\ ~running
    /\ b \notin InFlight /\ b = OneOf(Batches \ InFlight)
    /\ LET work == [runner |-> handler, wakes |-> pending,
                    todo |-> Asking(pending), current |-> Everyone,
                    result |-> "running"] IN
       \/ NextCall(b, work) /\ running' = TRUE
       \/ NoCall(work) /\ UNCHANGED <<batch, running>>
    /\ pending' = None
    /\ timer' = "none" /\ scheduled' = FALSE
    /\ UNCHANGED <<handler, enabled, runners, bounds>>

(* Mutant: run leaves its interval timer alone.                             *)
RunReturnsWithoutRearm(b, result) ==
    /\ b \in InFlight
    /\ batch[b].result = "running"
    /\ setbacks' = IF result = "ran" THEN setbacks ELSE setbacks + 1
    /\ setbacks' <= MaxSetbacks
    /\ batch' = [batch EXCEPT ![b].result = result]
    /\ UNCHANGED <<handler, pending, timer, scheduled, running, enabled,
                   runners, requests>>

(* run's finally block: scheduleNext, except where the wake layer retries.  *)
RunReturns(b, result) ==
    LET r == batch[b].runner IN
    /\ b \in InFlight
    /\ batch[b].result = "running"
    /\ setbacks' = IF result = "ran" THEN setbacks ELSE setbacks + 1
    /\ setbacks' <= MaxSetbacks
    /\ batch' = [batch EXCEPT ![b].result = result]
    /\ armed' = IF \/ life[r] = "stopped"
                   \/ result = "requests-in-flight" /\ batch[b].current = Everyone
                THEN armed ELSE [armed EXCEPT ![r] = agents[r]]
    /\ UNCHANGED <<handler, pending, timer, scheduled, running, enabled, life,
                   agents, requests>>

(* The callback goes on with the answer.  A busy main lane asks for a retry  *)
(* of the target, an exception for one of the whole batch.                  *)
Ran(b) ==
    /\ b \in InFlight /\ batch[b].result = "ran"
    /\ \/ NextCall(b, batch[b]) /\ UNCHANGED <<pending, timer, running>>
       \/ NoCall(batch[b]) /\ End(b, pending, timer)
    /\ UNCHANGED <<handler, scheduled, enabled, runners, bounds>>

Busy(b) ==
    /\ b \in InFlight /\ batch[b].result = "requests-in-flight"
    /\ LET t == batch[b].current
           wakes == Merge(pending, One(t, batch[b].wakes[t]))
           set == Schedule(timer, "retry") IN
       \/ /\ NextCall(b, batch[b])
          /\ pending' = wakes /\ timer' = set
          /\ UNCHANGED running
       \/ NoCall(batch[b]) /\ End(b, wakes, set)
    /\ UNCHANGED <<handler, scheduled, enabled, runners, bounds>>

Threw(b) ==
    /\ b \in InFlight /\ batch[b].result = "threw"
    /\ End(b, Merge(pending, batch[b].wakes), Schedule(timer, "retry"))
    /\ UNCHANGED <<handler, scheduled, enabled, runners, bounds>>

-----------------------------------------------------------------------------
(* Mutant: what was pending before the handler came gets no timer.          *)
StartRunnerWithoutSchedule(r, hasAgents) ==
    /\ life[r] = "new" /\ r = OneOf(Runners \ Started)
    /\ life' = [life EXCEPT ![r] = "live"]
    /\ handler' = r
    /\ timer' = "none"
    /\ running' = FALSE /\ scheduled' = FALSE
    /\ agents' = [agents EXCEPT ![r] = hasAgents]
    /\ armed' = [armed EXCEPT ![r] = hasAgents]
    /\ UNCHANGED <<pending, batch, enabled, bounds>>

(* startHeartbeatRunner: setHeartbeatWakeHandler, then updateConfig.        *)
StartRunner(r, hasAgents) ==
    /\ life[r] = "new" /\ r = OneOf(Runners \ Started)
    /\ life' = [life EXCEPT ![r] = "live"]
    /\ handler' = r
    /\ timer' = IF pending = None THEN "none" ELSE "normal"
    /\ running' = FALSE /\ scheduled' = FALSE
    /\ agents' = [agents EXCEPT ![r] = hasAgents]
    /\ armed' = [armed EXCEPT ![r] = hasAgents]
    /\ UNCHANGED <<pending, batch, enabled, bounds>>

(* cleanup.  The disposer leaves the handler of a newer runner alone. *)
StopRunner(r) ==
    /\ life[r] = "live"
    /\ life' = [life EXCEPT ![r] = "stopped"]
    /\ handler' = IF handler = r THEN NoRunner ELSE handler
    /\ armed' = [armed EXCEPT ![r] = FALSE]
    /\ agents' = [agents EXCEPT ![r] = FALSE]     \* nobody looks any more
    /\ UNCHANGED <<pending, timer, scheduled, running, batch, enabled, bounds>>

(* A reload of the configuration. *)
UpdateConfig(r, hasAgents) ==
    /\ life[r] = "live"
    /\ agents' = [agents EXCEPT ![r] = hasAgents]
    /\ armed' = [armed EXCEPT ![r] = hasAgents]
    /\ UNCHANGED <<wakeLayer, enabled, life, bounds>>

SetHeartbeatsEnabled ==
    /\ MayDisable
    /\ enabled' = ~enabled
    /\ UNCHANGED <<wakeLayer, runners, bounds>>

-----------------------------------------------------------------------------
Callback(b) ==
    \/ TimerFires(b)
    \/ \E result \in Results \ {"running"} : RunReturns(b, result)
    \/ Ran(b) \/ Busy(b) \/ Threw(b)

RunnerSteps(r) ==
    \/ \E a \in BOOLEAN : StartRunner(r, a) \/ UpdateConfig(r, a)
    \/ StopRunner(r) \/ IntervalFires(r)

Next ==
    \/ \E t \in Targets, p \in Reasons : Request(t, p)
    \/ TimerFiresUnheard \/ TimerFiresBusy
    \/ \E b \in Batches : Callback(b)
    \/ \E r \in Runners : RunnerSteps(r)
    \/ SetHeartbeatsEnabled

Spec == Init /\ [][Next]_vars

(* Timers fire and callbacks go on; a run does not hang.  That the main lane *)
(* is not busy for ever, nor each run failing, is in the bound MaxSetbacks.  *)
Fairness ==
    /\ WF_vars(TimerFiresUnheard \/ TimerFiresBusy)
    /\ \A b \in Batches : WF_vars(Callback(b))

FairSpec == Spec /\ Fairness

-----------------------------------------------------------------------------
(* How much the wakes of t that are not answered matter: pending, or taken  *)
(* by a batch that has not called the handler for t, or waits for the call. *)
HeldBy(b, t) ==
    IF b \in InFlight /\ (t \in batch[b].todo \/ t = batch[b].current)
    THEN batch[b].wakes[t] ELSE NoWake
Owed(t) ==
    LET held == {pending[t]} \cup {HeldBy(b, t) : b \in Batches} IN
    CHOOSE p \in held : \A q \in held : q <= p

Answered(t) == \E b \in InFlight :
    /\ batch[b].current = t /\ batch[b].result = "ran"
    /\ batch[b].wakes[t] >= Owed(t)
TurnedDown(t) ==
    \/ handler # NoRunner /\ ~Ready(handler)
    \/ \E b \in InFlight : t \in batch[b].todo /\ ~Ready(batch[b].runner)

(* A wake is neither forgotten nor made to matter less, through coalescing, *)
(* retries, exceptions and restarts, until a run for its target at that      *)
(* priority has ended or a runner that is stopped or disabled turned it down *)
(* (the batch of heartbeat-wake.ts:155-191 that outlives its runner).       *)
WakeKept == [][\A t \in Targets : Owed(t)' < Owed(t) =>
                   Answered(t) \/ TurnedDown(t)]_vars

(* While a handler is registered, a pending wake has a timer that will take  *)
(* it, and that timer will not find `running` left over by a batch that is   *)
(* gone (the reset of heartbeat-wake.ts:206-221).                           *)
WakeHeard ==
    handler # NoRunner =>
        /\ pending # None => timer # "none"
        /\ running => InFlight # {}

(* A batch of a stopped runner that ends resets `running` under the next     *)
(* runner's batch, and lets it overlap with another one; but only one more   *)
(* at a time for each restart (heartbeat-wake.ts:187, 220).                 *)
BatchesBounded == Cardinality(InFlight) <= Cardinality(Started)

(* The interval heartbeat of runner r goes on: its timer is set, or the wake *)
(* that sets it again is pending, taken, or being answered.                 *)
WillRearm(b, r) ==
    /\ b \in InFlight /\ batch[b].runner = r
    /\ \/ batch[b].result = "running"
       \/ Everyone \in batch[b].todo
       \/ batch[b].result = "threw" /\ batch[b].wakes[Everyone] # NoWake
       \/ batch[b].result = "requests-in-flight" /\ batch[b].current = Everyone
GoesOn(r) ==
    \/ armed[r] \/ pending[Everyone] # NoWake
    \/ \E b \in Batches : WillRearm(b, r)
Wanted(r) == handler = r /\ agents[r]

(* Whatever becomes of a wake, the interval heartbeat of the registered      *)
(* runner stops for no other reason than that heartbeats are off ("Always    *)
(* re-arm the timer", heartbeat-runner.ts:1168, and the wake layer's retry). *)
StopsOnlyWhenOff == [][\A r \in Runners :
    /\ Wanted(r)' /\ ~GoesOn(r)'
    => \/ ~enabled
       \/ Wanted(r) /\ ~GoesOn(r)]_vars

(* "enable: turn heartbeats back on" (docs/cli/system.md:41): they go on     *)
(* whenever they are enabled.                                               *)
HeartbeatGoesOn ==
    handler # NoRunner /\ enabled /\ agents[handler] => GoesOn(handler)

(* A wake that is more than an interval's gets its answer, or finds nobody   *)
(* registered.                                                              *)
Urgent(t) == Owed(t) > INTERVAL
EveryWakeAnswered ==
    \A t \in Targets : Urgent(t) ~> ~Urgent(t) \/ handler = NoRunner
=============================================================================
