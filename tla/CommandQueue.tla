---------------------------- MODULE CommandQueue ----------------------------
(***************************************************************************)
(* The lane-aware command queue of the OpenClaw gateway                     *)
(* (services/openclaw/src/process/command-queue.ts).  Every agent turn,     *)
(* cron run and sub-agent run is a task enqueued in a lane; a lane runs at  *)
(* most maxConcurrent tasks and keeps the rest in arrival order.            *)
(*                                                                         *)
(* The code is single-threaded JavaScript, so an action is a stretch of     *)
(* code that cannot be interrupted.  It is re-entrant, though: pump() calls *)
(* entry.task(), and whatever the task does before its first await (e.g.    *)
(* enqueue its inner half in another lane) runs inside pump().  The call    *)
(* stack is therefore part of the state: only its top frame moves, and      *)
(* timers, promise continuations and outside callers wait until it is       *)
(* empty.                                                                   *)
(***************************************************************************)
EXTENDS Integers, Sequences, FiniteSets

CONSTANTS
    Tasks,          \* calls of enqueueCommandInLane, each made at most once
    Lanes,          \* lane names after normalizeLane
    Limits,         \* arguments passed to setCommandLaneConcurrency
    MaxGeneration,  \* bound: how often resetAllLanes is called
    MayWait         \* whether waitForActiveTasks is called at all

ASSUME CommandQueueAssumption ==
    /\ Limits \subseteq Int
    /\ MaxGeneration \in Nat
    /\ MayWait \in BOOLEAN

VARIABLES
    queue,           \* LaneState.queue, per lane
    active,          \* LaneState.activeTaskIds, per lane (an entry is started
                     \* once, so the task itself stands for its numeric id)
    maxConcurrent,   \* LaneState.maxConcurrent, per lane
    draining,        \* LaneState.draining, per lane
    generation,      \* LaneState.generation, per lane
    gatewayDraining, \* the global flag set by markGatewayDraining
    status,          \* per task: the state of the promise the caller holds
    laneOf,          \* per task: the lane it was enqueued in
    taskGeneration,  \* per task: the generation captured when it was started
    stack,           \* the JavaScript call stack, innermost frame last
    toDrain,         \* lanesToDrain of a resetAllLanes call in progress
    waiter           \* the latest waitForActiveTasks call

laneVars == <<queue, active, maxConcurrent, draining, generation>>
taskVars == <<status, laneOf, taskGeneration>>
vars == <<laneVars, taskVars, gatewayDraining, stack, toDrain, waiter>>

-----------------------------------------------------------------------------
(* "refused" is GatewayDrainingError, "cleared" CommandLaneClearedError.    *)
(* "settled" is a task that ran to its end, by value or by error: the lane  *)
(* treats both alike.                                                       *)
Status == {"new", "queued", "running", "settled", "cleared", "refused"}
PumpFrame(l) == [op |-> "pump", on |-> l]
TaskFrame(t) == [op |-> "task", on |-> t]
Frame == {PumpFrame(l) : l \in Lanes} \cup {TaskFrame(t) : t \in Tasks}
Waiter == [phase : {"none", "waiting", "drained", "timedOut"},
           ids : SUBSET Tasks]

TypeOK ==
    /\ queue \in [Lanes -> Seq(Tasks)]
    /\ active \in [Lanes -> SUBSET Tasks]
    /\ maxConcurrent \in [Lanes -> Nat \ {0}]
    /\ draining \in [Lanes -> BOOLEAN]
    /\ generation \in [Lanes -> Nat]
    /\ gatewayDraining \in BOOLEAN
    /\ status \in [Tasks -> Status]
    /\ laneOf \in [Tasks -> Lanes]
    /\ taskGeneration \in [Tasks -> Nat]
    /\ stack \in Seq(Frame)
    /\ toDrain \subseteq Lanes
    /\ waiter \in Waiter

Init ==
    /\ queue = [l \in Lanes |-> <<>>]
    /\ active = [l \in Lanes |-> {}]
    /\ maxConcurrent = [l \in Lanes |-> 1]
    /\ draining = [l \in Lanes |-> FALSE]
    /\ generation = [l \in Lanes |-> 0]
    /\ gatewayDraining = FALSE
    /\ status = [t \in Tasks |-> "new"]
    /\ laneOf \in [Tasks -> Lanes]
    /\ taskGeneration = [t \in Tasks |-> 0]
    /\ stack = <<>>
    /\ toDrain = {}
    /\ waiter = [phase |-> "none", ids |-> {}]

-----------------------------------------------------------------------------
Top == stack[Len(stack)]
Caller == SubSeq(stack, 1, Len(stack) - 1)
Push(f) == Append(stack, f)

EventLoop == stack = <<>> /\ toDrain = {}
Executing(f) == stack # <<>> /\ Top = f

(* Code outside the queue runs from the event loop or in the synchronous    *)
(* prefix of a task; only then can it call the exported functions.          *)
UserCode == EventLoop \/ \E t \in Tasks : Executing(TaskFrame(t))

AllActive == UNION {active[l] : l \in Lanes}
Waiting(l) == {queue[l][i] : i \in DOMAIN queue[l]}

(* Mutant: the loop compares with <= and starts one task too many.          *)
HasFreeSlotOffByOne(l) == Cardinality(active[l]) <= maxConcurrent[l]

HasFreeSlot(l) == Cardinality(active[l]) < maxConcurrent[l]
Pumpable(l) == HasFreeSlot(l) /\ queue[l] # <<>>

(* drainLane: the flag keeps a lane's own pump from being entered again.    *)
DrainLane(l) ==
    /\ stack' = IF draining[l] THEN stack ELSE Push(PumpFrame(l))
    /\ draining' = [draining EXCEPT ![l] = TRUE]

-----------------------------------------------------------------------------
(* Mutant: a draining gateway accepts entries.                              *)
EnqueueDespiteDrain(t) ==
    /\ UserCode
    /\ status[t] = "new"
    /\ queue' = [queue EXCEPT ![laneOf[t]] = Append(@, t)]
    /\ status' = [status EXCEPT ![t] = "queued"]
    /\ DrainLane(laneOf[t])
    /\ UNCHANGED <<active, maxConcurrent, generation, laneOf, taskGeneration,
                   gatewayDraining, toDrain, waiter>>

(* enqueueCommandInLane *)
Enqueue(t) ==
    /\ UserCode
    /\ status[t] = "new"
    /\ ~gatewayDraining
    /\ queue' = [queue EXCEPT ![laneOf[t]] = Append(@, t)]
    /\ status' = [status EXCEPT ![t] = "queued"]
    /\ DrainLane(laneOf[t])
    /\ UNCHANGED <<active, maxConcurrent, generation, laneOf, taskGeneration,
                   gatewayDraining, toDrain, waiter>>

Refuse(t) ==
    /\ UserCode
    /\ status[t] = "new"
    /\ gatewayDraining
    /\ status' = [status EXCEPT ![t] = "refused"]
    /\ UNCHANGED <<laneVars, laneOf, taskGeneration, gatewayDraining, stack,
                   toDrain, waiter>>

(* One turn of pump()'s loop: the head entry takes a slot and its task is    *)
(* called; pump() waits below it for the task's first await.                *)
StartNext(l) ==
    /\ Executing(PumpFrame(l))
    /\ Pumpable(l)
    /\ LET t == Head(queue[l]) IN
        /\ queue' = [queue EXCEPT ![l] = Tail(@)]
        /\ active' = [active EXCEPT ![l] = @ \cup {t}]
        /\ status' = [status EXCEPT ![t] = "running"]
        /\ taskGeneration' = [taskGeneration EXCEPT ![t] = generation[l]]
        /\ stack' = Push(TaskFrame(t))
    /\ UNCHANGED <<maxConcurrent, draining, generation, laneOf,
                   gatewayDraining, toDrain, waiter>>

(* The loop condition fails: the finally block clears the flag.             *)
PumpReturn(l) ==
    /\ Executing(PumpFrame(l))
    /\ ~Pumpable(l)
    /\ draining' = [draining EXCEPT ![l] = FALSE]
    /\ stack' = Caller
    /\ UNCHANGED <<queue, active, maxConcurrent, generation, taskVars,
                   gatewayDraining, toDrain, waiter>>

TaskAwaits(t) ==
    /\ Executing(TaskFrame(t))
    /\ stack' = Caller
    /\ UNCHANGED <<laneVars, taskVars, gatewayDraining, toDrain, waiter>>

(* Mutant: a finished task gives its slot back but nobody pumps.            *)
CompleteWithoutPump(t, below) ==
    LET l == laneOf[t] IN
    /\ status' = [status EXCEPT ![t] = "settled"]
    /\ active' = IF taskGeneration[t] = generation[l]
                 THEN [active EXCEPT ![l] = @ \ {t}] ELSE active
    /\ stack' = below
    /\ UNCHANGED <<queue, maxConcurrent, draining, generation, laneOf,
                   taskGeneration, gatewayDraining, toDrain, waiter>>

(* completeTask, the pump() call that follows it in the current generation, *)
(* and the settlement of the caller's promise.  The code settles after      *)
(* pump() returns; no continuation of the promise runs before the stack is  *)
(* empty, so settling first is the same to every observer.                  *)
Complete(t, below) ==
    LET l == laneOf[t] IN
    /\ status' = [status EXCEPT ![t] = "settled"]
    /\ IF taskGeneration[t] = generation[l]
       THEN /\ active' = [active EXCEPT ![l] = @ \ {t}]
            /\ stack' = Append(below, PumpFrame(l))
       ELSE /\ stack' = below
            /\ UNCHANGED active
    /\ UNCHANGED <<queue, maxConcurrent, draining, generation, laneOf,
                   taskGeneration, gatewayDraining, toDrain, waiter>>

(* The task throws before its first await: the catch block runs inside the  *)
(* pump() that called it.                                                   *)
TaskThrows(t) ==
    /\ Executing(TaskFrame(t))
    /\ Complete(t, Caller)

(* The task's promise settles later, from the event loop.                   *)
TaskSettles(t) ==
    /\ EventLoop
    /\ status[t] = "running"
    /\ Complete(t, stack)

-----------------------------------------------------------------------------
(* Mutant: no Math.max(1, ...), so a lane can be sized to nothing.          *)
SetConcurrencyUnclamped(l, n) ==
    /\ EventLoop
    /\ maxConcurrent' = [maxConcurrent EXCEPT ![l] = n]
    /\ DrainLane(l)
    /\ UNCHANGED <<queue, active, generation, taskVars, gatewayDraining,
                   toDrain, waiter>>

SetCommandLaneConcurrency(l, n) ==
    /\ EventLoop
    /\ maxConcurrent' = [maxConcurrent EXCEPT ![l] = IF n < 1 THEN 1 ELSE n]
    /\ DrainLane(l)
    /\ UNCHANGED <<queue, active, generation, taskVars, gatewayDraining,
                   toDrain, waiter>>

(* Mutant: the entries are rejected but stay in the array.                  *)
ClearWithoutSplice(l) ==
    /\ UserCode
    /\ status' = [t \in Tasks |->
                    IF t \in Waiting(l) THEN "cleared" ELSE status[t]]
    /\ UNCHANGED <<laneVars, laneOf, taskGeneration, gatewayDraining, stack,
                   toDrain, waiter>>

ClearCommandLane(l) ==
    /\ UserCode
    /\ queue' = [queue EXCEPT ![l] = <<>>]
    /\ status' = [t \in Tasks |->
                    IF t \in Waiting(l) THEN "cleared" ELSE status[t]]
    /\ UNCHANGED <<active, maxConcurrent, draining, generation, laneOf,
                   taskGeneration, gatewayDraining, stack, toDrain, waiter>>

MarkGatewayDraining ==
    /\ UserCode
    /\ gatewayDraining' = TRUE
    /\ UNCHANGED <<laneVars, taskVars, stack, toDrain, waiter>>

(* Mutant: the ids of the interrupted tasks survive the reset.              *)
ResetKeepingActive ==
    /\ EventLoop
    /\ \A l \in Lanes : generation[l] < MaxGeneration
    /\ gatewayDraining' = FALSE
    /\ generation' = [l \in Lanes |-> generation[l] + 1]
    /\ draining' = [l \in Lanes |-> FALSE]
    /\ toDrain' = {l \in Lanes : queue[l] # <<>>}
    /\ UNCHANGED <<queue, active, maxConcurrent, taskVars, stack, waiter>>

(* resetAllLanes is called by the restart loop only, from the event loop.   *)
(* Its second pass drains the lanes that still hold entries, one after the  *)
(* other (DrainAfterReset; the Map's order is left open).                   *)
ResetAllLanes ==
    /\ EventLoop
    /\ \A l \in Lanes : generation[l] < MaxGeneration
    /\ gatewayDraining' = FALSE
    /\ generation' = [l \in Lanes |-> generation[l] + 1]
    /\ active' = [l \in Lanes |-> {}]
    /\ draining' = [l \in Lanes |-> FALSE]
    /\ toDrain' = {l \in Lanes : queue[l] # <<>>}
    /\ UNCHANGED <<queue, maxConcurrent, taskVars, stack, waiter>>

(* Mutant: the second pass of resetAllLanes is missing; the preserved       *)
(* entries wait for an enqueue that may never come.                         *)
SkipDrainAfterReset(l) ==
    /\ stack = <<>>
    /\ l \in toDrain
    /\ toDrain' = toDrain \ {l}
    /\ UNCHANGED <<laneVars, taskVars, gatewayDraining, stack, waiter>>

DrainAfterReset(l) ==
    /\ stack = <<>>
    /\ l \in toDrain
    /\ toDrain' = toDrain \ {l}
    /\ DrainLane(l)
    /\ UNCHANGED <<queue, active, maxConcurrent, generation, taskVars,
                   gatewayDraining, waiter>>

-----------------------------------------------------------------------------
(* waitForActiveTasks: the ids active at the call, a first check at once,   *)
(* then one every 50 ms until none of them is active or the deadline has    *)
(* passed.  Its only caller is the run loop, which marks the gateway as     *)
(* draining in the same stretch of code and does not call again before the  *)
(* answer.                                                                  *)
WaitForActiveTasks ==
    /\ EventLoop
    /\ MayWait
    /\ waiter.phase # "waiting"
    /\ gatewayDraining' = TRUE
    /\ waiter' = [phase |-> IF AllActive = {} THEN "drained" ELSE "waiting",
                  ids |-> AllActive]
    /\ UNCHANGED <<laneVars, taskVars, stack, toDrain>>

(* Mutant: the deadline is reported as a successful drain.                  *)
WaitCheckIgnoringDeadline ==
    /\ EventLoop
    /\ waiter.phase = "waiting"
    /\ waiter' = [waiter EXCEPT !.phase = "drained"]
    /\ UNCHANGED <<laneVars, taskVars, gatewayDraining, stack, toDrain>>

WaitCheck ==
    /\ EventLoop
    /\ waiter.phase = "waiting"
    /\ waiter' = [waiter EXCEPT !.phase =
                    IF waiter.ids \cap AllActive = {} THEN "drained"
                                                      ELSE "timedOut"]
    /\ UNCHANGED <<laneVars, taskVars, gatewayDraining, stack, toDrain>>

-----------------------------------------------------------------------------
(* The steps of synchronous code that is already on the stack. *)
RunToCompletion ==
    \/ \E l \in Lanes : StartNext(l) \/ PumpReturn(l) \/ DrainAfterReset(l)
    \/ \E t \in Tasks : TaskAwaits(t) \/ TaskThrows(t)

Next ==
    \/ RunToCompletion
    \/ \E t \in Tasks : Enqueue(t) \/ Refuse(t) \/ TaskSettles(t)
    \/ \E l \in Lanes : ClearCommandLane(l)
    \/ \E l \in Lanes, n \in Limits : SetCommandLaneConcurrency(l, n)
    \/ MarkGatewayDraining
    \/ ResetAllLanes
    \/ WaitForActiveTasks
    \/ WaitCheck

Spec == Init /\ [][Next]_vars

(* JavaScript runs synchronous code to completion.  Every run carries a     *)
(* timeout, so its promise settles, and the event loop serves a ready       *)
(* continuation however often other callbacks get in before it.             *)
Fairness ==
    /\ WF_vars(RunToCompletion)
    /\ \A t \in Tasks : SF_vars(TaskSettles(t))

FairSpec == Spec /\ Fairness

-----------------------------------------------------------------------------
Occurrences(t, l) == {i \in DOMAIN queue[l] : queue[l][i] = t}

(* An accepted entry is never lost or duplicated: as long as the caller's   *)
(* promise is pending unstarted, the task waits at exactly one place of its *)
(* own lane and at none of another, through resets, clears and re-entrant   *)
(* drains alike.                                                            *)
QueuedOnce ==
    \A t \in Tasks, l \in Lanes :
        Cardinality(Occurrences(t, l)) =
            IF status[t] = "queued" /\ laneOf[t] = l THEN 1 ELSE 0

(* The slots of a lane are held by exactly the running tasks of its current *)
(* generation: a completion from before a reset frees nothing, and no slot  *)
(* outlives its task.                                                       *)
SlotsExact ==
    \A l \in Lanes :
        active[l] = {t \in Tasks : /\ status[t] = "running"
                                   /\ laneOf[t] = l
                                   /\ taskGeneration[t] = generation[l]}

(* Work conservation: whenever control is back in the event loop, no lane   *)
(* has both a waiting entry and a free slot, so no entry depends on a later *)
(* enqueue to be noticed (the stall that resetAllLanes' comment describes). *)
NoStall == EventLoop => \A l \in Lanes : ~Pumpable(l)

(* waitForActiveTasks reports "drained" only when every task that was       *)
(* active at the call has ended, unless a reset has disowned it.            *)
DrainedMeansEnded ==
    waiter.phase = "drained" =>
        \A t \in waiter.ids : \/ status[t] = "settled"
                              \/ taskGeneration[t] # generation[laneOf[t]]

(* Every accepted task is started or cleared in the end, whatever resets,   *)
(* resizes and other lanes do in between.                                   *)
NothingWaitsForever ==
    \A t \in Tasks : status[t] = "queued" ~> status[t] # "queued"

-----------------------------------------------------------------------------
Pool == INSTANCE LanePool
            WITH waiting <- queue, serving <- active, servers <- maxConcurrent

(* The command queue implements the lane pool: arrival order, slot bound    *)
(* and what a restart may abandon.  That free slots do not wait is NoStall. *)
ImplementsPool == Pool!Spec
=============================================================================
