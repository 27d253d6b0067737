------------------------ MODULE GatewayRestartProofs ------------------------
(***************************************************************************)
(* Proofs about GatewayRestart, for every set of tasks and lanes and every  *)
(* value of the bounds.  The run loop is a client of the command queue      *)
(* (GatewaySpec => Spec), so what is proved of the queue holds here too.    *)
(***************************************************************************)
EXTENDS GatewayRestart, CommandQueueProofs

-----------------------------------------------------------------------------
(* Refinement: what a step of the gateway does to the lanes is a step of    *)
(* the queue, or nothing.                                                   *)

LEMMA BeginDrainQueue == BeginDrain => Next
  BY DEF BeginDrain, Next

LEMMA EmitQueue == Emit => Next \/ UNCHANGED vars
  BY BeginDrainQueue DEF Emit

LEMMA ResumeQueue == Resume => Next \/ UNCHANGED vars
  BY DEF Resume, Next

LEMMA QueueStepsQueue == QueueSteps => Next
  BY DEF QueueSteps, Next

LEMMA GatewayStepQueue == [GatewayNext]_gatewayVars => [Next]_vars
<1> SUFFICES ASSUME [GatewayNext]_gatewayVars PROVE Next \/ UNCHANGED vars
  OBVIOUS
<1>1. CASE QueueSteps
  BY <1>1, QueueStepsQueue
<1>2. CASE TimerFires
  BY <1>2, EmitQueue DEF TimerFires
<1>3. CASE PollEnds
  BY <1>3, EmitQueue DEF PollEnds
<1>4. CASE TasksWaitCheck
  BY <1>4 DEF TasksWaitCheck, Next
<1>5. CASE NothingToRelease
  BY <1>5, ResumeQueue DEF NothingToRelease
<1>6. CASE Relocked
  BY <1>6, ResumeQueue DEF Relocked
<1>7. CASE ConfigRestart
  BY <1>7, EmitQueue DEF ConfigRestart
<1>8. CASE RunsWaitCheck \/ DrainEnds \/ ForceExit \/ LockReleased
  BY <1>8 DEF RunsWaitCheck, DrainEnds, ForceExit, LockReleased
<1>9. CASE StartReturns \/ StartFails \/ AwaitRestart \/ ServerCloses
  BY <1>9 DEF StartReturns, StartFails, AwaitRestart, ServerCloses
<1>10. CASE ScheduleRestart \/ Stop \/ \E t \in Tasks : RunBegins(t)
  BY <1>10 DEF ScheduleRestart, Stop, RunBegins
<1>11. CASE UNCHANGED gatewayVars
  BY <1>11 DEF gatewayVars
<1> QED  BY <1>1, <1>2, <1>3, <1>4, <1>5, <1>6, <1>7, <1>8, <1>9, <1>10, <1>11
         DEF GatewayNext, LoopSteps

(* To the lanes the run loop is a caller like any other.                    *)
LEMMA GatewayIsAClient == GatewaySpec => Spec
<1>1. GatewayInit => Init
  BY DEF GatewayInit
<1> QED  BY <1>1, GatewayStepQueue, PTL DEF GatewaySpec, Spec

(* So what the queue promises survives drains, forced resets and in-process *)
(* restarts: no accepted task is lost or queued twice, the slots are exact, *)
(* no lane with work and a free slot stands still, a drain reports only     *)
(* what has ended, and the lanes are still a pool of bounded executions.    *)
THEOREM LanesOutliveRestarts ==
    GatewaySpec => /\ []QueuedOnce /\ []SlotsExact /\ []NoStall /\ []DrainedMeansEnded
                   /\ ImplementsPool
<1> QED  BY GatewayIsAClient, NeverLostOrDuplicated, SlotsAreExact, WorkConserving, DrainedIsTrue,
            QueueImplementsPool, PTL

-----------------------------------------------------------------------------
(* Type correctness.  That `polls` stays within its bound needs a count:    *)
(* every poll, scheduled timer and pending config restart was asked for.    *)
One(b) == IF b THEN 1 ELSE 0

AskedFor == polls + One(timer) + One(restartPending) <= asked

TypeInv == TypeOK /\ GatewayTypeOK /\ AskedFor

LEMMA TypeInvInit == GatewayInit => TypeInv
<1> SUFFICES ASSUME GatewayInit PROVE TypeInv
  OBVIOUS
<1>1. TypeOK
  BY TypeInit DEF GatewayInit
<1>2. GatewayTypeOK
  <2>1. activeRun \in [Lanes -> Tasks \cup {NoRun}]
    BY DEF GatewayInit
  <2>2. waiter.phase = "none"
    BY DEF GatewayInit, Init
  <2>3. polls \in 0 .. MaxAsked /\ asked \in 0 .. MaxAsked
    BY GatewayRestartAssumption DEF GatewayInit
  <2> QED  BY <2>1, <2>2, <2>3 DEF GatewayInit, GatewayTypeOK
<1>3. AskedFor
  BY DEF GatewayInit, AskedFor, One
<1> QED  BY <1>1, <1>2, <1>3 DEF TypeInv

(* A drain begins with every flag in its range, and a wait that has not     *)
(* answered keeps it in its first phase.                                    *)
LEMMA BeginDrainType ==
    ASSUME TypeInv, BeginDrain, shutdown = "none"
    PROVE  /\ shutdown' = "restart"
           /\ phase' \in {"draining", "closing", "releasing", "unlocked"}
           /\ runsWait' \in {"none", "waiting"}
           /\ runsWait' = "waiting" => phase' = "draining"
           /\ waiter'.phase = "waiting" => phase' = "draining"
           /\ queuedAtDrain' \subseteq Tasks
           /\ missedServer' \in BOOLEAN
           /\ UNCHANGED <<loop, firstStart, server, listening, lock, stray, gaveUpLock>>
<1>1. waiter.phase # "waiting"
  BY DEF TypeInv, GatewayTypeOK
<1>2. AllWaiting \subseteq Tasks
  <2>1. ASSUME NEW l \in Lanes PROVE Waiting(l) \subseteq Tasks
    BY DEF Waiting, TypeInv, TypeOK
  <2> QED  BY <2>1 DEF AllWaiting
<1>3. waiter'.phase = "waiting" => AllActive # {}
  BY <1>1 DEF BeginDrain, MarkGatewayDraining, WaitForActiveTasks
<1> QED
  BY <1>2, <1>3 DEF BeginDrain, CloseServer, TypeInv, GatewayTypeOK

LEMMA EmitType ==
    ASSUME TypeInv, Emit, activeRun' = activeRun
    PROVE  /\ timer' = FALSE
           /\ loop' \in {"starting", "failed", "waiting", "exited"}
           /\ UNCHANGED <<firstStart, server, listening, lock, stray, gaveUpLock>>
           /\ missedServer' \in BOOLEAN
           /\ shutdown' \in {"none", "stop", "restart"}
           /\ phase' \in {"none", "draining", "closing", "releasing", "unlocked",
                          "relocking"}
           /\ runsWait' \in {"none", "waiting", "drained", "timedOut"}
           /\ queuedAtDrain' \subseteq Tasks
           /\ (shutdown' = "none") = (phase' = "none")
           /\ runsWait' = "waiting" => phase' = "draining"
           /\ waiter'.phase = "waiting" => phase' = "draining"
<1>1. CASE shutdown = "none"
  BY <1>1, BeginDrainType DEF Emit, TypeInv, GatewayTypeOK
<1>2. CASE shutdown # "none"
  BY <1>2 DEF Emit, vars, loopVars, histories, shutdownVars, TypeInv, GatewayTypeOK
<1> QED  BY <1>1, <1>2

(* A resumed loop has left its shutdown behind. *)
LEMMA ResumeType ==
    ASSUME TypeInv, Resume
    PROVE  /\ shutdown' = "none" /\ phase' = "none"
           /\ loop' \in {"starting", "failed", "waiting", "exited"}
           /\ missedServer' \in BOOLEAN /\ stray' \in BOOLEAN
           /\ waiter' = waiter
  BY DEF Resume, ResetAllLanes, vars, TypeInv, GatewayTypeOK

LEMMA TypeInvStep == TypeInv /\ [GatewayNext]_gatewayVars => TypeInv'
<1> SUFFICES ASSUME TypeInv, [GatewayNext]_gatewayVars PROVE TypeInv'
  OBVIOUS
<1>0. TypeOK'
  BY GatewayStepQueue, TypeStep DEF TypeInv
<1>a. /\ polls \in Nat /\ asked \in Nat /\ MaxAsked \in Nat
      /\ timer \in BOOLEAN /\ restartPending \in BOOLEAN
      /\ asked <= MaxAsked
  BY GatewayRestartAssumption DEF TypeInv, GatewayTypeOK
<1>b. /\ AskedFor /\ activeRun \in [Lanes -> Tasks \cup {NoRun}]
  BY DEF TypeInv, GatewayTypeOK
<1>1. CASE QueueSteps
  <2>1. UNCHANGED <<loopVars, shutdownVars, requestVars>>
    BY <1>1 DEF QueueSteps
  <2>2. activeRun' \in [Lanes -> Tasks \cup {NoRun}]
    BY <1>1 DEF QueueSteps, TypeInv, GatewayTypeOK
  <2>3. UNCHANGED waiter
    BY <1>1 DEF QueueSteps, RunToCompletion, StartNext, PumpReturn, DrainAfterReset,
                TaskAwaits, TaskThrows, Enqueue, Refuse, ClearCommandLane,
                SetCommandLaneConcurrency, TaskSettles, Complete
  <2> QED  BY <1>0, <2>1, <2>2, <2>3
           DEF TypeInv, GatewayTypeOK, AskedFor, loopVars, histories, shutdownVars, requestVars
<1>2. CASE TimerFires
  <2>1. CASE (Idle \/ firstStart) /\ Emit /\ UNCHANGED polls
    <3>1. UNCHANGED <<polls, restartPending, asked, activeRun>> /\ Emit
      BY <1>2, <2>1 DEF TimerFires
    <3>2. AskedFor' /\ timer' = FALSE
      BY <1>a, <1>b, <3>1, EmitType DEF AskedFor, One
    <3>3. GatewayTypeOK'
      BY <3>1, <3>2, EmitType DEF TypeInv, GatewayTypeOK
    <3> QED  BY <1>0, <3>2, <3>3 DEF TypeInv
  <2>2. CASE /\ ~Idle /\ timer' = FALSE /\ polls' = polls + 1
             /\ UNCHANGED <<vars, loopVars, shutdownVars>>
    <3>1. timer /\ UNCHANGED <<restartPending, asked, activeRun>>
      BY <1>2 DEF TimerFires
    <3>2. AskedFor' /\ polls' \in 0 .. MaxAsked
      BY <1>a, <1>b, <2>2, <3>1 DEF AskedFor, One
    <3>3. timer' \in BOOLEAN /\ UNCHANGED <<vars, loopVars, shutdownVars>>
      BY <2>2
    <3>4. GatewayTypeOK'
      BY <3>1, <3>2, <3>3 DEF TypeInv, GatewayTypeOK, vars, loopVars, histories, shutdownVars
    <3> QED  BY <1>0, <3>2, <3>4 DEF TypeInv
  <2> QED  BY <1>2, <2>1, <2>2 DEF TimerFires
<1>3. CASE PollEnds
  <2>1. Emit /\ UNCHANGED <<asked, activeRun>>
    BY <1>3 DEF PollEnds
  <2>2. \/ polls > 0 /\ polls' = polls - 1 /\ UNCHANGED restartPending
        \/ restartPending /\ restartPending' = FALSE /\ UNCHANGED polls
    BY <1>3 DEF PollEnds
  <2>3. timer' = FALSE
    BY <2>1, EmitType
  <2>4. AskedFor' /\ polls' \in 0 .. MaxAsked /\ restartPending' \in BOOLEAN
    <3>1. polls + One(restartPending) <= asked
      BY <1>a, <1>b DEF AskedFor, One
    <3>2. polls' + One(restartPending') < polls + One(restartPending)
      BY <1>a, <2>2 DEF One
    <3>3. One(restartPending) \in {0, 1} /\ One(restartPending') \in {0, 1}
      BY DEF One
    <3>4. One(timer') = 0 /\ restartPending' \in BOOLEAN
      BY <1>a, <2>2, <2>3 DEF One
    <3>5. polls' \in Nat
      BY <1>a, <2>2
    <3>6. polls' \in 0 .. MaxAsked
      BY <1>a, <3>1, <3>2, <3>3, <3>5
    <3> QED  BY <1>a, <2>1, <3>1, <3>2, <3>3, <3>4, <3>5, <3>6 DEF AskedFor
  <2>5. GatewayTypeOK'
    BY <2>1, <2>4, EmitType DEF TypeInv, GatewayTypeOK
  <2> QED  BY <1>0, <2>4, <2>5 DEF TypeInv
<1>4. CASE ConfigRestart
  <2>1. CASE Idle /\ Emit /\ UNCHANGED restartPending
    <3>1. /\ UNCHANGED <<polls, restartPending, activeRun>> /\ Emit
          /\ asked' = asked + 1 /\ asked < MaxAsked
      BY <1>4, <2>1 DEF ConfigRestart
    <3>2. AskedFor' /\ timer' = FALSE /\ asked' \in 0 .. MaxAsked
      BY <1>a, <1>b, <3>1, EmitType DEF AskedFor, One
    <3>3. GatewayTypeOK'
      BY <3>1, <3>2, EmitType DEF TypeInv, GatewayTypeOK
    <3> QED  BY <1>0, <3>2, <3>3 DEF TypeInv
  <2>2. CASE /\ ~Idle /\ ~restartPending /\ restartPending' = TRUE
             /\ UNCHANGED <<vars, loopVars, shutdownVars, timer>>
    <3>1. /\ UNCHANGED <<polls, activeRun>>
          /\ asked' = asked + 1 /\ asked < MaxAsked
      BY <1>4 DEF ConfigRestart
    <3>2. AskedFor' /\ asked' \in 0 .. MaxAsked
      BY <1>a, <1>b, <2>2, <3>1 DEF AskedFor, One
    <3>3. GatewayTypeOK'
      BY <2>2, <3>1, <3>2 DEF TypeInv, GatewayTypeOK, vars, loopVars, histories, shutdownVars
    <3> QED  BY <1>0, <3>2, <3>3 DEF TypeInv
  <2> QED  BY <1>4, <2>1, <2>2 DEF ConfigRestart
<1>5. CASE NothingToRelease
  <2>1. CASE Resume
    BY <1>0, <1>5, <2>1, ResumeType
       DEF NothingToRelease, TypeInv, GatewayTypeOK, AskedFor, requestVars
  <2>2. CASE loop' = "exited" /\ UNCHANGED <<vars, shutdown, phase, missedServer, stray>>
    BY <1>0, <1>5, <2>2
       DEF NothingToRelease, TypeInv, GatewayTypeOK, AskedFor, requestVars, vars
  <2> QED  BY <1>5, <2>1, <2>2 DEF NothingToRelease
<1>6. CASE Relocked
  <2>1. CASE lock' = TRUE /\ Resume
    BY <1>0, <1>6, <2>1, ResumeType
       DEF Relocked, TypeInv, GatewayTypeOK, AskedFor, requestVars
  <2>2. CASE loop' = "exited" /\ UNCHANGED <<vars, lock, shutdown, phase, missedServer, stray>>
    BY <1>0, <1>6, <2>2
       DEF Relocked, TypeInv, GatewayTypeOK, AskedFor, requestVars, vars
  <2> QED  BY <1>6, <2>1, <2>2 DEF Relocked
<1>7. CASE TasksWaitCheck
  BY <1>0, <1>7 DEF TasksWaitCheck, WaitCheck, TypeInv, GatewayTypeOK, AskedFor,
                    loopVars, histories, shutdownVars, requestVars
<1>8. CASE RunsWaitCheck
  BY <1>0, <1>8 DEF RunsWaitCheck, TypeInv, GatewayTypeOK, AskedFor, vars, loopVars, histories,
                    requestVars
<1>9. CASE DrainEnds
  BY <1>0, <1>9 DEF DrainEnds, CloseServer, TypeInv, GatewayTypeOK, AskedFor, vars,
                    requestVars
<1>10. CASE ServerCloses
  <2>1. /\ server' = FALSE /\ phase \notin {"none", "draining"}
        /\ listening' \in {FALSE, listening} /\ stray' \in {TRUE, stray}
        /\ phase' \in {"releasing", "unlocked"}
        /\ UNCHANGED <<vars, loop, firstStart, lock, missedServer, gaveUpLock, shutdown,
                       runsWait, queuedAtDrain, requestVars, activeRun>>
    BY <1>10 DEF ServerCloses
  <2>2. AskedFor'
    BY <2>1 DEF TypeInv, AskedFor, requestVars
  <2>3. shutdown # "none" /\ runsWait # "waiting" /\ waiter.phase # "waiting"
    BY <2>1 DEF TypeInv, GatewayTypeOK
  <2>4. waiter' = waiter /\ UNCHANGED requestVars
    BY <2>1 DEF vars
  <2>5. listening' \in BOOLEAN /\ stray' \in BOOLEAN
    BY <2>1 DEF TypeInv, GatewayTypeOK
  <2>6. /\ phase' \in {"none", "draining", "closing", "releasing", "unlocked", "relocking"}
        /\ (shutdown' = "none") = (phase' = "none")
    BY <2>1, <2>3
  <2>7. GatewayTypeOK'
    BY <2>1, <2>3, <2>4, <2>5, <2>6, ZenonT(40) DEF TypeInv, GatewayTypeOK, requestVars
  <2> QED  BY <1>0, <2>1, <2>2, <2>7 DEF TypeInv
<1>11. CASE ForceExit
  BY <1>0, <1>11 DEF ForceExit, TypeInv, GatewayTypeOK, AskedFor, vars, histories, shutdownVars,
                     requestVars
<1>12. CASE LockReleased
  <2>1. /\ lock' = FALSE /\ phase = "releasing" /\ loop' \in {loop, "exited"}
        /\ phase' \in {phase, "relocking"}
        /\ UNCHANGED <<vars, firstStart, server, listening, missedServer, stray, gaveUpLock,
                       shutdown, runsWait, queuedAtDrain, requestVars, activeRun>>
    BY <1>12 DEF LockReleased, histories
  <2>2. AskedFor'
    BY <2>1 DEF TypeInv, AskedFor, requestVars
  <2>3. shutdown # "none" /\ runsWait # "waiting" /\ waiter.phase # "waiting"
    BY <2>1 DEF TypeInv, GatewayTypeOK
  <2>4. waiter' = waiter /\ UNCHANGED requestVars
    BY <2>1 DEF vars
  <2>5. GatewayTypeOK'
    BY <2>1, <2>3, <2>4, ZenonT(40) DEF TypeInv, GatewayTypeOK, requestVars
  <2> QED  BY <1>0, <2>1, <2>2, <2>5 DEF TypeInv
<1>13. CASE StartReturns
  <2>1. /\ polls' = IF restartPending THEN polls + 1 ELSE polls
        /\ restartPending' = FALSE
        /\ UNCHANGED <<timer, asked>>
    BY <1>13 DEF StartReturns
  <2>2. AskedFor' /\ polls' \in 0 .. MaxAsked
    BY <1>a, <1>b, <2>1 DEF AskedFor, One
  <2>3. GatewayTypeOK'
    BY <1>13, <2>1, <2>2, ZenonT(40)
       DEF StartReturns, TypeInv, GatewayTypeOK, vars, histories, shutdownVars
  <2> QED  BY <1>0, <2>2, <2>3 DEF TypeInv
<1>14. CASE StartFails \/ AwaitRestart
  <2>1. UNCHANGED <<vars, missedServer, stray, shutdownVars, requestVars, activeRun>>
    BY <1>14 DEF StartFails, AwaitRestart, histories
  <2>2. /\ loop' \in {"exited", "failed", "waiting"}
        /\ firstStart' \in BOOLEAN /\ server' \in BOOLEAN /\ listening' \in BOOLEAN
        /\ lock' \in BOOLEAN /\ gaveUpLock' \in BOOLEAN
    BY <1>14 DEF StartFails, AwaitRestart, histories, TypeInv, GatewayTypeOK
  <2>3. AskedFor'
    BY <1>b, <2>1 DEF AskedFor, requestVars
  <2>4. GatewayTypeOK'
    BY <2>1, <2>2 DEF TypeInv, GatewayTypeOK, vars, shutdownVars, requestVars
  <2> QED  BY <1>0, <2>3, <2>4 DEF TypeInv
<1>15. CASE ScheduleRestart
  BY <1>0, <1>15, <1>a DEF ScheduleRestart, TypeInv, GatewayTypeOK, AskedFor, One, vars,
                           loopVars, histories, shutdownVars
<1>16. CASE Stop
  BY <1>0, <1>16 DEF Stop, CloseServer, TypeInv, GatewayTypeOK, AskedFor, vars, requestVars
<1>17. ASSUME NEW t \in Tasks, RunBegins(t) PROVE TypeInv'
  <2>1. activeRun' \in [Lanes -> Tasks \cup {NoRun}]
    BY <1>b, <1>17 DEF RunBegins
  <2>2. UNCHANGED <<vars, loopVars, shutdownVars, requestVars>>
    BY <1>17 DEF RunBegins
  <2> QED  BY <1>0, <2>1, <2>2 DEF TypeInv, GatewayTypeOK, AskedFor, vars, loopVars, histories,
                                   shutdownVars, requestVars
<1>18. CASE UNCHANGED gatewayVars
  BY <1>0, <1>18 DEF gatewayVars, TypeInv, GatewayTypeOK, AskedFor, vars, loopVars, histories,
                     shutdownVars, requestVars
<1> QED  BY <1>1, <1>2, <1>3, <1>4, <1>5, <1>6, <1>7, <1>8, <1>9, <1>10, <1>11, <1>12,
            <1>13, <1>14, <1>15, <1>16, <1>17, <1>18 DEF GatewayNext, LoopSteps

(* Every reachable state of the gateway is well typed; in particular no     *)
(* more polls go on than restarts were asked for, and a wait that has not   *)
(* answered holds the shutdown in its drain.                                *)
THEOREM GatewayTypeCorrect == GatewaySpec => []GatewayTypeOK
<1>1. TypeInv => GatewayTypeOK
  BY DEF TypeInv
<1> QED  BY <1>1, TypeInvInit, TypeInvStep, PTL DEF GatewaySpec

-----------------------------------------------------------------------------
(* Handing over servers, the lock and the drain flag.  RefusesOnlyForRestart*)
(* and OneServer are inductive together with two facts: a restart that is   *)
(* past its drain finds the loop waiting, unless it missed the server; and  *)
(* a lock that is gone was given up, or is on its way to be taken again.    *)
Resumable ==
    shutdown = "restart" /\ phase # "draining" /\ loop # "exited" =>
        loop = "waiting" \/ missedServer

LockAccounted ==
    ~lock => \/ gaveUpLock
             \/ shutdown = "stop"
             \/ loop = "exited"
             \/ shutdown = "restart" /\ phase = "relocking"

Relocking == phase = "relocking" => shutdown = "restart"

HandOver == /\ Resumable /\ LockAccounted /\ Relocking
            /\ RefusesOnlyForRestart /\ OneServer

LEMMA HandOverInit == GatewayInit => HandOver
  BY DEF GatewayInit, Init, HandOver, Resumable, LockAccounted, Relocking,
         RefusesOnlyForRestart, OneServer

(* The lanes' own steps leave the drain flag and the waiter alone.          *)
LEMMA QueueStepsFrame ==
    QueueSteps => UNCHANGED <<gatewayDraining, waiter>>
  BY DEF QueueSteps, RunToCompletion, StartNext, PumpReturn, DrainAfterReset,
         TaskAwaits, TaskThrows, Enqueue, Refuse, ClearCommandLane,
         SetCommandLaneConcurrency, TaskSettles, Complete, laneVars, taskVars

LEMMA BeginDrainHandOver ==
    ASSUME TypeInv, HandOver, BeginDrain, shutdown = "none", loop # "exited"
    PROVE  HandOver'
<1>1. /\ shutdown' = "restart"
      /\ UNCHANGED <<loop, server, listening, lock, stray, gaveUpLock>>
      /\ \/ phase' = "draining" /\ UNCHANGED missedServer
         \/ CloseServer(lock)
  BY DEF BeginDrain
<1>2. CASE phase' = "draining" /\ UNCHANGED missedServer
  BY <1>1, <1>2 DEF HandOver, Resumable, LockAccounted, Relocking, RefusesOnlyForRestart, OneServer
<1>3. CASE CloseServer(lock)
  <2>1. /\ missedServer' = (missedServer \/ loop # "waiting")
        /\ server => phase' = "closing"
        /\ phase' # "relocking"
    BY <1>1, <1>3 DEF CloseServer
  <2> QED  BY <1>1, <2>1 DEF HandOver, Resumable, LockAccounted, Relocking,
                              RefusesOnlyForRestart, OneServer
<1> QED  BY <1>1, <1>2, <1>3

LEMMA EmitHandOver ==
    ASSUME TypeInv, HandOver, Emit, loop # "exited"
    PROVE  HandOver'
<1>1. CASE shutdown = "none"
  BY <1>1, BeginDrainHandOver DEF Emit
<1>2. CASE shutdown # "none"
  BY <1>2 DEF Emit, HandOver, Resumable, LockAccounted, Relocking, RefusesOnlyForRestart,
              OneServer, vars, loopVars, histories, shutdownVars
<1> QED  BY <1>1, <1>2

(* The loop resumes behind its server: either it waited, and the server is  *)
(* gone or astray, or the server was missed.                                *)
LEMMA ResumeHandOver ==
    ASSUME TypeInv, HandOver, Resume, shutdown = "restart", loop # "exited",
           phase \in {"unlocked", "relocking"},
           phase = "relocking" => lock',
           phase = "unlocked" => lock' = lock,
           UNCHANGED <<server, listening, gaveUpLock>>
    PROVE  HandOver'
<1>1. CASE loop = "waiting"
  <2>1. /\ shutdown' = "none" /\ phase' = "none" /\ loop' = "starting"
        /\ gatewayDraining' = FALSE
        /\ stray' = (stray \/ missedServer)
    BY <1>1 DEF Resume, ResetAllLanes
  <2>2. listening => missedServer \/ stray
    BY DEF HandOver, OneServer
  <2> QED  BY <2>1, <2>2 DEF HandOver, Resumable, LockAccounted, Relocking,
                              RefusesOnlyForRestart, OneServer
<1>2. CASE loop # "waiting"
  <2>1. /\ shutdown' = "none" /\ phase' = "none" /\ loop' = loop
        /\ UNCHANGED <<gatewayDraining, missedServer, stray>>
    BY <1>2 DEF Resume, vars
  <2>2. missedServer
    BY <1>2 DEF HandOver, Resumable
  <2> QED  BY <2>1, <2>2 DEF HandOver, Resumable, LockAccounted, Relocking,
                              RefusesOnlyForRestart, OneServer
<1> QED  BY <1>1, <1>2

LEMMA HandOverStep == TypeInv /\ HandOver /\ [GatewayNext]_gatewayVars => HandOver'
<1> SUFFICES ASSUME TypeInv, HandOver, [GatewayNext]_gatewayVars PROVE HandOver'
  OBVIOUS
<1> USE DEF HandOver, Resumable, LockAccounted, Relocking, RefusesOnlyForRestart, OneServer
<1>1. CASE QueueSteps
  <2>1. UNCHANGED <<loopVars, shutdownVars, gatewayDraining>>
    BY <1>1, QueueStepsFrame DEF QueueSteps
  <2> QED  BY <2>1 DEF loopVars, histories, shutdownVars
<1>2. CASE TimerFires
  <2>1. Emit \/ UNCHANGED <<vars, loopVars, shutdownVars>>
    BY <1>2 DEF TimerFires
  <2> QED  BY <1>2, <2>1, EmitHandOver
           DEF TimerFires, Callback, vars, loopVars, histories, shutdownVars
<1>3. CASE PollEnds
  BY <1>3, EmitHandOver DEF PollEnds, Callback
<1>4. CASE ConfigRestart
  <2>1. CASE Emit
    BY <1>4, <2>1, EmitHandOver DEF ConfigRestart, Callback
  <2>2. CASE UNCHANGED <<vars, loopVars, shutdownVars>>
    BY <2>2 DEF vars, loopVars, histories, shutdownVars
  <2> QED  BY <1>4, <2>1, <2>2 DEF ConfigRestart
<1>5. CASE NothingToRelease
  <2>1. CASE shutdown = "restart" /\ Resume
    BY <1>5, <2>1, ResumeHandOver DEF NothingToRelease, Callback
  <2>2. CASE loop' = "exited" /\ UNCHANGED <<vars, shutdown, phase, missedServer, stray>>
    BY <1>5, <2>2 DEF NothingToRelease, vars
  <2> QED  BY <1>5, <2>1, <2>2 DEF NothingToRelease
<1>6. CASE Relocked
  <2>1. CASE lock' = TRUE /\ Resume
    BY <1>6, <2>1, ResumeHandOver DEF Relocked, Callback
  <2>2. CASE loop' = "exited" /\ UNCHANGED <<vars, lock, shutdown, phase, missedServer, stray>>
    BY <1>6, <2>2 DEF Relocked, vars
  <2> QED  BY <1>6, <2>1, <2>2 DEF Relocked
<1>7. CASE TasksWaitCheck
  BY <1>7 DEF TasksWaitCheck, WaitCheck, loopVars, histories, shutdownVars
<1>8. CASE RunsWaitCheck
  BY <1>8 DEF RunsWaitCheck, vars, loopVars, histories
<1>9. CASE DrainEnds
  BY <1>9 DEF DrainEnds, CloseServer, vars
<1>10. CASE ServerCloses
  BY <1>10 DEF ServerCloses, vars
<1>11. CASE ForceExit
  BY <1>11 DEF ForceExit, vars, histories, shutdownVars
<1>12. CASE LockReleased
  <2>1. phase = "releasing" /\ shutdown # "none"
    BY <1>12 DEF LockReleased, TypeInv, GatewayTypeOK
  <2>2. UNCHANGED <<vars, server, listening, histories, shutdown>>
    BY <1>12 DEF LockReleased
  <2>3. CASE loop' = "exited" /\ UNCHANGED phase
    BY <2>1, <2>2, <2>3 DEF vars, histories, TypeInv, GatewayTypeOK
  <2>4. CASE shutdown = "restart" /\ phase' = "relocking" /\ UNCHANGED loop
    BY <1>12, <2>1, <2>2, <2>4 DEF vars, histories, LockReleased, Callback
  <2> QED  BY <1>12, <2>3, <2>4 DEF LockReleased
<1>13. CASE StartReturns
  BY <1>13 DEF StartReturns, vars, histories, shutdownVars
<1>14. CASE StartFails
  BY <1>14 DEF StartFails, vars, histories, shutdownVars
<1>15. CASE AwaitRestart
  BY <1>15 DEF AwaitRestart, vars, shutdownVars
<1>16. CASE ScheduleRestart
  BY <1>16 DEF ScheduleRestart, vars, loopVars, histories, shutdownVars
<1>17. CASE Stop
  BY <1>17 DEF Stop, CloseServer, vars
<1>18. ASSUME NEW t \in Tasks, RunBegins(t) PROVE HandOver'
  BY <1>18 DEF RunBegins, vars, loopVars, histories, shutdownVars
<1>19. CASE UNCHANGED gatewayVars
  BY <1>19 DEF gatewayVars, vars, loopVars, histories, shutdownVars
<1> QED  BY <1>1, <1>2, <1>3, <1>4, <1>5, <1>6, <1>7, <1>8, <1>9, <1>10, <1>11, <1>12,
            <1>13, <1>14, <1>15, <1>16, <1>17, <1>18, <1>19 DEF GatewayNext, LoopSteps

LEMMA HandedOver == GatewaySpec => [](TypeInv /\ HandOver)
  BY TypeInvInit, TypeInvStep, HandOverInit, HandOverStep, PTL DEF GatewaySpec

(* New work is refused only while a restart is under way, or until the next *)
(* reset after one that found the server still being started.               *)
THEOREM RefusalsHaveReason == GatewaySpec => []RefusesOnlyForRestart
<1>1. HandOver => RefusesOnlyForRestart
  BY DEF HandOver
<1> QED  BY <1>1, HandedOver, PTL

(* The server that is up is the one the loop can close, with the lock unless*)
(* a failed start gave it up, and is closed before a restart hands the lock *)
(* over, as long as no close threw and no restart went past a starting one. *)
THEOREM ServersAreHandedOver == GatewaySpec => []OneServer
<1>1. HandOver => OneServer
  BY DEF HandOver
<1> QED  BY <1>1, HandedOver, PTL

-----------------------------------------------------------------------------
(* Whom a reset disowns.  While a restart is under way nothing is enqueued, *)
(* so a task of the current generation was waited for, or waited in its     *)
(* lane when the drain began.                                               *)
Current(t) == status[t] = "running" /\ taskGeneration[t] = generation[laneOf[t]]

WaitedFor(t) == t \in waiter.ids /\ waiter.phase \in {"waiting", "timedOut"}

DrainInv ==
    shutdown = "restart" =>
        /\ gatewayDraining
        /\ \A t \in Tasks : status[t] = "queued" => t \in queuedAtDrain
        /\ \A t \in Tasks : Current(t) => t \in queuedAtDrain \/ WaitedFor(t)

LEMMA CurrentIsActive ==
    ASSUME TypeOK, SlotInv, NEW t \in Tasks, Current(t)
    PROVE  t \in AllActive
  BY DEF Current, SlotInv, SlotsExact, AllActive, TypeOK

LEMMA QueuedIsWaiting ==
    ASSUME TypeOK, SlotInv, NEW t \in Tasks, status[t] = "queued"
    PROVE  t \in AllWaiting
<1>1. laneOf[t] \in Lanes
  BY DEF TypeOK
<1>2. t \in Elems(queue[laneOf[t]])
  BY <1>1 DEF SlotInv
<1> QED  BY <1>1, <1>2 DEF AllWaiting, Waiting, Elems

(* In a draining gateway the lanes only start what waits in them.           *)
LEMMA QueueStepsDrain ==
    ASSUME TypeOK, SlotInv, QueueSteps, gatewayDraining, NEW t \in Tasks
    PROVE  /\ status'[t] = "queued" => status[t] = "queued"
           /\ Current(t)' => Current(t) \/ status[t] = "queued"
<1>1. ASSUME NEW u \in Tasks, Enqueue(u) PROVE FALSE
  BY <1>1 DEF Enqueue
<1>2. ASSUME NEW u \in Tasks, Refuse(u)
      PROVE  /\ status'[t] \in {status[t], "refused"}
             /\ UNCHANGED <<laneOf, taskGeneration, generation>>
  BY <1>2 DEF Refuse, TypeOK, laneVars
<1>3. ASSUME NEW l \in Lanes, StartNext(l)
      PROVE  /\ \/ status'[t] = status[t] /\ taskGeneration'[t] = taskGeneration[t]
                \/ status[t] = "queued" /\ status'[t] = "running"
             /\ UNCHANGED <<laneOf, generation>>
  <2>1. queue[l] \in Seq(Tasks) /\ queue[l] # <<>>
    BY <1>3 DEF StartNext, Pumpable, TypeOK
  <2>2. Head(queue[l]) \in Tasks /\ Head(queue[l]) \in Elems(queue[l])
    BY <2>1, ElemsFacts
  <2>3. status[Head(queue[l])] = "queued"
    BY <2>2 DEF SlotInv
  <2> QED  BY <1>3, <2>2, <2>3 DEF StartNext, TypeOK
<1>4. ASSUME NEW u \in Tasks, NEW below, Complete(u, below)
      PROVE  /\ status'[t] \in {status[t], "settled"}
             /\ UNCHANGED <<laneOf, taskGeneration, generation>>
  BY <1>4 DEF Complete, TypeOK
<1>5. ASSUME NEW l \in Lanes, ClearCommandLane(l)
      PROVE  /\ status'[t] \in {status[t], "cleared"}
             /\ UNCHANGED <<laneOf, taskGeneration, generation>>
  BY <1>5 DEF ClearCommandLane
<1>6. ASSUME \/ \E l \in Lanes : PumpReturn(l) \/ DrainAfterReset(l)
             \/ \E u \in Tasks : TaskAwaits(u)
             \/ \E l \in Lanes, n \in Limits : SetCommandLaneConcurrency(l, n)
      PROVE  UNCHANGED <<status, laneOf, taskGeneration, generation>>
  BY <1>6 DEF PumpReturn, DrainAfterReset, TaskAwaits, SetCommandLaneConcurrency,
              taskVars, laneVars
<1> QED
  BY <1>1, <1>2, <1>3, <1>4, <1>5, <1>6
     DEF QueueSteps, RunToCompletion, TaskThrows, TaskSettles, Current

LEMMA EmitDrain ==
    ASSUME TypeInv, SlotInv, DrainInv, Emit
    PROVE  DrainInv'
<1>1. CASE shutdown = "none"
  <2>1. BeginDrain
    BY <1>1 DEF Emit
  <2>2. /\ gatewayDraining' = TRUE
        /\ queuedAtDrain' = AllWaiting
        /\ UNCHANGED <<status, laneOf, taskGeneration, generation>>
        /\ AllActive # {} => waiter' = [phase |-> "waiting", ids |-> AllActive]
    BY <2>1 DEF BeginDrain, MarkGatewayDraining, WaitForActiveTasks, laneVars, taskVars
  <2>3. ASSUME NEW t \in Tasks, Current(t) PROVE WaitedFor(t)'
    BY <2>2, <2>3, CurrentIsActive DEF TypeInv, WaitedFor
  <2>4. ASSUME NEW t \in Tasks, status[t] = "queued" PROVE t \in queuedAtDrain'
    BY <2>2, <2>4, QueuedIsWaiting DEF TypeInv
  <2> QED  BY <2>2, <2>3, <2>4 DEF DrainInv, Current
<1>2. CASE shutdown # "none"
  BY <1>2 DEF Emit, vars, laneVars, taskVars, shutdownVars, DrainInv, Current, WaitedFor
<1> QED  BY <1>1, <1>2

LEMMA DrainInvInit == GatewayInit => DrainInv
  BY DEF GatewayInit, DrainInv

LEMMA DrainInvStep ==
    TypeInv /\ SlotInv /\ DrainInv /\ [GatewayNext]_gatewayVars => DrainInv'
<1> SUFFICES ASSUME TypeInv, SlotInv, DrainInv, [GatewayNext]_gatewayVars
             PROVE  DrainInv'
  OBVIOUS
<1>0. ASSUME UNCHANGED <<vars, queuedAtDrain>>, shutdown' = "restart" => shutdown = "restart"
      PROVE  DrainInv'
  BY <1>0 DEF vars, laneVars, taskVars, DrainInv, Current, WaitedFor
<1>1. CASE QueueSteps
  <2>1. UNCHANGED <<shutdown, queuedAtDrain, gatewayDraining, waiter>>
    BY <1>1, QueueStepsFrame DEF QueueSteps, shutdownVars
  <2>2. CASE shutdown # "restart"
    BY <2>1, <2>2 DEF DrainInv
  <2>3. CASE shutdown = "restart"
    <3>1. \A t \in Tasks : /\ status'[t] = "queued" => status[t] = "queued"
                           /\ Current(t)' => Current(t) \/ status[t] = "queued"
      BY <1>1, <2>3, QueueStepsDrain DEF DrainInv, TypeInv
    <3> QED  BY <2>1, <2>3, <3>1 DEF DrainInv, WaitedFor
  <2> QED  BY <2>2, <2>3
<1>2. CASE TimerFires
  BY <1>0, <1>2, EmitDrain DEF TimerFires, shutdownVars
<1>3. CASE PollEnds
  BY <1>3, EmitDrain DEF PollEnds
<1>4. CASE ConfigRestart
  BY <1>0, <1>4, EmitDrain DEF ConfigRestart, shutdownVars
<1>5. CASE NothingToRelease
  BY <1>0, <1>5 DEF NothingToRelease, Resume, DrainInv
<1>6. CASE Relocked
  BY <1>0, <1>6 DEF Relocked, Resume, DrainInv
<1>7. CASE TasksWaitCheck
  <2>1. /\ WaitCheck /\ UNCHANGED <<shutdown, queuedAtDrain>>
    BY <1>7 DEF TasksWaitCheck, shutdownVars
  <2>2. /\ UNCHANGED <<status, laneOf, taskGeneration, generation, gatewayDraining>>
        /\ waiter'.ids = waiter.ids
        /\ waiter'.phase = IF waiter.ids \cap AllActive = {} THEN "drained" ELSE "timedOut"
    BY <2>1 DEF WaitCheck, laneVars, taskVars, TypeInv, TypeOK, Waiter
  <2>3. ASSUME NEW t \in Tasks, Current(t), WaitedFor(t) PROVE WaitedFor(t)'
    BY <2>2, <2>3, CurrentIsActive DEF TypeInv, WaitedFor
  <2> QED  BY <2>1, <2>2, <2>3 DEF DrainInv, Current
<1>8. CASE RunsWaitCheck \/ DrainEnds \/ ServerCloses \/ ForceExit \/ LockReleased
  BY <1>0, <1>8 DEF RunsWaitCheck, DrainEnds, ServerCloses, ForceExit, LockReleased,
                    shutdownVars
<1>9. CASE StartReturns \/ StartFails \/ AwaitRestart
  BY <1>0, <1>9 DEF StartReturns, StartFails, AwaitRestart, shutdownVars
<1>10. CASE ScheduleRestart
  BY <1>0, <1>10 DEF ScheduleRestart, shutdownVars
<1>11. CASE Stop
  BY <1>0, <1>11 DEF Stop
<1>12. ASSUME NEW t \in Tasks, RunBegins(t) PROVE DrainInv'
  BY <1>0, <1>12 DEF RunBegins, shutdownVars
<1>13. CASE UNCHANGED gatewayVars
  BY <1>0, <1>13 DEF gatewayVars, shutdownVars
<1> QED  BY <1>1, <1>2, <1>3, <1>4, <1>5, <1>6, <1>7, <1>8, <1>9, <1>10, <1>11, <1>12,
            <1>13 DEF GatewayNext, LoopSteps

(* Generations change only when the loop resumes.                           *)
LEMMA OnlyResumeResets ==
    ASSUME TypeInv, HandOver, [GatewayNext]_gatewayVars, generation' # generation
    PROVE  shutdown = "restart" /\ phase # "draining"
<1>1. ASSUME QueueSteps PROVE FALSE
  BY <1>1 DEF QueueSteps, RunToCompletion, StartNext, PumpReturn, DrainAfterReset,
              TaskAwaits, TaskThrows, Enqueue, Refuse, ClearCommandLane,
              SetCommandLaneConcurrency, TaskSettles, Complete, laneVars
<1>2. ASSUME Emit PROVE FALSE
  BY <1>2 DEF Emit, BeginDrain, MarkGatewayDraining, WaitForActiveTasks, vars, laneVars
<1>3. ASSUME UNCHANGED vars PROVE FALSE
  BY <1>3 DEF vars, laneVars
<1>4. ASSUME TimerFires \/ PollEnds \/ ConfigRestart PROVE FALSE
  BY <1>2, <1>3, <1>4 DEF TimerFires, PollEnds, ConfigRestart
<1>5. CASE NothingToRelease
  <2>1. shutdown = "restart" /\ phase = "unlocked"
    BY <1>3, <1>5 DEF NothingToRelease
  <2> QED  BY <2>1
<1>10. CASE Relocked
  <2>1. phase = "relocking"
    BY <1>10 DEF Relocked
  <2> QED  BY <2>1 DEF HandOver, Relocking
<1>6. ASSUME TasksWaitCheck PROVE FALSE
  BY <1>6 DEF TasksWaitCheck, WaitCheck, laneVars
<1>7. ASSUME \/ RunsWaitCheck \/ DrainEnds \/ ServerCloses \/ ForceExit \/ LockReleased
             \/ StartReturns \/ StartFails \/ AwaitRestart \/ ScheduleRestart \/ Stop
             \/ \E t \in Tasks : RunBegins(t)
             \/ UNCHANGED gatewayVars
      PROVE FALSE
  BY <1>3, <1>7 DEF RunsWaitCheck, DrainEnds, ServerCloses, ForceExit, LockReleased,
     StartReturns, StartFails, AwaitRestart, ScheduleRestart, Stop, RunBegins, gatewayVars
<1> QED  BY <1>1, <1>4, <1>5, <1>6, <1>7, <1>10 DEF GatewayNext, LoopSteps

(* A reset disowns a running task only if the drain waited for it in vain,  *)
(* or if it waited in its lane when the drain began.                        *)
THEOREM OnlyWaitedForIsDisowned == GatewaySpec => DisownedAfterWait
<1>1. GatewaySpec => [](TypeInv /\ SlotInv /\ DrainInv)
  <2>1. GatewayInit => SlotInv
    BY SlotInvInit DEF GatewayInit
  <2>2. TypeInv /\ SlotInv /\ [GatewayNext]_gatewayVars => SlotInv'
    BY GatewayStepQueue, SlotInvStep DEF TypeInv
  <2> QED  BY <2>1, <2>2, TypeInvInit, TypeInvStep, DrainInvInit, DrainInvStep, PTL
           DEF GatewaySpec
<1>2. ASSUME TypeInv, HandOver, DrainInv, [GatewayNext]_gatewayVars, generation' # generation,
             NEW t \in Tasks, Current(t)
      PROVE  t \in queuedAtDrain \/ (t \in waiter.ids /\ waiter.phase = "timedOut")
  <2>1. shutdown = "restart" /\ phase # "draining"
    BY <1>2, OnlyResumeResets
  <2>2. waiter.phase # "waiting"
    BY <1>2, <2>1 DEF TypeInv, GatewayTypeOK
  <2> QED  BY <1>2, <2>1, <2>2 DEF DrainInv, WaitedFor
<1>3. TypeInv /\ HandOver /\ DrainInv /\ [GatewayNext]_gatewayVars =>
        [generation' # generation =>
           \A t \in Tasks :
              status[t] = "running" /\ taskGeneration[t] = generation[laneOf[t]] =>
                  \/ t \in queuedAtDrain
                  \/ t \in waiter.ids /\ waiter.phase = "timedOut"]_gatewayVars
  BY <1>2 DEF Current
<1> QED  BY <1>1, <1>3, HandedOver, PTL DEF GatewaySpec, DisownedAfterWait
=============================================================================
