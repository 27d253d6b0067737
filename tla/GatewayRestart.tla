--------------------------- MODULE GatewayRestart ---------------------------
(***************************************************************************)
(* The run loop of the OpenClaw gateway (cli/gateway-cli/run-loop.ts) and   *)
(* the restart requests that reach it (infra/restart.ts and                 *)
(* gateway/server-reload-handlers.ts), over the command queue whose lanes   *)
(* it drains and resets.                                                    *)
(*                                                                         *)
(* A restart is asked for by a command or a signal (a timer, then a poll    *)
(* that waits for idle) or by the config watcher (a poll).  When a poll     *)
(* ends it emits SIGUSR1, whose listener runs inside the emit: the tokens   *)
(* and authorizations of restart.ts are consumed before the emit returns,   *)
(* so they are not part of the state.  request() then drains, closes the    *)
(* server, hands the lock over and exits, or resumes the loop, which resets *)
(* the lanes and starts the server again.  A stop takes the same way.       *)
(***************************************************************************)
EXTENDS CommandQueue

CONSTANTS
    MaxAsked,   \* bound: how often a restart is asked for
    NoRun       \* a session without a registered embedded run

ASSUME GatewayRestartAssumption ==
    /\ MaxAsked \in Nat /\ MaxAsked <= MaxGeneration
    /\ MayWait = TRUE
    /\ NoRun \notin Tasks

VARIABLES
    loop,           \* where runGatewayLoop is: awaiting params.start(), in the
                    \* catch block after it failed, awaiting restartResolver's
                    \* promise, or gone with the process
    firstStart,     \* isFirstStart
    server,         \* whether the variable `server` holds a server
    listening,      \* whether a started server has not been closed
    lock,           \* whether this process holds the gateway lock
    shutdown,       \* what request() is doing ("none": ~shuttingDown)
    phase,          \* how far it is
    runsWait,       \* the waitForActiveEmbeddedRuns call of the drain
    activeRun,      \* ACTIVE_EMBEDDED_RUNS; a lane stands for its session
    timer,          \* pendingRestartTimer
    polls,          \* deferral polls that are not the current watcher's
    restartPending, \* the config watcher's flag, and its poll
    asked,          \* restarts asked for so far
    queuedAtDrain,  \* history: the entries waiting when a drain began
    missedServer,   \* history: a restart went past a server being started, and
                    \* the lanes have not been reset since
    stray,          \* history: the loop may have lost a server that is up, to
                    \* a close that threw or to an iteration after such a restart
    gaveUpLock      \* history: a later start failed and the lock was released

histories == <<missedServer, stray, gaveUpLock>>
loopVars == <<loop, firstStart, server, listening, lock, histories>>
shutdownVars == <<shutdown, phase, runsWait, queuedAtDrain>>
requestVars == <<timer, polls, restartPending, asked>>
gatewayVars == <<vars, loopVars, shutdownVars, requestVars, activeRun>>

GatewayTypeOK ==
    /\ loop \in {"starting", "failed", "waiting", "exited"}
    /\ firstStart \in BOOLEAN
    /\ server \in BOOLEAN
    /\ listening \in BOOLEAN
    /\ lock \in BOOLEAN
    /\ shutdown \in {"none", "stop", "restart"}
    /\ phase \in {"none", "draining", "closing", "releasing", "unlocked",
                  "relocking"}
    /\ runsWait \in {"none", "waiting", "drained", "timedOut"}
    /\ activeRun \in [Lanes -> Tasks \cup {NoRun}]
    /\ timer \in BOOLEAN
    /\ polls \in 0 .. MaxAsked
    /\ restartPending \in BOOLEAN
    /\ asked \in 0 .. MaxAsked
    /\ queuedAtDrain \subseteq Tasks
    /\ missedServer \in BOOLEAN
    /\ stray \in BOOLEAN
    /\ gaveUpLock \in BOOLEAN
    /\ (shutdown = "none") = (phase = "none")
    /\ runsWait = "waiting" => phase = "draining"
    /\ waiter.phase = "waiting" => phase = "draining"

GatewayInit ==
    /\ Init
    /\ loop = "starting"
    /\ firstStart = TRUE
    /\ server = FALSE
    /\ listening = FALSE
    /\ lock = TRUE
    /\ shutdown = "none"
    /\ phase = "none"
    /\ runsWait = "none"
    /\ activeRun = [l \in Lanes |-> NoRun]
    /\ timer = FALSE
    /\ polls = 0
    /\ restartPending = FALSE
    /\ asked = 0
    /\ queuedAtDrain = {}
    /\ missedServer = FALSE
    /\ stray = FALSE
    /\ gaveUpLock = FALSE

-----------------------------------------------------------------------------
AllWaiting == UNION {Waiting(l) : l \in Lanes}
Runs == {l \in Lanes : activeRun[l] # NoRun}

(* getPendingCount, without the replies of the dispatchers.                 *)
Idle == AllActive = {} /\ AllWaiting = {} /\ Runs = {}

(* Callbacks of the run loop and of timers come from the event loop.        *)
Callback == loop # "exited" /\ EventLoop

(* Mutant: the close is not awaited.                                        *)
CloseServerNotAwaited(held) ==
    /\ phase' = IF held THEN "releasing" ELSE "unlocked"
    /\ missedServer' = (missedServer \/ (shutdown' = "restart" /\ loop # "waiting"))

(* server?.close() waits for a server only if the variable holds one.  What *)
(* follows, releaseLockIfHeld(), waits only if the lock is held.            *)
CloseServer(held) ==
    /\ phase' = IF server THEN "closing"
                ELSE IF held THEN "releasing" ELSE "unlocked"
    /\ missedServer' = (missedServer \/ (shutdown' = "restart" /\ loop # "waiting"))

-----------------------------------------------------------------------------
(* request("restart"): new work is refused, then the tasks and runs that    *)
(* are active are waited for.                                               *)
BeginDrain ==
    /\ shutdown' = "restart"
    /\ queuedAtDrain' = AllWaiting
    /\ UNCHANGED <<loop, firstStart, server, listening, lock, stray, gaveUpLock>>
    /\ IF AllActive = {} THEN MarkGatewayDraining ELSE WaitForActiveTasks
    /\ runsWait' = IF Runs = {} THEN "none" ELSE "waiting"
    /\ IF AllActive = {} /\ Runs = {}
       THEN CloseServer(lock)
       ELSE phase' = "draining" /\ UNCHANGED missedServer

(* emitGatewayRestart: the scheduled restart is dropped; the listener       *)
(* ignores the signal while a shutdown is under way.                        *)
Emit ==
    /\ timer' = FALSE
    /\ IF shutdown = "none"
       THEN BeginDrain
       ELSE UNCHANGED <<vars, loopVars, shutdownVars>>

(* scheduleGatewaySigusr1Restart: coalesced with a scheduled restart.       *)
ScheduleRestart ==
    /\ Callback
    /\ asked < MaxAsked
    /\ ~timer
    /\ asked' = asked + 1
    /\ timer' = TRUE
    /\ UNCHANGED <<vars, loopVars, shutdownVars, polls, restartPending, activeRun>>

(* Its timer fires: an idle gateway restarts at once, otherwise a poll      *)
(* waits.  Before the first start has set the check nothing is counted.     *)
TimerFires ==
    /\ Callback
    /\ timer
    /\ \/ /\ Idle \/ firstStart
          /\ Emit
          /\ UNCHANGED polls
       \/ /\ ~Idle
          /\ timer' = FALSE
          /\ polls' = polls + 1
          /\ UNCHANGED <<vars, loopVars, shutdownVars>>
    /\ UNCHANGED <<restartPending, asked, activeRun>>

(* requestGatewayRestart of a running server's config watcher; an idle one   *)
(* restarts even if its poll has not noticed yet.                           *)
ConfigRestart ==
    /\ Callback
    /\ listening
    /\ asked < MaxAsked
    /\ asked' = asked + 1
    /\ \/ /\ Idle
          /\ Emit
          /\ UNCHANGED restartPending
       \/ /\ ~Idle
          /\ ~restartPending
          /\ restartPending' = TRUE
          /\ UNCHANGED <<vars, loopVars, shutdownVars, timer>>
    /\ UNCHANGED <<polls, activeRun>>

(* A poll ends with an emit, because the gateway is idle or because the     *)
(* longest deferral is over; which of the two makes no difference.          *)
PollEnds ==
    /\ Callback
    /\ \/ polls > 0 /\ polls' = polls - 1 /\ UNCHANGED restartPending
       \/ restartPending /\ restartPending' = FALSE /\ UNCHANGED polls
    /\ Emit
    /\ UNCHANGED <<asked, activeRun>>

(* SIGTERM or SIGINT: request("stop").                                      *)
Stop ==
    /\ Callback
    /\ shutdown = "none"
    /\ shutdown' = "stop"
    /\ CloseServer(lock)
    /\ UNCHANGED <<vars, loop, firstStart, server, listening, lock, stray, gaveUpLock,
                   runsWait, queuedAtDrain, requestVars, activeRun>>

-----------------------------------------------------------------------------
(* The first answer of waitForActiveTasks after the call, see WaitCheck.    *)
TasksWaitCheck ==
    /\ Callback
    /\ WaitCheck
    /\ UNCHANGED <<loopVars, shutdownVars, requestVars, activeRun>>

(* waitForActiveEmbeddedRuns looks at the runs of the moment, not at a      *)
(* snapshot.                                                                *)
RunsWaitCheck ==
    /\ Callback
    /\ runsWait = "waiting"
    /\ runsWait' = IF Runs = {} THEN "drained" ELSE "timedOut"
    /\ UNCHANGED <<vars, loopVars, shutdown, phase, queuedAtDrain, requestVars,
                   activeRun>>

(* Mutant: the server is closed without waiting for the tasks.              *)
DrainEndsEarly ==
    /\ Callback
    /\ phase = "draining"
    /\ runsWait # "waiting"
    /\ UNCHANGED shutdown
    /\ CloseServer(lock)
    /\ UNCHANGED <<vars, loop, firstStart, server, listening, lock, stray, gaveUpLock,
                   runsWait, queuedAtDrain, requestVars, activeRun>>

(* Both waits of the drain have answered.                                   *)
DrainEnds ==
    /\ Callback
    /\ phase = "draining"
    /\ runsWait # "waiting" /\ waiter.phase # "waiting"
    /\ UNCHANGED shutdown
    /\ CloseServer(lock)
    /\ UNCHANGED <<vars, loop, firstStart, server, listening, lock, stray, gaveUpLock,
                   runsWait, queuedAtDrain, requestVars, activeRun>>

(* server.close() settles.  It throws if a step before the last one does:   *)
(* then the server is still listening.  The finally block forgets it either *)
(* way and goes on.                                                         *)
ServerCloses ==
    /\ Callback
    /\ phase = "closing"
    /\ \/ listening' = FALSE /\ UNCHANGED stray
       \/ stray' = TRUE /\ UNCHANGED listening
    /\ server' = FALSE
    /\ phase' = IF lock THEN "releasing" ELSE "unlocked"
    /\ UNCHANGED <<vars, loop, firstStart, lock, missedServer, gaveUpLock,
                   shutdown, runsWait, queuedAtDrain, requestVars, activeRun>>

(* Mutant: the timer is cleared before the server has closed.               *)
ForceExitCleared ==
    /\ Callback
    /\ phase = "closing" /\ ~server
    /\ loop' = "exited"
    /\ UNCHANGED <<vars, firstStart, server, listening, lock, histories,
                   shutdownVars, requestVars, activeRun>>

(* The timer set by request() ends a close that hangs.                      *)
ForceExit ==
    /\ Callback
    /\ phase = "closing"
    /\ loop' = "exited"
    /\ UNCHANGED <<vars, firstStart, server, listening, lock, histories,
                   shutdownVars, requestVars, activeRun>>

(* Mutant: the loop goes on without resetting the lanes.                    *)
ResumeWithoutReset ==
    /\ shutdown' = "none" /\ phase' = "none"
    /\ IF loop = "waiting"
       THEN /\ loop' = "starting"
            /\ missedServer' = FALSE /\ stray' = (stray \/ missedServer)
            /\ UNCHANGED vars
       ELSE UNCHANGED <<vars, loop, missedServer, stray>>

(* shuttingDown = false; restartResolver?.(): the loop begins its next      *)
(* iteration with resetAllLanes() if it awaits the promise; otherwise the   *)
(* resolver is of an earlier iteration, or none, and nothing happens.       *)
Resume ==
    /\ shutdown' = "none" /\ phase' = "none"
    /\ IF loop = "waiting"
       THEN /\ loop' = "starting" /\ ResetAllLanes
            /\ missedServer' = FALSE /\ stray' = (stray \/ missedServer)
       ELSE UNCHANGED <<vars, loop, missedServer, stray>>

(* The lock is released, before a successor is spawned.  A stop exits; a    *)
(* restart exits too when a supervisor or a spawned process takes over, and *)
(* otherwise takes the lock again.                                          *)
LockReleased ==
    /\ Callback
    /\ phase = "releasing"
    /\ lock' = FALSE
    /\ \/ loop' = "exited" /\ UNCHANGED phase
       \/ shutdown = "restart" /\ phase' = "relocking" /\ UNCHANGED loop
    /\ UNCHANGED <<vars, firstStart, server, listening, histories,
                   shutdown, runsWait, queuedAtDrain, requestVars, activeRun>>

(* The same without a lock to release or to take.                           *)
NothingToRelease ==
    /\ Callback
    /\ phase = "unlocked"
    /\ \/ loop' = "exited" /\ UNCHANGED <<vars, shutdown, phase, missedServer, stray>>
       \/ shutdown = "restart" /\ Resume
    /\ UNCHANGED <<firstStart, server, listening, lock, gaveUpLock,
                   runsWait, queuedAtDrain, requestVars, activeRun>>

(* Another process may have taken the lock: then this one exits.            *)
Relocked ==
    /\ Callback
    /\ phase = "relocking"
    /\ \/ lock' = TRUE /\ Resume
       \/ loop' = "exited" /\ UNCHANGED <<vars, lock, shutdown, phase, missedServer, stray>>
    /\ UNCHANGED <<firstStart, server, listening, gaveUpLock,
                   runsWait, queuedAtDrain, requestVars, activeRun>>

-----------------------------------------------------------------------------
(* Mutant: the poll of the old watcher is forgotten.                        *)
StartReturnsForgettingPoll ==
    /\ Callback
    /\ loop = "starting"
    /\ ~listening
    /\ loop' = "waiting"
    /\ firstStart' = FALSE
    /\ server' = TRUE
    /\ listening' = TRUE
    /\ restartPending' = FALSE
    /\ UNCHANGED <<vars, lock, histories, shutdownVars, timer, polls, asked, activeRun>>

(* params.start() returns a server; it cannot while another one of this     *)
(* process has the port.  A new watcher comes with it, and the poll of the  *)
(* old one goes on.                                                         *)
StartReturns ==
    /\ Callback
    /\ loop = "starting"
    /\ ~listening
    /\ loop' = "waiting"
    /\ firstStart' = FALSE
    /\ server' = TRUE
    /\ listening' = TRUE
    /\ polls' = IF restartPending THEN polls + 1 ELSE polls
    /\ restartPending' = FALSE
    /\ UNCHANGED <<vars, lock, histories, shutdownVars, timer, asked, activeRun>>

(* The first failure ends the process; later ones leave it without a server *)
(* and, one await later, without the lock.                                  *)
StartFails ==
    /\ Callback
    /\ loop = "starting"
    /\ loop' = IF firstStart THEN "exited" ELSE "failed"
    /\ server' = FALSE
    /\ UNCHANGED <<vars, firstStart, listening, lock, histories, shutdownVars,
                   requestVars, activeRun>>

AwaitRestart ==
    /\ Callback
    /\ loop = "failed"
    /\ loop' = "waiting"
    /\ lock' = FALSE
    /\ gaveUpLock' = (gaveUpLock \/ lock)
    /\ UNCHANGED <<vars, firstStart, server, listening, missedServer, stray, shutdownVars,
                   requestVars, activeRun>>

-----------------------------------------------------------------------------
(* setActiveEmbeddedRun replaces a run of an earlier lifecycle that still   *)
(* holds the session.                                                       *)
RunBegins(t) ==
    /\ Callback
    /\ status[t] = "running"
    /\ activeRun' = [activeRun EXCEPT ![laneOf[t]] = t]
    /\ UNCHANGED <<vars, loopVars, shutdownVars, requestVars>>

(* The lanes' steps while the process lives.  A task that ends has cleared  *)
(* its run, unless the run was replaced.                                    *)
QueueSteps ==
    /\ loop # "exited"
    /\ \/ /\ \/ RunToCompletion
             \/ \E t \in Tasks : Enqueue(t) \/ Refuse(t)
             \/ \E l \in Lanes : ClearCommandLane(l)
             \/ \E l \in Lanes, n \in Limits : SetCommandLaneConcurrency(l, n)
          /\ UNCHANGED activeRun
       \/ \E t \in Tasks :
             /\ TaskSettles(t)
             /\ activeRun' = [l \in Lanes |->
                                IF activeRun[l] = t THEN NoRun ELSE activeRun[l]]
    /\ UNCHANGED <<loopVars, shutdownVars, requestVars>>

(* What the event loop serves sooner or later; a close may hang, and a      *)
(* restart may stay unasked for.                                            *)
LoopSteps ==
    \/ TimerFires \/ PollEnds
    \/ TasksWaitCheck \/ RunsWaitCheck \/ DrainEnds
    \/ ForceExit \/ LockReleased \/ NothingToRelease \/ Relocked
    \/ StartReturns \/ StartFails \/ AwaitRestart

GatewayNext ==
    \/ QueueSteps
    \/ LoopSteps
    \/ ServerCloses
    \/ ScheduleRestart \/ ConfigRestart \/ Stop
    \/ \E t \in Tasks : RunBegins(t)

GatewaySpec == GatewayInit /\ [][GatewayNext]_gatewayVars

(* Synchronous code runs to completion; timers, polls with a longest wait,  *)
(* the two waits with their deadlines, and the start of a server (which     *)
(* returns or throws) are served however often other callbacks get in.      *)
GatewayFairness ==
    /\ WF_gatewayVars(QueueSteps /\ RunToCompletion)
    /\ SF_gatewayVars(LoopSteps)

GatewayFairSpec == GatewaySpec /\ GatewayFairness

-----------------------------------------------------------------------------
(* New work is refused only while a restart is under way, or until the next *)
(* reset of the lanes if a restart found the server still being started:    *)
(* nothing else lifts the drain flag of such a restart.                     *)
RefusesOnlyForRestart ==
    gatewayDraining => shutdown = "restart" \/ missedServer

(* A server that is up is the one the loop can close, it is closed before a *)
(* restart hands the lock over, and no other is started beside it; it has   *)
(* the lock, unless the loop gave it up after a failed start.  All of this  *)
(* ends where a restart goes past a starting server or a close throws, and  *)
(* nowhere else.                                                            *)
OneServer ==
    listening /\ ~missedServer /\ ~stray =>
        /\ server
        /\ loop \in {"waiting", "exited"}
        /\ shutdown = "restart" => phase \in {"draining", "closing"}
        /\ lock \/ gaveUpLock \/ shutdown = "stop"

(* A reset disowns a running task only after the drain was cut short, or if *)
(* the task waited in its lane when the drain began: nothing else slips in  *)
(* between the refusal of new work and the reset.                           *)
DisownedAfterWait ==
    [][generation' # generation =>
         \A t \in Tasks :
            status[t] = "running" /\ taskGeneration[t] = generation[laneOf[t]] =>
                \/ t \in queuedAtDrain
                \/ t \in waiter.ids /\ waiter.phase = "timedOut"]_gatewayVars

(* A stop ends the process, and a restart that finds the loop waiting ends  *)
(* it or begins an iteration, even if work, a close or the lock hangs.      *)
ShutdownsEnd ==
    /\ shutdown = "stop" ~> loop = "exited"
    /\ shutdown = "restart" /\ loop = "waiting" ~> loop # "waiting"

(* A restart that was asked for comes, whichever timer, poll or watcher it  *)
(* waits with, if servers, watchers and shutdowns come and go meanwhile and *)
(* if the work it is deferred for never ends; or the process ends.          *)
AskedIsServed ==
    timer \/ polls > 0 \/ restartPending ~> shutdown = "restart" \/ loop = "exited"
=============================================================================
