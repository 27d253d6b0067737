------------------------- MODULE HeartbeatWakeProofs -------------------------
(***************************************************************************)
(* Theorems about HeartbeatWake, for any number of targets, runners,        *)
(* batches, requests and setbacks.                                          *)
(***************************************************************************)
EXTENDS HeartbeatWake, FiniteSetTheorems, TLAPS

USE HeartbeatAssumption

(* Wakes coalesce into wakes. *)
LEMMA MergeType ==
    ASSUME NEW p \in Wakes, NEW q \in Wakes
    PROVE  Merge(p, q) \in Wakes
BY DEF Merge, Wakes, Higher

LEMMA OneType ==
    /\ None \in Wakes
    /\ \A t \in Targets, p \in NoWake .. 3 : One(t, p) \in Wakes
BY DEF One, None, Wakes, NoWake

LEMMA ScheduleType ==
    ASSUME NEW set \in {"none", "normal", "retry"}, NEW kind \in {"normal", "retry"}
    PROVE  Schedule(set, kind) \in {"normal", "retry"}
BY DEF Schedule

-----------------------------------------------------------------------------
BatchOK ==
    /\ batch \in [Batches -> Batch \cup {Over}]
    /\ \A b \in InFlight : Orderly(batch[b])

(* A batch that is not over has a runner, and one that has a runner is not  *)
(* over.                                                                    *)
LEMMA NotOver == \A w \in Batch : w # Over
BY DEF Batch, Over

LEMMA InFlightType ==
    ASSUME BatchOK, NEW b \in InFlight
    PROVE  /\ b \in Batches /\ batch[b] \in Batch /\ Orderly(batch[b])
           /\ batch[b].runner \in Runners /\ batch[b].wakes \in Wakes
           /\ batch[b].todo \subseteq Targets /\ batch[b].current \in Targets
           /\ batch[b].result \in Results
BY DEF BatchOK, InFlight, Batch

(* A batch that has taken wakes and calls the handler for the next of them. *)
LEMMA NextCallBatch ==
    ASSUME BatchOK, NEW b \in Batches, NEW work \in Batch,
           work.todo \subseteq Asking(work.wakes), NextCall(b, work)
    PROVE  BatchOK' /\ InFlight' = InFlight \cup {b}
<1>1. PICK t \in work.todo :
          batch' = [batch EXCEPT ![b] =
                       [work EXCEPT !.todo = @ \ {t}, !.current = t,
                                    !.result = "running"]]
    BY DEF NextCall
<1> DEFINE next == [work EXCEPT !.todo = @ \ {t}, !.current = t,
                                !.result = "running"]
<1>2. t \in Targets /\ next \in Batch
    BY DEF Batch, Results
<1>3. next # Over
    BY <1>2, NotOver
<1>4. Orderly(next)
    BY <1>2 DEF Orderly, Asking, Batch
<1>5. batch' = [batch EXCEPT ![b] = next]
    BY <1>1
<1> HIDE DEF next
<1>6. /\ batch' \in [Batches -> Batch \cup {Over}]
      /\ batch'[b] = next
      /\ \A c \in Batches \ {b} : batch'[c] = batch[c]
    BY <1>2, <1>5 DEF BatchOK
<1>7. InFlight' = InFlight \cup {b}
    BY <1>3, <1>6 DEF InFlight
<1> QED
    BY <1>4, <1>6, <1>7 DEF BatchOK, InFlight

LEMMA OverBatch ==
    ASSUME BatchOK, NEW b \in Batches,
           batch' = [batch EXCEPT ![b] = Over]
    PROVE  BatchOK' /\ InFlight' = InFlight \ {b}
<1>1. /\ batch' \in [Batches -> Batch \cup {Over}]
      /\ batch'[b] = Over
      /\ \A c \in Batches \ {b} : batch'[c] = batch[c]
    BY DEF BatchOK
<1> QED
    BY <1>1 DEF BatchOK, InFlight

LEMMA EndType ==
    ASSUME BatchOK, NEW b \in Batches, NEW wakes \in Wakes,
           NEW set \in {"none", "normal", "retry"}, End(b, wakes, set)
    PROVE  /\ BatchOK' /\ InFlight' = InFlight \ {b}
           /\ running' = FALSE
           /\ pending' \in Wakes
           /\ timer' \in {"none", "normal", "retry"}
           /\ pending' # None => timer' # "none"
BY OverBatch, ScheduleType DEF End

(* One step of the loop of a batch: it goes on with the next call, or ends.  *)
Turn(b, work, wakes, set) ==
    \/ /\ NextCall(b, work)
       /\ pending' = wakes /\ timer' = set
       /\ UNCHANGED running
    \/ NoCall(work) /\ End(b, wakes, set)

LEMMA TurnType ==
    ASSUME TypeOK, NEW b \in InFlight, NEW wakes \in Wakes,
           NEW set \in {"none", "normal", "retry"},
           Turn(b, batch[b], wakes, set)
    PROVE  /\ BatchOK' /\ running' \in BOOLEAN
           /\ pending' \in Wakes /\ timer' \in {"none", "normal", "retry"}
           /\ \/ InFlight' = InFlight /\ UNCHANGED running
              \/ InFlight' = InFlight \ {b} /\ running' = FALSE
<1>1. BatchOK
    BY DEF TypeOK, BatchOK
<1>2. /\ b \in Batches /\ batch[b] \in Batch
      /\ batch[b].todo \subseteq Asking(batch[b].wakes)
    BY <1>1, InFlightType DEF Orderly
<1>3. CASE NextCall(b, batch[b]) /\ pending' = wakes /\ timer' = set
           /\ UNCHANGED running
    <2>1. BatchOK' /\ InFlight' = InFlight \cup {b}
        BY <1>1, <1>2, <1>3, NextCallBatch
    <2>2. InFlight \cup {b} = InFlight
        OBVIOUS
    <2> QED
        BY <1>3, <2>1, <2>2 DEF TypeOK
<1>4. CASE End(b, wakes, set)
    BY <1>1, <1>2, <1>4, EndType
<1> QED
    BY <1>3, <1>4 DEF Turn

(* Each answer of a run is such a step, with these wakes and this timer.    *)
LEMMA RanTurn ==
    ASSUME NEW b \in Batches, Ran(b)
    PROVE  Turn(b, batch[b], pending, timer)
BY DEF Ran, Turn

LEMMA BusyTurn ==
    ASSUME TypeOK, NEW b \in Batches, Busy(b)
    PROVE  \E wakes \in Wakes : \E set \in {"normal", "retry"} :
               Turn(b, batch[b], wakes, set)
<1> DEFINE t == batch[b].current
           wakes == Merge(pending, One(t, batch[b].wakes[t]))
           set == Schedule(timer, "retry")
<1>1. b \in InFlight /\ BatchOK
    BY DEF Busy, TypeOK, BatchOK
<1>2. t \in Targets /\ batch[b].wakes[t] \in NoWake .. 3
    BY <1>1, InFlightType DEF Wakes
<1>3. wakes \in Wakes
    BY <1>2, OneType, MergeType DEF TypeOK
<1>4. set \in {"normal", "retry"}
    BY ScheduleType DEF TypeOK
<1>5. Turn(b, batch[b], wakes, set)
    BY DEF Busy, Turn
<1> QED
    BY <1>3, <1>4, <1>5

LEMMA ThrewEnd ==
    ASSUME TypeOK, NEW b \in Batches, Threw(b)
    PROVE  \E wakes \in Wakes : \E set \in {"normal", "retry"} :
               End(b, wakes, set)
<1>1. b \in InFlight /\ BatchOK
    BY DEF Threw, TypeOK, BatchOK
<1>2. Merge(pending, batch[b].wakes) \in Wakes
    BY <1>1, InFlightType, MergeType DEF TypeOK
<1>3. Schedule(timer, "retry") \in {"normal", "retry"}
    BY ScheduleType DEF TypeOK
<1> QED
    BY <1>2, <1>3 DEF Threw

LEMMA RunReturnsType ==
    ASSUME TypeOK, NEW b \in Batches, NEW result \in Results,
           RunReturns(b, result)
    PROVE  BatchOK' /\ InFlight' = InFlight
<1> DEFINE next == [batch[b] EXCEPT !.result = result]
<1>1. b \in InFlight /\ BatchOK
    BY DEF RunReturns, TypeOK, BatchOK
<1>2. next \in Batch /\ next # Over
    BY <1>1, InFlightType, NotOver DEF Batch
<1>3. Orderly(next)
    BY <1>1, InFlightType DEF Orderly, Batch
<1>4. batch' = [batch EXCEPT ![b] = next]
    BY DEF RunReturns
<1> HIDE DEF next
<1>5. /\ batch' \in [Batches -> Batch \cup {Over}]
      /\ batch'[b] = next
      /\ \A c \in Batches \ {b} : batch'[c] = batch[c]
    BY <1>1, <1>2, <1>4 DEF BatchOK
<1> QED
    BY <1>1, <1>2, <1>3, <1>5 DEF BatchOK, InFlight

LEMMA FiresType ==
    ASSUME TypeOK, NEW b \in Batches, TimerFires(b)
    PROVE  /\ BatchOK' /\ running' \in BOOLEAN
           /\ \/ InFlight' = InFlight \cup {b} /\ running' = TRUE
              \/ InFlight' = InFlight /\ UNCHANGED running
<1> DEFINE work == [runner |-> handler, wakes |-> pending,
                    todo |-> Asking(pending), current |-> Everyone,
                    result |-> "running"]
<1>1. BatchOK
    BY DEF TypeOK, BatchOK
<1>2. work \in Batch
    BY DEF TimerFires, TypeOK, Batch, Asking, Results
<1>3. work.todo \subseteq Asking(work.wakes)
    OBVIOUS
<1>4. \/ NextCall(b, work) /\ running' = TRUE
      \/ UNCHANGED <<batch, running>>
    BY DEF TimerFires
<1> HIDE DEF work
<1>5. CASE NextCall(b, work) /\ running' = TRUE
    BY <1>1, <1>2, <1>3, <1>5, NextCallBatch
<1>6. CASE UNCHANGED <<batch, running>>
    BY <1>1, <1>6 DEF BatchOK, InFlight, TypeOK
<1> QED
    BY <1>4, <1>5, <1>6

-----------------------------------------------------------------------------
LEMMA TypeInit == Init => TypeOK
<1> SUFFICES ASSUME Init
             PROVE  TypeOK
    OBVIOUS
<1>1. batch \in [Batches -> Batch \cup {Over}] /\ InFlight = {}
    BY DEF Init, InFlight
<1>2. handler \in Runners \cup {NoRunner} /\ pending \in Wakes
    BY OneType DEF Init
<1>3. /\ timer \in {"none", "normal", "retry"}
      /\ scheduled \in BOOLEAN /\ running \in BOOLEAN /\ enabled \in BOOLEAN
    BY DEF Init
<1>4. /\ life \in [Runners -> {"new", "live", "stopped"}]
      /\ agents \in [Runners -> BOOLEAN] /\ armed \in [Runners -> BOOLEAN]
    BY DEF Init
<1>5. requests \in 0 .. MaxRequests /\ setbacks \in 0 .. MaxSetbacks
    BY DEF Init
<1> QED
    BY <1>1, <1>2, <1>3, <1>4, <1>5 DEF TypeOK

LEMMA AskType ==
    ASSUME TypeOK, NEW t \in Targets, NEW p \in NoWake .. 3, Ask(t, p)
    PROVE  pending' \in Wakes /\ timer' \in {"normal", "retry"}
BY OneType, MergeType, ScheduleType DEF Ask, TypeOK

LEMMA SameBatches ==
    ASSUME UNCHANGED batch
    PROVE  InFlight' = InFlight
BY DEF InFlight

LEMMA TypeStep == TypeOK /\ [Next]_vars => TypeOK'
<1> SUFFICES ASSUME TypeOK, [Next]_vars
             PROVE  TypeOK'
    OBVIOUS
<1>0. BatchOK
    BY DEF TypeOK, BatchOK
<1>1. ASSUME NEW t \in Targets, NEW p \in Reasons, Request(t, p)
      PROVE  TypeOK'
    <2>1. p \in NoWake .. 3
        BY DEF NoWake
    <2>2. pending' \in Wakes /\ timer' \in {"normal", "retry"}
        BY <1>1, <2>1, AskType DEF Request
    <2>3. InFlight' = InFlight
        BY <1>1, SameBatches DEF Request, Ask
    <2> QED
        BY <1>1, <2>2, <2>3 DEF Request, Ask, TypeOK
<1>2. CASE TimerFiresUnheard
    BY <1>2, SameBatches DEF TimerFiresUnheard, TypeOK, runners, bounds
<1>3. CASE TimerFiresBusy
    BY <1>3, SameBatches DEF TimerFiresBusy, TypeOK, runners, bounds
<1>4. ASSUME NEW b \in Batches, TimerFires(b)
      PROVE  TypeOK'
    <2>1. BatchOK' /\ running' \in BOOLEAN
        BY <1>4, FiresType
    <2>2. pending' \in Wakes
        BY <1>4, OneType DEF TimerFires
    <2>3. /\ timer' = "none" /\ scheduled' = FALSE
          /\ UNCHANGED <<handler, enabled, runners, bounds>>
        BY <1>4 DEF TimerFires
    <2> QED
        BY <2>1, <2>2, <2>3 DEF TypeOK, BatchOK, runners, bounds
<1>5. ASSUME NEW b \in Batches, NEW result \in Results, RunReturns(b, result)
      PROVE  TypeOK'
    <2>1. BatchOK'
        BY <1>5, RunReturnsType
    <2>2. batch[b].runner \in Runners
        BY <1>0, <1>5, InFlightType DEF RunReturns
    <2>3. armed' \in [Runners -> BOOLEAN]
        BY <1>5, <2>2 DEF RunReturns, TypeOK
    <2>4. setbacks' \in 0 .. MaxSetbacks
        BY <1>5 DEF RunReturns, TypeOK
    <2> QED
        BY <1>5, <2>1, <2>3, <2>4 DEF RunReturns, TypeOK, BatchOK
<1>6. ASSUME NEW b \in Batches, NEW wakes \in Wakes,
             NEW set \in {"none", "normal", "retry"},
             b \in InFlight, Turn(b, batch[b], wakes, set),
             UNCHANGED <<handler, scheduled, enabled, runners, bounds>>
      PROVE  TypeOK'
    <2>1. /\ BatchOK' /\ running' \in BOOLEAN
          /\ pending' \in Wakes /\ timer' \in {"none", "normal", "retry"}
        BY <1>6, TurnType
    <2> QED
        BY <1>6, <2>1 DEF TypeOK, BatchOK, runners, bounds
<1>7. ASSUME NEW b \in Batches, Ran(b)
      PROVE  TypeOK'
    BY <1>6, <1>7, RanTurn DEF Ran, TypeOK
<1>8. ASSUME NEW b \in Batches, Busy(b)
      PROVE  TypeOK'
    BY <1>6, <1>8, BusyTurn DEF Busy
<1>9. ASSUME NEW b \in Batches, Threw(b)
      PROVE  TypeOK'
    <2>1. PICK wakes \in Wakes, set \in {"normal", "retry"} : End(b, wakes, set)
        BY <1>9, ThrewEnd
    <2>2. /\ BatchOK' /\ running' = FALSE /\ pending' \in Wakes
          /\ timer' \in {"none", "normal", "retry"}
        BY <1>0, <2>1, EndType
    <2> QED
        BY <1>9, <2>2 DEF Threw, TypeOK, BatchOK, runners, bounds
<1>10. ASSUME NEW r \in Runners, NEW a \in BOOLEAN, StartRunner(r, a)
       PROVE  TypeOK'
    BY <1>10, SameBatches DEF StartRunner, TypeOK, bounds
<1>11. ASSUME NEW r \in Runners, NEW a \in BOOLEAN, UpdateConfig(r, a)
       PROVE  TypeOK'
    BY <1>11, SameBatches DEF UpdateConfig, TypeOK, wakeLayer, bounds
<1>12. ASSUME NEW r \in Runners, StopRunner(r)
       PROVE  TypeOK'
    BY <1>12, SameBatches DEF StopRunner, TypeOK, bounds
<1>13. ASSUME NEW r \in Runners, IntervalFires(r)
       PROVE  TypeOK'
    <2>1. INTERVAL \in NoWake .. 3 /\ Everyone \in Targets
        BY DEF INTERVAL, NoWake
    <2>2. pending' \in Wakes /\ timer' \in {"normal", "retry"}
        BY <1>13, <2>1, AskType DEF IntervalFires
    <2>3. InFlight' = InFlight
        BY <1>13, SameBatches DEF IntervalFires, Ask
    <2> QED
        BY <1>13, <2>2, <2>3 DEF IntervalFires, Ask, TypeOK
<1>14. CASE SetHeartbeatsEnabled
    BY <1>14, SameBatches
       DEF SetHeartbeatsEnabled, TypeOK, wakeLayer, runners, bounds
<1>15. CASE UNCHANGED vars
    BY <1>15, SameBatches DEF vars, TypeOK, wakeLayer, runners, bounds
<1> QED
    BY <1>1, <1>2, <1>3, <1>4, <1>5, <1>7, <1>8, <1>9, <1>10, <1>11, <1>12,
       <1>13, <1>14, <1>15 DEF Next, Callback, RunnerSteps

(* Every variable keeps the values the code gives it, and a batch calls the  *)
(* handler at most once for each wake it took.                              *)
THEOREM TypeCorrect == Spec => []TypeOK
BY TypeInit, TypeStep, PTL DEF Spec

-----------------------------------------------------------------------------
(* Of the steps of the wake layer, these say all that the two theorems that *)
(* follow need: what becomes of the batches in flight, of `running` and of  *)
(* the runners started.                                                     *)
BatchStarts ==
    /\ handler # NoRunner /\ ~running /\ running'
    /\ \E b \in Batches : InFlight' = InFlight \cup {b}
BatchEnds ==
    /\ running' = FALSE
    /\ \E b \in InFlight : InFlight' = InFlight \ {b}
BatchesStay ==
    UNCHANGED running /\ InFlight' = InFlight

LEMMA StepKinds ==
    ASSUME TypeOK, [Next]_vars,
           ~\E r \in Runners, a \in BOOLEAN : StartRunner(r, a)
    PROVE  /\ Started' = Started
           /\ handler' \in {handler, NoRunner}
           /\ BatchStarts \/ BatchEnds \/ BatchesStay
           /\ pending' # None /\ timer' = "none" =>
                  handler = NoRunner \/ UNCHANGED <<pending, timer>>
<1> DEFINE Goal ==
        /\ Started' = Started
        /\ handler' \in {handler, NoRunner}
        /\ BatchStarts \/ BatchEnds \/ BatchesStay
        /\ pending' # None /\ timer' = "none" =>
               handler = NoRunner \/ UNCHANGED <<pending, timer>>
<1>0. BatchOK /\ pending \in Wakes /\ timer \in {"none", "normal", "retry"}
    BY DEF TypeOK, BatchOK
<1>1. ASSUME NEW t \in Targets, NEW p \in Reasons, Request(t, p)
      PROVE  Goal
    <2>1. timer' \in {"normal", "retry"}
        BY <1>0, <1>1, ScheduleType DEF Request, Ask
    <2> QED
        BY <1>1, <2>1, SameBatches DEF Request, Ask, Started, BatchesStay
<1>2. CASE TimerFiresUnheard \/ TimerFiresBusy
    BY <1>2, SameBatches
       DEF TimerFiresUnheard, TimerFiresBusy, Started, BatchesStay, runners
<1>3. ASSUME NEW b \in Batches, TimerFires(b)
      PROVE  Goal
    <2>1. \/ InFlight' = InFlight \cup {b} /\ running' = TRUE
          \/ InFlight' = InFlight /\ UNCHANGED running
        BY <1>3, FiresType
    <2>2. handler # NoRunner /\ ~running /\ pending' = None
        BY <1>3 DEF TimerFires
    <2>3. BatchStarts \/ BatchesStay
        BY <2>1, <2>2 DEF BatchStarts, BatchesStay
    <2> QED
        BY <1>3, <2>2, <2>3 DEF TimerFires, Started, runners
<1>4. ASSUME NEW b \in Batches, NEW result \in Results, RunReturns(b, result)
      PROVE  Goal
    BY <1>4, RunReturnsType DEF RunReturns, Started, BatchesStay
<1>5. ASSUME NEW b \in Batches, Ran(b)
      PROVE  Goal
    <2>1. \/ InFlight' = InFlight /\ UNCHANGED running
          \/ InFlight' = InFlight \ {b} /\ running' = FALSE
        BY <1>0, <1>5, RanTurn, TurnType DEF Ran
    <2>2. BatchEnds \/ BatchesStay
        BY <1>5, <2>1 DEF BatchEnds, BatchesStay, Ran
    <2>3. CASE UNCHANGED <<pending, timer>>
        BY <1>5, <2>2, <2>3 DEF Ran, Started, runners
    <2>4. CASE End(b, pending, timer)
        <3>1. pending' # None => timer' # "none"
            BY <1>0, <1>5, <2>4, EndType
        <3> QED
            BY <1>5, <2>2, <3>1 DEF Ran, Started, runners
    <2> QED
        BY <1>5, <2>3, <2>4 DEF Ran
<1>6. ASSUME NEW b \in Batches, Busy(b)
      PROVE  Goal
    <2>1. PICK wakes \in Wakes, set \in {"normal", "retry"} :
              Turn(b, batch[b], wakes, set)
        BY <1>6, BusyTurn
    <2>2. \/ InFlight' = InFlight /\ UNCHANGED running
          \/ InFlight' = InFlight \ {b} /\ running' = FALSE
        BY <1>6, <2>1, TurnType DEF Busy
    <2>3. BatchEnds \/ BatchesStay
        BY <1>6, <2>2 DEF BatchEnds, BatchesStay, Busy
    <2>4. CASE timer' = set
        BY <1>6, <2>3, <2>4 DEF Busy, Started, runners
    <2>5. CASE End(b, wakes, set)
        <3>1. pending' # None => timer' # "none"
            BY <1>0, <2>5, EndType
        <3> QED
            BY <1>6, <2>3, <3>1 DEF Busy, Started, runners
    <2> QED
        BY <2>1, <2>4, <2>5 DEF Turn
<1>7. ASSUME NEW b \in Batches, Threw(b)
      PROVE  Goal
    <2>1. PICK wakes \in Wakes, set \in {"normal", "retry"} : End(b, wakes, set)
        BY <1>7, ThrewEnd
    <2>2. /\ InFlight' = InFlight \ {b} /\ running' = FALSE
          /\ pending' # None => timer' # "none"
        BY <1>0, <2>1, EndType
    <2>3. BatchEnds
        BY <1>7, <2>2 DEF BatchEnds, Threw
    <2> QED
        BY <1>7, <2>2, <2>3 DEF Threw, Started, runners
<1>8. ASSUME NEW r \in Runners, NEW a \in BOOLEAN, UpdateConfig(r, a)
      PROVE  Goal
    BY <1>8, SameBatches DEF UpdateConfig, Started, BatchesStay, wakeLayer
<1>9. ASSUME NEW r \in Runners, StopRunner(r)
      PROVE  Goal
    <2>1. Started' = Started
        BY <1>9 DEF StopRunner, Started, TypeOK
    <2> QED
        BY <1>9, <2>1, SameBatches DEF StopRunner, BatchesStay
<1>10. ASSUME NEW r \in Runners, IntervalFires(r)
       PROVE  Goal
    <2>1. timer' \in {"normal", "retry"}
        BY <1>0, <1>10, ScheduleType DEF IntervalFires, Ask
    <2> QED
        BY <1>10, <2>1, SameBatches DEF IntervalFires, Ask, Started, BatchesStay
<1>11. CASE SetHeartbeatsEnabled \/ UNCHANGED vars
    BY <1>11, SameBatches
       DEF SetHeartbeatsEnabled, Started, BatchesStay, vars, wakeLayer, runners
<1> QED
    BY <1>1, <1>2, <1>3, <1>4, <1>5, <1>6, <1>7, <1>8, <1>9, <1>10, <1>11
       DEF Next, Callback, RunnerSteps

-----------------------------------------------------------------------------
(* A pending wake has a timer, and `running` a batch, by induction on steps: *)
(* a step that loses the timer takes all that is pending, or finds nobody    *)
(* registered, and registering sets it again.                               *)
LEMMA HeardStep == TypeOK /\ WakeHeard /\ [Next]_vars => WakeHeard'
<1> SUFFICES ASSUME TypeOK, WakeHeard, [Next]_vars, handler' # NoRunner
             PROVE  /\ pending' # None => timer' # "none"
                    /\ running' => InFlight' # {}
    BY DEF WakeHeard
<1>1. CASE \E r \in Runners, a \in BOOLEAN : StartRunner(r, a)
    BY <1>1 DEF StartRunner
<1>2. CASE ~\E r \in Runners, a \in BOOLEAN : StartRunner(r, a)
    <2>1. /\ handler # NoRunner
          /\ BatchStarts \/ BatchEnds \/ BatchesStay
          /\ pending' # None /\ timer' = "none" => UNCHANGED <<pending, timer>>
        BY <1>2, StepKinds
    <2>2. running' => InFlight' # {}
        BY <2>1 DEF BatchStarts, BatchEnds, BatchesStay, WakeHeard
    <2> QED
        BY <2>1, <2>2 DEF WakeHeard
<1> QED
    BY <1>1, <1>2

(* While a handler is registered a pending wake is never left without a     *)
(* timer, nor blocked by a `running` that no batch will reset.              *)
THEOREM PendingIsHeard == Spec => []WakeHeard
<1>1. Init => WakeHeard
    BY DEF Init, WakeHeard
<1> QED
    BY <1>1, HeardStep, TypeCorrect, PTL DEF Spec

-----------------------------------------------------------------------------
(* The inductive invariant of the last theorem.  Starting a runner is the    *)
(* only step that may forget a batch in flight, and the end of a batch that  *)
(* was forgotten lets one more start.                                       *)
HandlerStarted == handler # NoRunner => handler \in Started
Counted ==
    /\ IsFiniteSet(Started)
    /\ Started = {} => InFlight = {} /\ ~running
    /\ ~running /\ Started # {} =>
           Cardinality(InFlight) < Cardinality(Started)
WakeInv == HandlerStarted /\ Counted /\ BatchesBounded

LEMMA InFlightFinite == IsFiniteSet(InFlight)
<1>1. InFlight \subseteq Batches
    BY DEF InFlight
<1> QED
    BY <1>1, FS_Subset

LEMMA WakeInit == Init => WakeInv
<1> SUFFICES ASSUME Init
             PROVE  WakeInv
    OBVIOUS
<1>1. Started = {} /\ InFlight = {}
    BY DEF Init, Started, InFlight
<1>2. IsFiniteSet({}) /\ Cardinality({}) = 0
    BY FS_EmptySet
<1> QED
    BY <1>1, <1>2 DEF Init, WakeInv, HandlerStarted, Counted, BatchesBounded

LEMMA StartStep ==
    ASSUME TypeOK, WakeInv, NEW r \in Runners, NEW a \in BOOLEAN,
           StartRunner(r, a)
    PROVE  WakeInv'
<1>1. Started' = Started \cup {r} /\ r \notin Started
    BY DEF StartRunner, Started, TypeOK
<1>2. InFlight' = InFlight /\ running' = FALSE /\ handler' = r
    BY SameBatches DEF StartRunner
<1>3. IsFiniteSet(Started) /\ IsFiniteSet(InFlight)
    BY InFlightFinite DEF WakeInv, Counted
<1>4. /\ IsFiniteSet(Started')
      /\ Cardinality(Started') = Cardinality(Started) + 1
    BY <1>1, <1>3, FS_AddElement
<1>5. Cardinality(InFlight) \in Nat /\ Cardinality(Started) \in Nat
    BY <1>3, FS_CardinalityType
<1>6. Cardinality(InFlight') < Cardinality(Started')
    BY <1>2, <1>4, <1>5 DEF WakeInv, BatchesBounded
<1> QED
    BY <1>1, <1>2, <1>4, <1>5, <1>6
       DEF WakeInv, HandlerStarted, Counted, BatchesBounded

LEMMA CountStep ==
    ASSUME WakeInv, UNCHANGED Started, handler' \in {handler, NoRunner},
           BatchStarts \/ BatchEnds \/ BatchesStay
    PROVE  WakeInv'
<1>1. IsFiniteSet(Started) /\ IsFiniteSet(InFlight)
    BY InFlightFinite DEF WakeInv, Counted
<1>2. Cardinality(InFlight) \in Nat /\ Cardinality(Started) \in Nat
    BY <1>1, FS_CardinalityType
<1>3. CASE BatchStarts
    <2>1. PICK b \in Batches : InFlight' = InFlight \cup {b}
        BY <1>3 DEF BatchStarts
    <2>2. /\ IsFiniteSet(InFlight')
          /\ \/ Cardinality(InFlight') = Cardinality(InFlight)
             \/ Cardinality(InFlight') = Cardinality(InFlight) + 1
        BY <1>1, <2>1, FS_AddElement
    <2>3. Cardinality(InFlight') \in Nat
        BY <2>2, FS_CardinalityType
    <2>4. Started # {} /\ Cardinality(InFlight) < Cardinality(Started)
        BY <1>3 DEF BatchStarts, WakeInv, HandlerStarted, Counted
    <2>5. Cardinality(InFlight') <= Cardinality(Started)
        BY <1>2, <2>2, <2>3, <2>4
    <2> QED
        BY <1>3, <2>4, <2>5
           DEF BatchStarts, WakeInv, HandlerStarted, Counted, BatchesBounded
<1>4. CASE BatchEnds
    <2>1. PICK b \in InFlight : InFlight' = InFlight \ {b}
        BY <1>4 DEF BatchEnds
    <2>2. Cardinality(InFlight') = Cardinality(InFlight) - 1
        BY <1>1, <2>1, FS_RemoveElement
    <2>3. Started # {} /\ Cardinality(InFlight) <= Cardinality(Started)
        BY <2>1 DEF WakeInv, Counted, BatchesBounded
    <2>4. Cardinality(InFlight') < Cardinality(Started)
        BY <1>2, <2>2, <2>3
    <2> QED
        BY <1>2, <1>4, <2>2, <2>3, <2>4
           DEF BatchEnds, WakeInv, HandlerStarted, Counted, BatchesBounded
<1>5. CASE BatchesStay
    BY <1>5 DEF BatchesStay, WakeInv, HandlerStarted, Counted, BatchesBounded
<1> QED
    BY <1>3, <1>4, <1>5

(* However batches overlap, there is never more than one for each start of  *)
(* the heartbeats: one batch where the gateway was not restarted.           *)
THEOREM OverlapIsBounded == Spec => []BatchesBounded
<1>1. TypeOK /\ WakeInv /\ [Next]_vars => WakeInv'
    BY StartStep, StepKinds, CountStep
<1>2. WakeInv => BatchesBounded
    BY DEF WakeInv
<1> QED
    BY <1>1, <1>2, WakeInit, TypeCorrect, PTL DEF Spec

-----------------------------------------------------------------------------
(* What a step does to the batches, in the terms of the action properties.  *)
OthersStay(b) == \A c \in Batches \ {b} : batch'[c] = batch[c]

LEMMA NextCallIs ==
    ASSUME BatchOK, NEW b \in Batches, NEW work \in Batch, NextCall(b, work)
    PROVE  /\ OthersStay(b) /\ b \in InFlight' /\ Ready(work.runner)
           /\ batch'[b].runner = work.runner /\ batch'[b].wakes = work.wakes
           /\ batch'[b].result = "running"
           /\ work.todo \subseteq batch'[b].todo \cup {batch'[b].current}
<1>1. PICK t \in work.todo :
          batch' = [batch EXCEPT ![b] =
                       [work EXCEPT !.todo = @ \ {t}, !.current = t,
                                    !.result = "running"]]
    BY DEF NextCall
<1> DEFINE next == [work EXCEPT !.todo = @ \ {t}, !.current = t,
                                !.result = "running"]
<1>2. next \in Batch /\ next # Over
    BY NotOver DEF Batch, Results
<1>3. /\ next.runner = work.runner /\ next.wakes = work.wakes
      /\ next.result = "running"
      /\ work.todo \subseteq next.todo \cup {next.current}
    BY DEF Batch
<1>4. batch' = [batch EXCEPT ![b] = next]
    BY <1>1
<1> HIDE DEF next
<1>5. batch'[b] = next /\ OthersStay(b)
    BY <1>4 DEF BatchOK, OthersStay
<1>6. b \in InFlight' /\ Ready(work.runner)
    BY <1>2, <1>5 DEF InFlight, NextCall
<1> QED
    BY <1>3, <1>5, <1>6

LEMMA EndIs ==
    ASSUME BatchOK, NEW b \in Batches, NEW wakes, NEW set, End(b, wakes, set)
    PROVE  OthersStay(b) /\ batch'[b] = Over /\ pending' = wakes
BY DEF End, BatchOK, OthersStay

LEMMA MergeIsHigher ==
    ASSUME NEW p \in Wakes, NEW q \in Wakes, NEW t \in Targets
    PROVE  p[t] <= Merge(p, q)[t] /\ q[t] <= Merge(p, q)[t]
BY DEF Merge, Higher, Wakes, NoWake

LEMMA OneIs ==
    ASSUME NEW t \in Targets, NEW p
    PROVE  One(t, p)[t] = p
BY DEF One, None

(* All of a step that matters to what is pending and in batches.  A batch   *)
(* that goes on has its next call; one that ends has nothing left, or turns *)
(* down what is left.                                                       *)
Quiet == UNCHANGED <<pending, batch>>
Raised == UNCHANGED batch /\ \A t \in Targets : pending[t] <= pending'[t]
Fired(b) ==
    /\ b \notin InFlight /\ handler # NoRunner /\ OthersStay(b)
    /\ \/ /\ b \in InFlight' /\ batch'[b].result = "running"
          /\ batch'[b].runner = handler /\ batch'[b].wakes = pending
          /\ Asking(pending) \subseteq batch'[b].todo \cup {batch'[b].current}
       \/ UNCHANGED batch /\ (Asking(pending) = {} \/ ~Ready(handler))
Returned(b, result) ==
    /\ b \in InFlight /\ OthersStay(b) /\ UNCHANGED pending
    /\ batch'[b] = [batch[b] EXCEPT !.result = result] /\ b \in InFlight'
GoneOn(b) ==
    /\ b \in InFlight' /\ batch'[b].result = "running"
    /\ batch'[b].runner = batch[b].runner /\ batch'[b].wakes = batch[b].wakes
    /\ batch[b].todo \subseteq batch'[b].todo \cup {batch'[b].current}
Ended(b) == batch[b].todo = {} \/ ~Ready(batch[b].runner)
Went(b) ==
    /\ b \in InFlight /\ OthersStay(b)
    /\ \A t \in Targets : pending[t] <= pending'[t]
    /\ \/ batch[b].result = "ran" /\ (GoneOn(b) \/ Ended(b))
       \/ /\ batch[b].result = "requests-in-flight" /\ (GoneOn(b) \/ Ended(b))
          /\ batch[b].wakes[batch[b].current] <= pending'[batch[b].current]
       \/ /\ batch[b].result = "threw"
          /\ \A t \in Targets : batch[b].wakes[t] <= pending'[t]

LEMMA FiredIs == ASSUME TypeOK, NEW b \in Batches, TimerFires(b) PROVE Fired(b)
<1> DEFINE work == [runner |-> handler, wakes |-> pending,
                    todo |-> Asking(pending), current |-> Everyone,
                    result |-> "running"]
<1>1. BatchOK
    BY DEF TypeOK, BatchOK
<1>2. work \in Batch
    BY DEF TimerFires, TypeOK, Batch, Asking, Results
<1>3. /\ work.runner = handler /\ work.wakes = pending
      /\ work.todo = Asking(pending)
    OBVIOUS
<1>4. /\ \/ NextCall(b, work) /\ running' = TRUE
         \/ NoCall(work) /\ UNCHANGED <<batch, running>>
      /\ b \notin InFlight /\ handler # NoRunner
    BY DEF TimerFires
<1> HIDE DEF work
<1>5. CASE NextCall(b, work)
    BY <1>1, <1>2, <1>3, <1>4, <1>5, NextCallIs DEF Fired
<1>6. CASE NoCall(work) /\ UNCHANGED batch
    BY <1>3, <1>4, <1>6 DEF Fired, NoCall, OthersStay
<1> QED
    BY <1>4, <1>5, <1>6

LEMMA ReturnedIs ==
    ASSUME TypeOK, NEW b \in Batches, NEW result \in Results,
           RunReturns(b, result)
    PROVE  Returned(b, result)
<1>1. b \in InFlight /\ InFlight' = InFlight
    BY RunReturnsType DEF RunReturns
<1>2. batch' = [batch EXCEPT ![b] = [batch[b] EXCEPT !.result = result]]
    BY DEF RunReturns
<1> QED
    BY <1>1, <1>2 DEF Returned, OthersStay, TypeOK, RunReturns

LEMMA TurnIs ==
    ASSUME TypeOK, NEW b \in InFlight, NEW wakes, NEW set,
           Turn(b, batch[b], wakes, set)
    PROVE  OthersStay(b) /\ pending' = wakes /\ (GoneOn(b) \/ Ended(b))
<1>1. BatchOK
    BY DEF TypeOK, BatchOK
<1>2. b \in Batches /\ batch[b] \in Batch
    BY <1>1, InFlightType
<1>3. CASE NextCall(b, batch[b]) /\ pending' = wakes
    BY <1>1, <1>2, <1>3, NextCallIs DEF GoneOn
<1>4. CASE NoCall(batch[b]) /\ End(b, wakes, set)
    BY <1>1, <1>2, <1>4, EndIs DEF NoCall, Ended
<1> QED
    BY <1>3, <1>4 DEF Turn

LEMMA WentIs ==
    ASSUME TypeOK, NEW b \in Batches, Ran(b) \/ Busy(b) \/ Threw(b)
    PROVE  Went(b)
<1>1. b \in InFlight /\ BatchOK
    BY DEF Ran, Busy, Threw, TypeOK, BatchOK
<1>2. /\ batch[b].wakes \in Wakes /\ batch[b].current \in Targets
      /\ pending \in Wakes
    BY <1>1, InFlightType DEF TypeOK
<1>3. CASE Ran(b)
    <2>1. OthersStay(b) /\ pending' = pending /\ (GoneOn(b) \/ Ended(b))
        BY <1>1, <1>3, RanTurn, TurnIs
    <2>2. \A t \in Targets : pending[t] <= pending'[t]
        BY <1>2, <2>1 DEF Wakes, NoWake
    <2> QED
        BY <1>1, <1>3, <2>1, <2>2 DEF Ran, Went
<1>4. CASE Busy(b)
    <2> DEFINE t == batch[b].current
               one == One(t, batch[b].wakes[t])
    <2>1. Turn(b, batch[b], Merge(pending, one), Schedule(timer, "retry"))
        BY <1>4 DEF Busy, Turn
    <2>2. one \in Wakes /\ one[t] = batch[b].wakes[t]
        BY <1>2, OneType, OneIs DEF Wakes
    <2>3. /\ OthersStay(b) /\ pending' = Merge(pending, one)
          /\ GoneOn(b) \/ Ended(b)
        BY <1>1, <2>1, TurnIs
    <2> HIDE DEF one
    <2>4. \A u \in Targets : pending[u] <= pending'[u]
        BY <1>2, <2>2, <2>3, MergeIsHigher
    <2>5. batch[b].wakes[t] <= pending'[t]
        BY <1>2, <2>2, <2>3, MergeIsHigher
    <2> QED
        BY <1>1, <1>4, <2>3, <2>4, <2>5 DEF Busy, Went
<1>5. CASE Threw(b)
    <2>1. OthersStay(b) /\ pending' = Merge(pending, batch[b].wakes)
        BY <1>1, <1>5, EndIs DEF Threw
    <2>2. \A t \in Targets : /\ pending[t] <= pending'[t]
                             /\ batch[b].wakes[t] <= pending'[t]
        BY <1>2, <2>1, MergeIsHigher
    <2> QED
        BY <1>1, <1>5, <2>1, <2>2 DEF Threw, Went
<1> QED
    BY <1>3, <1>4, <1>5

LEMMA AskRaises ==
    ASSUME TypeOK, NEW t \in Targets, NEW p \in NoWake .. 3, Ask(t, p)
    PROVE  Raised /\ p <= pending'[t]
<1>1. pending \in Wakes /\ One(t, p) \in Wakes /\ One(t, p)[t] = p
    BY OneType, OneIs DEF TypeOK
<1> QED
    BY <1>1, MergeIsHigher DEF Ask, Raised

(* Whatever the step, it is one of these.                                   *)
LEMMA WakeSteps ==
    ASSUME TypeOK, [Next]_vars
    PROVE  \/ Quiet \/ Raised
           \/ \E b \in Batches : Fired(b) \/ Went(b)
           \/ \E b \in Batches, result \in Results : Returned(b, result)
<1>1. ASSUME NEW t \in Targets, NEW p \in Reasons, Request(t, p) PROVE Raised
    BY <1>1, AskRaises DEF Request, NoWake
<1>2. ASSUME NEW r \in Runners, IntervalFires(r) PROVE Raised
    BY <1>2, AskRaises DEF IntervalFires, NoWake, INTERVAL
<1>3. ASSUME NEW r \in Runners, RunnerSteps(r), ~IntervalFires(r) PROVE Quiet
    BY <1>3 DEF RunnerSteps, StartRunner, UpdateConfig, StopRunner, wakeLayer, Quiet
<1>4. CASE TimerFiresUnheard \/ TimerFiresBusy \/ SetHeartbeatsEnabled \/ UNCHANGED vars
    BY <1>4 DEF TimerFiresUnheard, TimerFiresBusy, SetHeartbeatsEnabled, vars,
                wakeLayer, Quiet
<1>5. ASSUME NEW b \in Batches, Callback(b)
      PROVE  Fired(b) \/ Went(b) \/ \E result \in Results : Returned(b, result)
    BY <1>5, FiredIs, ReturnedIs, WentIs DEF Callback
<1> QED
    BY <1>1, <1>2, <1>3, <1>4, <1>5 DEF Next

-----------------------------------------------------------------------------
(* What is owed to a target is the highest of the wakes that are held for it. *)
Held(t) == {pending[t]} \cup {HeldBy(b, t) : b \in Batches}

LEMMA HighestExists ==
    ASSUME NEW S \in SUBSET (NoWake .. 3), S # {}
    PROVE  \E p \in S : \A q \in S : q <= p
<1>1. CASE 3 \in S
    BY <1>1 DEF NoWake
<1>2. CASE 3 \notin S /\ 2 \in S
    BY <1>2 DEF NoWake
<1>3. CASE 3 \notin S /\ 2 \notin S /\ 1 \in S
    BY <1>3 DEF NoWake
<1>4. CASE 3 \notin S /\ 2 \notin S /\ 1 \notin S /\ 0 \in S
    BY <1>4 DEF NoWake
<1>5. CASE 3 \notin S /\ 2 \notin S /\ 1 \notin S /\ 0 \notin S
    <2>1. \A q \in S : q = -1
        BY <1>5 DEF NoWake
    <2>2. PICK p \in S : TRUE
        OBVIOUS
    <2>3. \A q \in S : q <= p
        BY <2>1
    <2> QED
        BY <2>2, <2>3
<1> QED
    BY <1>1, <1>2, <1>3, <1>4, <1>5 DEF NoWake

LEMMA HeldType ==
    ASSUME TypeOK, NEW t \in Targets
    PROVE  Held(t) \in SUBSET (NoWake .. 3) /\ pending[t] \in Held(t)
<1>1. ASSUME NEW b \in Batches PROVE HeldBy(b, t) \in NoWake .. 3
    <2>1. CASE b \in InFlight
        BY <2>1, InFlightType DEF HeldBy, TypeOK, BatchOK, Wakes, NoWake
    <2>2. CASE b \notin InFlight
        BY <2>2 DEF HeldBy, NoWake
    <2> QED
        BY <2>1, <2>2
<1>2. pending[t] \in NoWake .. 3
    BY DEF TypeOK, Wakes
<1> QED
    BY <1>1, <1>2 DEF Held

LEMMA OwedIsHighest ==
    ASSUME TypeOK, NEW t \in Targets
    PROVE  Owed(t) \in Held(t) /\ \A q \in Held(t) : q <= Owed(t)
<1>1. \E p \in Held(t) : \A q \in Held(t) : q <= p
    BY HeldType, HighestExists
<1> QED
    BY <1>1 DEF Owed, Held

OwedBounds ==
    \A t \in Targets : /\ Owed(t) \in Held(t) \cap (NoWake .. 3)
                       /\ \A q \in Held(t) : q <= Owed(t) /\ q \in NoWake .. 3

LEMMA OwedIsBound == TypeOK => OwedBounds
BY OwedIsHighest, HeldType DEF OwedBounds

(* A wake that is held and the highest is held after the step at least as   *)
(* high, or has been answered or turned down.                               *)
LEMMA CarriedOn ==
    ASSUME TypeOK, TypeOK', [Next]_vars, NEW t \in Targets,
           NEW p \in Held(t), \A q \in Held(t) : q <= p, p = Owed(t)
    PROVE  \/ Answered(t) \/ TurnedDown(t)
           \/ \E q \in Held(t)' : p <= q
<1> SUFFICES ASSUME ~Answered(t), ~TurnedDown(t)
             PROVE  \E q \in Held(t)' : p <= q
    OBVIOUS
<1>0. /\ p \in NoWake .. 3 /\ pending[t] \in NoWake .. 3
      /\ pending'[t] \in NoWake .. 3 /\ pending'[t] \in Held(t)'
      /\ \A b \in Batches : HeldBy(b, t)' \in Held(t)'
    BY HeldType DEF Held, TypeOK, Wakes
<1>1. CASE p <= pending'[t]
    BY <1>0, <1>1
<1>2. ASSUME NEW b \in Batches, p = HeldBy(b, t)' PROVE \E q \in Held(t)' : p <= q
    BY <1>0, <1>2 DEF NoWake
<1>3. CASE p = NoWake
    BY <1>0, <1>1, <1>3 DEF NoWake
<1>4. p # NoWake => p = pending[t] \/ \E b \in InFlight :
            /\ p = batch[b].wakes[t]
            /\ t \in batch[b].todo \/ t = batch[b].current
    BY DEF Held, HeldBy
<1>5. ASSUME NEW b \in Batches, b \in InFlight, batch'[b] = batch[b],
             p = batch[b].wakes[t], t \in batch[b].todo \/ t = batch[b].current
      PROVE  \E q \in Held(t)' : p <= q
    <2>1. HeldBy(b, t)' = batch[b].wakes[t]
        BY <1>5 DEF HeldBy, InFlight
    <2> QED
        BY <1>2, <1>5, <2>1
<1>6. CASE Quiet \/ Raised
    <2>1. UNCHANGED batch /\ pending[t] <= pending'[t]
        BY <1>0, <1>6 DEF Quiet, Raised, NoWake
    <2>2. CASE p = pending[t]
        BY <1>1, <2>1, <2>2
    <2>3. ASSUME NEW b \in InFlight, p = batch[b].wakes[t],
                 t \in batch[b].todo \/ t = batch[b].current
          PROVE  \E q \in Held(t)' : p <= q
        BY <1>5, <2>1, <2>3 DEF InFlight
    <2> QED
        BY <1>3, <1>4, <2>2, <2>3
<1>7. ASSUME NEW b \in Batches, Fired(b), p # NoWake
      PROVE  \E q \in Held(t)' : p <= q
    <2>1. CASE p = pending[t]
        <3>1. t \in Asking(pending)
            BY <1>7, <2>1 DEF Asking
        <3>2. ~(~Ready(handler))
            BY <1>7 DEF Fired, TurnedDown
        <3>3. /\ b \in InFlight' /\ batch'[b].wakes = pending
              /\ t \in batch'[b].todo \/ t = batch'[b].current
            BY <1>7, <3>1, <3>2 DEF Fired
        <3>4. HeldBy(b, t)' = pending[t]
            BY <3>3 DEF HeldBy
        <3> QED
            BY <1>2, <2>1, <3>4
    <2>2. ASSUME NEW c \in InFlight, p = batch[c].wakes[t],
                 t \in batch[c].todo \/ t = batch[c].current
          PROVE  \E q \in Held(t)' : p <= q
        <3>1. c \in Batches \ {b} /\ batch'[c] = batch[c]
            BY <1>7 DEF Fired, OthersStay, InFlight
        <3> QED
            BY <1>5, <2>2, <3>1
    <2> QED
        BY <1>4, <1>7, <2>1, <2>2
<1>8. ASSUME NEW b \in Batches, NEW result \in Results, Returned(b, result), p # NoWake
      PROVE  \E q \in Held(t)' : p <= q
    <2>1. CASE p = pending[t]
        BY <1>0, <1>1, <1>8, <2>1 DEF Returned, NoWake
    <2>2. ASSUME NEW c \in InFlight, p = batch[c].wakes[t],
                 t \in batch[c].todo \/ t = batch[c].current
          PROVE  \E q \in Held(t)' : p <= q
        <3>1. CASE c # b
            <4>1. c \in Batches /\ batch'[c] = batch[c]
                BY <1>8, <3>1 DEF Returned, OthersStay, InFlight
            <4> QED
                BY <1>5, <2>2, <4>1
        <3>2. CASE c = b
            <4>1. batch[b] \in Batch
                BY <2>2, <3>2, InFlightType DEF TypeOK, BatchOK
            <4>2. /\ batch'[b].wakes = batch[b].wakes
                  /\ batch'[b].todo = batch[b].todo
                  /\ batch'[b].current = batch[b].current /\ b \in InFlight'
                BY <1>8, <4>1 DEF Returned, Batch
            <4>3. HeldBy(b, t)' = batch[b].wakes[t]
                BY <2>2, <3>2, <4>2 DEF HeldBy
            <4> QED
                BY <1>2, <2>2, <3>2, <4>3
        <3> QED
            BY <3>1, <3>2
    <2> QED
        BY <1>4, <1>8, <2>1, <2>2
<1>9. ASSUME NEW b \in Batches, Went(b), p # NoWake
      PROVE  \E q \in Held(t)' : p <= q
    <2>1. CASE p = pending[t]
        BY <1>1, <1>9, <2>1 DEF Went
    <2>2. ASSUME NEW c \in InFlight, p = batch[c].wakes[t],
                 t \in batch[c].todo \/ t = batch[c].current
          PROVE  \E q \in Held(t)' : p <= q
        <3>1. CASE c # b
            <4>1. c \in Batches /\ batch'[c] = batch[c]
                BY <1>9, <3>1 DEF Went, OthersStay, InFlight
            <4> QED
                BY <1>5, <2>2, <4>1
        <3>2. CASE c = b /\ batch[b].result = "threw"
            BY <1>1, <1>9, <2>2, <3>2 DEF Went
        <3>3. CASE c = b /\ t = batch[b].current /\ batch[b].result = "requests-in-flight"
            BY <1>1, <1>9, <2>2, <3>3 DEF Went
        <3>4. CASE c = b /\ t = batch[b].current /\ batch[b].result = "ran"
            BY <1>0, <2>2, <3>4 DEF Answered, NoWake
        <3>5. CASE c = b /\ t \in batch[b].todo /\ batch[b].result # "threw"
            <4>1. Ready(batch[b].runner)
                BY <2>2, <3>5 DEF TurnedDown
            <4>2. GoneOn(b)
                BY <1>9, <3>5, <4>1 DEF Went, Ended
            <4>3. HeldBy(b, t)' = batch[b].wakes[t]
                BY <3>5, <4>2 DEF GoneOn, HeldBy
            <4> QED
                BY <1>2, <2>2, <3>5, <4>3
        <3>6. batch[b].result \in {"ran", "requests-in-flight", "threw"}
            BY <1>9 DEF Went
        <3> QED
            BY <2>2, <3>1, <3>2, <3>3, <3>4, <3>5, <3>6
    <2> QED
        BY <1>4, <1>9, <2>1, <2>2
<1> QED
    BY <1>3, <1>6, <1>7, <1>8, <1>9, WakeSteps

(* No wake is forgotten or made to matter less, through coalescing, retries, *)
(* exceptions and restarts, until it is answered or turned down.            *)
THEOREM WakesAreKept == Spec => WakeKept
<1>1. ASSUME TypeOK, TypeOK', [Next]_vars, NEW t \in Targets, Owed(t)' < Owed(t)
      PROVE  Answered(t) \/ TurnedDown(t)
    <2>1. OwedBounds /\ OwedBounds'
        <3>1. TypeOK' => OwedBounds'
            BY OwedIsBound, PTL
        <3> QED
            BY <1>1, <3>1, OwedIsBound
    <2>2. /\ Owed(t) \in Held(t) /\ \A q \in Held(t) : q <= Owed(t)
          /\ Owed(t) \in NoWake .. 3 /\ Owed(t)' \in NoWake .. 3
          /\ \A q \in Held(t)' : q <= Owed(t)' /\ q \in NoWake .. 3
        BY <2>1 DEF OwedBounds
    <2>3. ASSUME NEW q \in Held(t)', Owed(t) <= q PROVE FALSE
        BY <1>1, <2>2, <2>3 DEF NoWake
    <2> QED
        BY <1>1, <2>2, <2>3, CarriedOn
<1>2. TypeOK /\ TypeOK' /\ [Next]_vars =>
          [\A t \in Targets : Owed(t)' < Owed(t) => Answered(t) \/ TurnedDown(t)]_vars
    BY <1>1
<1> QED
    BY <1>2, TypeCorrect, PTL DEF Spec, WakeKept

-----------------------------------------------------------------------------
(* The registered runner is not stopped: the disposer of a runner takes its *)
(* own handler away.                                                        *)
HandlerLive == handler # NoRunner => life[handler] = "live"

LEMMA LiveStep == TypeOK /\ HandlerLive /\ [Next]_vars => HandlerLive'
<1> SUFFICES ASSUME TypeOK, HandlerLive, [Next]_vars PROVE HandlerLive'
    OBVIOUS
<1>1. CASE UNCHANGED <<handler, life>>
    BY <1>1 DEF HandlerLive
<1>2. ASSUME NEW r \in Runners, NEW a \in BOOLEAN, StartRunner(r, a)
      PROVE  HandlerLive'
    BY <1>2 DEF StartRunner, TypeOK, HandlerLive
<1>3. ASSUME NEW r \in Runners, StopRunner(r)
      PROVE  HandlerLive'
    BY <1>3 DEF StopRunner, TypeOK, HandlerLive
<1>4. ASSUME NEW b \in Batches, Callback(b)
      PROVE  UNCHANGED <<handler, life>>
    BY <1>4 DEF Callback, TimerFires, RunReturns, Ran, Busy, Threw, runners
<1> QED
    BY <1>1, <1>2, <1>3, <1>4
       DEF Next, RunnerSteps, Request, IntervalFires, Ask, UpdateConfig,
           TimerFiresUnheard, TimerFiresBusy, SetHeartbeatsEnabled, vars,
           wakeLayer, runners

(* What keeps the interval heartbeat of a runner going, from one step to the *)
(* next, where it goes on and heartbeats are on.                            *)
LEMMA RearmStays ==
    ASSUME NEW r \in Runners, NEW b \in Batches, WillRearm(b, r),
           batch'[b] = batch[b]
    PROVE  WillRearm(b, r)'
BY DEF WillRearm, InFlight

LEMMA RaisedGoesOn ==
    ASSUME TypeOK, TypeOK', NEW r \in Runners, GoesOn(r), Raised \/ Quiet,
           armed[r] => armed'[r] \/ pending'[Everyone] # NoWake
    PROVE  GoesOn(r)'
<1>1. pending[Everyone] \in NoWake .. 3 /\ pending'[Everyone] \in NoWake .. 3
    BY DEF TypeOK, Wakes
<1>2. UNCHANGED batch /\ pending[Everyone] <= pending'[Everyone]
    BY <1>1 DEF Raised, Quiet, NoWake
<1>3. pending[Everyone] # NoWake => pending'[Everyone] # NoWake
    BY <1>1, <1>2 DEF NoWake
<1>4. ASSUME NEW b \in Batches, WillRearm(b, r) PROVE WillRearm(b, r)'
    BY <1>2, <1>4, RearmStays
<1> QED
    BY <1>3, <1>4 DEF GoesOn

LEMMA FiredGoesOn ==
    ASSUME TypeOK, NEW r \in Runners, GoesOn(r), NEW b \in Batches, Fired(b),
           Ready(r), handler = r, UNCHANGED armed
    PROVE  GoesOn(r)'
<1>1. CASE armed[r]
    BY <1>1 DEF GoesOn
<1>2. CASE pending[Everyone] # NoWake
    <2>1. Asking(pending) # {}
        BY <1>2 DEF Asking
    <2>2. WillRearm(b, r)'
        BY <2>1 DEF Fired, WillRearm
    <2> QED
        BY <2>2 DEF GoesOn
<1>3. ASSUME NEW c \in Batches, WillRearm(c, r) PROVE GoesOn(r)'
    <2>1. batch'[c] = batch[c]
        BY <1>3 DEF Fired, OthersStay, WillRearm
    <2> QED
        BY <1>3, <2>1, RearmStays DEF GoesOn
<1> QED
    BY <1>1, <1>2, <1>3 DEF GoesOn

LEMMA ReturnedGoesOn ==
    ASSUME TypeOK, NEW r \in Runners, GoesOn(r), NEW b \in Batches,
           NEW result \in Results, Returned(b, result), Ready(r),
           armed' = IF \/ life[batch[b].runner] = "stopped"
                       \/ result = "requests-in-flight" /\ batch[b].current = Everyone
                    THEN armed
                    ELSE [armed EXCEPT ![batch[b].runner] = agents[batch[b].runner]]
    PROVE  GoesOn(r)'
<1>1. batch[b] \in Batch
    BY InFlightType DEF Returned, TypeOK, BatchOK
<1>2. armed[r] => armed'[r]
    BY DEF TypeOK, Ready
<1>3. CASE armed[r]
    BY <1>2, <1>3 DEF GoesOn
<1>4. CASE pending[Everyone] # NoWake
    BY <1>4 DEF Returned, GoesOn
<1>5. ASSUME NEW c \in Batches, WillRearm(c, r) PROVE GoesOn(r)'
    <2>1. CASE c # b
        <3>1. batch'[c] = batch[c]
            BY <2>1 DEF Returned, OthersStay
        <3> QED
            BY <1>5, <3>1, RearmStays DEF GoesOn
    <2>2. CASE c = b /\ ~(result = "requests-in-flight" /\ batch[b].current = Everyone)
        <3>1. batch[b].runner = r /\ life[r] # "stopped" /\ agents[r]
            BY <1>5, <2>2 DEF WillRearm, Ready
        <3>2. armed'[r]
            BY <2>2, <3>1 DEF TypeOK
        <3> QED
            BY <3>2 DEF GoesOn
    <2>3. CASE c = b /\ result = "requests-in-flight" /\ batch[b].current = Everyone
        <3>1. /\ batch'[b].runner = r /\ batch'[b].result = "requests-in-flight"
              /\ batch'[b].current = Everyone /\ b \in InFlight'
            BY <1>1, <1>5, <2>3 DEF Returned, WillRearm, Batch
        <3> QED
            BY <3>1 DEF GoesOn, WillRearm
    <2> QED
        BY <2>1, <2>2, <2>3
<1> QED
    BY <1>3, <1>4, <1>5 DEF GoesOn

LEMMA WentGoesOn ==
    ASSUME TypeOK, TypeOK', NEW r \in Runners, GoesOn(r), NEW b \in Batches,
           Went(b), Ready(r), UNCHANGED armed
    PROVE  GoesOn(r)'
<1>0. /\ pending[Everyone] \in NoWake .. 3 /\ pending'[Everyone] \in NoWake .. 3
      /\ pending[Everyone] <= pending'[Everyone]
    BY DEF TypeOK, Wakes, Went
<1>1. CASE armed[r]
    BY <1>1 DEF GoesOn
<1>2. CASE pending'[Everyone] # NoWake
    BY <1>2 DEF GoesOn
<1>3. pending[Everyone] # NoWake => pending'[Everyone] # NoWake
    BY <1>0 DEF NoWake
<1>4. ASSUME NEW c \in Batches, WillRearm(c, r) PROVE GoesOn(r)'
    <2>1. CASE c # b
        <3>1. batch'[c] = batch[c]
            BY <2>1 DEF Went, OthersStay
        <3> QED
            BY <1>4, <3>1, RearmStays DEF GoesOn
    <2>2. CASE c = b
        <3>1. /\ b \in InFlight /\ batch[b].runner = r
              /\ batch[b].wakes \in Wakes /\ Orderly(batch[b])
            BY <1>4, <2>2, InFlightType DEF WillRearm, TypeOK, BatchOK
        <3>2. CASE GoneOn(b)
            BY <3>1, <3>2 DEF GoneOn, WillRearm, GoesOn
        <3>3. Everyone \in batch[b].todo =>
                  GoneOn(b) \/ batch[b].result = "threw"
            BY <3>1 DEF Went, Ended
        <3>4. CASE batch[b].result = "threw" /\ batch[b].wakes[Everyone] # NoWake
            <4>1. batch[b].wakes[Everyone] <= pending'[Everyone]
                BY <3>4 DEF Went
            <4>2. batch[b].wakes[Everyone] \in NoWake .. 3
                BY <3>1 DEF Wakes
            <4> QED
                BY <1>0, <1>2, <3>4, <4>1, <4>2 DEF NoWake
        <3>5. CASE batch[b].result = "requests-in-flight" /\ batch[b].current = Everyone
            <4>1. batch[b].wakes[Everyone] <= pending'[Everyone]
                BY <3>5 DEF Went
            <4>2. batch[b].wakes[Everyone] \in NoWake .. 3 /\ batch[b].wakes[Everyone] # NoWake
                BY <3>1, <3>5 DEF Wakes, Orderly
            <4> QED
                BY <1>0, <1>2, <4>1, <4>2 DEF NoWake
        <3>6. Everyone \in batch[b].todo => batch[b].wakes[Everyone] # NoWake
            BY <3>1 DEF Orderly, Asking
        <3>7. batch[b].result # "running"
            BY DEF Went
        <3> QED
            BY <1>4, <2>2, <3>2, <3>3, <3>4, <3>5, <3>6, <3>7 DEF WillRearm
    <2> QED
        BY <2>1, <2>2
<1> QED
    BY <1>1, <1>2, <1>3, <1>4 DEF GoesOn

LEMMA GoesOnStep ==
    ASSUME TypeOK, TypeOK', HandlerLive, [Next]_vars, NEW r \in Runners,
           Wanted(r)', enabled, Wanted(r) => GoesOn(r)
    PROVE  GoesOn(r)'
<1>0. ASSUME handler = r, agents[r] PROVE GoesOn(r) /\ Ready(r)
    BY <1>0 DEF Wanted, HandlerLive, Ready
<1>1. ASSUME NEW t \in Targets, NEW p \in Reasons, Request(t, p)
      PROVE  GoesOn(r)'
    <2>1. Raised
        BY <1>1, AskRaises DEF Request, NoWake
    <2>2. handler = r /\ agents[r] /\ armed' = armed
        BY <1>1 DEF Request, Ask, Wanted
    <2> QED
        BY <1>0, <2>1, <2>2, RaisedGoesOn
<1>2. ASSUME NEW q \in Runners, IntervalFires(q)
      PROVE  GoesOn(r)'
    <2>1. INTERVAL <= pending'[Everyone]
        BY <1>2, AskRaises DEF IntervalFires, NoWake, INTERVAL
    <2>2. pending'[Everyone] # NoWake
        BY <2>1 DEF NoWake, INTERVAL
    <2> QED
        BY <2>2 DEF GoesOn
<1>3. ASSUME NEW q \in Runners, NEW a \in BOOLEAN, StartRunner(q, a)
      PROVE  GoesOn(r)'
    BY <1>3 DEF StartRunner, Wanted, GoesOn, TypeOK
<1>4. ASSUME NEW q \in Runners, NEW a \in BOOLEAN, UpdateConfig(q, a)
      PROVE  GoesOn(r)'
    <2>1. CASE q = r
        BY <1>4, <2>1 DEF UpdateConfig, Wanted, GoesOn, TypeOK
    <2>2. CASE q # r
        <3>1. handler = r /\ agents[r] /\ armed'[r] = armed[r] /\ Quiet
            BY <1>4, <2>2 DEF UpdateConfig, Wanted, TypeOK, wakeLayer, Quiet
        <3> QED
            BY <1>0, <3>1, RaisedGoesOn
    <2> QED
        BY <2>1, <2>2
<1>5. ASSUME NEW q \in Runners, StopRunner(q)
      PROVE  GoesOn(r)'
    <2>1. q # r /\ handler = r
        BY <1>5 DEF StopRunner, Wanted
    <2>2. agents[r] /\ armed'[r] = armed[r] /\ Quiet
        BY <1>5, <2>1 DEF StopRunner, Wanted, TypeOK, Quiet
    <2> QED
        BY <1>0, <2>1, <2>2, RaisedGoesOn
<1>6. CASE TimerFiresUnheard \/ TimerFiresBusy \/ SetHeartbeatsEnabled \/ UNCHANGED vars
    <2>1. handler = r /\ agents[r] /\ armed' = armed /\ Quiet
        BY <1>6 DEF TimerFiresUnheard, TimerFiresBusy, SetHeartbeatsEnabled, vars,
                    wakeLayer, runners, Quiet, Wanted
    <2> QED
        BY <1>0, <2>1, RaisedGoesOn
<1>7. ASSUME NEW b \in Batches, TimerFires(b)
      PROVE  GoesOn(r)'
    <2>1. handler = r /\ agents[r] /\ armed' = armed
        BY <1>7 DEF TimerFires, runners, Wanted
    <2> QED
        BY <1>0, <1>7, <2>1, FiredIs, FiredGoesOn
<1>8. ASSUME NEW b \in Batches, NEW result \in Results, RunReturns(b, result)
      PROVE  GoesOn(r)'
    <2>1. handler = r /\ agents[r]
        BY <1>8 DEF RunReturns, Wanted
    <2>2. armed' = IF \/ life[batch[b].runner] = "stopped"
                      \/ result = "requests-in-flight" /\ batch[b].current = Everyone
                   THEN armed
                   ELSE [armed EXCEPT ![batch[b].runner] = agents[batch[b].runner]]
        BY <1>8 DEF RunReturns
    <2> QED
        BY <1>0, <1>8, <2>1, <2>2, ReturnedIs, ReturnedGoesOn
<1>9. ASSUME NEW b \in Batches, Ran(b) \/ Busy(b) \/ Threw(b)
      PROVE  GoesOn(r)'
    <2>1. handler = r /\ agents[r] /\ armed' = armed
        BY <1>9 DEF Ran, Busy, Threw, runners, Wanted
    <2> QED
        BY <1>0, <1>9, <2>1, WentIs, WentGoesOn
<1> QED
    BY <1>1, <1>2, <1>3, <1>4, <1>5, <1>6, <1>7, <1>8, <1>9
       DEF Next, Callback, RunnerSteps

(* Nothing but switching heartbeats off stops the interval heartbeat of the *)
(* registered runner: not an answer, a retry, an exception or a restart.    *)
THEOREM HeartbeatStopsOnlyWhenOff == Spec => StopsOnlyWhenOff
<1>1. Init => HandlerLive
    BY DEF Init, HandlerLive
<1>2. TypeOK /\ TypeOK' /\ HandlerLive /\ [Next]_vars =>
          [\A r \in Runners :
              /\ Wanted(r)' /\ ~GoesOn(r)'
              => \/ ~enabled
                 \/ Wanted(r) /\ ~GoesOn(r)]_vars
    BY GoesOnStep
<1> QED
    BY <1>1, <1>2, LiveStep, TypeCorrect, PTL DEF Spec, StopsOnlyWhenOff
=============================================================================
