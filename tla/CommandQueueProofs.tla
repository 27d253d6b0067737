------------------------- MODULE CommandQueueProofs -------------------------
(***************************************************************************)
(* Proofs about CommandQueue, for every set of tasks and lanes and every    *)
(* value of the bounds.                                                     *)
(***************************************************************************)
EXTENDS CommandQueue, SequenceTheorems, FiniteSetTheorems, TLAPS

-----------------------------------------------------------------------------
(* Type correctness. *)

(* The stack operations keep stacks well formed. *)
LEMMA StackType ==
    ASSUME stack \in Seq(Frame)
    PROVE  /\ \A f \in Frame : Push(f) \in Seq(Frame)
           /\ stack # <<>> => Caller \in Seq(Frame)
           /\ \A l \in Lanes : PumpFrame(l) \in Frame
           /\ \A t \in Tasks : TaskFrame(t) \in Frame
<1>1. \A f \in Frame : Push(f) \in Seq(Frame)
  BY DEF Push
<1>2. ASSUME stack # <<>> PROVE Caller \in Seq(Frame)
  <2>1. /\ Len(stack) \in Nat \ {0}
        /\ \A i \in 1 .. Len(stack) - 1 : stack[i] \in Frame
    BY <1>2
  <2> QED  BY <2>1, SubSeqProperties DEF Caller
<1>3. \A l \in Lanes : PumpFrame(l) \in Frame
  BY DEF Frame
<1>4. \A t \in Tasks : TaskFrame(t) \in Frame
  BY DEF Frame
<1> QED  BY <1>1, <1>2, <1>3, <1>4

(* drainLane keeps the call stack and the draining flags well typed. *)
LEMMA DrainLaneType ==
    ASSUME TypeOK, NEW l \in Lanes, DrainLane(l)
    PROVE  stack' \in Seq(Frame) /\ draining' \in [Lanes -> BOOLEAN]
<1>1. Push(PumpFrame(l)) \in Seq(Frame)
  BY StackType DEF TypeOK
<1> QED  BY <1>1 DEF DrainLane, TypeOK

(* So does the end of a task, whatever called it. *)
LEMMA CompleteType ==
    ASSUME TypeOK, NEW t \in Tasks, NEW below \in Seq(Frame),
           Complete(t, below)
    PROVE  TypeOK'
<1>1. PumpFrame(laneOf[t]) \in Frame
  BY StackType DEF TypeOK
<1>2. stack' \in Seq(Frame)
  BY <1>1 DEF Complete
<1>3. active' \in [Lanes -> SUBSET Tasks]
  <2>1. active \in [Lanes -> SUBSET Tasks]
    BY DEF TypeOK
  <2>2. active' = active
        \/ active' = [active EXCEPT ![laneOf[t]] = @ \ {t}]
    BY DEF Complete
  <2> QED  BY <2>1, <2>2
<1>4. status' \in [Tasks -> Status]
  BY DEF Complete, TypeOK, Status
<1> QED  BY <1>2, <1>3, <1>4 DEF Complete, TypeOK, Waiter

LEMMA TypeInit == Init => TypeOK
<1> SUFFICES ASSUME Init PROVE TypeOK
  OBVIOUS
<1>1. queue \in [Lanes -> Seq(Tasks)] /\ stack \in Seq(Frame)
  BY DEF Init
<1>2. active \in [Lanes -> SUBSET Tasks] /\ waiter \in Waiter
  BY DEF Init, Waiter
<1>3. status \in [Tasks -> Status] /\ laneOf \in [Tasks -> Lanes]
  BY DEF Init, Status
<1>4. /\ maxConcurrent \in [Lanes -> Nat \ {0}]
      /\ draining \in [Lanes -> BOOLEAN]
      /\ generation \in [Lanes -> Nat]
      /\ taskGeneration \in [Tasks -> Nat]
  BY DEF Init
<1>5. gatewayDraining \in BOOLEAN /\ toDrain \subseteq Lanes
  BY DEF Init
<1> QED  BY <1>1, <1>2, <1>3, <1>4, <1>5 DEF TypeOK

(* Every step of the queue is well typed. *)
LEMMA TypeStep == TypeOK /\ [Next]_vars => TypeOK'
<1> SUFFICES ASSUME TypeOK, [Next]_vars PROVE TypeOK'
  OBVIOUS
<1> USE CommandQueueAssumption
<1>1. ASSUME NEW t \in Tasks, Enqueue(t) PROVE TypeOK'
  <2>1. stack' \in Seq(Frame) /\ draining' \in [Lanes -> BOOLEAN]
    BY <1>1, DrainLaneType DEF Enqueue, TypeOK
  <2>2. queue' \in [Lanes -> Seq(Tasks)] /\ status' \in [Tasks -> Status]
    BY <1>1 DEF Enqueue, TypeOK, Status
  <2> QED  BY <1>1, <2>1, <2>2 DEF Enqueue, TypeOK
<1>2. ASSUME NEW t \in Tasks, Refuse(t) PROVE TypeOK'
  BY <1>2 DEF Refuse, TypeOK, Status, laneVars
<1>3. ASSUME NEW l \in Lanes, StartNext(l) PROVE TypeOK'
  <2>1. queue[l] \in Seq(Tasks) /\ queue[l] # <<>>
    BY <1>3 DEF StartNext, Pumpable, TypeOK
  <2>2. Head(queue[l]) \in Tasks /\ Tail(queue[l]) \in Seq(Tasks)
    BY <2>1
  <2>3. Push(TaskFrame(Head(queue[l]))) \in Seq(Frame)
    BY <2>2, StackType DEF TypeOK
  <2> QED  BY <1>3, <2>2, <2>3 DEF StartNext, TypeOK, Status
<1>4. ASSUME NEW l \in Lanes, PumpReturn(l) PROVE TypeOK'
  <2>1. Caller \in Seq(Frame)
    BY <1>4, StackType DEF PumpReturn, Executing, TypeOK
  <2> QED  BY <1>4, <2>1 DEF PumpReturn, TypeOK, taskVars
<1>5. ASSUME NEW l \in Lanes, DrainAfterReset(l) PROVE TypeOK'
  <2>1. stack' \in Seq(Frame) /\ draining' \in [Lanes -> BOOLEAN]
    BY <1>5, DrainLaneType DEF DrainAfterReset
  <2> QED  BY <1>5, <2>1 DEF DrainAfterReset, TypeOK, taskVars
<1>6. ASSUME NEW t \in Tasks, TaskAwaits(t) PROVE TypeOK'
  <2>1. Caller \in Seq(Frame)
    BY <1>6, StackType DEF TaskAwaits, Executing, TypeOK
  <2> QED  BY <1>6, <2>1 DEF TaskAwaits, TypeOK, laneVars, taskVars
<1>7. ASSUME NEW t \in Tasks, TaskThrows(t) PROVE TypeOK'
  <2>1. Caller \in Seq(Frame)
    BY <1>7, StackType DEF TaskThrows, Executing, TypeOK
  <2> QED  BY <1>7, <2>1, CompleteType DEF TaskThrows
<1>8. ASSUME NEW t \in Tasks, TaskSettles(t) PROVE TypeOK'
  BY <1>8, CompleteType DEF TaskSettles, TypeOK
<1>9. ASSUME NEW l \in Lanes, ClearCommandLane(l) PROVE TypeOK'
  BY <1>9 DEF ClearCommandLane, TypeOK, Status
<1>10. ASSUME NEW l \in Lanes, NEW n \in Limits,
              SetCommandLaneConcurrency(l, n)
       PROVE TypeOK'
  <2>1. stack' \in Seq(Frame) /\ draining' \in [Lanes -> BOOLEAN]
    BY <1>10, DrainLaneType DEF SetCommandLaneConcurrency
  <2>2. (IF n < 1 THEN 1 ELSE n) \in Nat \ {0}
    OBVIOUS
  <2>3. maxConcurrent' \in [Lanes -> Nat \ {0}]
    BY <1>10, <2>2 DEF SetCommandLaneConcurrency, TypeOK
  <2> QED  BY <1>10, <2>1, <2>3
           DEF SetCommandLaneConcurrency, TypeOK, taskVars
<1>11. CASE MarkGatewayDraining
  BY <1>11 DEF MarkGatewayDraining, TypeOK, laneVars, taskVars
<1>12. CASE ResetAllLanes
  <2>1. active' \in [Lanes -> SUBSET Tasks]
    BY <1>12 DEF ResetAllLanes
  <2>2. draining' \in [Lanes -> BOOLEAN]
    BY <1>12 DEF ResetAllLanes
  <2>3. generation' \in [Lanes -> Nat]
    BY <1>12 DEF ResetAllLanes, TypeOK
  <2>4. gatewayDraining' \in BOOLEAN /\ toDrain' \subseteq Lanes
    BY <1>12 DEF ResetAllLanes
  <2> QED  BY <1>12, <2>1, <2>2, <2>3, <2>4
           DEF ResetAllLanes, TypeOK, taskVars
<1>13. CASE WaitForActiveTasks
  <2>1. AllActive \subseteq Tasks
    BY DEF AllActive, TypeOK
  <2> QED  BY <1>13, <2>1
           DEF WaitForActiveTasks, TypeOK, Waiter, laneVars, taskVars
<1>14. CASE WaitCheck
  <2>1. waiter.ids \in SUBSET Tasks
    BY DEF TypeOK, Waiter
  <2>2. waiter' \in Waiter
    BY <1>14, <2>1 DEF WaitCheck, TypeOK, Waiter
  <2> QED  BY <1>14, <2>2 DEF WaitCheck, TypeOK, laneVars, taskVars
<1>15. CASE UNCHANGED vars
  BY <1>15 DEF TypeOK, vars, laneVars, taskVars
<1> QED  BY <1>1, <1>2, <1>3, <1>4, <1>5, <1>6, <1>7, <1>8, <1>9, <1>10,
            <1>11, <1>12, <1>13, <1>14, <1>15 DEF Next, RunToCompletion

(* Every reachable state of the command queue is well typed; in particular  *)
(* a lane never has fewer than one slot.                                    *)
THEOREM TypeCorrect == Spec => []TypeOK
  BY TypeInit, TypeStep, PTL DEF Spec
-----------------------------------------------------------------------------
(* Work conservation.  NoStall speaks about moments when the stack is empty;*)
(* in between, a lane that could start something is covered by a pump()     *)
(* further down the stack or by the reset that is still draining lanes.     *)

OnStack(f, s) == \E i \in DOMAIN s : s[i] = f
Pumping(l) == OnStack(PumpFrame(l), stack)

PumpInv ==
    /\ \A l \in Lanes : draining[l] => Pumping(l)
    /\ \A l \in Lanes : Pumpable(l) => Pumping(l) \/ l \in toDrain

(* Pushing keeps every frame, popping every frame but the top one. *)
LEMMA OnStackFacts ==
    ASSUME NEW S, NEW s \in Seq(S), NEW f \in S
    PROVE  /\ OnStack(f, Append(s, f))
           /\ \A g \in S : OnStack(f, s) => OnStack(f, Append(s, g))
           /\ s # <<>> /\ s[Len(s)] # f /\ OnStack(f, s)
                 => OnStack(f, SubSeq(s, 1, Len(s) - 1))
           /\ s # <<>> => OnStack(s[Len(s)], s)
<1>1. OnStack(f, Append(s, f))
  <2>1. /\ Len(s) + 1 \in DOMAIN Append(s, f)
        /\ Append(s, f)[Len(s) + 1] = f
    BY AppendProperties
  <2> QED  BY <2>1 DEF OnStack
<1>2. ASSUME NEW g \in S, OnStack(f, s) PROVE OnStack(f, Append(s, g))
  <2>1. PICK i \in 1 .. Len(s) : s[i] = f
    BY <1>2 DEF OnStack
  <2>2. i \in DOMAIN Append(s, g) /\ Append(s, g)[i] = f
    BY <2>1, AppendProperties
  <2> QED  BY <2>2 DEF OnStack
<1>3. ASSUME s # <<>>, s[Len(s)] # f, OnStack(f, s)
      PROVE  OnStack(f, SubSeq(s, 1, Len(s) - 1))
  <2>1. PICK i \in 1 .. Len(s) : s[i] = f
    BY <1>3 DEF OnStack
  <2>2. i \in 1 .. Len(s) - 1
    BY <1>3, <2>1
  <2>3. /\ DOMAIN SubSeq(s, 1, Len(s) - 1) = 1 .. Len(s) - 1
        /\ SubSeq(s, 1, Len(s) - 1)[i] = s[i]
    BY <2>2
  <2> QED  BY <2>1, <2>2, <2>3 DEF OnStack
<1>4. ASSUME s # <<>> PROVE OnStack(s[Len(s)], s)
  <2>1. Len(s) \in DOMAIN s
    BY <1>4
  <2> QED  BY <2>1 DEF OnStack
<1> QED  BY <1>1, <1>2, <1>3, <1>4

(* The same facts about the call stack of the model. *)
LEMMA PumpingFacts ==
    ASSUME TypeOK, NEW l \in Lanes
    PROVE  /\ \A f \in Frame : Pumping(l) => OnStack(PumpFrame(l), Push(f))
           /\ OnStack(PumpFrame(l), Push(PumpFrame(l)))
           /\ stack # <<>> /\ Top # PumpFrame(l) /\ Pumping(l)
                 => OnStack(PumpFrame(l), Caller)
           /\ Executing(PumpFrame(l)) => Pumping(l)
<1>1. stack \in Seq(Frame) /\ PumpFrame(l) \in Frame
  BY StackType DEF TypeOK
<1> QED  BY <1>1, OnStackFacts DEF Push, Caller, Top, Executing, Pumping

(* After drainLane returns, its lane is being pumped and no other is less so. *)
LEMMA DrainLanePumps ==
    ASSUME TypeOK, PumpInv, NEW l \in Lanes, DrainLane(l)
    PROVE  /\ Pumping(l)'
           /\ \A k \in Lanes : Pumping(k) => Pumping(k)'
           /\ \A k \in Lanes : draining'[k] => Pumping(k)'
<1>1. PumpFrame(l) \in Frame
  BY StackType DEF TypeOK
<1>2. ASSUME NEW k \in Lanes, Pumping(k) PROVE Pumping(k)'
  BY <1>1, <1>2, PumpingFacts DEF DrainLane, Pumping
<1>3. Pumping(l)'
  BY <1>2, PumpingFacts DEF DrainLane, PumpInv, Pumping
<1>4. ASSUME NEW k \in Lanes, draining'[k] PROVE Pumping(k)'
  BY <1>2, <1>3, <1>4 DEF DrainLane, PumpInv, TypeOK
<1> QED  BY <1>2, <1>3, <1>4

(* Ending a task pumps its lane unless it frees nothing. *)
LEMMA CompletePumps ==
    ASSUME TypeOK, PumpInv, NEW t \in Tasks, NEW below \in Seq(Frame),
           \A l \in Lanes : Pumping(l) => OnStack(PumpFrame(l), below),
           Complete(t, below)
    PROVE  PumpInv'
<1>1. laneOf[t] \in Lanes /\ PumpFrame(laneOf[t]) \in Frame
  BY StackType DEF TypeOK
<1>2. ASSUME NEW l \in Lanes, Pumping(l) PROVE Pumping(l)'
  <2>1. PumpFrame(l) \in Frame
    BY StackType DEF TypeOK
  <2>2. OnStack(PumpFrame(l), below)
    BY <1>2
  <2>3. OnStack(PumpFrame(l), Append(below, PumpFrame(laneOf[t])))
    BY <1>1, <2>1, <2>2, OnStackFacts
  <2> QED  BY <2>2, <2>3 DEF Complete, Pumping
<1>3. CASE taskGeneration[t] = generation[laneOf[t]]
  <2>1. Pumping(laneOf[t])'
    <3>1. OnStack(PumpFrame(laneOf[t]), Append(below, PumpFrame(laneOf[t])))
      BY <1>1, OnStackFacts
    <3>2. /\ stack' = Append(below, PumpFrame(laneOf[t]))
          /\ laneOf' = laneOf
      BY <1>3 DEF Complete
    <3> QED  BY <3>1, <3>2 DEF Pumping
  <2>2. \A l \in Lanes \ {laneOf[t]} : Pumpable(l)' => Pumpable(l)
    BY <1>3 DEF Complete, Pumpable, HasFreeSlot, TypeOK
  <2> QED  BY <1>2, <2>1, <2>2 DEF PumpInv, Complete
<1>4. CASE taskGeneration[t] # generation[laneOf[t]]
  <2>1. \A l \in Lanes : Pumpable(l)' => Pumpable(l)
    BY <1>4 DEF Complete, Pumpable, HasFreeSlot
  <2> QED  BY <1>2, <2>1 DEF PumpInv, Complete
<1> QED  BY <1>3, <1>4

LEMMA PumpInvInit == Init => PumpInv
  BY DEF Init, PumpInv, Pumpable

LEMMA PumpInvStep == TypeOK /\ PumpInv /\ [Next]_vars => PumpInv'
<1> SUFFICES ASSUME TypeOK, PumpInv, [Next]_vars PROVE PumpInv'
  OBVIOUS
<1>1. ASSUME NEW t \in Tasks, Enqueue(t) PROVE PumpInv'
  <2>1. laneOf[t] \in Lanes /\ DrainLane(laneOf[t])
    BY <1>1 DEF Enqueue, TypeOK
  <2>2. \A k \in Lanes \ {laneOf[t]} : Pumpable(k)' => Pumpable(k)
    BY <1>1 DEF Enqueue, Pumpable, HasFreeSlot, TypeOK
  <2> QED  BY <1>1, <2>1, <2>2, DrainLanePumps DEF PumpInv, Enqueue
<1>2. ASSUME NEW t \in Tasks, Refuse(t) PROVE PumpInv'
  BY <1>2 DEF Refuse, laneVars, PumpInv, Pumping, Pumpable, HasFreeSlot
<1>3. ASSUME NEW l \in Lanes, StartNext(l) PROVE PumpInv'
  <2>1. Head(queue[l]) \in Tasks
    BY <1>3 DEF StartNext, Pumpable, TypeOK
  <2>2. TaskFrame(Head(queue[l])) \in Frame
    BY <2>1, StackType DEF TypeOK
  <2>3. \A k \in Lanes : Pumping(k) => Pumping(k)'
    BY <1>3, <2>2, PumpingFacts DEF StartNext, Pumping
  <2>4. Pumping(l)
    BY <1>3, PumpingFacts DEF StartNext
  <2>5. \A k \in Lanes \ {l} : Pumpable(k)' => Pumpable(k)
    BY <1>3 DEF StartNext, Pumpable, HasFreeSlot, TypeOK
  <2> QED  BY <1>3, <2>3, <2>4, <2>5 DEF PumpInv, StartNext
<1>4. ASSUME NEW l \in Lanes, PumpReturn(l) PROVE PumpInv'
  <2>1. \A k \in Lanes \ {l} : Pumping(k) => Pumping(k)'
    <3>1. \A k \in Lanes \ {l} : Top # PumpFrame(k)
      BY <1>4 DEF PumpReturn, Executing, PumpFrame
    <3> QED  BY <1>4, <3>1, PumpingFacts DEF PumpReturn, Executing, Pumping
  <2>2. \A k \in Lanes : Pumpable(k)' <=> Pumpable(k)
    BY <1>4 DEF PumpReturn, Pumpable, HasFreeSlot
  <2>3. ~draining'[l]
    BY <1>4 DEF PumpReturn, TypeOK
  <2>4. ~Pumpable(l)'
    BY <1>4, <2>2 DEF PumpReturn
  <2>5. \A k \in Lanes \ {l} : draining'[k] = draining[k]
    BY <1>4 DEF PumpReturn, TypeOK
  <2> QED  BY <1>4, <2>1, <2>2, <2>3, <2>4, <2>5 DEF PumpInv, PumpReturn
<1>5. ASSUME NEW l \in Lanes, DrainAfterReset(l) PROVE PumpInv'
  <2>1. \A k \in Lanes : Pumpable(k)' => Pumpable(k)
    BY <1>5 DEF DrainAfterReset, Pumpable, HasFreeSlot
  <2> QED  BY <1>5, <2>1, DrainLanePumps DEF PumpInv, DrainAfterReset
<1>6. ASSUME NEW t \in Tasks, Executing(TaskFrame(t)), NEW k \in Lanes,
             Pumping(k)
      PROVE  OnStack(PumpFrame(k), Caller)
  <2>1. Top # PumpFrame(k)
    BY <1>6 DEF Executing, PumpFrame, TaskFrame
  <2> QED  BY <1>6, <2>1, PumpingFacts DEF Executing
<1>7. ASSUME NEW t \in Tasks, TaskAwaits(t) PROVE PumpInv'
  <2>1. \A k \in Lanes : Pumpable(k)' => Pumpable(k)
    BY <1>7 DEF TaskAwaits, laneVars, Pumpable, HasFreeSlot
  <2>2. \A k \in Lanes : Pumping(k) => Pumping(k)'
    BY <1>6, <1>7 DEF TaskAwaits, Pumping
  <2> QED  BY <1>7, <2>1, <2>2 DEF TaskAwaits, laneVars, PumpInv
<1>8. ASSUME NEW t \in Tasks, TaskThrows(t) PROVE PumpInv'
  <2>1. Caller \in Seq(Frame)
    BY <1>8, StackType DEF TaskThrows, Executing, TypeOK
  <2> QED  BY <1>6, <1>8, <2>1, CompletePumps DEF TaskThrows
<1>9. ASSUME NEW t \in Tasks, TaskSettles(t) PROVE PumpInv'
  BY <1>9, CompletePumps DEF TaskSettles, TypeOK, Pumping
<1>10. ASSUME NEW l \in Lanes, ClearCommandLane(l) PROVE PumpInv'
  <2>1. \A k \in Lanes : Pumpable(k)' => Pumpable(k)
    BY <1>10 DEF ClearCommandLane, Pumpable, HasFreeSlot, TypeOK
  <2> QED  BY <1>10, <2>1 DEF ClearCommandLane, PumpInv, Pumping
<1>11. ASSUME NEW l \in Lanes, NEW n \in Limits,
              SetCommandLaneConcurrency(l, n)
       PROVE  PumpInv'
  <2>1. \A k \in Lanes \ {l} : Pumpable(k)' => Pumpable(k)
    BY <1>11 DEF SetCommandLaneConcurrency, Pumpable, HasFreeSlot, TypeOK
  <2> QED  BY <1>11, <2>1, DrainLanePumps
           DEF PumpInv, SetCommandLaneConcurrency
<1>12. CASE MarkGatewayDraining
  BY <1>12 DEF MarkGatewayDraining, laneVars, PumpInv, Pumping, Pumpable,
               HasFreeSlot
<1>13. CASE ResetAllLanes
  <2>1. \A k \in Lanes : Pumpable(k)' => k \in toDrain'
    BY <1>13 DEF ResetAllLanes, Pumpable
  <2>2. \A k \in Lanes : ~draining'[k]
    BY <1>13 DEF ResetAllLanes
  <2> QED  BY <2>1, <2>2 DEF PumpInv
<1>14. CASE WaitForActiveTasks
  BY <1>14 DEF WaitForActiveTasks, laneVars, PumpInv, Pumping, Pumpable,
               HasFreeSlot
<1>15. CASE WaitCheck
  BY <1>15 DEF WaitCheck, laneVars, PumpInv, Pumping, Pumpable, HasFreeSlot
<1>16. CASE UNCHANGED vars
  BY <1>16 DEF vars, laneVars, PumpInv, Pumping, Pumpable, HasFreeSlot
<1> QED  BY <1>1, <1>2, <1>3, <1>4, <1>5, <1>7, <1>8, <1>9, <1>10, <1>11,
            <1>12, <1>13, <1>14, <1>15, <1>16 DEF Next, RunToCompletion

(* Whenever control is back in the event loop, no lane has both a waiting   *)
(* entry and a free slot: no accepted entry depends on a later enqueue.     *)
THEOREM WorkConserving == Spec => []NoStall
<1>1. PumpInv => NoStall
  BY DEF PumpInv, NoStall, EventLoop, Pumping, OnStack
<1> QED  BY <1>1, TypeInit, TypeStep, PumpInvInit, PumpInvStep, PTL DEF Spec
-----------------------------------------------------------------------------
(* Bookkeeping.  SlotsExact needs to know what the queues hold (StartNext   *)
(* must not restart a task that runs already), what the call stack holds    *)
(* (a task that throws has been started), and that no task carries a        *)
(* generation of the future (so that a reset disowns all of them).          *)

Elems(s) == {s[i] : i \in DOMAIN s}
Distinct(s) == \A i, j \in DOMAIN s : s[i] = s[j] => i = j

Started == {"running", "settled"}

SlotInv ==
    /\ \A l \in Lanes, t \in Tasks :
            t \in Elems(queue[l]) <=> status[t] = "queued" /\ laneOf[t] = l
    /\ \A l \in Lanes : Distinct(queue[l])
    /\ \A t \in Tasks : OnStack(TaskFrame(t), stack) => status[t] \in Started
    /\ \A t \in Tasks : taskGeneration[t] <= generation[laneOf[t]]
    /\ SlotsExact

WaiterInv ==
    /\ waiter.phase # "none" => \A t \in waiter.ids : status[t] \in Started
    /\ DrainedMeansEnded

(* What push and shift do to the elements of a duplicate-free array. *)
LEMMA ElemsFacts ==
    ASSUME NEW S, NEW s \in Seq(S)
    PROVE  /\ \A x \in S : Elems(Append(s, x)) = Elems(s) \cup {x}
           /\ \A x \in S : Distinct(s) /\ x \notin Elems(s)
                              => Distinct(Append(s, x))
           /\ s # <<>> => Head(s) \in Elems(s)
           /\ s # <<>> /\ Distinct(s) => /\ Elems(Tail(s)) = Elems(s) \ {Head(s)}
                                        /\ Distinct(Tail(s))
<1>1. ASSUME NEW x \in S
      PROVE  /\ Elems(Append(s, x)) = Elems(s) \cup {x}
             /\ Distinct(s) /\ x \notin Elems(s) => Distinct(Append(s, x))
  <2>1. /\ DOMAIN Append(s, x) = 1 .. Len(s) + 1
        /\ \A i \in 1 .. Len(s) : Append(s, x)[i] = s[i]
        /\ Append(s, x)[Len(s) + 1] = x
        /\ DOMAIN s = 1 .. Len(s)
        /\ Len(s) \in Nat
    BY AppendProperties
  <2>2. Elems(Append(s, x)) = Elems(s) \cup {x}
    BY <2>1 DEF Elems
  <2>3. ASSUME Distinct(s), x \notin Elems(s) PROVE Distinct(Append(s, x))
    <3> SUFFICES ASSUME NEW i \in 1 .. Len(s) + 1, NEW j \in 1 .. Len(s) + 1,
                        Append(s, x)[i] = Append(s, x)[j]
                 PROVE  i = j
      BY <2>1 DEF Distinct
    <3>1. \A k \in 1 .. Len(s) : Append(s, x)[k] # x
      BY <2>1, <2>3 DEF Elems
    <3> QED  BY <2>1, <2>3, <3>1 DEF Distinct
  <2> QED  BY <2>2, <2>3
<1>2. ASSUME s # <<>> PROVE Head(s) \in Elems(s)
  <2>1. 1 \in DOMAIN s /\ Head(s) = s[1]
    BY <1>2
  <2> QED  BY <2>1 DEF Elems
<1>3. ASSUME s # <<>>, Distinct(s)
      PROVE  Elems(Tail(s)) = Elems(s) \ {Head(s)} /\ Distinct(Tail(s))
  <2>1. /\ DOMAIN Tail(s) = 1 .. Len(s) - 1
        /\ \A i \in 1 .. Len(s) - 1 : Tail(s)[i] = s[i + 1]
        /\ DOMAIN s = 1 .. Len(s)
        /\ Len(s) \in Nat \ {0}
        /\ Head(s) = s[1]
    BY <1>3
  <2>2. \A i \in 2 .. Len(s) : s[i] # s[1]
    BY <1>3, <2>1 DEF Distinct
  <2>3. Elems(Tail(s)) \subseteq Elems(s) \ {Head(s)}
    <3> SUFFICES ASSUME NEW i \in 1 .. Len(s) - 1
                 PROVE  Tail(s)[i] \in Elems(s) \ {s[1]}
      BY <2>1 DEF Elems
    <3>1. i + 1 \in 2 .. Len(s) /\ Tail(s)[i] = s[i + 1]
      BY <2>1
    <3> QED  BY <2>1, <2>2, <3>1 DEF Elems
  <2>4. Elems(s) \ {Head(s)} \subseteq Elems(Tail(s))
    <3> SUFFICES ASSUME NEW i \in 1 .. Len(s), s[i] # s[1]
                 PROVE  s[i] \in Elems(Tail(s))
      BY <2>1 DEF Elems
    <3>1. i - 1 \in 1 .. Len(s) - 1 /\ Tail(s)[i - 1] = s[i]
      BY <2>1
    <3> QED  BY <2>1, <3>1 DEF Elems
  <2>5. Distinct(Tail(s))
    <3> SUFFICES ASSUME NEW i \in 1 .. Len(s) - 1, NEW j \in 1 .. Len(s) - 1,
                        Tail(s)[i] = Tail(s)[j]
                 PROVE  i = j
      BY <2>1 DEF Distinct
    <3>1. /\ i + 1 \in DOMAIN s /\ j + 1 \in DOMAIN s
          /\ s[i + 1] = s[j + 1]
      BY <2>1
    <3> QED  BY <1>3, <3>1 DEF Distinct
  <2> QED  BY <2>3, <2>4, <2>5
<1> QED  BY <1>1, <1>2, <1>3

(* No operation on the call stack conjures up a frame. *)
LEMMA NoNewFrames ==
    ASSUME TypeOK, NEW f \in Frame
    PROVE  /\ \A g \in Frame :
                 OnStack(f, Push(g)) => f = g \/ OnStack(f, stack)
           /\ stack # <<>> /\ OnStack(f, Caller) => OnStack(f, stack)
<1>1. stack \in Seq(Frame)
  BY DEF TypeOK
<1>2. ASSUME NEW g \in Frame, OnStack(f, Push(g))
      PROVE  f = g \/ OnStack(f, stack)
  BY <1>1, <1>2, AppendProperties DEF OnStack, Push
<1>3. ASSUME stack # <<>>, OnStack(f, Caller) PROVE OnStack(f, stack)
  <2>1. /\ DOMAIN Caller = 1 .. Len(stack) - 1
        /\ \A i \in 1 .. Len(stack) - 1 : Caller[i] = stack[i]
    BY <1>1, <1>3 DEF Caller
  <2> QED  BY <1>1, <1>3, <2>1 DEF OnStack
<1> QED  BY <1>2, <1>3
(* Steps that move only the pumps leave the bookkeeping alone. *)
LEMMA SlotInvFrame ==
    ASSUME SlotInv,
           UNCHANGED <<queue, active, generation, taskVars>>,
           \A t \in Tasks :
               OnStack(TaskFrame(t), stack') => OnStack(TaskFrame(t), stack)
    PROVE  SlotInv'
  BY DEF SlotInv, SlotsExact, taskVars

(* drainLane pushes no task. *)
LEMMA DrainLaneTasks ==
    ASSUME TypeOK, NEW l \in Lanes, DrainLane(l), NEW t \in Tasks,
           OnStack(TaskFrame(t), stack')
    PROVE  OnStack(TaskFrame(t), stack)
<1>1. PumpFrame(l) \in Frame /\ TaskFrame(t) \in Frame
  BY StackType DEF TypeOK
<1>2. PumpFrame(l) # TaskFrame(t)
  BY DEF PumpFrame, TaskFrame
<1>3. stack' = stack \/ stack' = Push(PumpFrame(l))
  BY DEF DrainLane
<1> QED  BY <1>1, <1>2, <1>3, NoNewFrames

(* A task that ends leaves its slot, if it still has one. *)
LEMMA SlotInvComplete ==
    ASSUME TypeOK, SlotInv, NEW t \in Tasks, NEW below \in Seq(Frame),
           status[t] \in Started, Complete(t, below),
           \A u \in Tasks :
               OnStack(TaskFrame(u), below) => OnStack(TaskFrame(u), stack)
    PROVE  SlotInv'
<1>1. \A u \in Tasks : status'[u] = IF u = t THEN "settled" ELSE status[u]
  BY DEF Complete, TypeOK
<1>2. UNCHANGED <<queue, generation, laneOf, taskGeneration>>
  BY DEF Complete
<1>3. ASSUME NEW u \in Tasks, OnStack(TaskFrame(u), stack')
      PROVE  OnStack(TaskFrame(u), stack)
  <2>1. PumpFrame(laneOf[t]) \in Frame /\ TaskFrame(u) \in Frame
    BY StackType DEF TypeOK
  <2>2. PumpFrame(laneOf[t]) # TaskFrame(u)
    BY DEF PumpFrame, TaskFrame
  <2>3. stack' = below \/ stack' = Append(below, PumpFrame(laneOf[t]))
    BY DEF Complete
  <2>4. OnStack(TaskFrame(u), below)
    BY <1>3, <2>1, <2>2, <2>3, AppendProperties DEF OnStack
  <2> QED  BY <2>4
<1>4. \A l \in Lanes, u \in Tasks :
          u \in Elems(queue[l])' <=> status'[u] = "queued" /\ laneOf'[u] = l
  BY <1>1, <1>2 DEF SlotInv, Started
<1>5. \A u \in Tasks : OnStack(TaskFrame(u), stack)' => status'[u] \in Started
  BY <1>1, <1>3 DEF SlotInv, Started
<1>6. SlotsExact'
  <2> SUFFICES ASSUME NEW l \in Lanes
               PROVE  active'[l] = {u \in Tasks :
                                      /\ status'[u] = "running"
                                      /\ laneOf[u] = l
                                      /\ taskGeneration[u] = generation[l]}
    BY <1>2 DEF SlotsExact
  <2>1. active[l] = {u \in Tasks : /\ status[u] = "running"
                                   /\ laneOf[u] = l
                                   /\ taskGeneration[u] = generation[l]}
    BY DEF SlotInv, SlotsExact
  <2>2. CASE taskGeneration[t] = generation[laneOf[t]] /\ l = laneOf[t]
    <3>1. active'[l] = active[l] \ {t}
      BY <2>2 DEF Complete, TypeOK
    <3> QED  BY <1>1, <2>1, <3>1
  <2>3. CASE taskGeneration[t] # generation[laneOf[t]] \/ l # laneOf[t]
    <3>1. active'[l] = active[l]
      BY <2>3 DEF Complete, TypeOK
    <3>2. laneOf[t] # l \/ taskGeneration[t] # generation[l]
      BY <2>3
    <3> QED  BY <1>1, <2>1, <3>1, <3>2
  <2> QED  BY <2>2, <2>3
<1>7. (\A l \in Lanes : Distinct(queue[l]))'
  BY <1>2 DEF SlotInv
<1>8. (\A u \in Tasks : taskGeneration[u] <= generation[laneOf[u]])'
  BY <1>2 DEF SlotInv
<1> QED  BY <1>4, <1>5, <1>6, <1>7, <1>8 DEF SlotInv

LEMMA SlotInvInit == Init => SlotInv /\ WaiterInv
<1> SUFFICES ASSUME Init PROVE SlotInv /\ WaiterInv
  OBVIOUS
<1>1. \A l \in Lanes : Elems(queue[l]) = {} /\ Distinct(queue[l])
  BY DEF Init, Elems, Distinct
<1>2. \A t \in Tasks : status[t] = "new" /\ ~OnStack(TaskFrame(t), stack)
  BY DEF Init, OnStack
<1>3. \A t \in Tasks : taskGeneration[t] <= generation[laneOf[t]]
  BY DEF Init
<1>4. SlotsExact
  BY <1>2 DEF Init, SlotsExact
<1>5. WaiterInv
  BY DEF Init, WaiterInv, DrainedMeansEnded
<1> QED  BY <1>1, <1>2, <1>3, <1>4, <1>5 DEF SlotInv

(* A new entry joins its lane's queue. *)
LEMMA SlotInvEnqueue ==
    ASSUME TypeOK, SlotInv, NEW t \in Tasks, Enqueue(t)
    PROVE  SlotInv'
<1>1. /\ laneOf[t] \in Lanes
      /\ \A l \in Lanes : queue[l] \in Seq(Tasks)
      /\ status[t] = "new"
  BY DEF Enqueue, TypeOK
<1>2. /\ \A u \in Tasks : status'[u] = IF u = t THEN "queued" ELSE status[u]
      /\ \A l \in Lanes : queue'[l] = IF l = laneOf[t]
                                      THEN Append(queue[l], t) ELSE queue[l]
      /\ UNCHANGED <<active, generation, laneOf, taskGeneration>>
  BY DEF Enqueue, TypeOK
<1>3. \A l \in Lanes : t \notin Elems(queue[l])
  BY <1>1 DEF SlotInv
<1>4. \A l \in Lanes, u \in Tasks :
          u \in Elems(queue'[l]) <=> status'[u] = "queued" /\ laneOf[u] = l
  BY <1>1, <1>2, ElemsFacts DEF SlotInv
<1>5. \A l \in Lanes : Distinct(queue'[l])
  BY <1>1, <1>2, <1>3, ElemsFacts DEF SlotInv
<1>6. \A u \in Tasks : OnStack(TaskFrame(u), stack') => status'[u] \in Started
  BY <1>1, <1>2, DrainLaneTasks DEF Enqueue, SlotInv, Started
<1>7. SlotsExact'
  BY <1>1, <1>2 DEF SlotInv, SlotsExact
<1>8. \A u \in Tasks : taskGeneration'[u] <= generation'[laneOf'[u]]
  BY <1>2 DEF SlotInv
<1> QED  BY <1>2, <1>4, <1>5, <1>6, <1>7, <1>8 DEF SlotInv

(* pump() moves the head of the queue into a slot. *)
LEMMA SlotInvStartNext ==
    ASSUME TypeOK, SlotInv, NEW l \in Lanes, StartNext(l)
    PROVE  SlotInv'
<1> DEFINE t == Head(queue[l])
<1>1. /\ \A k \in Lanes : queue[k] \in Seq(Tasks)
      /\ queue[l] # <<>>
      /\ t \in Tasks
      /\ t \in Elems(queue[l])
  BY ElemsFacts DEF StartNext, Pumpable, TypeOK
<1>2. status[t] = "queued" /\ laneOf[t] = l
  BY <1>1 DEF SlotInv
<1>3. /\ \A u \in Tasks : status'[u] = IF u = t THEN "running" ELSE status[u]
      /\ \A k \in Lanes : queue'[k] = IF k = l THEN Tail(queue[k]) ELSE queue[k]
      /\ \A k \in Lanes : active'[k] = IF k = l THEN active[k] \cup {t}
                                             ELSE active[k]
      /\ \A u \in Tasks : taskGeneration'[u] = IF u = t THEN generation[l]
                                                   ELSE taskGeneration[u]
      /\ stack' = Push(TaskFrame(t))
      /\ UNCHANGED <<generation, laneOf>>
  BY <1>1 DEF StartNext, TypeOK
<1> HIDE DEF t
<1>4. Head(queue[l]) = t
  BY DEF t
<1>5. /\ Elems(queue'[l]) = Elems(queue[l]) \ {t}
      /\ Distinct(queue'[l])
  BY <1>1, <1>3, <1>4, ElemsFacts DEF SlotInv
<1>6. \A k \in Lanes, u \in Tasks :
          u \in Elems(queue'[k]) <=> status'[u] = "queued" /\ laneOf[u] = k
  <2> SUFFICES ASSUME NEW k \in Lanes, NEW u \in Tasks
               PROVE  u \in Elems(queue'[k]) <=>
                        status'[u] = "queued" /\ laneOf[u] = k
    OBVIOUS
  <2>1. u \in Elems(queue[k]) <=> status[u] = "queued" /\ laneOf[u] = k
    BY DEF SlotInv
  <2>2. status'[u] = "queued" <=> status[u] = "queued" /\ u # t
    BY <1>3
  <2>3. CASE k = l
    BY <1>5, <2>1, <2>2, <2>3
  <2>4. CASE k # l
    <3>1. queue'[k] = queue[k]
      BY <1>3, <2>4
    <3> QED  BY <1>2, <2>1, <2>2, <2>4, <3>1
  <2> QED  BY <2>3, <2>4
<1>7. \A k \in Lanes : Distinct(queue'[k])
  BY <1>3, <1>5 DEF SlotInv
<1>8. ASSUME NEW u \in Tasks, OnStack(TaskFrame(u), stack')
      PROVE  status'[u] \in Started
  <2>1. TaskFrame(u) \in Frame /\ TaskFrame(t) \in Frame
    BY <1>1, StackType DEF TypeOK
  <2>2. u = t \/ OnStack(TaskFrame(u), stack)
    BY <1>3, <1>8, <2>1, NoNewFrames DEF TaskFrame
  <2> QED  BY <1>3, <2>2 DEF SlotInv, Started
<1>9. \A u \in Tasks : taskGeneration'[u] <= generation'[laneOf'[u]]
  <2>1. generation[l] \in Nat
    BY DEF TypeOK
  <2>2. \A u \in Tasks : taskGeneration[u] <= generation[laneOf[u]]
    BY DEF SlotInv
  <2> QED  BY <1>2, <1>3, <2>1, <2>2
<1>10. SlotsExact'
  <2> SUFFICES ASSUME NEW k \in Lanes
               PROVE  active'[k] = {u \in Tasks :
                                      /\ status'[u] = "running"
                                      /\ laneOf[u] = k
                                      /\ taskGeneration'[u] = generation[k]}
    BY <1>3 DEF SlotsExact
  <2>1. active[k] = {u \in Tasks : /\ status[u] = "running"
                                   /\ laneOf[u] = k
                                   /\ taskGeneration[u] = generation[k]}
    BY DEF SlotInv, SlotsExact
  <2>2. CASE k = l
    <3>1. active'[l] = active[l] \cup {t}
      BY <1>3
    <3>2. /\ t \in Tasks /\ status'[t] = "running" /\ laneOf[t] = l
          /\ taskGeneration'[t] = generation[l]
      BY <1>1, <1>2, <1>3
    <3>3. \A u \in Tasks \ {t} : /\ status'[u] = status[u]
                                 /\ taskGeneration'[u] = taskGeneration[u]
      BY <1>3
    <3> QED  BY <2>1, <2>2, <3>1, <3>2, <3>3
  <2>3. CASE k # l
    <3>1. active'[k] = active[k] /\ laneOf[t] # k
      BY <1>2, <1>3, <2>3
    <3>2. \A u \in Tasks \ {t} : /\ status'[u] = status[u]
                                 /\ taskGeneration'[u] = taskGeneration[u]
      BY <1>3
    <3>3. t \notin active[k]
      BY <2>1, <3>1
    <3> QED  BY <2>1, <3>1, <3>2, <3>3
  <2> QED  BY <2>2, <2>3
<1> QED  BY <1>3, <1>6, <1>7, <1>8, <1>9, <1>10 DEF SlotInv

(* Rejected entries leave the queue together. *)
LEMMA SlotInvClear ==
    ASSUME TypeOK, SlotInv, NEW l \in Lanes, ClearCommandLane(l)
    PROVE  SlotInv'
<1>1. Waiting(l) = Elems(queue[l])
  BY DEF Waiting, Elems
<1>2. \A u \in Tasks : status'[u] = IF status[u] = "queued" /\ laneOf[u] = l
                                  THEN "cleared" ELSE status[u]
  BY <1>1 DEF ClearCommandLane, SlotInv
<1>3. /\ \A k \in Lanes : queue'[k] = IF k = l THEN <<>> ELSE queue[k]
      /\ UNCHANGED <<active, generation, laneOf, taskGeneration, stack>>
  BY DEF ClearCommandLane, TypeOK
<1>4. Elems(<<>>) = {} /\ Distinct(<<>>)
  BY DEF Elems, Distinct
<1>5. \A k \in Lanes, u \in Tasks :
          u \in Elems(queue'[k]) <=> status'[u] = "queued" /\ laneOf[u] = k
  BY <1>2, <1>3, <1>4 DEF SlotInv
<1>6. \A k \in Lanes : Distinct(queue'[k])
  BY <1>3, <1>4 DEF SlotInv
<1>7. \A u \in Tasks : OnStack(TaskFrame(u), stack') => status'[u] \in Started
  BY <1>2, <1>3 DEF SlotInv, Started
<1>8. SlotsExact'
  BY <1>2, <1>3 DEF SlotInv, SlotsExact
<1> QED  BY <1>3, <1>5, <1>6, <1>7, <1>8 DEF SlotInv

(* A reset disowns every running task at once. *)
LEMMA SlotInvReset ==
    ASSUME TypeOK, SlotInv, ResetAllLanes
    PROVE  SlotInv'
<1>1. /\ \A l \in Lanes : generation'[l] = generation[l] + 1
      /\ \A l \in Lanes : active'[l] = {}
      /\ UNCHANGED <<queue, taskVars, stack>>
  BY DEF ResetAllLanes
<1>2. \A t \in Tasks : /\ laneOf[t] \in Lanes
                       /\ generation[laneOf[t]] \in Nat
                       /\ taskGeneration[t] \in Nat
  BY DEF TypeOK
<1>3. \A t \in Tasks : taskGeneration[t] < generation'[laneOf[t]]
  BY <1>1, <1>2 DEF SlotInv
<1>4. SlotsExact'
  BY <1>1, <1>2, <1>3 DEF SlotsExact, taskVars
<1>5. \A t \in Tasks : taskGeneration'[t] <= generation'[laneOf'[t]]
  BY <1>1, <1>2, <1>3 DEF taskVars
<1> QED  BY <1>1, <1>4, <1>5 DEF SlotInv, taskVars

LEMMA SlotInvStep == TypeOK /\ SlotInv /\ [Next]_vars => SlotInv'
<1> SUFFICES ASSUME TypeOK, SlotInv, [Next]_vars PROVE SlotInv'
  OBVIOUS
<1>1. ASSUME NEW t \in Tasks, Refuse(t) PROVE SlotInv'
  <2>1. \A u \in Tasks : status'[u] = IF u = t THEN "refused" ELSE status[u]
    BY <1>1 DEF Refuse, TypeOK
  <2>2. UNCHANGED <<laneVars, laneOf, taskGeneration, stack>> /\ status[t] = "new"
    BY <1>1 DEF Refuse
  <2>3. SlotsExact'
    BY <2>1, <2>2 DEF SlotInv, SlotsExact, laneVars
  <2> QED  BY <2>1, <2>2, <2>3 DEF SlotInv, Started, laneVars
<1>2. ASSUME stack # <<>>, stack' = Caller, NEW t \in Tasks,
             OnStack(TaskFrame(t), stack')
      PROVE  OnStack(TaskFrame(t), stack)
  BY <1>2, StackType, NoNewFrames DEF TypeOK
<1>3. ASSUME NEW l \in Lanes, PumpReturn(l) PROVE SlotInv'
  BY <1>2, <1>3, SlotInvFrame DEF PumpReturn, Executing
<1>4. ASSUME NEW t \in Tasks, TaskAwaits(t) PROVE SlotInv'
  BY <1>2, <1>4, SlotInvFrame DEF TaskAwaits, Executing, laneVars
<1>5. ASSUME NEW l \in Lanes, DrainAfterReset(l) PROVE SlotInv'
  BY <1>5, DrainLaneTasks, SlotInvFrame DEF DrainAfterReset
<1>6. ASSUME NEW l \in Lanes, NEW n \in Limits,
             SetCommandLaneConcurrency(l, n)
      PROVE  SlotInv'
  BY <1>6, DrainLaneTasks, SlotInvFrame DEF SetCommandLaneConcurrency
<1>7. ASSUME NEW t \in Tasks, TaskThrows(t) PROVE SlotInv'
  <2>1. stack # <<>> /\ Top = TaskFrame(t) /\ Complete(t, Caller)
    BY <1>7 DEF TaskThrows, Executing
  <2>2. Caller \in Seq(Frame) /\ TaskFrame(t) \in Frame
    BY <2>1, StackType DEF TypeOK
  <2>3. OnStack(TaskFrame(t), stack)
    BY <2>1, <2>2, OnStackFacts DEF Top, TypeOK
  <2>4. status[t] \in Started
    BY <2>3 DEF SlotInv
  <2>5. \A u \in Tasks :
            OnStack(TaskFrame(u), Caller) => OnStack(TaskFrame(u), stack)
    BY <2>1, StackType, NoNewFrames DEF TypeOK
  <2> QED  BY <2>1, <2>2, <2>4, <2>5, SlotInvComplete
<1>8. ASSUME NEW t \in Tasks, TaskSettles(t) PROVE SlotInv'
  BY <1>8, SlotInvComplete DEF TaskSettles, Started, TypeOK
<1>9. CASE MarkGatewayDraining
  BY <1>9, SlotInvFrame DEF MarkGatewayDraining, laneVars
<1>10. CASE WaitForActiveTasks
  BY <1>10, SlotInvFrame DEF WaitForActiveTasks, laneVars
<1>11. CASE WaitCheck
  BY <1>11, SlotInvFrame DEF WaitCheck, laneVars
<1>12. CASE UNCHANGED vars
  BY <1>12, SlotInvFrame DEF vars, laneVars
<1> QED  BY <1>1, <1>3, <1>4, <1>5, <1>6, <1>7, <1>8, <1>9, <1>10, <1>11,
            <1>12, SlotInvEnqueue, SlotInvStartNext, SlotInvClear,
            SlotInvReset DEF Next, RunToCompletion

(* Slots are held by exactly the running tasks of the current generation,   *)
(* however resets, synchronous failures and late completions interleave.    *)
THEOREM SlotsAreExact == Spec => []SlotsExact
<1>1. SlotInv => SlotsExact
  BY DEF SlotInv
<1> QED  BY <1>1, TypeInit, TypeStep, SlotInvInit, SlotInvStep, PTL DEF Spec

(* An accepted entry waits at exactly one place until it is started or      *)
(* cleared.                                                                 *)
THEOREM NeverLostOrDuplicated == Spec => []QueuedOnce
<1>1. ASSUME SlotInv PROVE QueuedOnce
  <2> SUFFICES ASSUME NEW t \in Tasks, NEW l \in Lanes
               PROVE  Cardinality(Occurrences(t, l)) =
                        IF status[t] = "queued" /\ laneOf[t] = l THEN 1 ELSE 0
    BY DEF QueuedOnce
  <2>1. CASE status[t] = "queued" /\ laneOf[t] = l
    <3>1. t \in Elems(queue[l])
      BY <1>1, <2>1 DEF SlotInv
    <3>2. PICK i \in DOMAIN queue[l] : queue[l][i] = t
      BY <3>1 DEF Elems
    <3>3. Occurrences(t, l) = {i}
      BY <1>1, <3>2 DEF Occurrences, SlotInv, Distinct
    <3> QED  BY <2>1, <3>3, FS_Singleton
  <2>2. CASE ~(status[t] = "queued" /\ laneOf[t] = l)
    <3>1. t \notin Elems(queue[l])
      BY <1>1, <2>2 DEF SlotInv
    <3>2. Occurrences(t, l) = {}
      BY <3>1 DEF Occurrences, Elems
    <3> QED  BY <2>2, <3>2, FS_EmptySet
  <2> QED  BY <2>1, <2>2
<1> QED  BY <1>1, TypeInit, TypeStep, SlotInvInit, SlotInvStep, PTL DEF Spec
(* What every step does to tasks that have been started: the waiter's       *)
(* promise is about those.                                                  *)
LEMMA StartedStaysStarted ==
    ASSUME TypeOK, SlotInv, [Next]_vars, NEW t \in Tasks,
           status[t] \in Started
    PROVE  /\ status'[t] = status[t] \/ status'[t] = "settled"
           /\ taskGeneration'[t] = taskGeneration[t]
           /\ laneOf'[t] = laneOf[t]
           /\ generation[laneOf[t]] <= generation'[laneOf[t]]
<1> USE DEF Started
<1>0. laneOf[t] \in Lanes /\ generation[laneOf[t]] \in Nat
  BY DEF TypeOK
<1>1. ASSUME NEW u \in Tasks, Enqueue(u) \/ Refuse(u)
      PROVE  /\ status'[t] = status[t]
             /\ UNCHANGED <<generation, laneOf, taskGeneration>>
  BY <1>1 DEF Enqueue, Refuse, laneVars, TypeOK
<1>2. ASSUME NEW l \in Lanes, StartNext(l)
      PROVE  /\ status'[t] = status[t]
             /\ taskGeneration'[t] = taskGeneration[t]
             /\ UNCHANGED <<generation, laneOf>>
  <2>1. Head(queue[l]) \in Elems(queue[l]) /\ Head(queue[l]) \in Tasks
    <3>1. queue[l] \in Seq(Tasks) /\ queue[l] # <<>>
      BY <1>2 DEF StartNext, Pumpable, TypeOK
    <3> QED  BY <3>1, ElemsFacts
  <2>2. t # Head(queue[l])
    BY <2>1 DEF SlotInv
  <2> QED  BY <1>2, <2>2 DEF StartNext, TypeOK
<1>3. ASSUME NEW u \in Tasks, TaskThrows(u) \/ TaskSettles(u)
      PROVE  /\ status'[t] = status[t] \/ status'[t] = "settled"
             /\ UNCHANGED <<generation, laneOf, taskGeneration>>
  BY <1>3 DEF TaskThrows, TaskSettles, Complete, TypeOK
<1>4. ASSUME NEW l \in Lanes, ClearCommandLane(l)
      PROVE  /\ status'[t] = status[t]
             /\ UNCHANGED <<generation, laneOf, taskGeneration>>
  <2>1. t \notin Waiting(l)
    BY DEF Waiting, Elems, SlotInv
  <2> QED  BY <1>4, <2>1 DEF ClearCommandLane
<1>5. CASE ResetAllLanes
  BY <1>0, <1>5 DEF ResetAllLanes, taskVars
<1>6. CASE \/ MarkGatewayDraining \/ WaitForActiveTasks \/ WaitCheck
           \/ UNCHANGED vars
  BY <1>0, <1>6 DEF MarkGatewayDraining, WaitForActiveTasks, WaitCheck, vars,
                    laneVars, taskVars
<1>7. ASSUME NEW l \in Lanes, NEW n \in Limits,
             SetCommandLaneConcurrency(l, n)
      PROVE  UNCHANGED <<taskVars, generation>>
  BY <1>7 DEF SetCommandLaneConcurrency
<1>8. ASSUME NEW l \in Lanes, PumpReturn(l) \/ DrainAfterReset(l)
      PROVE  UNCHANGED <<taskVars, generation>>
  BY <1>8 DEF PumpReturn, DrainAfterReset
<1>9. ASSUME NEW u \in Tasks, TaskAwaits(u)
      PROVE  UNCHANGED <<taskVars, generation>>
  BY <1>9 DEF TaskAwaits, laneVars
<1> QED  BY <1>0, <1>1, <1>2, <1>3, <1>4, <1>5, <1>6, <1>7, <1>8, <1>9
         DEF Next, RunToCompletion, taskVars

LEMMA WaiterInvStep ==
    TypeOK /\ SlotInv /\ WaiterInv /\ [Next]_vars => WaiterInv'
<1> SUFFICES ASSUME TypeOK, SlotInv, WaiterInv, [Next]_vars PROVE WaiterInv'
  OBVIOUS
<1> DEFINE Disowned(t) == taskGeneration[t] # generation[laneOf[t]]
<1>0. /\ waiter.ids \subseteq Tasks
      /\ \A t \in Tasks : /\ laneOf[t] \in Lanes
                          /\ generation[laneOf[t]] \in Nat
                          /\ generation'[laneOf[t]] \in Nat
                          /\ taskGeneration[t] \in Nat
                          /\ taskGeneration[t] <= generation[laneOf[t]]
  BY TypeStep DEF TypeOK, Waiter, SlotInv
<1>1. ASSUME NEW t \in Tasks, status[t] \in Started
      PROVE  status'[t] \in Started
  BY <1>1, StartedStaysStarted DEF Started
<1>2. ASSUME NEW t \in Tasks, status[t] \in Started,
             status[t] = "settled" \/ Disowned(t)
      PROVE  status'[t] = "settled" \/ Disowned(t)'
  BY <1>0, <1>2, StartedStaysStarted
<1>3. CASE waiter' = waiter
  BY <1>0, <1>1, <1>2, <1>3 DEF WaiterInv, DrainedMeansEnded
<1>4. ASSUME NEW t \in Tasks, t \in AllActive PROVE status[t] \in Started
  BY <1>4 DEF AllActive, SlotInv, SlotsExact, Started
<1>5. CASE WaitForActiveTasks
  <2>1. /\ waiter'.ids = AllActive
        /\ waiter'.phase = "drained" => AllActive = {}
        /\ status' = status
    BY <1>5 DEF WaitForActiveTasks, taskVars
  <2>2. AllActive \subseteq Tasks
    BY DEF AllActive, TypeOK
  <2> QED  BY <1>4, <2>1, <2>2 DEF WaiterInv, DrainedMeansEnded
<1>6. CASE WaitCheck
  <2>1. /\ waiter.phase = "waiting"
        /\ waiter'.ids = waiter.ids
        /\ waiter'.phase = "drained" => waiter.ids \cap AllActive = {}
        /\ UNCHANGED <<taskVars, generation>>
    BY <1>6 DEF WaitCheck, TypeOK, Waiter, laneVars
  <2>2. \A t \in waiter.ids : status[t] \in Started
    BY <2>1 DEF WaiterInv
  <2>3. ASSUME NEW t \in waiter.ids, t \notin AllActive,
               status[t] # "settled"
        PROVE  Disowned(t)
    BY <1>0, <2>2, <2>3 DEF AllActive, SlotInv, SlotsExact, Started
  <2> QED  BY <2>1, <2>2, <2>3 DEF WaiterInv, DrainedMeansEnded, taskVars
<1>7. ~WaitForActiveTasks /\ ~WaitCheck => waiter' = waiter
  BY DEF Next, RunToCompletion, Enqueue, Refuse, StartNext, PumpReturn,
         TaskAwaits, TaskThrows, TaskSettles, Complete,
         SetCommandLaneConcurrency, ClearCommandLane, MarkGatewayDraining,
         ResetAllLanes, DrainAfterReset, vars
<1> QED  BY <1>3, <1>5, <1>6, <1>7

(* waitForActiveTasks reports "drained" only when the tasks it waited for   *)
(* have ended, except those a reset has disowned meanwhile.                 *)
THEOREM DrainedIsTrue == Spec => []DrainedMeansEnded
<1>1. WaiterInv => DrainedMeansEnded
  BY DEF WaiterInv
<1> QED  BY <1>1, TypeInit, TypeStep, SlotInvInit, SlotInvStep,
            WaiterInvStep, PTL DEF Spec

-----------------------------------------------------------------------------
(* Refinement: the command queue is a lane pool. *)

LEMMA PoolInit == Init => Pool!Init
  BY DEF Init, Pool!Init

LEMMA PoolStep == TypeOK /\ SlotInv /\ [Next]_vars => [Pool!Next]_(Pool!vars)
<1> SUFFICES ASSUME TypeOK, SlotInv, [Next]_vars
             PROVE  [Pool!Next]_(Pool!vars)
  OBVIOUS
<1> USE DEF Pool!vars
<1>1. ASSUME NEW t \in Tasks, Enqueue(t)
      PROVE  Pool!Next
  <2>1. ~Pool!Known(t)
    BY <1>1 DEF Pool!Known, Enqueue, SlotInv, SlotsExact, Elems
  <2>2. laneOf[t] \in Lanes
    BY DEF TypeOK
  <2>3. Pool!Arrive(t, laneOf[t])
    BY <1>1, <2>1 DEF Pool!Arrive, Enqueue
  <2> QED  BY <2>2, <2>3 DEF Pool!Next
<1>2. ASSUME NEW l \in Lanes, StartNext(l) PROVE Pool!Next
  <2>1. queue[l] # <<>> /\ Cardinality(active[l]) < maxConcurrent[l]
    BY <1>2 DEF StartNext, Pumpable, HasFreeSlot
  <2>2. /\ active' = [active EXCEPT ![l] = @ \cup {Head(queue[l])}]
        /\ queue' = [queue EXCEPT ![l] = Tail(@)]
        /\ UNCHANGED maxConcurrent
    BY <1>2 DEF StartNext
  <2>3. Pool!Cardinality(active[l]) = Cardinality(active[l])
    BY Zenon DEF Cardinality, Pool!Cardinality, IsFiniteSet, Pool!IsFiniteSet
  <2>4. Pool!Serve(l)
    BY <2>1, <2>2, <2>3 DEF Pool!Serve
  <2> QED  BY <2>4 DEF Pool!Next
<1>3. ASSUME NEW t \in Tasks, TaskThrows(t) \/ TaskSettles(t)
      PROVE  Pool!Next \/ UNCHANGED Pool!vars
  <2>1. laneOf[t] \in Lanes /\ active[laneOf[t]] \subseteq Tasks
    BY DEF TypeOK
  <2>2. /\ \/ active' = active
           \/ active' = [active EXCEPT ![laneOf[t]] = @ \ {t}]
        /\ UNCHANGED <<queue, maxConcurrent>>
    BY <1>3 DEF TaskThrows, TaskSettles, Complete
  <2>3. CASE t \in active[laneOf[t]] /\ active' # active
    <3>1. Pool!Leave(t, laneOf[t])
      BY <2>2, <2>3 DEF Pool!Leave
    <3> QED  BY <2>1, <3>1 DEF Pool!Next
  <2>4. CASE t \notin active[laneOf[t]]
    <3>1. active[laneOf[t]] \ {t} = active[laneOf[t]]
      BY <2>4
    <3>2. [active EXCEPT ![laneOf[t]] = @ \ {t}] = active
      BY <3>1 DEF TypeOK
    <3> QED  BY <2>2, <3>2
  <2> QED  BY <2>2, <2>3, <2>4
<1>4. ASSUME NEW l \in Lanes, ClearCommandLane(l) PROVE Pool!Next
  BY <1>4 DEF ClearCommandLane, Pool!TurnAway, Pool!Next
<1>5. ASSUME NEW l \in Lanes, NEW n \in Limits,
             SetCommandLaneConcurrency(l, n)
      PROVE  Pool!Next
  <2>1. maxConcurrent' \in [Lanes -> Nat \ {0}]
    BY TypeStep DEF TypeOK
  <2>2. Pool!Resize(l)
    BY <1>5, <2>1 DEF SetCommandLaneConcurrency, Pool!Resize, TypeOK
  <2> QED  BY <2>2 DEF Pool!Next
<1>6. CASE ResetAllLanes
  BY <1>6 DEF ResetAllLanes, Pool!Restart, Pool!Next
<1>7. ASSUME NEW t \in Tasks, Refuse(t) \/ TaskAwaits(t)
      PROVE  UNCHANGED Pool!vars
  BY <1>7 DEF Refuse, TaskAwaits, laneVars
<1>8. ASSUME NEW l \in Lanes, PumpReturn(l) \/ DrainAfterReset(l)
      PROVE  UNCHANGED Pool!vars
  BY <1>8 DEF PumpReturn, DrainAfterReset
<1>9. CASE \/ MarkGatewayDraining \/ WaitForActiveTasks \/ WaitCheck
           \/ UNCHANGED vars
  BY <1>9 DEF MarkGatewayDraining, WaitForActiveTasks, WaitCheck, vars,
              laneVars
<1> QED  BY <1>1, <1>2, <1>3, <1>4, <1>5, <1>6, <1>7, <1>8, <1>9
         DEF Next, RunToCompletion

(* Every behaviour of the command queue is one of the lane pool: first come *)
(* first served per lane, never more tasks at once than slots.              *)
THEOREM QueueImplementsPool == Spec => ImplementsPool
<1>1. Spec => [](TypeOK /\ SlotInv)
  BY TypeInit, TypeStep, SlotInvInit, SlotInvStep, PTL DEF Spec
<1> QED  BY <1>1, PoolInit, PoolStep, PTL DEF Spec, ImplementsPool, Pool!Spec
=============================================================================
