------------------------- MODULE FollowupQueueProofs -------------------------
(***************************************************************************)
(* Proofs about FollowupQueue, for any messages, routes and settings and    *)
(* any number of queue objects.                                             *)
(***************************************************************************)
EXTENDS FollowupQueue, SequenceTheorems, FiniteSetTheorems, TLAPS

-----------------------------------------------------------------------------
(* The inductive invariants.                                                *)

(* Without clears the only queue being drained is the registry's.           *)
OneDrain == \A q \in Queues : drain[q] # Idle => q = current

(* Nothing is cleared or evicted, and no message forgotten.                 *)
Keeps == ~MayClear /\ \A s \in Settings : s.drop = "new"

(* What a turn runs is still at the front of its queue.                     *)
AtFront ==
    \A q \in Queues : drain[q].pc \in Running =>
        /\ drain[q].pc # "summary"
        /\ drain[q].pc = "one" => Len(drain[q].batch) = 1
        /\ Len(drain[q].batch) <= Len(items[q])
        /\ \A i \in 1 .. Len(drain[q].batch) : items[q][i] = drain[q].batch[i]

Queued ==
    \A m \in Messages : fate[m] = "queued" =>
        current # NoQueue /\ m \in Elems(items[current])

(* How many items go when the turn on q succeeds.                           *)
Taken(q) == IF drain[q].pc = "batch" THEN Len(drain[q].batch) ELSE 1

(* Ids that do not leave the dedupe cache: what waits, is run or was run is *)
(* in it.                                                                   *)
Known ==
    /\ \A m \in Messages \ Forgettable : fate[m] = "ran" => m \in recent
    /\ \A q \in Queues : Live(q) =>
          \A i \in 1 .. Len(items[q]) : items[q][i] \notin Forgettable =>
              items[q][i] \in recent /\ fate[items[q][i]] # "ran"
    /\ \A q \in Queues : drain[q].pc \in Running =>
          \A k \in 1 .. Len(drain[q].batch) :
              drain[q].batch[k] \notin Forgettable => drain[q].batch[k] \in recent

(* A message is in one place of a queue, and of one queue unless its id was *)
(* forgotten.                                                               *)
Once ==
    \A p, q \in Queues : Live(p) /\ Live(q) =>
        \A i \in 1 .. Len(items[p]), j \in 1 .. Len(items[q]) :
            items[p][i] = items[q][j] /\ (p = q \/ items[p][i] \notin Forgettable) =>
                p = q /\ i = j

(* What is being run is nowhere but where the success will remove it.       *)
Removable ==
    \A p, q \in Queues : Live(p) /\ drain[q].pc \in Running =>
        \A i \in 1 .. Len(items[p]), k \in 1 .. Len(drain[q].batch) :
            items[p][i] = drain[q].batch[k] /\ items[p][i] \notin Forgettable =>
                p = q /\ i <= Taken(q)

-----------------------------------------------------------------------------
(* Sequences of messages.                                                   *)
LEMMA ElemsAre ==
    ASSUME NEW s \in Seq(Messages)
    PROVE  /\ Elems(s) \subseteq Messages
           /\ \A i \in 1 .. Len(s) : s[i] \in Elems(s)
           /\ \A m \in Elems(s) : \E i \in 1 .. Len(s) : s[i] = m
  BY DEF Elems

LEMMA DropFirstIs ==
    ASSUME NEW s \in Seq(Messages), NEW n \in Nat
    PROVE  /\ DropFirst(s, n) \in Seq(Messages)
           /\ Len(DropFirst(s, n)) = IF n < Len(s) THEN Len(s) - n ELSE 0
           /\ Len(DropFirst(s, n)) <= Len(s)
           /\ \A i \in 1 .. Len(s) - n : DropFirst(s, n)[i] = s[i + n]
<1>1. Len(s) \in Nat /\ n + 1 \in Int
  OBVIOUS
<1>2. \A i \in n + 1 .. Len(s) : s[i] \in Messages
  OBVIOUS
<1>3. /\ SubSeq(s, n + 1, Len(s)) \in Seq(Messages)
      /\ Len(SubSeq(s, n + 1, Len(s))) = IF n + 1 <= Len(s) THEN Len(s) - (n + 1) + 1 ELSE 0
      /\ \A i \in 1 .. Len(s) - (n + 1) + 1 : SubSeq(s, n + 1, Len(s))[i] = s[n + 1 + i - 1]
  BY <1>1, <1>2, SubSeqProperties
<1> QED  BY <1>1, <1>3 DEF DropFirst

Beyond(s, n) == {s[i] : i \in n + 1 .. Len(s)}

LEMMA TailIs ==
    ASSUME NEW s \in Seq(Messages), NEW n \in Nat
    PROVE  Elems(DropFirst(s, n)) = Beyond(s, n)
<1> DEFINE t == DropFirst(s, n)
<1>1. Len(s) \in Nat
  OBVIOUS
<1>2. /\ t \in Seq(Messages)
      /\ Len(t) = IF n < Len(s) THEN Len(s) - n ELSE 0
      /\ \A i \in 1 .. Len(s) - n : t[i] = s[i + n]
  BY DropFirstIs
<1> HIDE DEF t
<1>3. DOMAIN t = 1 .. Len(t)
  BY <1>2
<1>4. Elems(t) = {t[i] : i \in 1 .. Len(t)}
  BY <1>3 DEF Elems
<1>5. ASSUME NEW i \in 1 .. Len(t) PROVE \E j \in n + 1 .. Len(s) : t[i] = s[j]
  <2>1. i + n \in n + 1 .. Len(s) /\ i \in 1 .. Len(s) - n
    BY <1>1, <1>2
  <2> QED  BY <1>2, <2>1
<1>6. ASSUME NEW j \in n + 1 .. Len(s) PROVE \E i \in 1 .. Len(t) : t[i] = s[j]
  <2>1. j - n \in 1 .. Len(s) - n /\ j - n \in 1 .. Len(t) /\ (j - n) + n = j
    BY <1>1, <1>2
  <2>2. t[j - n] = s[(j - n) + n]
    BY <1>2, <2>1
  <2> QED  BY <2>1, <2>2
<1>7. {t[i] : i \in 1 .. Len(t)} = {s[j] : j \in n + 1 .. Len(s)}
  <2>1. ASSUME NEW x \in {t[i] : i \in 1 .. Len(t)}
        PROVE  x \in {s[j] : j \in n + 1 .. Len(s)}
    <3>1. PICK i \in 1 .. Len(t) : x = t[i]
      OBVIOUS
    <3> QED  BY <1>5, <3>1
  <2>2. ASSUME NEW x \in {s[j] : j \in n + 1 .. Len(s)}
        PROVE  x \in {t[i] : i \in 1 .. Len(t)}
    <3>1. PICK j \in n + 1 .. Len(s) : x = s[j]
      OBVIOUS
    <3> QED  BY <1>6, <3>1
  <2> QED  BY <2>1, <2>2
<1> QED  BY <1>4, <1>7 DEF t, Beyond

(* What an accepted message does to the items: n leave at the front.        *)
LEMMA MakeRoom ==
    ASSUME NEW s \in Seq(Messages), NEW cap \in Nat \ {0}, NEW m \in Messages
    PROVE  LET n == Excess(s, cap)
               t == Append(DropFirst(s, n), m)
           IN
           /\ n \in 0 .. Len(s) /\ (Len(s) < cap => n = 0)
           /\ t \in Seq(Messages)
           /\ Len(t) = Len(s) - n + 1 /\ Len(t) <= cap
           /\ \A i \in 1 .. Len(s) - n : t[i] = s[i + n]
           /\ t[Len(t)] = m
<1> DEFINE n == Excess(s, cap)
           t == Append(DropFirst(s, n), m)
<1>1. n \in 0 .. Len(s) /\ (Len(s) < cap => n = 0) /\ Len(s) - n + 1 <= cap
  BY DEF Excess
<1> DEFINE d == DropFirst(s, n)
<1>2. d \in Seq(Messages) /\ Len(d) = Len(s) - n /\ \A i \in 1 .. Len(s) - n : d[i] = s[i + n]
  <2>1. n \in Nat /\ Len(s) \in Nat
    BY <1>1
  <2>2. /\ d \in Seq(Messages)
        /\ Len(d) = IF n < Len(s) THEN Len(s) - n ELSE 0
        /\ \A i \in 1 .. Len(s) - n : d[i] = s[i + n]
    BY <2>1, DropFirstIs
  <2>3. (IF n < Len(s) THEN Len(s) - n ELSE 0) = Len(s) - n
    BY <1>1, <2>1
  <2> QED  BY <2>2, <2>3
<1>3. t = Append(d, m)
  BY DEF d
<1> HIDE DEF d, n, t
<1>4. /\ t \in Seq(Messages) /\ Len(t) = Len(d) + 1
      /\ \A i \in 1 .. Len(d) : t[i] = d[i]
      /\ t[Len(d) + 1] = m
  BY <1>2, <1>3, AppendProperties
<1>5. /\ Len(t) = Len(s) - n + 1 /\ Len(t) <= cap
      /\ \A i \in 1 .. Len(s) - n : t[i] = s[i + n]
      /\ t[Len(t)] = m
  BY <1>1, <1>2, <1>4
<1> QED  BY <1>1, <1>4, <1>5 DEF n, t

LEMMA FrontIs ==
    ASSUME NEW s \in Seq(Messages), NEW n \in 0 .. Len(s)
    PROVE  Elems(SubSeq(s, 1, n)) = {s[i] : i \in 1 .. n}
<1> DEFINE t == SubSeq(s, 1, n)
<1>1. \A i \in 1 .. n : s[i] \in Messages
  OBVIOUS
<1>2. t \in Seq(Messages) /\ Len(t) = n /\ \A i \in 1 .. n : t[i] = s[i]
  BY <1>1, SubSeqProperties
<1> HIDE DEF t
<1>3. Elems(t) = {t[i] : i \in 1 .. n}
  <2>1. DOMAIN t = 1 .. n
    BY <1>2
  <2> QED  BY <2>1 DEF Elems
<1>4. {t[i] : i \in 1 .. n} = {s[i] : i \in 1 .. n}
  BY <1>2
<1> QED  BY <1>3, <1>4 DEF t
-----------------------------------------------------------------------------
(* Opening a queue and starting a drain.                                    *)
LEMMA OpenedIs ==
    ASSUME TypeOK, CanOpen
    PROVE  /\ Opened \in Queues
           /\ current # NoQueue => Opened = current
           /\ current = NoQueue => drain[Opened] = Idle
           /\ OpenItems \in Seq(Messages) /\ OpenDropped \subseteq Messages
           /\ OpenLastRun \in BOOLEAN
           /\ current = NoQueue => OpenItems = <<>> /\ OpenDropped = {}
           /\ current # NoQueue => OpenItems = items[current] /\ OpenDropped = dropped[current]
<1>1. CASE current = NoQueue
  BY <1>1 DEF CanOpen, Opened, OpenItems, OpenDropped, OpenLastRun
<1>2. CASE current # NoQueue
  BY <1>2 DEF Opened, OpenItems, OpenDropped, OpenLastRun, TypeOK
<1> QED  BY <1>1, <1>2

LEMMA IdleIsDrain ==
    /\ Idle \in Drain /\ Idle.pc = "idle" /\ Idle.batch = <<>>
    /\ \A f \in BOOLEAN : /\ Debouncing(f) \in Drain /\ Debouncing(f).pc = "debounce"
                          /\ Debouncing(f).batch = <<>> /\ Debouncing(f) # Idle
<1>1. <<>> \in Seq(Messages)
  OBVIOUS
<1> QED  BY <1>1 DEF Idle, Debouncing, Drain, Running

(* A drain is started on the registry's idle queue if it has work; without  *)
(* work the entry is deleted.                                               *)
Scheduled(cur, d) ==
    \/ current' = cur /\ drain' = d /\ (cur = NoQueue \/ d[cur] # Idle)
    \/ /\ cur # NoQueue /\ d[cur] = Idle /\ EmptyNext(cur)
       /\ current' = NoQueue /\ drain' = d
    \/ /\ cur # NoQueue /\ d[cur] = Idle /\ ~EmptyNext(cur)
       /\ current' = cur /\ drain' = [d EXCEPT ![cur] = Debouncing(FALSE)]

LEMMA ScheduleDrainIs ==
    ASSUME NEW cur \in Queues \cup {NoQueue}, NEW d \in [Queues -> Drain],
           ScheduleDrain(cur, d)
    PROVE  /\ Scheduled(cur, d)
           /\ current' \in Queues \cup {NoQueue} /\ drain' \in [Queues -> Drain]
           /\ \A q \in Queues : drain'[q] = d[q] \/ drain'[q] = Debouncing(FALSE)
<1>1. Scheduled(cur, d)
  BY DEF ScheduleDrain, Scheduled
<1> QED  BY <1>1, IdleIsDrain, FollowupQueueAssumption DEF Scheduled

(* What happens to registry and drains in a step that ends a drain of q.    *)
LEMMA FinishIs ==
    ASSUME TypeOK, NEW q \in Queues, Finish(q),
           NEW d, d = [drain EXCEPT ![q] = Idle]
    PROVE  /\ d \in [Queues -> Drain]
           /\ (EmptyNext(q) /\ current' = NoQueue /\ drain' = d)
              \/ (~EmptyNext(q) /\ Scheduled(current, d))
           /\ current' \in Queues \cup {NoQueue} /\ drain' \in [Queues -> Drain]
           /\ \A p \in Queues : drain'[p] = d[p] \/ drain'[p] = Debouncing(FALSE)
<1>1. d \in [Queues -> Drain] /\ current \in Queues \cup {NoQueue}
  BY IdleIsDrain DEF TypeOK
<1>2. CASE EmptyNext(q)
  BY <1>1, <1>2 DEF Finish
<1>3. CASE ~EmptyNext(q)
  BY <1>1, <1>3, ScheduleDrainIs DEF Finish
<1> QED  BY <1>1, <1>2, <1>3

LEMMA AfterEnqueueIs ==
    ASSUME TypeOK, CanOpen, AfterEnqueue
    PROVE  /\ Scheduled(Opened, drain)
              \/ (TRUE \in RunActive /\ current' = Opened /\ drain' = drain)
           /\ current' \in Queues \cup {NoQueue} /\ drain' \in [Queues -> Drain]
           /\ \A p \in Queues : drain'[p] = drain[p] \/ drain'[p] = Debouncing(FALSE)
<1>1. Opened \in Queues /\ drain \in [Queues -> Drain]
  BY OpenedIs DEF TypeOK
<1>2. PICK active \in RunActive : IF active THEN current' = Opened /\ drain' = drain
                                            ELSE ScheduleDrain(Opened, drain)
  BY DEF AfterEnqueue
<1>3. CASE active
  <2>1. active = TRUE
    BY <1>2, <1>3 DEF RunActive
  <2> QED  BY <1>1, <1>2, <1>3, <2>1
<1>4. CASE ~active
  BY <1>1, <1>2, <1>4, ScheduleDrainIs
<1> QED  BY <1>3, <1>4
-----------------------------------------------------------------------------
(* Type correctness.                                                        *)
Sized(its) == \A q \in Queues : \E s \in Settings : Len(its[q]) <= s.cap

LEMMA TypeInit == Init => TypeOK
<1> SUFFICES ASSUME Init PROVE TypeOK
  OBVIOUS
<1>1. PICK s \in Settings : settings = [q \in Queues |-> s]
  BY DEF Init
<1>2. s.cap \in Nat \ {0}
  BY FollowupQueueAssumption
<1>3. items = [q \in Queues |-> <<>>] /\ <<>> \in Seq(Messages) /\ Len(<<>>) = 0
  BY DEF Init
<1>4. Sized(items)
  BY <1>2, <1>3 DEF Sized
<1> QED  BY <1>1, <1>3, <1>4, IdleIsDrain DEF Init, TypeOK, Sized, Fate

LEMMA TypeEnqueue ==
    ASSUME TypeOK, NEW m \in Messages, NEW s \in Settings,
           EnqueueDuplicate(m, s) \/ EnqueueRefused(m, s) \/ EnqueueAccepted(m, s)
    PROVE  TypeOK'
<1>1. CanOpen /\ AfterEnqueue
  BY DEF EnqueueDuplicate, EnqueueRefused, EnqueueAccepted
<1>2. current' \in Queues \cup {NoQueue} /\ drain' \in [Queues -> Drain]
  BY <1>1, AfterEnqueueIs
<1>3. /\ Opened \in Queues /\ OpenItems \in Seq(Messages)
      /\ OpenDropped \subseteq Messages /\ OpenLastRun \in BOOLEAN
  BY <1>1, OpenedIs
<1>4. s.cap \in Nat \ {0} /\ s.drop \in {"old", "new", "summarize"}
  BY FollowupQueueAssumption
<1>5. Sized(items)
  BY DEF TypeOK, Sized
<1>6. CASE EnqueueDuplicate(m, s)
  <2>1. \E z \in Settings : Len(OpenItems) <= z.cap
    BY <1>1, <1>3, <1>4, <1>5, OpenedIs DEF Sized
  <2>2. Sized(items')
    BY <1>3, <1>5, <1>6, <2>1 DEF EnqueueDuplicate, Sized, TypeOK
  <2> QED  BY <1>2, <1>3, <1>6, <2>2 DEF EnqueueDuplicate, TypeOK, Sized
<1>7. CASE EnqueueRefused(m, s)
  BY <1>2, <1>3, <1>7 DEF EnqueueRefused, TypeOK, Fate
<1>8. CASE EnqueueAccepted(m, s)
  <2> DEFINE n == Excess(OpenItems, s.cap)
             t == Append(DropFirst(OpenItems, n), m)
             out == Elems(SubSeq(OpenItems, 1, n))
  <2>1. n \in 0 .. Len(OpenItems) /\ t \in Seq(Messages) /\ Len(t) <= s.cap
    BY <1>3, <1>4, MakeRoom
  <2>2. out \subseteq Messages
    BY <1>3, <2>1, ElemsAre, FrontIs
  <2>3. /\ items' = [items EXCEPT ![Opened] = t]
        /\ dropped' = [dropped EXCEPT ![Opened] =
                          OpenDropped \cup (IF s.drop = "summarize" THEN out ELSE {})]
        /\ fate' = [x \in Messages |->
                      IF x = m THEN "queued"
                      ELSE IF x \notin out THEN fate[x]
                      ELSE IF s.drop = "summarize" THEN "dropped"
                      ELSE "discarded"]
        /\ settings' = [settings EXCEPT ![Opened] = s]
        /\ lastRun' = [lastRun EXCEPT ![Opened] = TRUE]
        /\ recent' = recent \cup {m}
        /\ UNCHANGED <<mainRun, route>>
    BY <1>8 DEF EnqueueAccepted
  <2> HIDE DEF n, t, out
  <2>4. items' \in [Queues -> Seq(Messages)] /\ Sized(items')
    BY <1>5, <2>1, <2>3 DEF TypeOK, Sized
  <2>5. dropped' \in [Queues -> SUBSET Messages]
    BY <1>3, <2>2, <2>3 DEF TypeOK
  <2>6. fate' \in [Messages -> Fate]
    BY <2>3 DEF TypeOK, Fate
  <2> QED  BY <1>2, <2>3, <2>4, <2>5, <2>6 DEF TypeOK, Sized
<1> QED  BY <1>6, <1>7, <1>8

LEMMA TypeAwait ==
    ASSUME TypeOK, NEW q \in Queues, DrainStep(q)
    PROVE  TypeOK'
<1>1. items[q] \in Seq(Messages) /\ Summary(q) \subseteq Messages
  BY DEF TypeOK, Summary
<1>2. items[q] # <<>> => <<Head(items[q])>> \in Seq(Messages)
  BY <1>1
<1>3. ASSUME NEW pc \in Running, NEW batch \in Seq(Messages),
             NEW sum \in SUBSET Messages, NEW force \in BOOLEAN,
             Await(q, pc, batch, sum, force)
      PROVE  TypeOK'
  <2>1. [pc |-> pc, batch |-> batch, summary |-> sum, force |-> force,
         checked |-> drain[q].checked] \in Drain
    BY DEF TypeOK, Drain
  <2> QED  BY <1>3, <2>1 DEF Await, TypeOK, queueVars
<1>4. drain[q].force \in BOOLEAN /\ <<>> \in Seq(Messages) /\ {} \in SUBSET Messages
      /\ {"one", "batch", "summary"} = Running
  BY DEF TypeOK, Drain, Running
<1>5. CASE CollectOne(q)
  BY <1>2, <1>3, <1>4, <1>5 DEF CollectOne
<1>6. CASE CollectBatch(q)
  BY <1>1, <1>3, <1>4, <1>6 DEF CollectBatch
<1>10. CASE CollectCheck(q)
  <2>1. Elems(items[q]) \subseteq Messages
    BY <1>1 DEF Elems
  <2>2. [Idle EXCEPT !.pc = "collect", !.checked = Elems(items[q])] \in Drain
    BY <1>4, <2>1 DEF Idle, Drain
  <2> QED  BY <1>10, <2>2 DEF CollectCheck, TypeOK, queueVars
<1>7. CASE RunSummary(q)
  BY <1>1, <1>3, <1>4, <1>7 DEF RunSummary
<1>8. CASE RunHead(q)
  BY <1>2, <1>3, <1>4, <1>8 DEF RunHead
<1>9. CASE GiveUp(q)
  <2>1. Finish(q) /\ UNCHANGED <<queueVars, mainRun, recent, fate, route>>
    BY <1>9 DEF GiveUp
  <2> QED  BY <2>1, FinishIs DEF TypeOK, queueVars
<1> QED  BY <1>5, <1>6, <1>7, <1>8, <1>9, <1>10 DEF DrainStep

(* What a turn that succeeds leaves in the queue.                           *)
LEMMA LeftAfter ==
    ASSUME TypeOK, NEW q \in Queues, drain[q].pc \in Running,
           NEW n, n = IF drain[q].pc = "batch" THEN Len(drain[q].batch) ELSE 1
    PROVE  /\ n \in Nat /\ DropFirst(items[q], n) \in Seq(Messages)
           /\ Len(DropFirst(items[q], n)) <= Len(items[q])
<1>1. items[q] \in Seq(Messages) /\ Len(items[q]) \in Nat
  BY DEF TypeOK
<1>2. n \in Nat
  BY DEF TypeOK, Drain
<1>3. Len(DropFirst(items[q], n)) <= Len(items[q])
  BY <1>1, <1>2, DropFirstIs
<1>4. DropFirst(items[q], n) \in Seq(Messages)
  BY <1>1, <1>2, DropFirstIs
<1> QED  BY <1>2, <1>3, <1>4

LEMMA TypeTurn ==
    ASSUME TypeOK, NEW q \in Queues, TurnSucceeds(q) \/ TurnFails(q)
    PROVE  TypeOK'
<1>1. CASE TurnFails(q)
  BY <1>1, FinishIs DEF TurnFails, TypeOK, queueVars
<1>2. CASE TurnSucceeds(q)
  <2> DEFINE d == drain[q]
             n == IF d.pc = "batch" THEN Len(d.batch) ELSE 1
             t == DropFirst(items[q], n)
  <2>1. d.pc \in Running /\ items' = [items EXCEPT ![q] = t]
        /\ dropped' = [dropped EXCEPT ![q] = IF d.summary # {} THEN {} ELSE @]
        /\ UNCHANGED <<lastRun, settings, mainRun, recent, route>>
    BY <1>2 DEF TurnSucceeds
  <2>2. t \in Seq(Messages) /\ Len(t) <= Len(items[q])
    BY <2>1, LeftAfter
  <2> HIDE DEF t, n
  <2>3. fate' \in [Messages -> Fate]
    BY <1>2 DEF TurnSucceeds, TypeOK, Fate
  <2>4. items' \in [Queues -> Seq(Messages)] /\ dropped' \in [Queues -> SUBSET Messages]
    BY <2>1, <2>2 DEF TypeOK
  <2>5. Sized(items')
    <3>1. PICK z \in Settings : Len(items[q]) <= z.cap
      BY DEF TypeOK
    <3>2. z.cap \in Nat /\ Len(items[q]) \in Nat /\ Len(t) \in Nat
      BY <2>2, FollowupQueueAssumption DEF TypeOK
    <3>3. Len(t) <= z.cap
      BY <2>2, <3>1, <3>2
    <3> QED  BY <2>1, <3>3 DEF TypeOK, Sized
  <2>6. current' \in Queues \cup {NoQueue} /\ drain' \in [Queues -> Drain]
    <3>1. CASE EmptyNext(q)
      BY <1>2, <3>1, FinishIs DEF TurnSucceeds
    <3>2. CASE ~EmptyNext(q)
      <4>1. d.force \in BOOLEAN
        BY DEF TypeOK, Drain
      <4> QED  BY <1>2, <3>2, <4>1, IdleIsDrain DEF TurnSucceeds, TypeOK
    <3> QED  BY <3>1, <3>2
  <2> QED  BY <2>1, <2>3, <2>4, <2>5, <2>6 DEF TypeOK, Sized
<1> QED  BY <1>1, <1>2

LEMMA TypeStep ==
    ASSUME TypeOK, [Next]_vars
    PROVE  TypeOK'
<1>1. ASSUME NEW m \in Messages, NEW s \in Settings,
             EnqueueDuplicate(m, s) \/ EnqueueRefused(m, s) \/ EnqueueAccepted(m, s)
      PROVE  TypeOK'
  BY <1>1, TypeEnqueue
<1>2. ASSUME NEW m \in Messages, Forget(m) PROVE TypeOK'
  BY <1>2 DEF Forget, TypeOK, queueVars
<1>3. CASE StartMain
  BY <1>3 DEF StartMain, TypeOK, queueVars
<1>4. CASE EndMain
  <2>1. current \in Queues \cup {NoQueue} /\ drain \in [Queues -> Drain]
    BY DEF TypeOK
  <2>2. ScheduleDrain(current, drain)
    BY <1>4 DEF EndMain
  <2>3. current' \in Queues \cup {NoQueue} /\ drain' \in [Queues -> Drain]
    BY <2>1, <2>2, ScheduleDrainIs
  <2> QED  BY <1>4, <2>3 DEF EndMain, TypeOK, queueVars
<1>5. CASE Clear
  <2>1. current \in Queues /\ current' = NoQueue
    BY <1>5 DEF Clear, TypeOK
  <2>2. /\ items' = [items EXCEPT ![current] = <<>>]
        /\ dropped' = [dropped EXCEPT ![current] = {}]
        /\ lastRun' = [lastRun EXCEPT ![current] = FALSE]
        /\ UNCHANGED <<settings, drain, mainRun, recent, route>>
    BY <1>5 DEF Clear
  <2>3. items' \in [Queues -> Seq(Messages)]
    BY <2>1, <2>2 DEF TypeOK
  <2>4. Sized(items')
    <3>1. PICK z \in Settings : Len(items[current]) <= z.cap
      BY <2>1 DEF TypeOK
    <3>2. Len(<<>>) = 0 /\ z.cap \in Nat
      BY FollowupQueueAssumption
    <3>3. Len(items'[current]) <= z.cap
      BY <2>1, <2>2, <3>2 DEF TypeOK
    <3>4. \A q \in Queues \ {current} : items'[q] = items[q]
      BY <2>1, <2>2 DEF TypeOK
    <3> QED  BY <3>3, <3>4 DEF TypeOK, Sized
  <2>5. fate' \in [Messages -> Fate]
    BY <1>5 DEF Clear, TypeOK, Fate
  <2> QED  BY <2>1, <2>2, <2>3, <2>4, <2>5 DEF TypeOK, Sized
<1>6. ASSUME NEW q \in Queues, DrainStep(q) PROVE TypeOK'
  BY <1>6, TypeAwait
<1>7. ASSUME NEW q \in Queues, TurnSucceeds(q) \/ TurnFails(q) PROVE TypeOK'
  BY <1>7, TypeTurn
<1>8. CASE UNCHANGED vars
  BY <1>8 DEF vars, TypeOK, queueVars
<1> QED  BY <1>1, <1>2, <1>3, <1>4, <1>5, <1>6, <1>7, <1>8 DEF Next

(* The state is well-typed, and no queue ever holds more messages than some *)
(* cap it was given (getFollowupQueue, applyQueueDropPolicy).               *)
THEOREM TypeCorrect == Spec => []TypeOK
<1>1. Init => TypeOK
  BY TypeInit
<1>2. TypeOK /\ [Next]_vars => TypeOK'
  BY TypeStep
<1> QED  BY <1>1, <1>2, PTL DEF Spec
-----------------------------------------------------------------------------
(* Every step leaves a drain as it is, ends it, lets it wait for its        *)
(* debounce timer, checks the routes, or is one of the four that start a    *)
(* turn.                                                                    *)
Starts(q) == CollectOne(q) \/ CollectBatch(q) \/ RunSummary(q) \/ RunHead(q)

LEMMA IdleNotRunning ==
    /\ Idle.pc \notin Running /\ Idle.pc # "collect"
    /\ \A f \in BOOLEAN : Debouncing(f).pc \notin Running /\ Debouncing(f).pc # "collect"
    /\ "collect" \notin Running
  BY DEF Idle, Debouncing, Running

LEMMA CheckIs ==
    ASSUME TypeOK, NEW q \in Queues, CollectCheck(q)
    PROVE  /\ UNCHANGED <<current, queueVars, items, dropped, mainRun, recent, fate, route>>
           /\ drain[q] # Idle /\ drain'[q] # Idle
           /\ drain'[q].pc = "collect" /\ drain'[q].checked = Elems(items[q])
           /\ \A p \in Queues \ {q} : drain'[p] = drain[p]
<1> DEFINE e == Elems(items[q])
           next == [Idle EXCEPT !.pc = "collect", !.checked = e]
<1>1. /\ UNCHANGED <<current, queueVars, items, dropped, mainRun, recent, fate, route>>
      /\ drain[q].pc = "debounce" /\ drain' = [drain EXCEPT ![q] = next]
  BY DEF CollectCheck, queueVars
<1>2. next.pc = "collect" /\ next.checked = e
  BY DEF Idle
<1>3. Idle.pc = "idle"
  BY DEF Idle
<1> HIDE DEF next, e
<1>4. drain'[q] = next /\ \A p \in Queues \ {q} : drain'[p] = drain[p]
  BY <1>1 DEF TypeOK
<1> QED  BY <1>1, <1>2, <1>3, <1>4 DEF e

LEMMA DrainChange ==
    ASSUME TypeOK, [Next]_vars, NEW q \in Queues, drain'[q].pc \in Running \cup {"collect"}
    PROVE  \/ drain'[q] = drain[q]
           \/ Starts(q) /\ drain'[q].pc \in Running
           \/ CollectCheck(q) /\ drain'[q].pc = "collect"
<1>1. ASSUME CanOpen, AfterEnqueue PROVE drain'[q] = drain[q]
  BY <1>1, AfterEnqueueIs, IdleNotRunning
<1>2. ASSUME NEW m \in Messages, NEW s \in Settings,
             EnqueueDuplicate(m, s) \/ EnqueueRefused(m, s) \/ EnqueueAccepted(m, s)
      PROVE  drain'[q] = drain[q]
  BY <1>1, <1>2 DEF EnqueueDuplicate, EnqueueRefused, EnqueueAccepted
<1>3. ASSUME NEW p \in Queues, Finish(p) PROVE drain'[q] = drain[q]
  <2>1. drain \in [Queues -> Drain]
    BY DEF TypeOK
  <2>2. drain'[q] = [drain EXCEPT ![p] = Idle][q]
    BY <1>3, FinishIs, IdleNotRunning
  <2> QED  BY <2>1, <2>2, IdleNotRunning
<1>4. CASE EndMain
  BY <1>4, ScheduleDrainIs, IdleNotRunning DEF EndMain, TypeOK
<1>5. ASSUME NEW p \in Queues, DrainStep(p), p # q PROVE drain'[q] = drain[q]
  <2>1. CASE GiveUp(p)
    BY <1>3, <2>1 DEF GiveUp
  <2>2. CASE CollectCheck(p)
    BY <1>5, <2>2, CheckIs
  <2>3. CASE ~GiveUp(p) /\ ~CollectCheck(p)
    BY <1>5, <2>3 DEF DrainStep, CollectOne, CollectBatch, RunSummary, RunHead, Await, TypeOK
  <2> QED  BY <2>1, <2>2, <2>3
<1>11. ASSUME Starts(q) PROVE drain'[q].pc \in Running
  BY <1>11 DEF Starts, CollectOne, CollectBatch, RunSummary, RunHead, Await, TypeOK, Running
<1>12. ASSUME CollectCheck(q) PROVE drain'[q].pc = "collect"
  BY <1>12, CheckIs
<1>6. CASE DrainStep(q)
  BY <1>3, <1>6, <1>11, <1>12 DEF DrainStep, Starts, GiveUp
<1>7. ASSUME NEW p \in Queues, TurnSucceeds(p) PROVE drain'[q] = drain[q]
  <2>1. CASE EmptyNext(p)
    BY <1>3, <1>7, <2>1 DEF TurnSucceeds
  <2>2. CASE ~EmptyNext(p)
    <3>1. drain' = [drain EXCEPT ![p] = Debouncing(drain[p].force)] /\ drain[p].force \in BOOLEAN
      BY <1>7, <2>2 DEF TurnSucceeds, TypeOK, Drain
    <3> QED  BY <3>1, IdleNotRunning DEF TypeOK
  <2> QED  BY <2>1, <2>2
<1>8. ASSUME NEW p \in Queues, TurnFails(p) PROVE drain'[q] = drain[q]
  BY <1>3, <1>8 DEF TurnFails
<1>9. ASSUME NEW m \in Messages, Forget(m) PROVE drain'[q] = drain[q]
  BY <1>9 DEF Forget
<1>10. CASE StartMain \/ Clear \/ UNCHANGED vars
  BY <1>10 DEF StartMain, Clear, vars
<1> QED  BY <1>2, <1>4, <1>5, <1>6, <1>7, <1>8, <1>9, <1>10 DEF Next

LEMMA RouteKept == ASSUME [Next]_vars PROVE route' = route
<1>1. ASSUME NEW m \in Messages, NEW s \in Settings,
             EnqueueDuplicate(m, s) \/ EnqueueRefused(m, s) \/ EnqueueAccepted(m, s)
      PROVE  route' = route
  BY <1>1 DEF EnqueueDuplicate, EnqueueRefused, EnqueueAccepted
<1>2. ASSUME NEW q \in Queues, DrainStep(q) \/ TurnSucceeds(q) \/ TurnFails(q)
      PROVE  route' = route
  BY <1>2 DEF DrainStep, CollectOne, CollectCheck, CollectBatch, RunSummary, RunHead, GiveUp,
              Await, TurnSucceeds, TurnFails
<1>3. ASSUME NEW m \in Messages, Forget(m) PROVE route' = route
  BY <1>3 DEF Forget
<1>4. CASE StartMain \/ EndMain \/ Clear \/ UNCHANGED vars
  BY <1>4 DEF StartMain, EndMain, Clear, vars
<1> QED  BY <1>1, <1>2, <1>3, <1>4 DEF Next

-----------------------------------------------------------------------------
(* Without clears a drain works on the registry's queue only.               *)
LEMMA StrandedInit == Init => OneDrain /\ NotStranded
  BY DEF Init, OneDrain, NotStranded

(* After a drain was scheduled on the registry's queue.                     *)
LEMMA AfterSchedule ==
    ASSUME NEW cur \in Queues \cup {NoQueue}, NEW d \in [Queues -> Drain],
           ScheduleDrain(cur, d), \A q \in Queues : d[q] # Idle => q = cur
    PROVE  OneDrain' /\ NotStranded'
<1>1. Scheduled(cur, d)
  BY ScheduleDrainIs
<1>2. NoQueue \notin Queues
  BY FollowupQueueAssumption
<1>3. CASE current' = cur /\ drain' = d /\ (cur = NoQueue \/ d[cur] # Idle)
  BY <1>2, <1>3 DEF OneDrain, NotStranded
<1>4. CASE cur # NoQueue /\ d[cur] = Idle /\ current' = NoQueue /\ drain' = d
  BY <1>2, <1>4 DEF OneDrain, NotStranded
<1>5. CASE /\ cur # NoQueue /\ d[cur] = Idle
           /\ current' = cur /\ drain' = [d EXCEPT ![cur] = Debouncing(FALSE)]
  BY <1>2, <1>5, IdleIsDrain DEF OneDrain, NotStranded
<1> QED  BY <1>1, <1>3, <1>4, <1>5 DEF Scheduled

LEMMA AfterFinish ==
    ASSUME TypeOK, OneDrain, NEW q \in Queues, drain[q] # Idle, Finish(q)
    PROVE  OneDrain' /\ NotStranded'
<1> DEFINE d == [drain EXCEPT ![q] = Idle]
<1>1. d \in [Queues -> Drain] /\ current \in Queues \cup {NoQueue}
  BY IdleIsDrain DEF TypeOK
<1>2. \A p \in Queues : d[p] = Idle
  BY DEF OneDrain, TypeOK
<1>3. CASE EmptyNext(q)
  <2>1. current' = NoQueue /\ drain' = d
    BY <1>3 DEF Finish
  <2> QED  BY <1>2, <2>1 DEF OneDrain, NotStranded
<1>4. CASE ~EmptyNext(q)
  <2>1. ScheduleDrain(current, d)
    BY <1>4 DEF Finish
  <2> HIDE DEF d
  <2> QED  BY <1>1, <1>2, <2>1, AfterSchedule
<1> QED  BY <1>3, <1>4

LEMMA AfterEnqueueStranded ==
    ASSUME TypeOK, OneDrain, CanOpen, AfterEnqueue, UNCHANGED mainRun
    PROVE  OneDrain' /\ NotStranded'
<1>1. Opened \in Queues /\ drain \in [Queues -> Drain]
  BY OpenedIs DEF TypeOK
<1>2. \A q \in Queues : drain[q] # Idle => q = Opened
  BY OpenedIs, FollowupQueueAssumption DEF OneDrain
<1>3. PICK active \in RunActive : IF active THEN current' = Opened /\ drain' = drain
                                            ELSE ScheduleDrain(Opened, drain)
  BY DEF AfterEnqueue
<1>4. CASE active
  <2>1. mainRun \/ \E q \in Queues : drain[q].pc \in Running
    BY <1>3, <1>4 DEF RunActive
  <2>2. mainRun \/ drain[Opened] # Idle
    BY <1>2, <2>1, IdleNotRunning
  <2> QED  BY <1>2, <1>3, <1>4, <2>2 DEF OneDrain, NotStranded
<1>5. CASE ~active
  BY <1>1, <1>2, <1>3, <1>5, AfterSchedule
<1> QED  BY <1>4, <1>5

LEMMA StrandedStep ==
    ASSUME ~MayClear, TypeOK, OneDrain, NotStranded, [Next]_vars
    PROVE  OneDrain' /\ NotStranded'
<1>1. ASSUME NEW m \in Messages, NEW s \in Settings,
             EnqueueDuplicate(m, s) \/ EnqueueRefused(m, s) \/ EnqueueAccepted(m, s)
      PROVE  OneDrain' /\ NotStranded'
  BY <1>1, AfterEnqueueStranded DEF EnqueueDuplicate, EnqueueRefused, EnqueueAccepted
<1>2. ASSUME NEW m \in Messages, Forget(m) PROVE OneDrain' /\ NotStranded'
  BY <1>2 DEF Forget, OneDrain, NotStranded, Empty, queueVars
<1>3. CASE StartMain
  BY <1>3 DEF StartMain, OneDrain, NotStranded, Empty, queueVars
<1>4. CASE EndMain
  BY <1>4, AfterSchedule DEF EndMain, OneDrain, TypeOK
<1>5. CASE Clear
  BY <1>5 DEF Clear
<1>6. ASSUME NEW q \in Queues, DrainStep(q) PROVE OneDrain' /\ NotStranded'
  <2>1. drain[q] # Idle
    BY <1>6, IdleIsDrain DEF DrainStep, CollectOne, CollectCheck, CollectBatch, RunSummary,
                               RunHead, GiveUp
  <2>2. CASE GiveUp(q)
    BY <2>1, <2>2, AfterFinish DEF GiveUp
  <2>3. ASSUME NEW pc \in Running, NEW batch, NEW sum, NEW force,
               Await(q, pc, batch, sum, force)
        PROVE  OneDrain' /\ NotStranded'
    <3>1. /\ drain'[q] # Idle
          /\ \A p \in Queues \ {q} : drain'[p] = drain[p]
          /\ UNCHANGED <<current, items, dropped, mainRun>>
      BY <2>3, IdleNotRunning DEF Await, TypeOK, queueVars
    <3> QED  BY <2>1, <3>1 DEF OneDrain, NotStranded, Empty
  <2>4. {"one", "batch", "summary"} = Running
    BY DEF Running
  <2>5. CASE CollectCheck(q)
    BY <2>1, <2>5, CheckIs DEF OneDrain, NotStranded, Empty
  <2> QED  BY <1>6, <2>2, <2>3, <2>4, <2>5
           DEF DrainStep, CollectOne, CollectBatch, RunSummary, RunHead
<1>7. ASSUME NEW q \in Queues, TurnSucceeds(q) PROVE OneDrain' /\ NotStranded'
  <2>1. drain[q] # Idle
    BY <1>7, IdleNotRunning DEF TurnSucceeds
  <2>2. CASE EmptyNext(q)
    BY <1>7, <2>1, <2>2, AfterFinish DEF TurnSucceeds
  <2>3. CASE ~EmptyNext(q)
    <3>1. /\ drain' = [drain EXCEPT ![q] = Debouncing(drain[q].force)]
          /\ current' = current /\ drain[q].force \in BOOLEAN
      BY <1>7, <2>3 DEF TurnSucceeds, TypeOK, Drain
    <3> QED  BY <2>1, <3>1, IdleIsDrain DEF OneDrain, NotStranded, TypeOK
  <2> QED  BY <2>2, <2>3
<1>8. ASSUME NEW q \in Queues, TurnFails(q) PROVE OneDrain' /\ NotStranded'
  <2>1. drain[q] # Idle
    BY <1>8, IdleNotRunning DEF TurnFails
  <2> QED  BY <1>8, <2>1, AfterFinish DEF TurnFails
<1>9. CASE UNCHANGED vars
  BY <1>9 DEF vars, OneDrain, NotStranded, Empty, queueVars
<1> QED  BY <1>1, <1>2, <1>3, <1>4, <1>5, <1>6, <1>7, <1>8, <1>9 DEF Next

(* Unless the queues are cleared, a queue with work is being drained, or    *)
(* will be when the active turn ends: no message waits for somebody else to *)
(* send another one (agent-runner's second look, beginQueueDrain).          *)
THEOREM NeverStranded == ASSUME ~MayClear PROVE Spec => []NotStranded
<1>1. Init => OneDrain /\ NotStranded
  BY StrandedInit
<1>2. ASSUME TypeOK, OneDrain, NotStranded, [Next]_vars PROVE OneDrain' /\ NotStranded'
  BY <1>2, StrandedStep
<1>3. Spec => []TypeOK
  BY TypeCorrect
<1> QED  BY <1>1, <1>2, <1>3, PTL DEF Spec
-----------------------------------------------------------------------------
(* No message is run twice.                                                 *)
LEMMA OnceInit == Init => Known /\ Once /\ Removable
<1> SUFFICES ASSUME Init PROVE Known /\ Once /\ Removable
  OBVIOUS
<1>1. \A q \in Queues : items[q] = <<>> /\ drain[q].pc \notin Running
  BY IdleNotRunning DEF Init
<1>2. \A m \in Messages : fate[m] # "ran"
  BY DEF Init
<1> QED  BY <1>1, <1>2 DEF Known, Once, Removable

(* Scheduling and ending drains gives no queue a new life and no drain a    *)
(* new turn.                                                                *)
Moves(q) == /\ Live(q)' => Live(q)
            /\ drain'[q].pc \in Running => drain'[q] = drain[q]

LEMMA EnqueueMoves ==
    ASSUME TypeOK, CanOpen, AfterEnqueue, NEW q \in Queues
    PROVE  /\ Live(q)' => Live(q) \/ q = Opened
           /\ drain'[q].pc \in Running => drain'[q] = drain[q]
<1>1. drain'[q].pc \in Running => drain'[q] = drain[q]
  BY AfterEnqueueIs, IdleNotRunning
<1>2. drain \in [Queues -> Drain] /\ Opened \in Queues
  BY OpenedIs DEF TypeOK
<1>3. CASE current' = Opened /\ drain' = drain
  BY <1>1, <1>3 DEF Live
<1>4. CASE Scheduled(Opened, drain)
  BY <1>1, <1>2, <1>4, FollowupQueueAssumption DEF Live, Scheduled
<1> QED  BY <1>1, <1>3, <1>4, AfterEnqueueIs

LEMMA FinishMoves ==
    ASSUME TypeOK, NEW p \in Queues, drain[p] # Idle, Finish(p), NEW q \in Queues
    PROVE  Moves(q)
<1> DEFINE d == [drain EXCEPT ![p] = Idle]
<1>1. d \in [Queues -> Drain] /\ d[p] = Idle /\ \A r \in Queues \ {p} : d[r] = drain[r]
  BY IdleIsDrain DEF TypeOK
<1>2. /\ (EmptyNext(p) /\ current' = NoQueue /\ drain' = d) \/ Scheduled(current, d)
      /\ \A r \in Queues : drain'[r] = d[r] \/ drain'[r] = Debouncing(FALSE)
  BY FinishIs
<1> HIDE DEF d
<1>3. drain'[q].pc \in Running => drain'[q] = drain[q]
  BY <1>1, <1>2, IdleNotRunning
<1>4. CASE current' = NoQueue /\ drain' = d
  BY <1>1, <1>3, <1>4, FollowupQueueAssumption DEF Moves, Live
<1>5. CASE Scheduled(current, d)
  BY <1>1, <1>3, <1>5, FollowupQueueAssumption DEF Moves, Live, Scheduled, TypeOK
<1> QED  BY <1>2, <1>4, <1>5

LEMMA ScheduleMoves ==
    ASSUME TypeOK, ScheduleDrain(current, drain), NEW q \in Queues
    PROVE  Moves(q)
<1>1. /\ Scheduled(current, drain)
      /\ \A r \in Queues : drain'[r] = drain[r] \/ drain'[r] = Debouncing(FALSE)
  BY ScheduleDrainIs DEF TypeOK
<1>2. drain'[q].pc \in Running => drain'[q] = drain[q]
  BY <1>1, IdleNotRunning
<1> QED  BY <1>1, <1>2, FollowupQueueAssumption DEF Moves, Live, Scheduled, TypeOK

(* What is left of a queue that loses some items at the front.              *)
RestOf(s, r) ==
    \E k \in Nat : \A i \in 1 .. Len(r) : i + k \in 1 .. Len(s) /\ r[i] = s[i + k]

LEMMA RestIs == ASSUME NEW s \in Seq(Messages) PROVE RestOf(s, s)
<1>1. \A i \in 1 .. Len(s) : i + 0 \in 1 .. Len(s) /\ s[i] = s[i + 0]
  OBVIOUS
<1> QED  BY <1>1 DEF RestOf

(* A step that only takes items away keeps what is known of the rest.       *)
LEMMA Shrink ==
    ASSUME TypeOK, TypeOK', Known, Once, Removable, recent \subseteq recent' \cup Forgettable,
           \A q \in Queues :
              /\ Live(q)' => items'[q] = <<>> \/ (Live(q) /\ RestOf(items[q], items'[q]))
              /\ drain'[q].pc \in Running => drain'[q] = drain[q],
           \A m \in Messages \ Forgettable : fate'[m] = "ran" => m \in recent,
           \A q \in Queues : Live(q)' =>
              \A i \in 1 .. Len(items'[q]) :
                  items'[q][i] \notin Forgettable => fate'[items'[q][i]] # "ran"
    PROVE  Known' /\ Once' /\ Removable'
<1>1. \A q \in Queues : items[q] \in Seq(Messages) /\ items'[q] \in Seq(Messages)
  BY DEF TypeOK
<1>2. ASSUME NEW q \in Queues, Live(q)', NEW i \in 1 .. Len(items'[q])
      PROVE  Live(q) /\ RestOf(items[q], items'[q])
  BY <1>1, <1>2
<1>3. Known'
  <2>1. ASSUME NEW q \in Queues, Live(q)', NEW i \in 1 .. Len(items'[q]),
               items'[q][i] \notin Forgettable
        PROVE  items'[q][i] \in recent'
    <3>1. PICK k \in Nat : \A x \in 1 .. Len(items'[q]) :
                              x + k \in 1 .. Len(items[q]) /\ items'[q][x] = items[q][x + k]
      BY <1>2, <2>1 DEF RestOf
    <3> QED  BY <1>2, <2>1, <3>1 DEF Known
  <2>2. \A q \in Queues : drain'[q].pc \in Running =>
          \A k \in 1 .. Len(drain'[q].batch) :
              drain'[q].batch[k] \notin Forgettable => drain'[q].batch[k] \in recent'
    BY DEF Known
  <2> QED  BY <2>1, <2>2 DEF Known
<1>4. Once'
  <2>1. ASSUME NEW p \in Queues, NEW q \in Queues, Live(p)', Live(q)',
               NEW i \in 1 .. Len(items'[p]), NEW j \in 1 .. Len(items'[q]),
               items'[p][i] = items'[q][j], p = q \/ items'[p][i] \notin Forgettable
        PROVE  p = q /\ i = j
    <3>1. PICK k \in Nat : \A x \in 1 .. Len(items'[p]) :
                              x + k \in 1 .. Len(items[p]) /\ items'[p][x] = items[p][x + k]
      BY <1>2, <2>1 DEF RestOf
    <3>2. PICK l \in Nat : \A x \in 1 .. Len(items'[q]) :
                              x + l \in 1 .. Len(items[q]) /\ items'[q][x] = items[q][x + l]
      BY <1>2, <2>1 DEF RestOf
    <3>3. /\ i + k \in 1 .. Len(items[p]) /\ j + l \in 1 .. Len(items[q])
          /\ items[p][i + k] = items[q][j + l]
          /\ p = q \/ items[p][i + k] \notin Forgettable
      BY <2>1, <3>1, <3>2
    <3>4. p = q /\ i + k = j + l
      BY <1>2, <2>1, <3>3 DEF Once
    <3>5. j \in 1 .. Len(items'[p]) /\ items'[p][j] = items'[p][i]
      BY <2>1, <3>4
    <3>6. /\ i + k \in 1 .. Len(items[p]) /\ j + k \in 1 .. Len(items[p])
          /\ items[p][i + k] = items[p][j + k]
      BY <2>1, <3>1, <3>5
    <3>7. i + k = j + k
      BY <1>2, <2>1, <3>6 DEF Once
    <3>8. i \in Int /\ j \in Int
      OBVIOUS
    <3> QED  BY <3>4, <3>7, <3>8
  <2> QED  BY <2>1 DEF Once
<1>5. Removable'
  <2>1. ASSUME NEW p \in Queues, NEW q \in Queues, Live(p)', drain'[q].pc \in Running,
               NEW i \in 1 .. Len(items'[p]), NEW b \in 1 .. Len(drain'[q].batch),
               items'[p][i] = drain'[q].batch[b], items'[p][i] \notin Forgettable
        PROVE  p = q /\ i <= Taken(q)'
    <3>1. drain'[q] = drain[q] /\ Taken(q)' = Taken(q) /\ Taken(q) \in Nat
      <4>1. drain'[q] = drain[q] /\ drain[q] \in Drain
        BY <2>1 DEF TypeOK
      <4>2. Len(drain[q].batch) \in Nat
        BY <4>1 DEF Drain
      <4> QED  BY <4>1, <4>2 DEF Taken
    <3>2. PICK k \in Nat : \A x \in 1 .. Len(items'[p]) :
                              x + k \in 1 .. Len(items[p]) /\ items'[p][x] = items[p][x + k]
      BY <1>2, <2>1 DEF RestOf
    <3>3. /\ i + k \in 1 .. Len(items[p]) /\ b \in 1 .. Len(drain[q].batch)
          /\ items[p][i + k] = drain[q].batch[b] /\ items[p][i + k] \notin Forgettable
      BY <2>1, <3>1, <3>2
    <3>4. p = q /\ i + k <= Taken(q)
      BY <1>2, <2>1, <3>1, <3>3 DEF Removable
    <3> QED  BY <3>1, <3>4
  <2> QED  BY <2>1 DEF Removable
<1> QED  BY <1>3, <1>4, <1>5

(* Steps that leave the items as they are, or empty some of them.           *)
LEMMA ShrinkQuiet ==
    ASSUME TypeOK, TypeOK', Known, Once, Removable, recent \subseteq recent' \cup Forgettable,
           \A q \in Queues :
              /\ Live(q)' => items'[q] = <<>> \/ (Live(q) /\ items'[q] = items[q])
              /\ drain'[q].pc \in Running => drain'[q] = drain[q],
           \A m \in Messages : fate'[m] = "ran" => fate[m] = "ran"
    PROVE  Known' /\ Once' /\ Removable'
<1>1. \A q \in Queues : items[q] \in Seq(Messages) /\ items'[q] \in Seq(Messages)
  BY DEF TypeOK
<1>2. \A q \in Queues : RestOf(items[q], items[q])
  BY <1>1, RestIs
<1>3. \A m \in Messages \ Forgettable : fate'[m] = "ran" => m \in recent
  BY DEF Known
<1>4. ASSUME NEW q \in Queues, Live(q)', NEW i \in 1 .. Len(items'[q]),
             items'[q][i] \notin Forgettable
      PROVE  fate'[items'[q][i]] # "ran"
  <2>1. Live(q) /\ items'[q] = items[q]
    BY <1>1, <1>4
  <2> QED  BY <1>1, <1>4, <2>1 DEF Known
<1> QED  BY <1>2, <1>3, <1>4, Shrink

LEMMA OnceEnqueue ==
    ASSUME TypeOK, TypeOK', Known, Once, Removable,
           NEW m \in Messages, NEW s \in Settings,
           EnqueueDuplicate(m, s) \/ EnqueueRefused(m, s)
    PROVE  Known' /\ Once' /\ Removable'
<1>1. CanOpen /\ AfterEnqueue /\ recent' = recent
  BY DEF EnqueueDuplicate, EnqueueRefused
<1>2. \A q \in Queues : /\ Live(q)' => Live(q) \/ q = Opened
                        /\ drain'[q].pc \in Running => drain'[q] = drain[q]
  BY <1>1, EnqueueMoves
<1>3. /\ Opened \in Queues /\ (current # NoQueue => Opened = current)
      /\ current = NoQueue => OpenItems = <<>>
      /\ current # NoQueue => OpenItems = items[current]
  BY <1>1, OpenedIs
<1>4. CASE EnqueueDuplicate(m, s)
  <2>1. items' = [items EXCEPT ![Opened] = OpenItems] /\ fate' = fate
    BY <1>4 DEF EnqueueDuplicate
  <2>2. \A q \in Queues : Live(q)' => items'[q] = <<>> \/ (Live(q) /\ items'[q] = items[q])
    BY <1>2, <1>3, <2>1 DEF Live, TypeOK
  <2> QED  BY <1>1, <1>2, <2>1, <2>2, ShrinkQuiet
<1>5. CASE EnqueueRefused(m, s)
  <2>1. items' = items /\ fate' = [fate EXCEPT ![m] = "refused"] /\ Len(OpenItems) >= s.cap
    BY <1>5 DEF EnqueueRefused
  <2>2. current # NoQueue
    BY <1>3, <2>1, FollowupQueueAssumption
  <2>3. \A q \in Queues : Live(q)' => Live(q)
    BY <1>2, <1>3, <2>2 DEF Live
  <2>4. \A x \in Messages : fate'[x] = "ran" => fate[x] = "ran"
    BY <2>1 DEF TypeOK
  <2> QED  BY <1>1, <1>2, <2>1, <2>3, <2>4, ShrinkQuiet
<1> QED  BY <1>4, <1>5

LEMMA OnceAccepted ==
    ASSUME TypeOK, TypeOK', Known, Once, Removable,
           NEW m \in Messages, NEW s \in Settings, EnqueueAccepted(m, s)
    PROVE  Known' /\ Once' /\ Removable'
<1> DEFINE n == Excess(OpenItems, s.cap)
           t == Append(DropFirst(OpenItems, n), m)
           o == Opened
<1>1. CanOpen /\ AfterEnqueue /\ m \notin recent \cup Elems(OpenItems) /\ recent' = recent \cup {m}
  BY DEF EnqueueAccepted, IsDuplicate
<1>2. \A q \in Queues : /\ Live(q)' => Live(q) \/ q = o
                        /\ drain'[q].pc \in Running => drain'[q] = drain[q]
  BY <1>1, EnqueueMoves
<1>3. /\ o \in Queues /\ OpenItems \in Seq(Messages)
      /\ current = NoQueue => OpenItems = <<>>
      /\ current # NoQueue => o = current /\ OpenItems = items[current]
  BY <1>1, OpenedIs
<1>4. s.cap \in Nat \ {0}
  BY FollowupQueueAssumption
<1>5. /\ n \in 0 .. Len(OpenItems) /\ t \in Seq(Messages)
      /\ Len(t) = Len(OpenItems) - n + 1
      /\ \A i \in 1 .. Len(OpenItems) - n : t[i] = OpenItems[i + n]
      /\ t[Len(t)] = m
  BY <1>3, <1>4, MakeRoom
<1>6. items' = [items EXCEPT ![o] = t]
  BY DEF EnqueueAccepted
<1>7. \A x \in Messages : fate'[x] = "ran" => fate[x] = "ran" /\ x # m
  BY DEF EnqueueAccepted
<1> HIDE DEF n, t, o
<1>8. items'[o] = t /\ \A q \in Queues \ {o} : items'[q] = items[q]
  BY <1>3, <1>6 DEF TypeOK
<1>9. \A q \in Queues : items[q] \in Seq(Messages) /\ items'[q] \in Seq(Messages)
  BY DEF TypeOK
(* An item of a live queue is the newcomer, at the end of the opened queue, *)
(* or was further back in the same queue.                                   *)
<1>10. ASSUME NEW q \in Queues, Live(q)', NEW i \in 1 .. Len(items'[q])
       PROVE  \/ q = o /\ i = Len(t) /\ items'[q][i] = m
              \/ /\ Live(q) /\ (q = o => i < Len(t))
                 /\ i + (IF q = o THEN n ELSE 0) \in 1 .. Len(items[q])
                 /\ items'[q][i] = items[q][i + (IF q = o THEN n ELSE 0)]
  <2>1. CASE q # o
    BY <1>2, <1>8, <1>9, <1>10, <2>1
  <2>2. CASE q = o /\ i = Len(t)
    BY <1>5, <1>8, <2>2
  <2>3. CASE q = o /\ i # Len(t)
    <3>1. i \in 1 .. Len(OpenItems) - n /\ i < Len(t) /\ Len(OpenItems) \in Nat
      BY <1>3, <1>5, <1>8, <1>10, <2>3
    <3>2. current # NoQueue
      BY <1>3, <1>5, <3>1
    <3>3. Live(q) /\ OpenItems = items[q]
      BY <1>3, <2>3, <3>2 DEF Live
    <3>4. i + n \in 1 .. Len(items[q]) /\ items'[q][i] = items[q][i + n]
      BY <1>5, <1>8, <2>3, <3>1, <3>3
    <3> QED  BY <2>3, <3>1, <3>3, <3>4
  <2> QED  BY <2>1, <2>2, <2>3
<1> DEFINE k(q) == IF q = o THEN n ELSE 0
<1>11. \A q \in Queues : k(q) \in Nat
  BY <1>3, <1>5
<1>12. ASSUME NEW q \in Queues, Live(q), NEW i \in 1 .. Len(items[q]),
              items[q][i] \notin Forgettable
       PROVE  items[q][i] \in recent /\ items[q][i] # m /\ fate[items[q][i]] # "ran"
  BY <1>1, <1>12 DEF Known
<1>13. ASSUME current # NoQueue, NEW i \in 1 .. Len(items[o]) PROVE items[o][i] # m
  BY <1>1, <1>3, <1>13, ElemsAre
<1>14. Known'
  <2>1. \A x \in Messages \ Forgettable : fate'[x] = "ran" => x \in recent'
    BY <1>1, <1>7 DEF Known
  <2>2. ASSUME NEW q \in Queues, Live(q)', NEW i \in 1 .. Len(items'[q]),
               items'[q][i] \notin Forgettable
        PROVE  items'[q][i] \in recent' /\ fate'[items'[q][i]] # "ran"
    <3>1. CASE items'[q][i] = m
      BY <1>1, <1>7, <3>1
    <3>2. CASE items'[q][i] # m
      <4>1. /\ Live(q) /\ i + k(q) \in 1 .. Len(items[q])
            /\ items'[q][i] = items[q][i + k(q)]
        BY <1>10, <2>2, <3>2
      <4>2. items'[q][i] \in Messages
        BY <1>9, <2>2
      <4> HIDE DEF k
      <4> QED  BY <1>1, <1>7, <1>12, <2>2, <4>1, <4>2
    <3> QED  BY <3>1, <3>2
  <2>3. \A q \in Queues : drain'[q].pc \in Running =>
          \A b \in 1 .. Len(drain'[q].batch) :
              drain'[q].batch[b] \notin Forgettable => drain'[q].batch[b] \in recent'
    BY <1>1, <1>2 DEF Known
  <2> QED  BY <2>1, <2>2, <2>3 DEF Known
<1>15. Once'
  <2>1. ASSUME NEW p \in Queues, NEW q \in Queues, Live(p)', Live(q)',
               NEW i \in 1 .. Len(items'[p]), NEW j \in 1 .. Len(items'[q]),
               items'[p][i] = items'[q][j], p = q \/ items'[p][i] \notin Forgettable
        PROVE  p = q /\ i = j
    <3> DEFINE Newcomer(r, x) == r = o /\ x = Len(t)
               Stayed(r, x) == /\ Live(r) /\ x + k(r) \in 1 .. Len(items[r])
                               /\ items'[r][x] = items[r][x + k(r)]
    <3>1. /\ (Newcomer(p, i) /\ items'[p][i] = m) \/ Stayed(p, i)
          /\ (Newcomer(q, j) /\ items'[q][j] = m) \/ Stayed(q, j)
      BY <1>10, <2>1
    <3>2. CASE Stayed(p, i) /\ Stayed(q, j)
      <4> HIDE DEF k
      <4>1. items[p][i + k(p)] = items[q][j + k(q)]
        BY <2>1, <3>2
      <4>2. p = q \/ items[p][i + k(p)] \notin Forgettable
        BY <2>1, <3>2
      <4>3. p = q /\ i + k(p) = j + k(q)
        BY <3>2, <4>1, <4>2 DEF Once
      <4> QED  BY <1>11, <4>3
    <3>3. ASSUME NEW r \in Queues, NEW x \in 1 .. Len(items'[r]), Stayed(r, x),
                 r = o \/ items'[r][x] \notin Forgettable
          PROVE  items'[r][x] # m
      <4> HIDE DEF k
      <4>1. CASE r = o /\ current # NoQueue
        BY <1>13, <3>3, <4>1
      <4>2. CASE r = o /\ current = NoQueue
        <5>1. drain[o] = Idle
          BY <1>1, <4>2, OpenedIs DEF o
        <5> QED  BY <3>3, <4>2, <5>1, FollowupQueueAssumption DEF Live
      <4>3. CASE items'[r][x] \notin Forgettable
        BY <1>12, <3>3, <4>3
      <4> QED  BY <3>3, <4>1, <4>2, <4>3
    <3>4. CASE Newcomer(p, i) /\ Newcomer(q, j)
      BY <3>4
    <3>5. CASE Newcomer(p, i) /\ items'[p][i] = m /\ Stayed(q, j)
      BY <2>1, <3>3, <3>5
    <3>6. CASE Newcomer(q, j) /\ items'[q][j] = m /\ Stayed(p, i)
      BY <2>1, <3>3, <3>6
    <3> QED  BY <3>1, <3>2, <3>4, <3>5, <3>6
  <2> QED  BY <2>1 DEF Once
<1>16. Removable'
  <2>1. ASSUME NEW p \in Queues, NEW q \in Queues, Live(p)', drain'[q].pc \in Running,
               NEW i \in 1 .. Len(items'[p]), NEW b \in 1 .. Len(drain'[q].batch),
               items'[p][i] = drain'[q].batch[b], items'[p][i] \notin Forgettable
        PROVE  p = q /\ i <= Taken(q)'
    <3>1. drain'[q] = drain[q] /\ Taken(q)' = Taken(q) /\ Taken(q) \in Nat
      <4>1. drain'[q] = drain[q]
        BY <1>2, <2>1
      <4> QED  BY <4>1 DEF Taken, TypeOK, Drain
    <3>2. drain[q].batch[b] # m
      BY <1>1, <2>1, <3>1 DEF Known
    <3>3. /\ Live(p) /\ i + k(p) \in 1 .. Len(items[p])
          /\ items'[p][i] = items[p][i + k(p)]
      BY <1>10, <2>1, <3>1, <3>2
    <3> HIDE DEF k
    <3>4. p = q /\ i + k(p) <= Taken(q)
      BY <2>1, <3>1, <3>3 DEF Removable
    <3> QED  BY <1>11, <3>1, <3>4
  <2> QED  BY <2>1 DEF Removable
<1> QED  BY <1>14, <1>15, <1>16

(* A turn starts on the first item or on all of them.                       *)
LEMMA StartedIs ==
    ASSUME TypeOK, NEW o \in Queues, Starts(o)
    PROVE  /\ UNCHANGED <<current, items, recent, fate>>
           /\ \A q \in Queues \ {o} : drain'[q] = drain[q]
           /\ drain[o].pc \in {"debounce", "collect"} /\ drain'[o].pc \in Running
           /\ Len(drain'[o].batch) \in Nat /\ Len(drain'[o].batch) <= Taken(o)'
           /\ Len(drain'[o].batch) <= Len(items[o])
           /\ \A b \in 1 .. Len(drain'[o].batch) : drain'[o].batch[b] = items[o][b]
<1>1. /\ UNCHANGED <<current, items, recent, fate>>
      /\ \A q \in Queues \ {o} : drain'[q] = drain[q]
      /\ drain[o].pc \in {"debounce", "collect"} /\ drain'[o].pc \in Running
  BY DEF Starts, CollectOne, CollectBatch, RunSummary, RunHead, Await, TypeOK, Drain,
         queueVars, Running
<1>2. \A q \in Queues : items[q] \in Seq(Messages)
  BY DEF TypeOK
<1>3. /\ Len(drain'[o].batch) \in Nat /\ Len(drain'[o].batch) <= Taken(o)'
      /\ Len(drain'[o].batch) <= Len(items[o])
      /\ \A b \in 1 .. Len(drain'[o].batch) : drain'[o].batch[b] = items[o][b]
  <2>1. CASE CollectOne(o) \/ RunHead(o)
    <3>1. drain'[o].pc = "one" /\ drain'[o].batch = <<Head(items[o])>> /\ items[o] # <<>>
      BY <2>1 DEF CollectOne, RunHead, Await, TypeOK
    <3>2. /\ Len(<<Head(items[o])>>) = 1 /\ <<Head(items[o])>>[1] = items[o][1]
          /\ Len(items[o]) \in Nat /\ Len(items[o]) >= 1
      BY <1>2, <3>1
    <3> QED  BY <3>1, <3>2 DEF Taken
  <2>2. CASE CollectBatch(o)
    <3>1. drain'[o].pc = "batch" /\ drain'[o].batch = items[o]
      BY <2>2 DEF CollectBatch, Await, TypeOK
    <3> QED  BY <1>2, <3>1 DEF Taken
  <2>3. CASE RunSummary(o)
    <3>1. drain'[o].pc = "summary" /\ drain'[o].batch = <<>>
      BY <2>3 DEF RunSummary, Await, TypeOK
    <3> QED  BY <1>2, <3>1 DEF Taken
  <2> QED  BY <2>1, <2>2, <2>3 DEF Starts
<1> QED  BY <1>1, <1>3

LEMMA OnceStarts ==
    ASSUME TypeOK, TypeOK', Known, Once, Removable, NEW o \in Queues, Starts(o)
    PROVE  Known' /\ Once' /\ Removable'
<1>1. /\ UNCHANGED <<current, items, recent, fate>>
      /\ \A q \in Queues \ {o} : drain'[q] = drain[q]
      /\ drain[o].pc \in {"debounce", "collect"} /\ drain'[o].pc \in Running
  BY StartedIs
<1>2. Live(o) /\ \A q \in Queues : Live(q)' => Live(q)
  BY <1>1, IdleIsDrain DEF Live
<1>3. \A q \in Queues : items[q] \in Seq(Messages)
  BY DEF TypeOK
<1>4. /\ Len(drain'[o].batch) \in Nat /\ Len(drain'[o].batch) <= Taken(o)'
      /\ Len(drain'[o].batch) <= Len(items[o])
      /\ \A b \in 1 .. Len(drain'[o].batch) : drain'[o].batch[b] = items[o][b]
  BY StartedIs
<1>5. Known'
  <2>1. ASSUME NEW q \in Queues, drain'[q].pc \in Running, NEW b \in 1 .. Len(drain'[q].batch),
               drain'[q].batch[b] \notin Forgettable
        PROVE  drain'[q].batch[b] \in recent
    <3>1. CASE q = o
      BY <1>2, <1>3, <1>4, <2>1, <3>1 DEF Known
    <3>2. CASE q # o
      BY <1>1, <2>1, <3>2 DEF Known
    <3> QED  BY <3>1, <3>2
  <2> QED  BY <1>1, <1>2, <2>1 DEF Known
<1>6. Once'
  BY <1>1, <1>2 DEF Once
<1>7. Removable'
  <2>1. ASSUME NEW p \in Queues, NEW q \in Queues, Live(p)', drain'[q].pc \in Running,
               NEW i \in 1 .. Len(items'[p]), NEW b \in 1 .. Len(drain'[q].batch),
               items'[p][i] = drain'[q].batch[b], items'[p][i] \notin Forgettable
        PROVE  p = q /\ i <= Taken(q)'
    <3>1. CASE q = o
      <4>1. b \in 1 .. Len(items[o]) /\ items[p][i] = items[o][b] /\ i \in 1 .. Len(items[p])
        BY <1>1, <1>3, <1>4, <2>1, <3>1
      <4>2. items[p][i] \notin Forgettable /\ Live(p) /\ Live(o)
        BY <1>1, <1>2, <2>1
      <4>3. p = o /\ i = b
        BY <4>1, <4>2 DEF Once
      <4>4. Taken(o)' \in Nat
        BY DEF Taken, TypeOK, Drain
      <4> QED  BY <1>4, <2>1, <3>1, <4>3, <4>4
    <3>2. CASE q # o
      <4>1. Taken(q)' = Taken(q)
        BY <1>1, <3>2 DEF Taken
      <4> QED  BY <1>1, <1>2, <2>1, <3>2, <4>1 DEF Removable
    <3> QED  BY <3>1, <3>2
  <2> QED  BY <2>1 DEF Removable
<1> QED  BY <1>5, <1>6, <1>7

LEMMA OnceSucceeds ==
    ASSUME TypeOK, TypeOK', Known, Once, Removable, NEW o \in Queues, TurnSucceeds(o)
    PROVE  Known' /\ Once' /\ Removable'
<1> DEFINE n == Taken(o)
           t == DropFirst(items[o], n)
<1>1. drain[o].pc \in Running /\ drain[o] # Idle
  BY IdleNotRunning DEF TurnSucceeds
<1>2. /\ recent' = recent /\ items' = [items EXCEPT ![o] = t]
      /\ \A m \in Messages : fate'[m] = "ran" => fate[m] = "ran" \/ m \in Elems(drain[o].batch)
  BY DEF TurnSucceeds, Taken
<1>3. \A q \in Queues : Moves(q)
  <2>1. CASE EmptyNext(o)
    BY <1>1, <2>1, FinishMoves DEF TurnSucceeds
  <2>2. CASE ~EmptyNext(o)
    <3>1. /\ drain' = [drain EXCEPT ![o] = Debouncing(drain[o].force)]
          /\ current' = current /\ drain[o].force \in BOOLEAN
      BY <2>2 DEF TurnSucceeds, TypeOK, Drain
    <3> QED  BY <1>1, <3>1, IdleNotRunning DEF Moves, Live, TypeOK
  <2> QED  BY <2>1, <2>2
<1>4. n \in Nat /\ drain[o].batch \in Seq(Messages)
  BY DEF Taken, TypeOK, Drain
<1>5. \A q \in Queues : items[q] \in Seq(Messages) /\ items'[q] \in Seq(Messages)
  BY DEF TypeOK
<1>6. /\ t \in Seq(Messages)
      /\ \A i \in 1 .. Len(t) : i + n \in 1 .. Len(items[o]) /\ t[i] = items[o][i + n]
  <2>1. /\ t \in Seq(Messages)
        /\ Len(t) = IF n < Len(items[o]) THEN Len(items[o]) - n ELSE 0
        /\ \A i \in 1 .. Len(items[o]) - n : t[i] = items[o][i + n]
    BY <1>4, <1>5, DropFirstIs
  <2>2. Len(items[o]) \in Nat
    BY <1>5
  <2> HIDE DEF n, t
  <2> QED  BY <1>4, <2>1, <2>2
<1> HIDE DEF t
<1>7. items'[o] = t /\ \A q \in Queues \ {o} : items'[q] = items[q]
  BY <1>2 DEF TypeOK
<1>8. \A q \in Queues : RestOf(items[q], items'[q])
  <2>1. RestOf(items[o], t)
    BY <1>4, <1>6 DEF RestOf
  <2> QED  BY <1>5, <1>7, <2>1, RestIs
<1>9. ASSUME NEW m \in Messages, fate'[m] = "ran"
      PROVE  \/ fate[m] = "ran"
             \/ \E b \in 1 .. Len(drain[o].batch) : drain[o].batch[b] = m
  BY <1>2, <1>4, <1>9, ElemsAre
<1>10. \A m \in Messages \ Forgettable : fate'[m] = "ran" => m \in recent
  BY <1>1, <1>9 DEF Known
<1>11. ASSUME NEW q \in Queues, Live(q)', NEW i \in 1 .. Len(items'[q]),
              items'[q][i] \notin Forgettable, fate'[items'[q][i]] = "ran"
       PROVE  FALSE
  <2>1. Live(q) /\ items'[q][i] \in Messages
    BY <1>3, <1>5, <1>11 DEF Moves
  <2>2. /\ i + (IF q = o THEN n ELSE 0) \in 1 .. Len(items[q])
        /\ items'[q][i] = items[q][i + (IF q = o THEN n ELSE 0)]
    <3>1. CASE q = o
      BY <1>6, <1>7, <1>11, <3>1
    <3>2. CASE q # o
      BY <1>5, <1>7, <1>11, <3>2
    <3> QED  BY <3>1, <3>2
  <2>3. fate[items'[q][i]] # "ran"
    BY <1>11, <2>1, <2>2 DEF Known
  <2>4. PICK b \in 1 .. Len(drain[o].batch) : drain[o].batch[b] = items'[q][i]
    BY <1>9, <1>11, <2>1, <2>3
  <2>5. q = o /\ i + (IF q = o THEN n ELSE 0) <= n
    BY <1>1, <1>11, <2>1, <2>2, <2>4 DEF Removable
  <2> HIDE DEF n
  <2> QED  BY <1>4, <1>11, <2>5
<1>12. \A q \in Queues : Live(q)' => Live(q) /\ RestOf(items[q], items'[q])
  BY <1>3, <1>8 DEF Moves
<1>13. \A q \in Queues : drain'[q].pc \in Running => drain'[q] = drain[q]
  BY <1>3 DEF Moves
<1> QED  BY <1>2, <1>10, <1>11, <1>12, <1>13, Shrink

LEMMA OnceStep ==
    ASSUME TypeOK, TypeOK', Known, Once, Removable, [Next]_vars
    PROVE  Known' /\ Once' /\ Removable'
<1>1. ASSUME NEW m \in Messages, NEW s \in Settings,
             EnqueueDuplicate(m, s) \/ EnqueueRefused(m, s) \/ EnqueueAccepted(m, s)
      PROVE  Known' /\ Once' /\ Removable'
  BY <1>1, OnceEnqueue, OnceAccepted
<1>2. ASSUME NEW m \in Messages, Forget(m) PROVE Known' /\ Once' /\ Removable'
  BY <1>2, ShrinkQuiet DEF Forget, queueVars, Live
(* The other steps leave the items, the cache and the fates as they are.    *)
<1>3. ASSUME UNCHANGED <<items, recent, fate>>, \A q \in Queues : Moves(q)
      PROVE  Known' /\ Once' /\ Removable'
  BY <1>3, ShrinkQuiet DEF Moves
<1>4. CASE StartMain \/ UNCHANGED vars
  BY <1>3, <1>4 DEF StartMain, vars, queueVars, Moves, Live
<1>5. CASE EndMain
  BY <1>3, <1>5, ScheduleMoves DEF EndMain, queueVars
<1>6. CASE Clear
  <2>1. /\ items' = [items EXCEPT ![current] = <<>>] /\ drain' = drain /\ recent' = recent
        /\ current' = NoQueue /\ current \in Queues
        /\ \A m \in Messages : fate'[m] = "ran" => fate[m] = "ran"
    BY <1>6 DEF Clear, TypeOK
  <2>2. \A q \in Queues : /\ Live(q)' => items'[q] = <<>> \/ (Live(q) /\ items'[q] = items[q])
                          /\ drain'[q].pc \in Running => drain'[q] = drain[q]
    BY <2>1, FollowupQueueAssumption DEF Live, TypeOK
  <2> QED  BY <2>1, <2>2, ShrinkQuiet
<1>7. ASSUME NEW q \in Queues, GiveUp(q) PROVE Known' /\ Once' /\ Removable'
  <2>1. drain[q] # Idle /\ Finish(q) /\ UNCHANGED <<items, recent, fate>>
    BY <1>7, IdleIsDrain DEF GiveUp, queueVars
  <2> QED  BY <1>3, <2>1, FinishMoves
<1>8. ASSUME NEW q \in Queues, TurnFails(q) PROVE Known' /\ Once' /\ Removable'
  <2>1. drain[q] # Idle /\ Finish(q) /\ UNCHANGED <<items, recent, fate>>
    BY <1>8, IdleNotRunning DEF TurnFails, queueVars
  <2> QED  BY <1>3, <2>1, FinishMoves
<1>9. ASSUME NEW q \in Queues, DrainStep(q) PROVE Known' /\ Once' /\ Removable'
  <2>1. CASE CollectCheck(q)
    BY <1>3, <2>1, CheckIs, IdleNotRunning DEF Moves, Live
  <2> QED  BY <1>7, <1>9, <2>1, OnceStarts DEF DrainStep, Starts
<1> QED  BY <1>1, <1>2, <1>4, <1>5, <1>6, <1>8, <1>9, OnceSucceeds DEF Next

(* A message whose id stays in the dedupe cache is not run again when it has *)
(* been run, whatever is retried, dropped, cleared, redelivered or forgotten *)
(* meanwhile (enqueueFollowupRun, scheduleFollowupDrain).                   *)
THEOREM NeverRerun == Spec => []NoRerun
<1>1. Init => Known /\ Once /\ Removable
  BY OnceInit
<1>2. ASSUME TypeOK, TypeOK', Known, Once, Removable, [Next]_vars
      PROVE  Known' /\ Once' /\ Removable'
  BY <1>2, OnceStep
<1>3. ASSUME TypeOK, Known PROVE NoRerun
  <2> SUFFICES ASSUME NEW q \in Queues, NEW m \in Messages \ Forgettable,
                      Live(q), m \in Elems(items[q])
               PROVE  fate[m] # "ran"
    BY DEF NoRerun
  <2>1. items[q] \in Seq(Messages)
    BY <1>3 DEF TypeOK
  <2>2. PICK i \in 1 .. Len(items[q]) : items[q][i] = m
    BY <2>1, ElemsAre
  <2> QED  BY <1>3, <2>2 DEF Known
<1>4. Spec => []TypeOK
  BY TypeCorrect
<1> QED  BY <1>1, <1>2, <1>3, <1>4, PTL DEF Spec
-----------------------------------------------------------------------------
(* Turns are taken in the order of arrival.                                 *)

(* What a turn runs is ahead of what it does not: messages may leave from   *)
(* under it only at the front, and newcomers stand at the back.             *)
InBatch(q, m) == \E b \in 1 .. Len(drain[q].batch) : drain[q].batch[b] = m
Front ==
    \A q \in Queues : drain[q].pc \in Running =>
        \A i, j \in 1 .. Len(items[q]) :
            i < j /\ items[q][j] \notin Forgettable /\ InBatch(q, items[q][j]) =>
                InBatch(q, items[q][i])

(* Some items leave at the front, and one that was not known may come at    *)
(* the back.                                                                *)
Follows(s, r, new) ==
    \E k \in Nat : \A i \in 1 .. Len(r) :
        \/ i + k \in 1 .. Len(s) /\ r[i] = s[i + k]
        \/ i = Len(r) /\ r[i] = new
Moved(q) ==
    \/ RestOf(items[q], items'[q])
    \/ \E new \in Messages \ recent : /\ \A i \in 1 .. Len(items[q]) : items[q][i] # new
                                     /\ Follows(items[q], items'[q], new)

(* What was not evicted has moved up by the number of the evicted.          *)
LEMMA IndexShifts ==
    ASSUME NEW len \in Nat, NEW n \in 0 .. len, NEW i \in 1 .. len - n + 1, i # len - n + 1
    PROVE  i \in 1 .. len - n /\ i + n \in 1 .. len
  OBVIOUS

LEMMA ItemsMove ==
    ASSUME TypeOK, TypeOK', [Next]_vars, NEW q \in Queues, Live(q)
    PROVE  Moved(q)
<1>1. items[q] \in Seq(Messages) /\ items'[q] \in Seq(Messages)
  BY DEF TypeOK
<1>2. items'[q] = items[q] => Moved(q)
  BY <1>1, RestIs DEF Moved
<1>3. items'[q] = <<>> => Moved(q)
  BY <1>1 DEF Moved, RestOf
<1>4. ASSUME NEW m \in Messages, NEW s \in Settings, EnqueueDuplicate(m, s)
      PROVE  Moved(q)
  <2>1. items' = [items EXCEPT ![Opened] = OpenItems] /\ CanOpen
    BY <1>4 DEF EnqueueDuplicate
  <2>2. /\ Opened \in Queues
        /\ current = NoQueue => OpenItems = <<>>
        /\ current # NoQueue => OpenItems = items[Opened]
    BY <2>1, OpenedIs
  <2> QED  BY <1>2, <1>3, <2>1, <2>2 DEF TypeOK
<1>5. ASSUME NEW m \in Messages, NEW s \in Settings, EnqueueAccepted(m, s)
      PROVE  Moved(q)
  <2> DEFINE n == Excess(OpenItems, s.cap)
             t == Append(DropFirst(OpenItems, n), m)
  <2>1. /\ items' = [items EXCEPT ![Opened] = t] /\ CanOpen
        /\ m \in Messages \ recent /\ m \notin Elems(OpenItems)
    BY <1>5 DEF EnqueueAccepted, IsDuplicate
  <2>2. /\ Opened \in Queues /\ OpenItems \in Seq(Messages)
        /\ current # NoQueue => OpenItems = items[Opened]
        /\ current = NoQueue => drain[Opened] = Idle
    BY <2>1, OpenedIs
  <2>3. s.cap \in Nat \ {0} /\ OpenItems \in Seq(Messages) /\ m \in Messages
    BY <2>2, FollowupQueueAssumption
  <2>4. /\ n \in 0 .. Len(OpenItems) /\ t \in Seq(Messages)
        /\ Len(t) = Len(OpenItems) - n + 1
        /\ \A i \in 1 .. Len(OpenItems) - n : t[i] = OpenItems[i + n]
        /\ t[Len(t)] = m
    BY <2>3, MakeRoom
  <2> HIDE DEF n, t
  <2>5. CASE q = Opened
    <3>1. OpenItems = items[q] /\ items'[q] = t
      <4>1. current # NoQueue
        BY <2>2, <2>5, FollowupQueueAssumption DEF Live
      <4> QED  BY <2>1, <2>2, <2>5, <4>1 DEF TypeOK
    <3>2. ASSUME NEW i \in 1 .. Len(t)
          PROVE  (i + n \in 1 .. Len(items[q]) /\ t[i] = items[q][i + n]) \/ (i = Len(t) /\ t[i] = m)
      <4>1. CASE i = Len(t)
        BY <2>4, <4>1
      <4>2. CASE i # Len(t)
        <5>1. i \in 1 .. Len(OpenItems) - n /\ i + n \in 1 .. Len(OpenItems)
          <6>1. Len(OpenItems) \in Nat
            BY <2>2
          <6>2. n \in 0 .. Len(OpenItems) /\ i \in 1 .. Len(OpenItems) - n + 1
            BY <2>4, <3>2
          <6>3. i # Len(OpenItems) - n + 1
            BY <2>4, <4>2
          <6> QED  BY <6>1, <6>2, <6>3, IndexShifts
        <5> QED  BY <2>4, <3>1, <5>1
      <4> QED  BY <4>1, <4>2
    <3>3. n \in Nat
      BY <2>2, <2>4
    <3>4. Follows(items[q], items'[q], m)
      BY <3>1, <3>2, <3>3 DEF Follows
    <3>5. \A i \in 1 .. Len(items[q]) : items[q][i] # m
      BY <1>1, <2>1, <3>1, ElemsAre
    <3> QED  BY <2>1, <3>4, <3>5 DEF Moved
  <2>6. CASE q # Opened
    BY <1>2, <2>1, <2>2, <2>6 DEF TypeOK
  <2> QED  BY <2>5, <2>6
<1>6. CASE Clear
  BY <1>2, <1>3, <1>6 DEF Clear, TypeOK
<1>7. ASSUME NEW o \in Queues, TurnSucceeds(o) PROVE Moved(q)
  <2> DEFINE n == Taken(o)
             t == DropFirst(items[o], n)
  <2>1. items' = [items EXCEPT ![o] = t] /\ n \in Nat
    BY <1>7 DEF TurnSucceeds, Taken, TypeOK, Drain
  <2>2. CASE q = o
    <3>1. /\ Len(t) = IF n < Len(items[q]) THEN Len(items[q]) - n ELSE 0
          /\ \A i \in 1 .. Len(items[q]) - n : t[i] = items[q][i + n]
      BY <1>1, <2>1, <2>2, DropFirstIs
    <3>2. items'[q] = t
      BY <2>1, <2>2 DEF TypeOK
    <3> HIDE DEF n, t
    <3>3. \A i \in 1 .. Len(t) : i + n \in 1 .. Len(items[q]) /\ t[i] = items[q][i + n]
      <4>1. Len(items[q]) \in Nat
        BY <1>1
      <4> QED  BY <2>1, <3>1, <4>1
    <3> QED  BY <2>1, <3>2, <3>3 DEF Moved, RestOf
  <2>3. CASE q # o
    BY <1>2, <2>1, <2>3 DEF TypeOK
  <2> QED  BY <2>2, <2>3
<1>8. CASE items' = items
  BY <1>2, <1>8
<1>9. ASSUME NEW m \in Messages, NEW s \in Settings, EnqueueRefused(m, s)
      PROVE  items' = items
  BY <1>9 DEF EnqueueRefused
<1>10. ASSUME NEW m \in Messages, Forget(m) PROVE items' = items
  BY <1>10 DEF Forget, queueVars
<1>11. ASSUME NEW o \in Queues, DrainStep(o) \/ TurnFails(o) PROVE items' = items
  BY <1>11 DEF DrainStep, CollectOne, CollectCheck, CollectBatch, RunSummary, RunHead, Await,
     GiveUp, TurnFails, queueVars
<1>12. ASSUME StartMain \/ EndMain \/ UNCHANGED vars PROVE items' = items
  BY <1>12 DEF StartMain, EndMain, vars, queueVars
<1> QED  BY <1>4, <1>5, <1>6, <1>7, <1>8, <1>9, <1>10, <1>11, <1>12 DEF Next

(* Where two items of a queue were before.                                  *)
Before(q, i, j, k) ==
    /\ i + k \in 1 .. Len(items[q]) /\ items'[q][i] = items[q][i + k]
    /\ \/ j + k \in 1 .. Len(items[q]) /\ items'[q][j] = items[q][j + k]
       \/ /\ items'[q][j] \notin recent
          /\ \A x \in 1 .. Len(items[q]) : items[q][x] # items'[q][j]

(* Of two items that are still there, the one ahead was ahead before, and   *)
(* both were there unless the one behind is new.                            *)
LEMMA StayInOrder ==
    ASSUME TypeOK, TypeOK', NEW q \in Queues, Moved(q),
           NEW i \in 1 .. Len(items'[q]), NEW j \in 1 .. Len(items'[q]), i < j
    PROVE  \E k \in Nat : Before(q, i, j, k)
<1>1. items'[q] \in Seq(Messages) /\ Len(items'[q]) \in Nat
  BY DEF TypeOK
<1>2. i # Len(items'[q])
  BY <1>1
<1>3. CASE RestOf(items[q], items'[q])
  BY <1>3 DEF RestOf, Before
<1>4. ASSUME NEW new \in Messages \ recent, \A x \in 1 .. Len(items[q]) : items[q][x] # new,
             Follows(items[q], items'[q], new)
      PROVE  \E k \in Nat : Before(q, i, j, k)
  BY <1>2, <1>4 DEF Follows, Before
<1> QED  BY <1>3, <1>4 DEF Moved

LEMMA FrontStep ==
    ASSUME TypeOK, TypeOK', Known, Once, Front, [Next]_vars
    PROVE  Front'
<1> SUFFICES ASSUME NEW q \in Queues, drain'[q].pc \in Running,
                    NEW i \in 1 .. Len(items'[q]), NEW j \in 1 .. Len(items'[q]), i < j,
                    items'[q][j] \notin Forgettable,
                    NEW b \in 1 .. Len(drain'[q].batch), drain'[q].batch[b] = items'[q][j]
             PROVE  \E a \in 1 .. Len(drain'[q].batch) : drain'[q].batch[a] = items'[q][i]
  BY DEF Front, InBatch
<1>1. CASE Starts(q)
  <2>1. /\ items' = items /\ drain[q].pc \in {"debounce", "collect"}
        /\ Len(drain'[q].batch) \in Nat /\ Len(drain'[q].batch) <= Len(items[q])
        /\ \A x \in 1 .. Len(drain'[q].batch) : drain'[q].batch[x] = items[q][x]
    BY <1>1, StartedIs
  <2>2. Live(q) /\ items[q] \in Seq(Messages)
    BY <2>1, IdleIsDrain DEF Live, TypeOK
  <2>3. b = j
    BY <2>1, <2>2 DEF Once
  <2>4. i \in 1 .. Len(drain'[q].batch) /\ drain'[q].batch[i] = items'[q][i]
    BY <2>1, <2>3
  <2> QED  BY <2>4 DEF InBatch
<1>2. CASE drain'[q] = drain[q]
  <2>1. Live(q) /\ drain[q].pc \in Running
    BY <1>2, IdleNotRunning DEF Live
  <2>2. Moved(q)
    BY <2>1, ItemsMove
  <2>3. PICK k \in Nat : Before(q, i, j, k)
    BY <2>2, StayInOrder
  <2>4. items'[q][j] \in recent
    BY <1>2, <2>1 DEF Known
  <2>5. InBatch(q, items[q][j + k])
    BY <1>2, <2>3, <2>4 DEF Before, InBatch
  <2>6. i + k < j + k
    OBVIOUS
  <2>7. InBatch(q, items[q][i + k])
    BY <2>1, <2>3, <2>4, <2>5, <2>6 DEF Before, Front
  <2> QED  BY <1>2, <2>3, <2>7 DEF Before, InBatch
<1> QED  BY <1>1, <1>2, DrainChange, IdleNotRunning

(* Only the end of a turn makes a message run, and one that the turn took.  *)
LEMMA RanByTurn ==
    ASSUME TypeOK, [Next]_vars, NEW m \in Messages, fate[m] # "ran", fate'[m] = "ran"
    PROVE  \E o \in Queues :
              /\ drain[o].pc \in Running /\ InBatch(o, m)
              /\ \A x \in Messages : InBatch(o, x) => fate'[x] = "ran"
<1>1. ASSUME NEW o \in Queues, TurnSucceeds(o)
      PROVE  /\ drain[o].pc \in Running /\ InBatch(o, m)
             /\ \A x \in Messages : InBatch(o, x) => fate'[x] = "ran"
  <2>1. drain[o].batch \in Seq(Messages)
    BY DEF TypeOK, Drain
  <2>2. \A x \in Messages : x \in Elems(drain[o].batch) <=> InBatch(o, x)
    BY <2>1, ElemsAre DEF InBatch
  <2>3. \A x \in Messages : fate'[x] = IF x \in Elems(drain[o].batch) THEN "ran"
                                      ELSE IF x \in drain[o].summary /\ fate[x] = "dropped"
                                      THEN "announced" ELSE fate[x]
    BY <1>1 DEF TurnSucceeds
  <2> QED  BY <1>1, <2>2, <2>3 DEF TurnSucceeds
<1>2. ASSUME NEW x \in Messages, NEW s \in Settings,
             EnqueueDuplicate(x, s) \/ EnqueueRefused(x, s) \/ EnqueueAccepted(x, s)
      PROVE  FALSE
  BY <1>2 DEF EnqueueDuplicate, EnqueueRefused, EnqueueAccepted, TypeOK
<1>3. ASSUME NEW x \in Messages, Forget(x) PROVE FALSE
  BY <1>3 DEF Forget
<1>4. ASSUME NEW o \in Queues, DrainStep(o) \/ TurnFails(o) PROVE FALSE
  BY <1>4 DEF DrainStep, CollectOne, CollectCheck, CollectBatch, RunSummary, RunHead, Await,
              GiveUp, TurnFails
<1>5. ASSUME StartMain \/ EndMain \/ Clear \/ UNCHANGED vars PROVE FALSE
  BY <1>5 DEF StartMain, EndMain, Clear, vars
<1> QED  BY <1>1, <1>2, <1>3, <1>4, <1>5 DEF Next

LEMMA OrderStep ==
    ASSUME TypeOK, TypeOK', Known, Once, Removable, Front, [Next]_vars,
           NEW q \in Queues, Live(q),
           NEW i \in 1 .. Len(items[q]), NEW j \in 1 .. Len(items[q]), i < j
    PROVE  /\ items[q][j] \notin Forgettable /\ fate'[items[q][j]] = "ran" =>
                  fate'[items[q][i]] = "ran"
           /\ ~ \E k, l \in 1 .. Len(items'[q]) :
                   k < l /\ items'[q][k] = items[q][j] /\ items'[q][l] = items[q][i]
<1>1. items[q] \in Seq(Messages) /\ items'[q] \in Seq(Messages)
  BY DEF TypeOK
<1>2. ASSUME items[q][j] \notin Forgettable, fate'[items[q][j]] = "ran"
      PROVE  fate'[items[q][i]] = "ran"
  <2>1. items[q][i] \in Messages /\ items[q][j] \in Messages /\ fate[items[q][j]] # "ran"
    BY <1>1, <1>2 DEF Known
  <2>2. PICK o \in Queues :
              /\ drain[o].pc \in Running /\ InBatch(o, items[q][j])
              /\ \A x \in Messages : InBatch(o, x) => fate'[x] = "ran"
    BY <1>2, <2>1, RanByTurn
  <2>3. q = o
    BY <1>2, <2>2 DEF InBatch, Removable
  <2>4. InBatch(o, items[q][i])
    BY <1>2, <2>2, <2>3 DEF Front
  <2> QED  BY <2>1, <2>2, <2>4
<1>3. ASSUME NEW k \in 1 .. Len(items'[q]), NEW l \in 1 .. Len(items'[q]), k < l,
             items'[q][k] = items[q][j], items'[q][l] = items[q][i]
      PROVE  FALSE
  <2>1. Moved(q)
    BY ItemsMove
  <2>2. PICK n \in Nat : Before(q, k, l, n)
    BY <1>3, <2>1, StayInOrder
  <2>3. ASSUME NEW x \in 1 .. Len(items[q]), NEW y \in 1 .. Len(items[q]),
               items[q][x] = items[q][y]
        PROVE  x = y
    BY <2>3 DEF Once
  <2>4. j = k + n
    BY <1>3, <2>2, <2>3 DEF Before
  <2>5. i = l + n
    BY <1>3, <2>2, <2>3 DEF Before
  <2> QED  BY <1>3, <2>2, <2>4, <2>5
<1> QED  BY <1>2, <1>3

(* No message overtakes another that is ahead of it in its queue: not where *)
(* the drop policy takes items from under a turn, and not where turns are   *)
(* retried (applyQueueDropPolicy, drainNextQueueItem and the splice in      *)
(* scheduleFollowupDrain).                                                  *)
THEOREM FirstComeFirstRun == Spec => RunsInOrder
<1>1. Init => Known /\ Once /\ Removable /\ Front
  <2>1. Init => Front
    BY IdleNotRunning DEF Init, Front
  <2> QED  BY <2>1, OnceInit
<1>2. ASSUME TypeOK, TypeOK', Known, Once, Removable, Front, [Next]_vars
      PROVE  Known' /\ Once' /\ Removable' /\ Front'
  BY <1>2, OnceStep, FrontStep
<1>3. ASSUME TypeOK, TypeOK', Known, Once, Removable, Front, [Next]_vars
      PROVE  [\A q \in Queues : Live(q) =>
                \A i, j \in DOMAIN items[q] : i < j =>
                   /\ items[q][j] \notin Forgettable /\ fate'[items[q][j]] = "ran" =>
                          fate'[items[q][i]] = "ran"
                   /\ ~ \E k, l \in DOMAIN items'[q] :
                           k < l /\ items'[q][k] = items[q][j] /\ items'[q][l] = items[q][i]
             ]_vars
  <2>1. \A q \in Queues : /\ DOMAIN items[q] = 1 .. Len(items[q])
                          /\ DOMAIN items'[q] = 1 .. Len(items'[q])
    BY <1>3 DEF TypeOK
  <2> SUFFICES ASSUME NEW q \in Queues, Live(q), NEW i \in DOMAIN items[q],
                      NEW j \in DOMAIN items[q], i < j
               PROVE  /\ items[q][j] \notin Forgettable /\ fate'[items[q][j]] = "ran" =>
                             fate'[items[q][i]] = "ran"
                      /\ ~ \E k, l \in DOMAIN items'[q] :
                              k < l /\ items'[q][k] = items[q][j] /\ items'[q][l] = items[q][i]
    OBVIOUS
  <2>2. i \in 1 .. Len(items[q]) /\ j \in 1 .. Len(items[q])
    BY <2>1
  <2> QED  BY <1>3, <2>1, <2>2, OrderStep
<1>4. Spec => []TypeOK
  BY TypeCorrect
<1> QED  BY <1>1, <1>2, <1>3, <1>4, PTL DEF Spec, RunsInOrder
-----------------------------------------------------------------------------
(* The routes of a collected turn.                                          *)
LEMMA FewRoutes ==
    ASSUME NEW s \in Seq(Messages), ~CrossChannel(s)
    PROVE  \A a, b \in Elems(s) : route[a] = route[b]
<1> DEFINE used == {route[m] : m \in Elems(s)}
<1>1. Elems(s) = {s[i] : i \in 1 .. Len(s)} /\ Len(s) \in Nat
  BY DEF Elems
<1>2. IsFiniteSet(1 .. Len(s))
  BY <1>1, FS_Interval
<1>3. used = {route[s[i]] : i \in 1 .. Len(s)}
  <2>1. ASSUME NEW x \in used PROVE \E i \in 1 .. Len(s) : x = route[s[i]]
    BY <1>1
  <2>2. ASSUME NEW i \in 1 .. Len(s) PROVE route[s[i]] \in used
    BY <1>1
  <2> QED  BY <2>1, <2>2
<1> DEFINE f == [i \in 1 .. Len(s) |-> route[s[i]]]
<1>4. IsFiniteSet(used)
  <2>1. f \in Surjection(1 .. Len(s), used)
    <3>1. f \in [1 .. Len(s) -> used]
      BY <1>3
    <3>2. \A x \in used : \E i \in 1 .. Len(s) : f[i] = x
      BY <1>3
    <3> HIDE DEF f, used
    <3> QED  BY <3>1, <3>2 DEF Surjection
  <2> HIDE DEF f, used
  <2> QED  BY <1>2, <2>1, FS_Surjection
<1>5. Cardinality(used) \in Nat
  BY <1>4, FS_CardinalityType
<1>6. ~(Cardinality(used) > 1)
  BY DEF CrossChannel
<1>7. used = {} \/ \E x : used = {x}
  <2> HIDE DEF used
  <2>1. Cardinality(used) = 0 \/ Cardinality(used) = 1
    BY <1>5, <1>6
  <2> QED  BY <1>4, <2>1, FS_EmptySet, FS_Singleton
<1>8. \A m \in Elems(s) : route[m] \in used
  OBVIOUS
<1> HIDE DEF used
<1> QED  BY <1>7, <1>8

(* A step keeps the ids that are not forgotten.                             *)
LEMMA RecentKept ==
    ASSUME TypeOK, [Next]_vars, NEW m \in recent \ Forgettable
    PROVE  m \in recent'
<1>1. ASSUME NEW x \in Messages, NEW s \in Settings,
             EnqueueDuplicate(x, s) \/ EnqueueRefused(x, s) \/ EnqueueAccepted(x, s)
      PROVE  m \in recent'
  BY <1>1 DEF EnqueueDuplicate, EnqueueRefused, EnqueueAccepted
<1>2. ASSUME NEW q \in Queues, DrainStep(q) \/ TurnSucceeds(q) \/ TurnFails(q)
      PROVE  m \in recent'
  BY <1>2 DEF DrainStep, CollectOne, CollectCheck, CollectBatch, RunSummary, RunHead,
              GiveUp, Await, TurnSucceeds, TurnFails
<1>3. ASSUME NEW x \in Messages, Forget(x) PROVE m \in recent'
  BY <1>3 DEF Forget
<1>4. CASE StartMain \/ EndMain \/ Clear \/ UNCHANGED vars
  BY <1>4 DEF StartMain, EndMain, Clear, vars
<1> QED  BY <1>1, <1>2, <1>3, <1>4 DEF Next

(* What a check of the routes saw agrees, is known to the dedupe cache and  *)
(* stands in front of what came in later.                                   *)
Looked ==
    \A q \in Queues : drain[q].pc = "collect" =>
        /\ \A a, b \in drain[q].checked : route[a] = route[b]
        /\ \A m \in drain[q].checked \ Forgettable : m \in recent
        /\ \A i, j \in 1 .. Len(items[q]) :
              i < j /\ items[q][j] \in drain[q].checked \ Forgettable =>
                  items[q][i] \in drain[q].checked

LEMMA LookedStep ==
    ASSUME TypeOK, TypeOK', Known, Looked, [Next]_vars
    PROVE  Looked'
<1> SUFFICES ASSUME NEW q \in Queues, drain'[q].pc = "collect"
             PROVE  /\ \A a, b \in drain'[q].checked : route'[a] = route'[b]
                    /\ \A m \in drain'[q].checked \ Forgettable : m \in recent'
                    /\ \A i, j \in 1 .. Len(items'[q]) :
                          i < j /\ items'[q][j] \in drain'[q].checked \ Forgettable =>
                              items'[q][i] \in drain'[q].checked
  BY DEF Looked
<1>1. route' = route
  BY RouteKept
<1>2. CASE CollectCheck(q)
  <2>1. /\ UNCHANGED <<items, recent>> /\ Live(q)
        /\ drain'[q].checked = Elems(items[q])
    BY <1>2, CheckIs DEF Live
  <2>2. ~CrossChannel(items[q]) /\ items[q] \in Seq(Messages)
    BY <1>2 DEF CollectCheck, OneByOne, TypeOK
  <2>3. \A a, b \in Elems(items[q]) : route[a] = route[b]
    BY <2>2, FewRoutes
  <2>4. Elems(items[q]) = {items[q][i] : i \in 1 .. Len(items[q])}
    BY <2>2, ElemsAre
  <2>5. \A m \in Elems(items[q]) \ Forgettable : m \in recent
    BY <2>1, <2>4 DEF Known
  <2> QED  BY <1>1, <2>1, <2>3, <2>4, <2>5
<1>3. CASE drain'[q] = drain[q]
  <2>1. Live(q)
    BY <1>3, IdleNotRunning DEF Live
  <2>2. Moved(q)
    BY <2>1, ItemsMove
  <2>3. ASSUME NEW i \in 1 .. Len(items'[q]), NEW j \in 1 .. Len(items'[q]), i < j,
               items'[q][j] \in drain[q].checked \ Forgettable
        PROVE  items'[q][i] \in drain[q].checked
    <3>1. PICK k \in Nat : Before(q, i, j, k)
      BY <2>2, <2>3, StayInOrder
    <3>2. items'[q][j] \in recent
      BY <1>3, <2>3 DEF Looked
    <3>3. /\ i + k \in 1 .. Len(items[q]) /\ j + k \in 1 .. Len(items[q]) /\ i + k < j + k
          /\ items'[q][i] = items[q][i + k] /\ items'[q][j] = items[q][j + k]
      BY <2>3, <3>1, <3>2 DEF Before
    <3> QED  BY <1>3, <2>3, <3>3 DEF Looked
  <2>4. \A m \in drain[q].checked \ Forgettable : m \in recent'
    BY <1>3, RecentKept DEF Looked
  <2> QED  BY <1>1, <1>3, <2>3, <2>4 DEF Looked
<1> QED  BY <1>2, <1>3, DrainChange, IdleNotRunning

(* A collected turn answers to one place: of two of its messages that came  *)
(* from different places, the later one is not one that the check of the    *)
(* routes saw, however many routes the session has and whatever arrives, is *)
(* evicted, cleared or redelivered meanwhile (hasCrossChannelItems and the  *)
(* slice after it).                                                         *)
THEOREM OneRoutePerTurn == Spec => []BatchHasOneRoute
<1>1. Init => (Known /\ Once /\ Removable) /\ Looked /\ BatchHasOneRoute
  <2>1. Init => Looked /\ BatchHasOneRoute
    BY IdleIsDrain DEF Init, Looked, BatchHasOneRoute
  <2> QED  BY <2>1, OnceInit
<1>2. ASSUME TypeOK, TypeOK', Known, Once, Removable, Looked, BatchHasOneRoute, [Next]_vars
      PROVE  (Known' /\ Once' /\ Removable') /\ Looked' /\ BatchHasOneRoute'
  <2> SUFFICES ASSUME NEW q \in Queues, drain'[q].pc = "batch",
                      NEW i \in DOMAIN drain'[q].batch, NEW j \in DOMAIN drain'[q].batch,
                      i < j, drain'[q].batch[j] \in drain'[q].checked \ Forgettable
               PROVE  route'[drain'[q].batch[i]] = route'[drain'[q].batch[j]]
    BY <1>2, OnceStep, LookedStep DEF BatchHasOneRoute
  <2>1. route' = route /\ drain'[q].pc \in Running
    BY <1>2, RouteKept DEF Running
  <2>2. CASE drain'[q] = drain[q]
    BY <1>2, <2>1, <2>2 DEF BatchHasOneRoute
  <2>3. CASE CollectBatch(q)
    <3>1. /\ drain[q].pc = "collect" /\ items[q] \in Seq(Messages)
          /\ drain'[q].batch = items[q] /\ drain'[q].checked = drain[q].checked
      BY <1>2, <2>3 DEF CollectBatch, Await, TypeOK
    <3>2. i \in 1 .. Len(items[q]) /\ j \in 1 .. Len(items[q])
      BY <3>1
    <3>3. items[q][i] \in drain[q].checked /\ items[q][j] \in drain[q].checked
      BY <1>2, <3>1, <3>2 DEF Looked
    <3> QED  BY <1>2, <2>1, <3>1, <3>3 DEF Looked
  <2>4. CASE CollectOne(q) \/ RunSummary(q) \/ RunHead(q)
    BY <1>2, <2>4 DEF CollectOne, RunSummary, RunHead, Await, TypeOK
  <2> QED  BY <1>2, <2>1, <2>2, <2>3, <2>4, DrainChange, IdleNotRunning DEF Starts
<1>3. Spec => []TypeOK
  BY TypeCorrect
<1> QED  BY <1>1, <1>2, <1>3, PTL DEF Spec

-----------------------------------------------------------------------------
(* Nothing is lost where nothing is cleared or evicted.                     *)
Clean == \A q \in Queues : dropped[q] = {}

LEMMA LostInit == Init => Clean /\ AtFront /\ Queued
  BY IdleNotRunning DEF Init, Clean, AtFront, Queued

(* Where the registry's entry goes, if its queue is c before.               *)
LEMMA QueuedAfter ==
    ASSUME NEW c \in Queues,
           current' = c \/ (current' = NoQueue /\ EmptyNext(c)),
           \A m \in Messages : fate'[m] = "queued" => m \in Elems(items'[c])
    PROVE  Queued'
<1>1. Elems(<<>>) = {}
  BY DEF Elems
<1>2. CASE current' = c
  BY <1>2, FollowupQueueAssumption DEF Queued, Elems
<1>3. CASE EmptyNext(c)
  <2>1. \A m \in Messages : fate'[m] # "queued"
    BY <1>1, <1>3 DEF EmptyNext
  <2> QED  BY <2>1 DEF Queued
<1> QED  BY <1>2, <1>3

LEMMA FinishGoes ==
    ASSUME TypeOK, OneDrain, NEW q \in Queues, drain[q] # Idle, Finish(q)
    PROVE  /\ q = current
           /\ current' = q \/ (current' = NoQueue /\ EmptyNext(q))
           /\ \A p \in Queues : drain'[p].pc \notin Running
<1> DEFINE d == [drain EXCEPT ![q] = Idle]
<1>1. q = current /\ \A p \in Queues : d[p] = Idle
  BY DEF OneDrain, TypeOK
<1>2. /\ (EmptyNext(q) /\ current' = NoQueue /\ drain' = d) \/ Scheduled(current, d)
      /\ \A p \in Queues : drain'[p] = d[p] \/ drain'[p] = Debouncing(FALSE)
  BY FinishIs
<1> HIDE DEF d
<1>3. \A p \in Queues : drain'[p].pc \notin Running
  BY <1>1, <1>2, IdleNotRunning
<1>4. current' = q \/ (current' = NoQueue /\ EmptyNext(q))
  BY <1>1, <1>2 DEF Scheduled
<1> QED  BY <1>1, <1>3, <1>4

(* Steps that leave items and fates alone.                                  *)
LEMMA LostQuiet ==
    ASSUME TypeOK, OneDrain, Clean, AtFront, Queued, NEW q \in Queues, drain[q] # Idle,
           Finish(q), UNCHANGED <<items, dropped, fate>>
    PROVE  Clean' /\ AtFront' /\ Queued'
<1>1. AtFront'
  BY FinishGoes DEF AtFront
<1>2. q = current /\ \A m \in Messages : fate'[m] = "queued" => m \in Elems(items'[q])
  BY FinishGoes DEF Queued
<1>3. Queued'
  BY <1>2, FinishGoes, QueuedAfter
<1> QED  BY <1>1, <1>3 DEF Clean

LEMMA LostEnqueue ==
    ASSUME Keeps, TypeOK, TypeOK', OneDrain, Clean, AtFront, Queued,
           NEW m \in Messages, NEW s \in Settings,
           EnqueueDuplicate(m, s) \/ EnqueueRefused(m, s) \/ EnqueueAccepted(m, s)
    PROVE  Clean' /\ AtFront' /\ Queued'
<1> DEFINE o == Opened
<1>1. CanOpen /\ AfterEnqueue
  BY DEF EnqueueDuplicate, EnqueueRefused, EnqueueAccepted
<1>2. /\ o \in Queues
      /\ OpenItems \in Seq(Messages) /\ (current = NoQueue => OpenItems = <<>>)
      /\ current # NoQueue => o = current /\ OpenItems = items[o]
      /\ OpenDropped = {}
  BY <1>1, OpenedIs DEF Clean, TypeOK
<1>3. current' = o \/ (current' = NoQueue /\ EmptyNext(o))
  BY <1>1, AfterEnqueueIs DEF Scheduled
<1>4. s.cap \in Nat \ {0} /\ s.drop = "new"
  BY FollowupQueueAssumption DEF Keeps
<1> HIDE DEF o
<1>5. /\ dropped' = dropped \/ dropped' = [dropped EXCEPT ![o] = {}]
      /\ \A q \in Queues \ {o} : items'[q] = items[q]
      /\ \A i \in 1 .. Len(OpenItems) : i \in 1 .. Len(items'[o]) /\ items'[o][i] = OpenItems[i]
      /\ \A x \in Messages : fate'[x] = "queued" =>
            fate[x] = "queued" \/ \E i \in 1 .. Len(items'[o]) : items'[o][i] = x
  <2>1. CASE EnqueueDuplicate(m, s)
    <3>1. /\ items' = [items EXCEPT ![o] = OpenItems] /\ fate' = fate
          /\ dropped' = [dropped EXCEPT ![o] = {}]
      BY <1>2, <2>1 DEF EnqueueDuplicate, o
    <3> QED  BY <1>2, <3>1 DEF TypeOK
  <2>2. CASE EnqueueRefused(m, s)
    <3>1. /\ items' = items /\ dropped' = dropped /\ Len(OpenItems) >= s.cap
          /\ fate' = [fate EXCEPT ![m] = "refused"]
      BY <2>2 DEF EnqueueRefused
    <3>2. OpenItems = items[o]
      BY <1>2, <1>4, <3>1
    <3>3. \A x \in Messages : fate'[x] = "queued" => fate[x] = "queued"
      BY <3>1 DEF TypeOK
    <3> QED  BY <3>1, <3>2, <3>3
  <2>3. CASE EnqueueAccepted(m, s)
    <3> DEFINE n == Excess(OpenItems, s.cap)
               t == Append(DropFirst(OpenItems, n), m)
    <3>1. /\ items' = [items EXCEPT ![o] = t] /\ Len(OpenItems) < s.cap
          /\ dropped' = [dropped EXCEPT ![o] = {}]
          /\ \A x \in Messages : fate'[x] = "queued" => fate[x] = "queued" \/ x = m
      <4>1. s.drop # "summarize" /\ (s.drop # "new" \/ Len(OpenItems) < s.cap)
        BY <1>4, <2>3 DEF EnqueueAccepted
      <4>2. dropped' = [dropped EXCEPT ![o] = {}]
        BY <1>2, <2>3, <4>1 DEF EnqueueAccepted, o
      <4>3. items' = [items EXCEPT ![o] = t]
        BY <2>3 DEF EnqueueAccepted, o
      <4>4. \A x \in Messages : fate'[x] = "queued" => fate[x] = "queued" \/ x = m
        BY <2>3 DEF EnqueueAccepted
      <4> QED  BY <1>4, <4>1, <4>2, <4>3, <4>4
    <3>2. /\ n \in 0 .. Len(OpenItems) /\ (Len(OpenItems) < s.cap => n = 0)
          /\ t \in Seq(Messages) /\ Len(t) = Len(OpenItems) - n + 1
          /\ \A i \in 1 .. Len(OpenItems) - n : t[i] = OpenItems[i + n]
          /\ t[Len(t)] = m
      <4>1. OpenItems \in Seq(Messages) /\ s.cap \in Nat \ {0} /\ m \in Messages
        BY <1>2, <1>4
      <4>2. /\ n \in 0 .. Len(OpenItems) /\ t \in Seq(Messages)
            /\ Len(t) = Len(OpenItems) - n + 1
            /\ \A i \in 1 .. Len(OpenItems) - n : t[i] = OpenItems[i + n]
            /\ t[Len(t)] = m
        BY <4>1, MakeRoom
      <4>3. Len(OpenItems) < s.cap => n = 0
        BY <4>1, MakeRoom
      <4> HIDE DEF n, t
      <4> QED  BY <4>2, <4>3
    <3> HIDE DEF n, t
    <3>3. n = 0 /\ Len(OpenItems) \in Nat /\ Len(t) = Len(OpenItems) + 1
      BY <1>2, <3>1, <3>2
    <3>4. \A i \in 1 .. Len(OpenItems) : i \in 1 .. Len(t) /\ t[i] = OpenItems[i]
      BY <3>2, <3>3
    <3>5. items'[o] = t /\ \A q \in Queues \ {o} : items'[q] = items[q]
      BY <1>2, <3>1 DEF TypeOK
    <3>6. Len(t) \in 1 .. Len(t)
      BY <3>3
    <3> QED  BY <3>1, <3>2, <3>4, <3>5, <3>6
  <2> QED  BY <2>1, <2>2, <2>3
<1>6. Clean'
  BY <1>2, <1>5 DEF Clean, TypeOK
<1>7. AtFront'
  <2> SUFFICES ASSUME NEW q \in Queues, drain'[q].pc \in Running
               PROVE  /\ drain'[q].pc # "summary"
                      /\ drain'[q].pc = "one" => Len(drain'[q].batch) = 1
                      /\ Len(drain'[q].batch) <= Len(items'[q])
                      /\ \A i \in 1 .. Len(drain'[q].batch) : items'[q][i] = drain'[q].batch[i]
    BY DEF AtFront
  <2>1. drain'[q] = drain[q]
    BY <1>1, EnqueueMoves
  <2>2. q = current /\ q = o /\ OpenItems = items[q]
    BY <1>2, <2>1, IdleNotRunning, FollowupQueueAssumption DEF OneDrain
  <2>3. /\ Len(drain[q].batch) \in Nat /\ Len(items[q]) \in Nat /\ Len(items'[q]) \in Nat
    BY DEF TypeOK, Drain
  <2>4. /\ drain[q].pc # "summary"
        /\ drain[q].pc = "one" => Len(drain[q].batch) = 1
        /\ Len(drain[q].batch) <= Len(items[q])
        /\ \A i \in 1 .. Len(drain[q].batch) : items[q][i] = drain[q].batch[i]
    BY <2>1 DEF AtFront
  <2>5. \A i \in 1 .. Len(items[q]) : i \in 1 .. Len(items'[q]) /\ items'[q][i] = items[q][i]
    BY <1>5, <2>2
  <2>6. Len(items[q]) <= Len(items'[q])
    BY <2>3, <2>5
  <2>7. \A i \in 1 .. Len(drain[q].batch) : items'[q][i] = drain[q].batch[i]
    BY <2>3, <2>4, <2>5
  <2> QED  BY <2>1, <2>3, <2>4, <2>6, <2>7
<1>8. Queued'
  <2>1. ASSUME NEW x \in Messages, fate'[x] = "queued" PROVE x \in Elems(items'[o])
    <3>1. items'[o] \in Seq(Messages)
      BY <1>2 DEF TypeOK
    <3>2. CASE \E i \in 1 .. Len(items'[o]) : items'[o][i] = x
      BY <3>1, <3>2, ElemsAre
    <3>3. CASE fate[x] = "queued"
      <4>1. x \in Elems(OpenItems)
        BY <1>2, <3>3 DEF Queued
      <4>2. PICK i \in 1 .. Len(OpenItems) : OpenItems[i] = x
        BY <1>2, <4>1, ElemsAre
      <4> QED  BY <1>5, <3>1, <4>2, ElemsAre
    <3> QED  BY <1>5, <2>1, <3>2, <3>3
  <2> QED  BY <1>2, <1>3, <2>1, QueuedAfter
<1> QED  BY <1>6, <1>7, <1>8

LEMMA LostStarts ==
    ASSUME TypeOK, OneDrain, Clean, AtFront, Queued, NEW o \in Queues, Starts(o)
    PROVE  Clean' /\ AtFront' /\ Queued'
<1>1. /\ UNCHANGED <<current, items, recent, fate>>
      /\ \A q \in Queues \ {o} : drain'[q] = drain[q]
      /\ drain[o].pc \in {"debounce", "collect"} /\ drain'[o].pc \in Running
      /\ Len(drain'[o].batch) <= Len(items[o])
      /\ \A b \in 1 .. Len(drain'[o].batch) : drain'[o].batch[b] = items[o][b]
  BY StartedIs
<1>2. dropped' = dropped
  BY DEF Starts, CollectOne, CollectBatch, RunSummary, RunHead, Await, queueVars
<1>3. ~RunSummary(o)
  BY DEF RunSummary, Summary, Clean
<1>4. drain'[o].pc # "summary" /\ (drain'[o].pc = "one" => Len(drain'[o].batch) = 1)
  <2>1. CASE CollectOne(o) \/ RunHead(o)
    <3>1. drain'[o].pc = "one" /\ drain'[o].batch = <<Head(items[o])>>
      BY <2>1 DEF CollectOne, RunHead, Await, TypeOK
    <3> QED  BY <3>1
  <2>2. CASE CollectBatch(o)
    BY <2>2 DEF CollectBatch, Await, TypeOK
  <2> QED  BY <1>3, <2>1, <2>2 DEF Starts
<1>5. AtFront'
  BY <1>1, <1>4 DEF AtFront
<1>6. Queued'
  BY <1>1 DEF Queued, Elems
<1> QED  BY <1>2, <1>5, <1>6 DEF Clean

LEMMA LostSucceeds ==
    ASSUME TypeOK, OneDrain, Clean, AtFront, Queued, NEW o \in Queues, TurnSucceeds(o)
    PROVE  Clean' /\ AtFront' /\ Queued'
<1> DEFINE n == Taken(o)
           t == DropFirst(items[o], n)
<1>1. drain[o].pc \in Running /\ drain[o] # Idle /\ o = current
  BY IdleNotRunning DEF TurnSucceeds, OneDrain
<1>2. /\ items' = [items EXCEPT ![o] = t]
      /\ dropped' = [dropped EXCEPT ![o] = IF drain[o].summary # {} THEN {} ELSE @]
      /\ \A m \in Messages : fate'[m] = "queued" =>
            fate[m] = "queued" /\ m \notin Elems(drain[o].batch)
  BY DEF TurnSucceeds, Taken
<1>3. /\ current' = o \/ (current' = NoQueue /\ EmptyNext(o))
      /\ \A p \in Queues : drain'[p].pc \notin Running
  <2>1. CASE EmptyNext(o)
    BY <1>1, <2>1, FinishGoes DEF TurnSucceeds
  <2>2. CASE ~EmptyNext(o)
    <3>1. /\ drain' = [drain EXCEPT ![o] = Debouncing(drain[o].force)]
          /\ current' = current /\ drain[o].force \in BOOLEAN
      BY <2>2 DEF TurnSucceeds, TypeOK, Drain
    <3> QED  BY <1>1, <3>1, IdleNotRunning DEF OneDrain, TypeOK
  <2> QED  BY <2>1, <2>2
<1>4. Clean'
  BY <1>2 DEF Clean, TypeOK
<1>5. AtFront'
  BY <1>3 DEF AtFront
<1>6. ASSUME NEW m \in Messages, fate'[m] = "queued" PROVE m \in Elems(items'[o])
  <2>1. /\ items[o] \in Seq(Messages) /\ drain[o].batch \in Seq(Messages) /\ n \in Nat
        /\ Len(items[o]) \in Nat
    BY DEF TypeOK, Drain, Taken
  <2>2. items'[o] = t
    BY <1>2 DEF TypeOK
  <2>3. n = Len(drain[o].batch) /\ \A i \in 1 .. n : items[o][i] = drain[o].batch[i]
    BY <1>1 DEF AtFront, Taken, Running
  <2> HIDE DEF n
  <2>4. Elems(t) = Beyond(items[o], n)
    BY <2>1, TailIs
  <2> HIDE DEF t
  <2>5. m \in Elems(items[o]) /\ m \notin Elems(drain[o].batch)
    BY <1>1, <1>2, <1>6 DEF Queued
  <2>6. PICK i \in 1 .. Len(items[o]) : items[o][i] = m
    BY <2>1, <2>5, ElemsAre
  <2>7. i \notin 1 .. n
    BY <2>1, <2>3, <2>5, <2>6, ElemsAre
  <2>8. i \in n + 1 .. Len(items[o])
    BY <2>1, <2>7
  <2> QED  BY <2>2, <2>4, <2>6, <2>8 DEF Beyond
<1>7. Queued'
  BY <1>3, <1>6, QueuedAfter
<1> QED  BY <1>4, <1>5, <1>7

LEMMA LostStep ==
    ASSUME Keeps, TypeOK, TypeOK', OneDrain, Clean, AtFront, Queued, [Next]_vars
    PROVE  Clean' /\ AtFront' /\ Queued'
<1>1. ASSUME NEW m \in Messages, NEW s \in Settings,
             EnqueueDuplicate(m, s) \/ EnqueueRefused(m, s) \/ EnqueueAccepted(m, s)
      PROVE  Clean' /\ AtFront' /\ Queued'
  BY <1>1, LostEnqueue
<1>2. ASSUME UNCHANGED <<current, items, dropped, drain, fate>>
      PROVE  Clean' /\ AtFront' /\ Queued'
  BY <1>2 DEF Clean, AtFront, Queued, Elems
<1>3. ASSUME NEW m \in Messages, Forget(m) PROVE Clean' /\ AtFront' /\ Queued'
  BY <1>2, <1>3 DEF Forget, queueVars
<1>4. CASE StartMain \/ UNCHANGED vars
  BY <1>2, <1>4 DEF StartMain, vars, queueVars
<1>5. CASE EndMain
  <2>1. UNCHANGED <<items, dropped, fate>> /\ ScheduleDrain(current, drain)
    BY <1>5 DEF EndMain, queueVars
  <2>2. Scheduled(current, drain)
    BY <2>1, ScheduleDrainIs DEF TypeOK
  <2>3. \A q \in Queues : drain'[q].pc \in Running => drain'[q] = drain[q]
    BY <2>1, ScheduleMoves DEF Moves
  <2>4. AtFront'
    BY <2>1, <2>3 DEF AtFront
  <2>5. CASE current = NoQueue
    BY <2>1, <2>2, <2>4, <2>5 DEF Scheduled, Queued, Clean
  <2>6. CASE current # NoQueue
    <3>1. current \in Queues
      BY <2>6 DEF TypeOK
    <3>2. current' = current \/ (current' = NoQueue /\ EmptyNext(current))
      BY <2>2 DEF Scheduled
    <3>3. \A m \in Messages : fate'[m] = "queued" => m \in Elems(items'[current])
      BY <2>1 DEF Queued
    <3>4. Queued'
      BY <3>1, <3>2, <3>3, QueuedAfter
    <3> QED  BY <2>1, <2>4, <3>4 DEF Clean
  <2> QED  BY <2>5, <2>6
<1>6. CASE Clear
  BY <1>6 DEF Clear, Keeps
<1>7. ASSUME NEW q \in Queues, GiveUp(q) PROVE Clean' /\ AtFront' /\ Queued'
  <2>1. drain[q] # Idle /\ Finish(q) /\ UNCHANGED <<items, dropped, fate>>
    BY <1>7, IdleIsDrain DEF GiveUp, queueVars
  <2> QED  BY <2>1, LostQuiet
<1>8. ASSUME NEW q \in Queues, TurnFails(q) PROVE Clean' /\ AtFront' /\ Queued'
  <2>1. drain[q] # Idle /\ Finish(q) /\ UNCHANGED <<items, dropped, fate>>
    BY <1>8, IdleNotRunning DEF TurnFails, queueVars
  <2> QED  BY <2>1, LostQuiet
<1>9. ASSUME NEW q \in Queues, DrainStep(q) PROVE Clean' /\ AtFront' /\ Queued'
  <2>1. CASE CollectCheck(q)
    BY <2>1, CheckIs, IdleNotRunning DEF Clean, AtFront, Queued, Elems
  <2> QED  BY <1>7, <1>9, <2>1, LostStarts DEF DrainStep, Starts
<1> QED  BY <1>1, <1>3, <1>4, <1>5, <1>6, <1>8, <1>9, LostSucceeds DEF Next

(* Where nothing is cleared and a full queue turns newcomers away, a        *)
(* message that was accepted is run or still in a queue that will be        *)
(* drained, whichever turns fail and are retried.                           *)
THEOREM NothingVanishes == ASSUME Keeps PROVE Spec => []Accounted
<1>1. Init => (OneDrain /\ NotStranded) /\ (Clean /\ AtFront /\ Queued)
  BY StrandedInit, LostInit
<1>2. ASSUME TypeOK, TypeOK', OneDrain, NotStranded, Clean, AtFront, Queued, [Next]_vars
      PROVE  (OneDrain' /\ NotStranded') /\ (Clean' /\ AtFront' /\ Queued')
  BY <1>2, StrandedStep, LostStep DEF Keeps
<1>3. ASSUME TypeOK, Queued PROVE Accounted
  BY <1>3 DEF TypeOK, Queued, Accounted, Live
<1>4. Spec => []TypeOK
  BY TypeCorrect
<1> QED  BY <1>1, <1>2, <1>3, <1>4, PTL DEF Spec
=============================================================================
