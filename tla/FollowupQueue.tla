---------------------------- MODULE FollowupQueue ----------------------------
(***************************************************************************)
(* The followup queue of one session: messages that arrive while the        *)
(* session's agent is busy wait here and become later agent turns           *)
(* (services/openclaw/src/auto-reply/reply/queue/*.ts over the shared       *)
(* utils/queue-helpers.ts; called by auto-reply/reply/agent-runner.ts).     *)
(*                                                                         *)
(* Sessions share nothing but the code, so one key is modelled.  What the   *)
(* registry holds under the key changes over time, though: a drain deletes  *)
(* the entry when it is done and /stop deletes it at any time, while the    *)
(* drain keeps its reference to the queue object.  Objects are therefore    *)
(* numbered; "current" is the one the registry knows.                       *)
(*                                                                         *)
(* An action is a stretch of code between two awaits: of the debounce       *)
(* timer, of the collect step, which yields even when it is skipped, and of *)
(* the agent turn itself.                                                   *)
(***************************************************************************)
EXTENDS Integers, Sequences, FiniteSets

CONSTANTS
    Messages,     \* inbound messages, with distinct message ids
    Routes,       \* where a reply goes: "none" (no routing data), "unroutable"
                  \* or a channel|to|account|thread key
    Settings,     \* queue settings a message may arrive with
    Queues,       \* bound: queue objects that can be referenced at one time
    NoQueue,      \* no entry under the key
    MayClear,     \* whether the session's queues are ever cleared
    Forgettable   \* messages whose id may leave the dedupe cache by age

ASSUME FollowupQueueAssumption ==
    /\ Settings \subseteq [collect : BOOLEAN, cap : Nat \ {0},
                           drop : {"old", "new", "summarize"}]
    /\ NoQueue \notin Queues
    /\ MayClear \in BOOLEAN
    /\ Forgettable \subseteq Messages

VARIABLES
    current,   \* FOLLOWUP_QUEUES.get(key)
    items,     \* FollowupQueueState.items, per object
    dropped,   \* droppedCount and summaryLines: the messages they stand for
    lastRun,   \* whether lastRun is set
    settings,  \* mode, cap and dropPolicy in force
    drain,     \* the drain loop working on the object, if any
    mainRun,   \* whether a turn started outside of the queue is active
    recent,    \* RECENT_QUEUE_MESSAGE_IDS
    fate,      \* what became of each message (history)
    route      \* where each message came from

queueVars == <<items, dropped, lastRun, settings>>
vars == <<current, queueVars, drain, mainRun, recent, fate, route>>

-----------------------------------------------------------------------------
Idle == [pc |-> "idle", batch |-> <<>>, summary |-> {}, force |-> FALSE,
         checked |-> {}]
Debouncing(force) == [Idle EXCEPT !.pc = "debounce", !.force = force]

(* pc "one": the head's turn is running; "batch": all collected messages';  *)
(* "summary": the turn of the overflow summary in place of the head's.      *)
(* "collect" is the await between the check of the routes and the batch;    *)
(* `checked` (history) holds the messages that the check saw.               *)
Running == {"one", "batch", "summary"}
Drain == [pc : {"idle", "debounce", "collect"} \cup Running,
          batch : Seq(Messages), summary : SUBSET Messages, force : BOOLEAN,
          checked : SUBSET Messages]

Fate == {"new", "queued", "refused", "discarded", "dropped", "announced",
         "cleared", "ran"}

TypeOK ==
    /\ current \in Queues \cup {NoQueue}
    /\ items \in [Queues -> Seq(Messages)]
    /\ \A q \in Queues : \E s \in Settings : Len(items[q]) <= s.cap
    /\ dropped \in [Queues -> SUBSET Messages]
    /\ lastRun \in [Queues -> BOOLEAN]
    /\ settings \in [Queues -> Settings]
    /\ drain \in [Queues -> Drain]
    /\ mainRun \in BOOLEAN
    /\ recent \subseteq Messages
    /\ fate \in [Messages -> Fate]
    /\ route \in [Messages -> Routes]

Init ==
    /\ current = NoQueue
    /\ items = [q \in Queues |-> <<>>]
    /\ dropped = [q \in Queues |-> {}]
    /\ lastRun = [q \in Queues |-> FALSE]
    /\ settings \in {[q \in Queues |-> s] : s \in Settings}
    /\ drain = [q \in Queues |-> Idle]
    /\ mainRun = FALSE
    /\ recent = {}
    /\ fate = [m \in Messages |-> "new"]
    /\ route \in [Messages -> Routes]

-----------------------------------------------------------------------------
Elems(s) == {s[i] : i \in DOMAIN s}
DropFirst(s, n) == SubSeq(s, n + 1, Len(s))

(* Mutant: room is made only after the cap has been exceeded.               *)
ExcessOffByOne(s, cap) == IF Len(s) <= cap THEN 0 ELSE Len(s) - cap + 1

Excess(s, cap) == IF Len(s) < cap THEN 0 ELSE Len(s) - cap + 1
Empty(q) == items[q] = <<>> /\ dropped[q] = {}
EmptyNext(q) == items'[q] = <<>> /\ dropped'[q] = {}

(* Mutant: messages without routing data are overlooked in a mixed queue.   *)
CrossChannelAmongKeyed(s) ==
    LET used == {route[m] : m \in Elems(s)} \ {"none"} IN
    \/ "unroutable" \in used
    \/ Cardinality(used) > 1

(* hasCrossChannelItems *)
CrossChannel(s) ==
    LET used == {route[m] : m \in Elems(s)} IN
    \/ "unroutable" \in used
    \/ Cardinality(used) > 1

Summary(q) == IF settings[q].drop = "summarize" THEN dropped[q] ELSE {}

(* beginQueueDrain on the registry's object, and the drain loop up to its   *)
(* first await.  "cur" and "d" are the registry entry and the drains as     *)
(* left by the code that ran before it in the same step.                    *)
ScheduleDrain(cur, d) ==
    IF cur = NoQueue \/ d[cur] # Idle
    THEN current' = cur /\ drain' = d
    ELSE IF EmptyNext(cur)
    THEN current' = NoQueue /\ drain' = d
    ELSE current' = cur /\ drain' = [d EXCEPT ![cur] = Debouncing(FALSE)]

(* Mutant: whatever is left waits for somebody else to schedule a drain.    *)
FinishWithoutReschedule(q) ==
    LET d == [drain EXCEPT ![q] = Idle] IN
    IF EmptyNext(q)
    THEN current' = NoQueue /\ drain' = d
    ELSE UNCHANGED current /\ drain' = d

(* The finally block of a drain.  The registry entry is deleted by key,     *)
(* whichever object it holds by now.                                        *)
Finish(q) ==
    LET d == [drain EXCEPT ![q] = Idle] IN
    IF EmptyNext(q)
    THEN current' = NoQueue /\ drain' = d
    ELSE ScheduleDrain(current, d)

-----------------------------------------------------------------------------
(* runReplyAgent decides to queue a message from a snapshot of "is a run    *)
(* active"; after the enqueue it looks again and starts the drain itself if *)
(* there is none.  A followup turn counts as active only from the moment    *)
(* its embedded run is registered.                                          *)
RunActive ==
    IF mainRun THEN {TRUE}
    ELSE IF \E q \in Queues : drain[q].pc \in Running THEN BOOLEAN ELSE {FALSE}

(* getFollowupQueue: the registry's object or a new one.                    *)
Opened == IF current # NoQueue THEN current
          ELSE CHOOSE q \in Queues : drain[q] = Idle
CanOpen == current # NoQueue \/ \E q \in Queues : drain[q] = Idle
OpenItems == IF current = NoQueue THEN <<>> ELSE items[current]
OpenDropped == IF current = NoQueue THEN {} ELSE dropped[current]
OpenLastRun == current # NoQueue /\ lastRun[current]

(* Mutant: no second look after the enqueue.                                *)
AfterEnqueueNoRecheck == current' = Opened /\ UNCHANGED drain

(* agent-runner's second look, after enqueueFollowupRun returned.           *)
AfterEnqueue ==
    \E active \in RunActive :
        IF active THEN current' = Opened /\ UNCHANGED drain
                  ELSE ScheduleDrain(Opened, drain)

IsDuplicate(m) == m \in recent \/ m \in Elems(OpenItems)

(* A redelivered message still applies its settings and opens a queue.      *)
EnqueueDuplicate(m, s) ==
    /\ CanOpen /\ IsDuplicate(m)
    /\ settings' = [settings EXCEPT ![Opened] = s]
    /\ items' = [items EXCEPT ![Opened] = OpenItems]
    /\ dropped' = [dropped EXCEPT ![Opened] = OpenDropped]
    /\ lastRun' = [lastRun EXCEPT ![Opened] = OpenLastRun]
    /\ AfterEnqueue
    /\ UNCHANGED <<mainRun, recent, fate, route>>

(* Drop policy "new" at the cap: the newcomer is turned away.               *)
EnqueueRefused(m, s) ==
    /\ CanOpen /\ ~IsDuplicate(m)
    /\ s.drop = "new" /\ Len(OpenItems) >= s.cap
    /\ settings' = [settings EXCEPT ![Opened] = s]
    /\ lastRun' = [lastRun EXCEPT ![Opened] = TRUE]
    /\ fate' = [fate EXCEPT ![m] = "refused"]
    /\ UNCHANGED <<items, dropped, mainRun, recent, route>>
    /\ AfterEnqueue

(* applyQueueDropPolicy makes room at the front, then the message is pushed. *)
EnqueueAccepted(m, s) ==
    /\ CanOpen /\ ~IsDuplicate(m)
    /\ s.drop # "new" \/ Len(OpenItems) < s.cap
    /\ LET n == Excess(OpenItems, s.cap)
           out == Elems(SubSeq(OpenItems, 1, n))
       IN
        /\ items' = [items EXCEPT ![Opened] = Append(DropFirst(OpenItems, n), m)]
        /\ dropped' = [dropped EXCEPT ![Opened] =
                        OpenDropped \cup (IF s.drop = "summarize"
                                          THEN out ELSE {})]
        /\ fate' = [x \in Messages |->
                      IF x = m THEN "queued"
                      ELSE IF x \notin out THEN fate[x]
                      ELSE IF s.drop = "summarize" THEN "dropped"
                      ELSE "discarded"]
    /\ settings' = [settings EXCEPT ![Opened] = s]
    /\ lastRun' = [lastRun EXCEPT ![Opened] = TRUE]
    /\ recent' = recent \cup {m}
    /\ AfterEnqueue
    /\ UNCHANGED <<mainRun, route>>

(* The dedupe cache forgets an id after five minutes.                       *)
Forget(m) ==
    /\ m \in recent \cap Forgettable
    /\ recent' = recent \ {m}
    /\ UNCHANGED <<current, queueVars, drain, mainRun, fate, route>>

StartMain ==
    /\ ~mainRun
    /\ mainRun' = TRUE
    /\ UNCHANGED <<current, queueVars, drain, recent, fate, route>>

(* Every exit of runReplyAgent goes through finalizeWithFollowup.           *)
EndMain ==
    /\ mainRun
    /\ mainRun' = FALSE
    /\ UNCHANGED <<queueVars, recent, fate, route>>
    /\ ScheduleDrain(current, drain)

(* clearSessionQueues, by /stop, a session reset or a sub-agent kill.       *)
Clear ==
    /\ MayClear /\ current # NoQueue
    /\ fate' = [m \in Messages |->
                  IF m \in Elems(items[current]) \cup dropped[current]
                  THEN "cleared" ELSE fate[m]]
    /\ items' = [items EXCEPT ![current] = <<>>]
    /\ dropped' = [dropped EXCEPT ![current] = {}]
    /\ lastRun' = [lastRun EXCEPT ![current] = FALSE]
    /\ current' = NoQueue
    /\ UNCHANGED <<settings, drain, mainRun, recent, route>>

-----------------------------------------------------------------------------
(* The drain loop, from the end of the debounce to the await of a turn.     *)
OneByOne(q) == drain[q].force \/ CrossChannel(items[q])

Await(q, pc, batch, summary, force) ==
    /\ drain' = [drain EXCEPT ![q] = [pc |-> pc, batch |-> batch,
                                      summary |-> summary, force |-> force,
                                      checked |-> drain[q].checked]]
    /\ UNCHANGED <<current, queueVars, mainRun, recent, fate, route>>

(* Mutant: the turn takes the message that came last. *)
CollectNewest(q) ==
    /\ drain[q].pc = "debounce"
    /\ settings[q].collect /\ OneByOne(q) /\ items[q] # <<>>
    /\ Await(q, "one", <<items[q][Len(items[q])]>>, {}, TRUE)

CollectOne(q) ==
    /\ drain[q].pc = "debounce"
    /\ settings[q].collect /\ OneByOne(q) /\ items[q] # <<>>
    /\ Await(q, "one", <<Head(items[q])>>, {}, TRUE)

(* One route, as far as the queue goes now.                                 *)
CollectCheck(q) ==
    /\ drain[q].pc = "debounce"
    /\ settings[q].collect /\ ~OneByOne(q)
    /\ drain' = [drain EXCEPT ![q] = [Idle EXCEPT !.pc = "collect",
                                                  !.checked = Elems(items[q])]]
    /\ UNCHANGED <<current, queueVars, mainRun, recent, fate, route>>

(* The batch is what is in the queue by then; neither the routes nor the    *)
(* mode are looked at again.                                                *)
CollectBatch(q) ==
    /\ drain[q].pc = "collect"
    /\ items[q] # <<>> \/ lastRun[q]
    /\ Await(q, "batch", items[q], Summary(q), FALSE)

RunSummary(q) ==
    /\ drain[q].pc = "debounce"
    /\ ~settings[q].collect
    /\ Summary(q) # {} /\ lastRun[q] /\ items[q] # <<>>
    /\ Await(q, "summary", <<>>, Summary(q), drain[q].force)

RunHead(q) ==
    /\ drain[q].pc = "debounce"
    /\ ~settings[q].collect
    /\ Summary(q) = {} /\ items[q] # <<>>
    /\ Await(q, "one", <<Head(items[q])>>, {}, drain[q].force)

(* Every other way through the loop body breaks out of it.                  *)
GiveUp(q) ==
    /\ \/ /\ drain[q].pc = "debounce"
          /\ IF settings[q].collect
             THEN items[q] = <<>> /\ OneByOne(q)
             ELSE items[q] = <<>> \/ (Summary(q) # {} /\ ~lastRun[q])
       \/ drain[q].pc = "collect" /\ items[q] = <<>> /\ ~lastRun[q]
    /\ UNCHANGED <<queueVars, mainRun, recent, fate, route>>
    /\ Finish(q)

(* Mutant: the array is emptied instead of the items that were run.         *)
TurnSucceedsClearingAll(q) ==
    LET d == drain[q] IN
    /\ d.pc \in Running
    /\ items' = [items EXCEPT ![q] = <<>>]
    /\ dropped' = [dropped EXCEPT ![q] = IF d.summary # {} THEN {} ELSE @]
    /\ fate' = [m \in Messages |->
                  IF m \in Elems(d.batch) THEN "ran"
                  ELSE IF m \in d.summary /\ fate[m] = "dropped"
                  THEN "announced" ELSE fate[m]]
    /\ UNCHANGED <<lastRun, settings, mainRun, recent, route>>
    /\ Finish(q)

(* Mutant: the items that were run stay in the queue.                       *)
TurnSucceedsWithoutShift(q) ==
    LET d == drain[q] IN
    /\ d.pc \in Running
    /\ fate' = [m \in Messages |->
                  IF m \in Elems(d.batch) THEN "ran" ELSE fate[m]]
    /\ UNCHANGED <<queueVars, mainRun, recent, route>>
    /\ Finish(q)

(* The turn succeeds: as many items as it took are removed from the front   *)
(* of what is in the queue now, and the loop goes on.                       *)
TurnSucceeds(q) ==
    LET d == drain[q] IN
    /\ d.pc \in Running
    /\ items' = [items EXCEPT ![q] =
                   DropFirst(@, IF d.pc = "batch" THEN Len(d.batch) ELSE 1)]
    /\ dropped' = [dropped EXCEPT ![q] = IF d.summary # {} THEN {} ELSE @]
    /\ fate' = [m \in Messages |->
                  IF m \in Elems(d.batch) THEN "ran"
                  ELSE IF m \in d.summary /\ fate[m] = "dropped"
                  THEN "announced" ELSE fate[m]]
    /\ UNCHANGED <<lastRun, settings, mainRun, recent, route>>
    /\ IF EmptyNext(q)
       THEN Finish(q)
       ELSE /\ drain' = [drain EXCEPT ![q] = Debouncing(d.force)]
            /\ UNCHANGED current

(* The turn fails: the finally block starts a new drain for what is left.   *)
TurnFails(q) ==
    /\ drain[q].pc \in Running
    /\ UNCHANGED <<queueVars, mainRun, recent, fate, route>>
    /\ Finish(q)

-----------------------------------------------------------------------------
DrainStep(q) == \/ CollectOne(q) \/ CollectCheck(q) \/ CollectBatch(q)
                \/ RunSummary(q) \/ RunHead(q) \/ GiveUp(q)

Next ==
    \/ \E m \in Messages, s \in Settings :
          EnqueueDuplicate(m, s) \/ EnqueueRefused(m, s) \/ EnqueueAccepted(m, s)
    \/ \E m \in Messages : Forget(m)
    \/ StartMain \/ EndMain \/ Clear
    \/ \E q \in Queues : DrainStep(q) \/ TurnSucceeds(q) \/ TurnFails(q)

Spec == Init /\ [][Next]_vars

(* Debounce timers fire, the turn that keeps the session busy ends, and a   *)
(* turn that is retried again and again succeeds at last.                   *)
Fairness ==
    /\ WF_vars(EndMain)
    /\ \A q \in Queues : WF_vars(DrainStep(q)) /\ SF_vars(TurnSucceeds(q))

FairSpec == Spec /\ Fairness

-----------------------------------------------------------------------------
(* The objects somebody will still look at. *)
Live(q) == q = current \/ drain[q] # Idle

(* A message that has been run is not run again, whatever is retried,       *)
(* dropped, cleared or redelivered meanwhile, as long as its own id is in   *)
(* the dedupe cache.                                                        *)
NoRerun ==
    \A q \in Queues, m \in Messages \ Forgettable :
        Live(q) /\ m \in Elems(items[q]) => fate[m] # "ran"

(* A collected turn answers to one place: of two messages of a batch that   *)
(* came from different places, the later one joined the queue in the await  *)
(* between the check of the routes and the batch.  Whatever the check saw   *)
(* shares a route and stays in front of what joined, through evictions,     *)
(* clears and redeliveries.  (A message that is evicted in that await,      *)
(* forgotten and redelivered has joined again.)                             *)
BatchHasOneRoute ==
    \A q \in Queues : drain[q].pc = "batch" =>
        LET batch == drain[q].batch IN
        \A i, j \in DOMAIN batch :
           i < j /\ batch[j] \in drain[q].checked \ Forgettable =>
               route[batch[i]] = route[batch[j]]

(* Turns are taken in the order of arrival: a message is not run while one  *)
(* that is ahead of it in its queue waits, and none gets past another, also *)
(* when the drop policy removes items under a turn that is being retried.   *)
(* (A message that is evicted during its own turn, forgotten and redelivered *)
(* is run by that turn, but stands behind.)                                 *)
RunsInOrder ==
    [][\A q \in Queues : Live(q) =>
          \A i, j \in DOMAIN items[q] : i < j =>
             /\ items[q][j] \notin Forgettable /\ fate'[items[q][j]] = "ran" =>
                    fate'[items[q][i]] = "ran"
             /\ ~ \E k, l \in DOMAIN items'[q] :
                     k < l /\ items'[q][k] = items[q][j] /\ items'[q][l] = items[q][i]
      ]_vars

(* A queue with work is being drained or will be when the active run ends.  *)
NotStranded ==
    current # NoQueue /\ ~Empty(current) => drain[current] # Idle \/ mainRun

(* Nothing vanishes: what was accepted and neither run, nor evicted by the  *)
(* drop policy, nor cleared, is still in a queue that will be drained.      *)
Accounted ==
    \A m \in Messages :
        fate[m] = "queued" => \E q \in Queues : Live(q) /\ m \in Elems(items[q])

(* Every accepted message is run in the end.                                *)
EveryMessageRuns ==
    \A m \in Messages : fate[m] = "queued" ~> fate[m] = "ran"
=============================================================================
