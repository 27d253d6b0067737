---------------------------- MODULE DeliveryQueue ----------------------------
(***************************************************************************)
(* The write-ahead queue of outbound deliveries: a message is a file before *)
(* it is sent and no file after, so that a gateway that dies in between can  *)
(* send it at the next startup (services/openclaw/src/infra/outbound/       *)
(* delivery-queue-storage.ts, delivery-queue-recovery.ts and the wrapper    *)
(* deliverOutboundPayloads in deliver.ts).                                  *)
(*                                                                         *)
(* The file of message m is worked on by the call that delivers it (worker  *)
(* Live) and by the recovery scans of gateway startups.  A crash takes all  *)
(* of them away and leaves the files; an in-process restart starts a scan    *)
(* and takes nothing away.  Every file operation is awaited, and is an      *)
(* action.                                                                  *)
(***************************************************************************)
EXTENDS Integers, FiniteSets

CONSTANTS
    Messages,     \* numbered in the order of their enqueuedAt
    Recoveries,   \* recovery scans that can run at one time
    Live,         \* the worker that is not a recovery scan
    BestEffort,   \* messages enqueued with bestEffort
    Reporting,    \* those of them whose sender passes onError
    Mirrored,     \* messages to be copied to a session transcript
    MaxRetries,   \* MAX_RETRIES
    MaxCrashes,   \* bound: crashes in a behaviour
    Overlap,      \* scans run beside new deliveries and beside each other
    DiskMayFail   \* file operations may fail by themselves

ASSUME DeliveryQueueAssumption ==
    /\ Messages \subseteq Nat
    /\ Live \notin Recoveries
    /\ Reporting \subseteq BestEffort /\ BestEffort \subseteq Messages
    /\ Mirrored \subseteq Messages
    /\ MaxRetries \in Nat \ {0} /\ MaxCrashes \in Nat
    /\ Overlap \in BOOLEAN /\ DiskMayFail \in BOOLEAN

VARIABLES
    json,      \* retryCount in <id>.json, or Absent
    marker,    \* whether <id>.delivered exists
    failed,    \* whether failed/<id>.json exists
    job,       \* what each worker is doing for each message
    scan,      \* the loop of recoverPendingDeliveries
    born,      \* whether the message was sent yet, and stored before that
    got,       \* what the recipient has seen (history)
    aborted,   \* messages whose delivery the caller cancelled (history)
    attempts,  \* times the message was given to the channel (history)
    crashes    \* crashes so far

disk == <<json, marker, failed>>
history == <<got, aborted, attempts>>
vars == <<disk, job, scan, born, history, crashes>>

-----------------------------------------------------------------------------
Absent == -1
Workers == Recoveries \cup {Live}

(* Bounds.  A count of MaxRetries or more is only ever compared with        *)
(* MaxRetries, so the model stops counting one above it.                    *)
Bump(n) == IF n > MaxRetries THEN n ELSE n + 1
Attempted(n) == IF n > MaxRetries + MaxCrashes THEN n ELSE n + 1

Retries == 0 .. MaxRetries + 1
Job == [pc : {"idle", "sending", "acking", "unlinking", "failing", "storing",
              "burying"},
        n : Retries]
At(pc) == [pc |-> pc, n |-> 0]
Idle == At("idle")

Scan == [pc : {"off", "start", "run"},
         names : SUBSET Messages,                   \* files still to be read
         pending : [Messages -> Retries \cup {Absent}],
         awaited : BOOLEAN]                         \* the loop has awaited
NoneRead == [m \in Messages |-> Absent]
Off == [pc |-> "off", names |-> {}, pending |-> NoneRead, awaited |-> FALSE]

(* "sent": by an attempt that is, or will be, recorded; "excused": by one    *)
(* whose success was never recorded; "twice": again after "sent".           *)
Got == {"never", "sent", "excused", "twice"}

(* A scan awaits everything it starts, so none is at work once it is over.  *)
TypeOK ==
    /\ json \in [Messages -> Retries \cup {Absent}]
    /\ marker \in [Messages -> BOOLEAN]
    /\ failed \in [Messages -> BOOLEAN]
    /\ job \in [Messages -> [Workers -> Job]]
    /\ scan \in [Recoveries -> Scan]
    /\ \A r \in Recoveries : scan[r].pc # "run" =>
           \A m \in Messages : job[m][r] = Idle
    /\ born \in [Messages -> {"new", "stored", "unstored"}]
    /\ got \in [Messages -> Got]
    /\ aborted \subseteq Messages
    /\ attempts \in [Messages -> 0 .. MaxRetries + MaxCrashes + 1]
    /\ crashes \in 0 .. MaxCrashes

-----------------------------------------------------------------------------
(* The first process finds no files, and scans like any other.              *)
Starting(r) == [q \in Recoveries |-> IF q = r THEN [Off EXCEPT !.pc = "start"]
                                              ELSE Off]
NoJobs == [m \in Messages |-> [w \in Workers |-> Idle]]

Init ==
    /\ json = [m \in Messages |-> Absent]
    /\ marker = [m \in Messages |-> FALSE]
    /\ failed = [m \in Messages |-> FALSE]
    /\ job = NoJobs
    /\ \E r \in Recoveries : scan = Starting(r)
    /\ born = [m \in Messages |-> "new"]
    /\ got = [m \in Messages |-> "never"]
    /\ aborted = {}
    /\ attempts = [m \in Messages |-> 0]
    /\ crashes = 0

Do(m, w, pc) == job' = [job EXCEPT ![m][w] = At(pc)]
Counted(m) == attempts' = [attempts EXCEPT ![m] = Attempted(@)]
Quiet == /\ \A r \in Recoveries : scan[r].pc = "off"
         /\ \A m \in Messages, w \in Workers : job[m][w] = Idle

(* A delivery that is not in the queue has no file to settle. *)
Then(m, w, pc) ==
    Do(m, w, IF w = Live /\ born[m] = "unstored" THEN "idle" ELSE pc)

-----------------------------------------------------------------------------
(* deliverOutboundPayloads up to the first send. *)
Enqueue(m, outcome) ==
    /\ born[m] = "new"
    /\ \A k \in Messages : k < m => born[k] # "new"
    /\ Overlap \/ \A r \in Recoveries : scan[r].pc = "off"
    /\ outcome = "unstored" => DiskMayFail
    /\ born' = [born EXCEPT ![m] = outcome]
    /\ json' = IF outcome = "stored" THEN [json EXCEPT ![m] = 0] ELSE json
    /\ Do(m, Live, "sending")
    /\ Counted(m)
    /\ UNCHANGED <<marker, failed, scan, got, aborted, crashes>>

AfterErrorForgotten(w) == IF w = Live THEN {"failing"} ELSE {"failing", "acking"}

(* What an error leads to: the entry's retryCount goes up or, in a scan     *)
(* that finds the error permanent, the entry goes to failed/.               *)
AfterError(w) == IF w = Live THEN {"failing"} ELSE {"failing", "burying"}

Sent(m, recorded) ==
    got' = [got EXCEPT ![m] = IF @ \in {"sent", "twice"} THEN "twice"
                              ELSE IF recorded THEN "sent" ELSE "excused"]

(* deliverOutboundPayloadsCore returns with every payload sent. *)
SendSucceeds(m, w) ==
    /\ job[m][w].pc = "sending"
    /\ Sent(m, TRUE)
    /\ Then(m, w, "acking")
    /\ UNCHANGED <<disk, scan, born, aborted, attempts, crashes>>

(* It returns although a payload was not sent, as it may under bestEffort.  *)
(* Only a caller with onError learns of it; a scan has none.                *)
SendPartly(m, w) ==
    /\ job[m][w].pc = "sending"
    /\ m \in BestEffort
    /\ Then(m, w, IF w = Live /\ m \in Reporting THEN "failing" ELSE "acking")
    /\ UNCHANGED <<disk, scan, born, history, crashes>>

(* It throws: before everything was sent, or over the copy it makes after. *)
SendFails(m, w) ==
    /\ job[m][w].pc = "sending"
    /\ \E pc \in AfterError(w) : Then(m, w, pc)
    /\ \/ UNCHANGED got
       \/ m \in Mirrored /\ Sent(m, FALSE)
    /\ UNCHANGED <<disk, scan, born, aborted, attempts, crashes>>

(* The caller's abort signal; under bestEffort it is one more payload error. *)
SendAborted(m) ==
    /\ job[m][Live].pc = "sending"
    /\ m \notin BestEffort
    /\ aborted' = aborted \cup {m}
    /\ Then(m, Live, "acking")
    /\ UNCHANGED <<disk, scan, born, got, attempts, crashes>>

-----------------------------------------------------------------------------
AckWithoutRename(m, w) ==
    /\ job[m][w].pc = "acking"
    /\ marker' = [marker EXCEPT ![m] = @ \/ json[m] # Absent]
    /\ Do(m, w, "unlinking")
    /\ UNCHANGED <<json, failed, scan, born, history, crashes>>

(* ackDelivery: json -> delivered, then delivered -> nothing. *)
AckRename(m, w) ==
    /\ job[m][w].pc = "acking"
    /\ json' = [json EXCEPT ![m] = Absent]
    /\ marker' = [marker EXCEPT ![m] = @ \/ json[m] # Absent]
    /\ Do(m, w, "unlinking")
    /\ UNCHANGED <<failed, scan, born, history, crashes>>

(* A rename that fails is ignored by the delivering call, and is a failed   *)
(* delivery to the scan, whose try block holds both.                        *)
AckFails(m, w) ==
    /\ DiskMayFail
    /\ job[m][w].pc = "acking"
    /\ Do(m, w, IF w = Live THEN "idle" ELSE "failing")
    /\ got' = [got EXCEPT ![m] = IF @ = "sent" THEN "excused" ELSE @]
    /\ UNCHANGED <<disk, scan, born, aborted, attempts, crashes>>

AckUnlink(m, w) ==
    /\ job[m][w].pc = "unlinking"
    /\ \/ marker' = [marker EXCEPT ![m] = FALSE]
       \/ DiskMayFail /\ UNCHANGED marker
    /\ Do(m, w, "idle")
    /\ UNCHANGED <<json, failed, scan, born, history, crashes>>

(* failDelivery: read the entry, then write it back with one more retry.    *)
(* No caller does anything about an error in it.                            *)
FailRead(m, w) ==
    /\ job[m][w].pc = "failing"
    /\ \/ /\ json[m] # Absent
          /\ job' = [job EXCEPT ![m][w] = [pc |-> "storing", n |-> json[m]]]
       \/ /\ json[m] = Absent \/ DiskMayFail
          /\ Do(m, w, "idle")
    /\ UNCHANGED <<disk, scan, born, history, crashes>>

FailStore(m, w) ==
    /\ job[m][w].pc = "storing"
    /\ \/ json' = [json EXCEPT ![m] = Bump(job[m][w].n)]
       \/ DiskMayFail /\ UNCHANGED json
    /\ Do(m, w, "idle")
    /\ UNCHANGED <<marker, failed, scan, born, history, crashes>>

(* moveToFailed; an error is logged. *)
Bury(m, w) ==
    /\ job[m][w].pc = "burying"
    /\ \/ /\ json' = [json EXCEPT ![m] = Absent]
          /\ failed' = [failed EXCEPT ![m] = @ \/ json[m] # Absent]
       \/ DiskMayFail /\ UNCHANGED <<json, failed>>
    /\ Do(m, w, "idle")
    /\ UNCHANGED <<marker, scan, born, history, crashes>>

-----------------------------------------------------------------------------
(* loadPendingDeliveries: list the directory, remove the markers ...        *)
List(r) ==
    /\ scan[r].pc = "start"
    /\ LET names == {m \in Messages : json[m] # Absent} IN
       scan' = [scan EXCEPT ![r] =
                   IF names = {} THEN Off
                   ELSE [Off EXCEPT !.pc = "run", !.names = names]]
    /\ \E kept \in SUBSET {m \in Messages : marker[m]} :
           /\ kept = {} \/ DiskMayFail
           /\ marker' = [m \in Messages |-> m \in kept]
    /\ UNCHANGED <<json, failed, job, born, history, crashes>>

(* ... and read the entries one by one.  One that cannot be read is skipped. *)
Read(r, m) ==
    /\ m \in scan[r].names
    /\ \E entry \in {json[m]} \cup (IF DiskMayFail THEN {Absent} ELSE {}) :
           scan' = [scan EXCEPT ![r].names = @ \ {m}, ![r].pending[m] = entry]
    /\ UNCHANGED <<disk, job, born, history, crashes>>

(* recoverPendingDeliveries: a loop over the entries read, oldest first,    *)
(* that awaits what it starts.                                              *)
Remaining(r) == {m \in Messages : scan[r].pending[m] # Absent}

ReadyWithoutAwait(r) == scan[r].pc = "run" /\ scan[r].names = {}
Ready(r) ==
    /\ scan[r].pc = "run"
    /\ scan[r].names = {}
    /\ \A m \in Messages : job[m][r] = Idle
AtEntry(r, m) ==
    /\ Ready(r)
    /\ m \in Remaining(r) /\ \A k \in Remaining(r) : m <= k
Begin(r, m, pc) ==
    /\ scan' = [scan EXCEPT ![r].pending[m] = Absent, ![r].awaited = TRUE]
    /\ Do(m, r, pc)

ExpireWithoutMove(r, m) ==
    /\ AtEntry(r, m)
    /\ scan[r].pending[m] >= MaxRetries
    /\ scan' = [scan EXCEPT ![r].pending[m] = Absent]
    /\ UNCHANGED <<disk, job, born, history, crashes>>

(* retryCount >= MAX_RETRIES: to failed/. *)
Expire(r, m) ==
    /\ AtEntry(r, m)
    /\ scan[r].pending[m] >= MaxRetries
    /\ Begin(r, m, "burying")
    /\ UNCHANGED <<disk, born, history, crashes>>

(* Not ready for retry yet.  An entry that never failed is always ready.    *)
Skip(r, m) ==
    /\ AtEntry(r, m)
    /\ scan[r].pending[m] \in 1 .. MaxRetries - 1
    /\ scan' = [scan EXCEPT ![r].pending[m] = Absent]
    /\ UNCHANGED <<disk, job, born, history, crashes>>

AttemptExpired(r, m) ==
    /\ AtEntry(r, m)
    /\ Begin(r, m, "sending")
    /\ Counted(m)
    /\ UNCHANGED <<disk, born, got, aborted, crashes>>

Attempt(r, m) ==
    /\ AtEntry(r, m)
    /\ scan[r].pending[m] < MaxRetries
    /\ Begin(r, m, "sending")
    /\ Counted(m)
    /\ UNCHANGED <<disk, born, got, aborted, crashes>>

(* The time budget is exceeded (deferRemainingEntriesForBudget): all that   *)
(* remains fails once, concurrently.  Time passes only while awaiting.      *)
Defer(r) ==
    /\ Ready(r) /\ Remaining(r) # {} /\ scan[r].awaited
    /\ job' = [m \in Messages |->
                  IF m \in Remaining(r) THEN [job[m] EXCEPT ![r] = At("failing")]
                  ELSE job[m]]
    /\ scan' = [scan EXCEPT ![r].pending = NoneRead]
    /\ UNCHANGED <<disk, born, history, crashes>>

Finish(r) ==
    /\ Ready(r) /\ Remaining(r) = {}
    /\ scan' = [scan EXCEPT ![r] = Off]
    /\ UNCHANGED <<disk, job, born, history, crashes>>

(* The gateway starts again inside its process. *)
Restart(r) ==
    /\ scan[r].pc = "off"
    /\ Overlap \/ Quiet
    /\ scan' = [scan EXCEPT ![r] = [Off EXCEPT !.pc = "start"]]
    /\ UNCHANGED <<disk, job, born, history, crashes>>

(* The process dies, and another one is started. *)
Crash ==
    /\ crashes < MaxCrashes
    /\ crashes' = crashes + 1
    /\ job' = NoJobs
    /\ \E r \in Recoveries : scan' = Starting(r)
    /\ got' = [m \in Messages |->
                  IF got[m] = "sent" /\ \E w \in Workers : job[m][w].pc = "acking"
                  THEN "excused" ELSE got[m]]
    /\ UNCHANGED <<disk, born, aborted, attempts>>

-----------------------------------------------------------------------------
Sending(m, w) == SendSucceeds(m, w) \/ SendPartly(m, w) \/ SendFails(m, w)
Settling(m, w) == \/ AckRename(m, w) \/ AckFails(m, w) \/ AckUnlink(m, w)
                  \/ FailRead(m, w) \/ FailStore(m, w) \/ Bury(m, w)
Looping(r) == \/ List(r) \/ Defer(r) \/ Finish(r)
              \/ \E m \in Messages : \/ Read(r, m) \/ Expire(r, m)
                                     \/ Skip(r, m) \/ Attempt(r, m)

Next ==
    \/ \E m \in Messages :
           \/ \E outcome \in {"stored", "unstored"} : Enqueue(m, outcome)
           \/ SendAborted(m)
           \/ \E w \in Workers : Sending(m, w) \/ Settling(m, w)
    \/ \E r \in Recoveries : Looping(r) \/ Restart(r)
    \/ Crash

Spec == Init /\ [][Next]_vars

(* What is awaited completes: channel requests and file operations do not   *)
(* hang.  The gateway is restarted again and again, which is what entries   *)
(* wait for: there is no timer that starts a scan.  An entry that comes     *)
(* first is not found within its backoff by every one of infinitely many    *)
(* scans: the backoff is 10 minutes at most.                                *)
Fairness ==
    /\ \A m \in Messages, w \in Workers :
           WF_vars(Sending(m, w)) /\ WF_vars(Settling(m, w))
    /\ \A r \in Recoveries :
           /\ WF_vars(Looping(r)) /\ WF_vars(Restart(r))
           /\ \A m \in Messages : SF_vars(~scan[r].awaited /\ Attempt(r, m))

FairSpec == Spec /\ Fairness

-----------------------------------------------------------------------------
(* A message that was stored is never lost: until the recipient has it, or  *)
(* the caller cancels it, it is in the queue or in failed/, whatever crashes *)
(* and whatever scans work on it at the same time.  A message stored with   *)
(* bestEffort may go with a payload unsent (SendPartly).                    *)
NeverLost ==
    \A m \in Messages \ BestEffort :
        born[m] = "stored" /\ got[m] = "never" /\ m \notin aborted =>
            json[m] # Absent \/ failed[m]

(* A recipient gets a message again only if a crash, a failed rename or a   *)
(* failed transcript copy came between the send and its record.             *)
NeverTwice == \A m \in Messages : got[m] # "twice"

(* A message is given to its channel at most MAX_RETRIES times, and once    *)
(* more for each crash (the live call's attempt counts: failDelivery and    *)
(* deferrals raise the count that recovery compares with MAX_RETRIES).      *)
AttemptsBounded == \A m \in Messages : attempts[m] <= MaxRetries + crashes

(* Every stored entry leaves the queue, delivered or moved to failed/, and  *)
(* none starves behind older ones that use up the time budget of every scan *)
(* ("entries that are repeatedly deferred ... eventually hit MAX_RETRIES    *)
(* and get pruned").                                                        *)
EveryEntryResolves ==
    \A m \in Messages : born[m] = "stored" ~> json[m] = Absent

-----------------------------------------------------------------------------
(* Where the outbox has a message. *)
Place(m) ==
    CASE born[m] = "new" -> "new"
      [] born[m] = "unstored" -> "direct"
      [] OTHER -> IF json[m] # Absent THEN "queued"
                  ELSE IF failed[m] THEN "failed" ELSE "gone"
Tries(m) == IF json[m] = Absent THEN 0 ELSE json[m]
Done == {m \in Messages : got[m] # "never"} \cup aborted

Box == INSTANCE Outbox WITH
    place <- [m \in Messages |-> Place(m)],
    tries <- [m \in Messages |-> Tries(m)],
    done <- Done

(* Crashes, scans, files that cannot be read or written and workers that    *)
(* read an entry before they write it back amount to an outbox: no entry     *)
(* that left comes back, no retry is counted twice or lost under another,    *)
(* and none is acknowledged for nothing.                                    *)
ImplementsOutbox == Box!Spec
=============================================================================
