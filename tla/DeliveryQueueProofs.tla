------------------------- MODULE DeliveryQueueProofs -------------------------
(***************************************************************************)
(* Theorems about DeliveryQueue, for any number of messages, scans, retries *)
(* and crashes: that stored messages are never lost, with scans beside      *)
(* deliveries or not and disks that fail or not; that they are not sent      *)
(* twice and not attempted for ever, where neither is the case.             *)
(***************************************************************************)
EXTENDS DeliveryQueue, TLAPS

USE DeliveryQueueAssumption

(* The counts stay within their bounds. *)
LEMMA BumpType ==
    ASSUME NEW n \in Retries
    PROVE  Bump(n) \in Retries
BY DEF Bump, Retries

LEMMA AttemptedType ==
    ASSUME NEW n \in 0 .. MaxRetries + MaxCrashes + 1
    PROVE  Attempted(n) \in 0 .. MaxRetries + MaxCrashes + 1
BY DEF Attempted

-----------------------------------------------------------------------------
(* TypeOK without its last conjuncts: the part about one step of a worker.  *)
JobsOK ==
    /\ job \in [Messages -> [Workers -> Job]]
    /\ \A r \in Recoveries : scan[r].pc # "run" =>
           \A m \in Messages : job[m][r] = Idle

PCs == {"idle", "sending", "acking", "unlinking", "failing", "storing",
        "burying"}

LEMMA AtType ==
    /\ \A pc \in PCs : At(pc) \in Job
    /\ Idle \in Job
    /\ \A n \in Retries : [pc |-> "storing", n |-> n] \in Job
BY DEF At, Idle, Job, Retries, PCs

(* A worker that is at work and takes another step keeps JobsOK. *)
LEMMA JobStep ==
    ASSUME TypeOK, NEW m \in Messages, NEW w \in Workers, NEW to \in Job,
           w \in Recoveries => scan[w].pc = "run",
           job' = [job EXCEPT ![m][w] = to], UNCHANGED scan
    PROVE  JobsOK'
<1>1. job' \in [Messages -> [Workers -> Job]]
    BY DEF TypeOK
<1>2. ASSUME NEW r \in Recoveries, scan[r].pc # "run", NEW k \in Messages
      PROVE  job'[k][r] = Idle
    <2>1. job[k][r] = Idle /\ r # w
        BY <1>2 DEF TypeOK
    <2>2. job'[k][r] = job[k][r]
        BY <2>1 DEF TypeOK, Workers
    <2> QED
        BY <2>1, <2>2
<1> QED
    BY <1>1, <1>2 DEF JobsOK

(* A worker that is not idle belongs to a running scan, if to any. *)
LEMMA BusyScanRuns ==
    ASSUME TypeOK, NEW m \in Messages, NEW w \in Workers, job[m][w].pc # "idle"
    PROVE  w \in Recoveries => scan[w].pc = "run"
BY DEF TypeOK, Idle, At

LEMMA DoStep ==
    ASSUME TypeOK, NEW m \in Messages, NEW w \in Workers, NEW pc \in PCs,
           job[m][w].pc # "idle" \/ w = Live, Do(m, w, pc), UNCHANGED scan
    PROVE  JobsOK'
<1>1. w \in Recoveries => scan[w].pc = "run"
    BY BusyScanRuns
<1> QED
    BY <1>1, AtType, JobStep DEF Do

LEMMA ThenStep ==
    ASSUME TypeOK, NEW m \in Messages, NEW w \in Workers, NEW pc \in PCs,
           job[m][w].pc # "idle", Then(m, w, pc), UNCHANGED scan
    PROVE  JobsOK'
<1>1. CASE w = Live /\ born[m] = "unstored"
    BY <1>1, DoStep, "idle" \in PCs DEF Then, PCs
<1>2. CASE ~(w = Live /\ born[m] = "unstored")
    BY <1>2, DoStep DEF Then
<1> QED
    BY <1>1, <1>2

-----------------------------------------------------------------------------
LEMMA InitType == Init => TypeOK
<1> SUFFICES ASSUME Init PROVE TypeOK
    OBVIOUS
<1>1. job \in [Messages -> [Workers -> Job]]
    BY AtType DEF Init, NoJobs
<1>2. PICK r \in Recoveries : scan = Starting(r)
    BY DEF Init
<1>3. Off \in Scan /\ [Off EXCEPT !.pc = "start"] \in Scan
    BY DEF Off, Scan, NoneRead
<1>4. scan \in [Recoveries -> Scan]
    BY <1>2, <1>3 DEF Starting
<1>5. \A q \in Recoveries, m \in Messages : job[m][q] = Idle
    BY DEF Init, NoJobs, Workers
<1> QED
    BY <1>1, <1>4, <1>5 DEF Init, TypeOK, Absent, Retries, Got

(* The steps of a worker on one message. *)
LEMMA WorkerType ==
    ASSUME TypeOK, NEW m \in Messages, NEW w \in Workers,
           Sending(m, w) \/ Settling(m, w)
    PROVE  TypeOK'
<1>1. CASE SendSucceeds(m, w)
    <2>1. JobsOK'
        BY <1>1, ThenStep, "acking" \in PCs DEF SendSucceeds, PCs
    <2>2. got' \in [Messages -> Got]
        BY <1>1 DEF SendSucceeds, Sent, TypeOK, Got
    <2> QED
        BY <1>1, <2>1, <2>2 DEF SendSucceeds, TypeOK, JobsOK, disk
<1>2. CASE SendPartly(m, w)
    <2>1. JobsOK'
        BY <1>2, ThenStep, "acking" \in PCs, "failing" \in PCs DEF SendPartly, PCs
    <2> QED
        BY <1>2, <2>1 DEF SendPartly, TypeOK, JobsOK, disk, history
<1>3. CASE SendFails(m, w)
    <2>1. JobsOK'
        BY <1>3, ThenStep DEF SendFails, PCs, AfterError
    <2>2. got' \in [Messages -> Got]
        BY <1>3 DEF SendFails, Sent, TypeOK, Got
    <2> QED
        BY <1>3, <2>1, <2>2 DEF SendFails, TypeOK, JobsOK, disk
<1>4. CASE AckRename(m, w)
    <2>1. JobsOK'
        BY <1>4, DoStep, "unlinking" \in PCs DEF AckRename, PCs
    <2> QED
        BY <1>4, <2>1 DEF AckRename, TypeOK, JobsOK, history
<1>5. CASE AckFails(m, w)
    <2>1. JobsOK'
        BY <1>5, DoStep, "idle" \in PCs, "failing" \in PCs DEF AckFails, PCs
    <2>2. got' \in [Messages -> Got]
        BY <1>5 DEF AckFails, TypeOK, Got
    <2> QED
        BY <1>5, <2>1, <2>2 DEF AckFails, TypeOK, JobsOK, disk
<1>6. CASE AckUnlink(m, w)
    <2>1. JobsOK'
        BY <1>6, DoStep, "idle" \in PCs DEF AckUnlink, PCs
    <2> QED
        BY <1>6, <2>1 DEF AckUnlink, TypeOK, JobsOK, history
<1>7. CASE FailRead(m, w)
    <2>1. JobsOK'
        <3>1. CASE Do(m, w, "idle")
            BY <1>7, <3>1, DoStep, "idle" \in PCs DEF FailRead, PCs
        <3>2. CASE /\ json[m] # Absent
                   /\ job' = [job EXCEPT ![m][w] = [pc |-> "storing", n |-> json[m]]]
            <4>1. [pc |-> "storing", n |-> json[m]] \in Job
                BY <3>2, AtType DEF TypeOK
            <4> QED
                BY <1>7, <3>2, <4>1, JobStep, BusyScanRuns DEF FailRead
        <3> QED
            BY <1>7, <3>1, <3>2 DEF FailRead
    <2> QED
        BY <1>7, <2>1 DEF FailRead, TypeOK, JobsOK, disk, history
<1>8. CASE FailStore(m, w)
    <2>1. JobsOK'
        BY <1>8, DoStep, "idle" \in PCs DEF FailStore, PCs
    <2>2. Bump(job[m][w].n) \in Retries
        BY BumpType DEF TypeOK, Job
    <2>3. json' \in [Messages -> Retries \cup {Absent}]
        BY <1>8, <2>2 DEF FailStore, TypeOK
    <2> QED
        BY <1>8, <2>1, <2>3 DEF FailStore, TypeOK, JobsOK, history
<1>9. CASE Bury(m, w)
    <2>1. JobsOK'
        BY <1>9, DoStep, "idle" \in PCs DEF Bury, PCs
    <2> QED
        BY <1>9, <2>1 DEF Bury, TypeOK, JobsOK, history
<1> QED
    BY <1>1, <1>2, <1>3, <1>4, <1>5, <1>6, <1>7, <1>8, <1>9
    DEF Sending, Settling

(* The two steps that are the delivering call's alone. *)
LEMMA CallType ==
    ASSUME TypeOK, NEW m \in Messages,
           (\E outcome \in {"stored", "unstored"} : Enqueue(m, outcome))
               \/ SendAborted(m)
    PROVE  TypeOK'
<1> Live \in Workers
    BY DEF Workers
<1>1. ASSUME NEW outcome \in {"stored", "unstored"}, Enqueue(m, outcome)
      PROVE  TypeOK'
    <2>1. JobsOK'
        BY <1>1, DoStep, "sending" \in PCs DEF Enqueue, PCs
    <2>2. json' \in [Messages -> Retries \cup {Absent}]
        BY <1>1 DEF Enqueue, TypeOK, Retries
    <2>3. attempts' \in [Messages -> 0 .. MaxRetries + MaxCrashes + 1]
        BY <1>1, AttemptedType DEF Enqueue, TypeOK, Counted
    <2> QED
        BY <1>1, <2>1, <2>2, <2>3 DEF Enqueue, TypeOK, JobsOK
<1>2. CASE SendAborted(m)
    <2>1. JobsOK'
        BY <1>2, ThenStep, "acking" \in PCs DEF SendAborted, PCs
    <2> QED
        BY <1>2, <2>1 DEF SendAborted, TypeOK, JobsOK, disk
<1> QED
    BY <1>1, <1>2

(* A step of a scan that starts no work leaves the jobs as they are. *)
LEMMA ScanStep ==
    ASSUME TypeOK, NEW r \in Recoveries, NEW to \in Scan,
           scan' = [scan EXCEPT ![r] = to], UNCHANGED job,
           to.pc = "run" \/ \A m \in Messages : job[m][r] = Idle
    PROVE  scan' \in [Recoveries -> Scan] /\ JobsOK'
BY DEF TypeOK, JobsOK

LEMMA OffType ==
    /\ Off \in Scan
    /\ [Off EXCEPT !.pc = "start"] \in Scan
    /\ \A names \in SUBSET Messages :
           [Off EXCEPT !.pc = "run", !.names = names] \in Scan
BY DEF Off, Scan, NoneRead

LEMMA EntryType ==
    ASSUME NEW s \in Scan, NEW m \in Messages, NEW entry \in Retries \cup {Absent}
    PROVE  /\ [s EXCEPT !.pending[m] = entry] \in Scan
           /\ [s EXCEPT !.names = @ \ {m}, !.pending[m] = entry] \in Scan
           /\ [s EXCEPT !.pending[m] = entry, !.awaited = TRUE] \in Scan
<1>1. [s.pending EXCEPT ![m] = entry] \in [Messages -> Retries \cup {Absent}]
    BY DEF Scan
<1> QED
    BY <1>1 DEF Scan

(* The steps of a scan. *)
LEMMA LoopType ==
    ASSUME TypeOK, NEW r \in Recoveries, Looping(r) \/ Restart(r)
    PROVE  TypeOK'
<1> USE DEF JobsOK
<1>1. CASE List(r)
    <2>1. \A m \in Messages : job[m][r] = Idle
        BY <1>1 DEF List, TypeOK
    <2> DEFINE names == {m \in Messages : json[m] # Absent}
               to == IF names = {} THEN Off
                     ELSE [Off EXCEPT !.pc = "run", !.names = names]
    <2>2. to \in Scan
        BY OffType
    <2>3. scan' = [scan EXCEPT ![r] = to] /\ UNCHANGED job
        BY <1>1 DEF List
    <2>4. scan' \in [Recoveries -> Scan] /\ JobsOK'
        BY <2>1, <2>2, <2>3, ScanStep
    <2>5. marker' \in [Messages -> BOOLEAN]
        BY <1>1 DEF List
    <2> QED
        BY <1>1, <2>4, <2>5 DEF List, TypeOK, history
<1>2. CASE \E m \in Messages : Read(r, m)
    <2>1. PICK m \in Messages : Read(r, m)
        BY <1>2
    <2>2. scan[r].pc = "run" \/ \A k \in Messages : job[k][r] = Idle
        BY DEF TypeOK
    <2>3. PICK entry \in Retries \cup {Absent} :
              scan' = [scan EXCEPT ![r].names = @ \ {m}, ![r].pending[m] = entry]
        BY <2>1 DEF Read, TypeOK
    <2> DEFINE to == [scan[r] EXCEPT !.names = @ \ {m}, !.pending[m] = entry]
    <2>4. scan[r] \in Scan
        BY DEF TypeOK
    <2>entry. to \in Scan /\ to.pc = scan[r].pc
        BY <2>4, EntryType DEF Scan
    <2>step. scan' = [scan EXCEPT ![r] = to]
        BY <2>3, <2>4, Zenon DEF TypeOK, Scan
    <2>5. scan' = [scan EXCEPT ![r] = to] /\ UNCHANGED job
        BY <2>1, <2>step DEF Read
    <2>6. scan' \in [Recoveries -> Scan] /\ JobsOK'
        BY <2>2, <2>entry, <2>5, ScanStep
    <2> QED
        BY <2>1, <2>6 DEF Read, TypeOK, disk, history
<1>3. ASSUME NEW m \in Messages, NEW pc \in PCs, AtEntry(r, m), Begin(r, m, pc)
      PROVE  scan' \in [Recoveries -> Scan] /\ JobsOK'
    <2> DEFINE to == [scan[r] EXCEPT !.pending[m] = Absent, !.awaited = TRUE]
    <2>1. scan[r].pc = "run"
        BY <1>3 DEF AtEntry, Ready
    <2>entry. scan[r] \in Scan
        BY DEF TypeOK
    <2>2. to \in Scan /\ to.pc = "run"
        BY <2>1, <2>entry, EntryType DEF Scan
    <2>3. scan' = [scan EXCEPT ![r] = to]
        BY <1>3 DEF Begin, TypeOK, Scan
    <2>4. At(pc) \in Job
        BY AtType
    <2>5. job' = [job EXCEPT ![m][r] = At(pc)]
        BY <1>3 DEF Begin, Do
    <2>6. scan' \in [Recoveries -> Scan] /\ scan'[r].pc = "run"
        BY <2>2, <2>3 DEF TypeOK
    <2>7. job' \in [Messages -> [Workers -> Job]]
        BY <2>4, <2>5 DEF TypeOK
    <2>8. ASSUME NEW q \in Recoveries, scan'[q].pc # "run", NEW k \in Messages
          PROVE  job'[k][q] = Idle
        <3>1. q # r /\ scan'[q] = scan[q]
            BY <2>3, <2>6, <2>8 DEF TypeOK
        <3>2. job'[k][q] = job[k][q]
            BY <2>5, <3>1 DEF TypeOK, Workers
        <3> QED
            BY <2>8, <3>1, <3>2 DEF TypeOK
    <2> QED
        BY <2>6, <2>7, <2>8
<1>4. CASE \E m \in Messages : Expire(r, m)
    <2>1. PICK m \in Messages : Expire(r, m)
        BY <1>4
    <2>2. scan' \in [Recoveries -> Scan] /\ JobsOK'
        BY <2>1, <1>3, "burying" \in PCs DEF Expire, PCs
    <2> QED
        BY <2>1, <2>2 DEF Expire, TypeOK, disk, history
<1>5. CASE \E m \in Messages : Attempt(r, m)
    <2>1. PICK m \in Messages : Attempt(r, m)
        BY <1>5
    <2>2. scan' \in [Recoveries -> Scan] /\ JobsOK'
        BY <2>1, <1>3, "sending" \in PCs DEF Attempt, PCs
    <2>3. attempts' \in [Messages -> 0 .. MaxRetries + MaxCrashes + 1]
        BY <2>1, AttemptedType DEF Attempt, TypeOK, Counted
    <2> QED
        BY <2>1, <2>2, <2>3 DEF Attempt, TypeOK, disk
<1>6. CASE \E m \in Messages : Skip(r, m)
    <2>1. PICK m \in Messages : Skip(r, m)
        BY <1>6
    <2> DEFINE to == [scan[r] EXCEPT !.pending[m] = Absent]
    <2>entry. scan[r] \in Scan
        BY DEF TypeOK
    <2>2. to \in Scan /\ to.pc = "run"
        BY <2>1, <2>entry, EntryType DEF Scan, Skip, AtEntry, Ready
    <2>3. scan' = [scan EXCEPT ![r] = to] /\ UNCHANGED job
        BY <2>1 DEF Skip, TypeOK, Scan
    <2>4. scan' \in [Recoveries -> Scan] /\ JobsOK'
        BY <2>2, <2>3, ScanStep
    <2> QED
        BY <2>1, <2>4 DEF Skip, TypeOK, disk, history
<1>7. CASE Defer(r)
    <2> DEFINE to == [scan[r] EXCEPT !.pending = NoneRead]
    <2>entry. scan[r] \in Scan /\ scan[r].pc = "run"
        BY <1>7 DEF TypeOK, Defer, Ready
    <2>none. NoneRead \in [Messages -> Retries \cup {Absent}]
        BY DEF NoneRead
    <2>1. to \in Scan /\ to.pc = "run"
        BY <2>entry, <2>none DEF Scan
    <2>2. scan' = [scan EXCEPT ![r] = to]
        BY <1>7 DEF Defer, TypeOK, Scan
    <2>3. scan' \in [Recoveries -> Scan] /\ scan'[r].pc = "run"
        BY <2>1, <2>2 DEF TypeOK
    <2>4. At("failing") \in Job
        BY AtType, "failing" \in PCs DEF PCs
    <2>5. job' \in [Messages -> [Workers -> Job]]
        BY <1>7, <2>4 DEF Defer, TypeOK
    <2>6. ASSUME NEW q \in Recoveries, scan'[q].pc # "run", NEW k \in Messages
          PROVE  job'[k][q] = Idle
        <3>1. q # r /\ scan'[q] = scan[q]
            BY <2>2, <2>3, <2>6 DEF TypeOK
        <3>2. job'[k][q] = job[k][q]
            BY <1>7, <3>1 DEF Defer, TypeOK, Workers
        <3> QED
            BY <2>6, <3>1, <3>2 DEF TypeOK
    <2> QED
        BY <1>7, <2>3, <2>5, <2>6 DEF Defer, TypeOK, disk, history
<1>8. CASE Finish(r)
    <2>1. scan' \in [Recoveries -> Scan] /\ JobsOK'
        BY <1>8, OffType, ScanStep DEF Finish, Ready
    <2> QED
        BY <1>8, <2>1 DEF Finish, TypeOK, disk, history
<1>9. CASE Restart(r)
    <2>1. \A m \in Messages : job[m][r] = Idle
        BY <1>9 DEF Restart, TypeOK
    <2>2. scan' \in [Recoveries -> Scan] /\ JobsOK'
        BY <1>9, <2>1, OffType, ScanStep DEF Restart
    <2> QED
        BY <1>9, <2>2 DEF Restart, TypeOK, disk, history
<1> QED
    BY <1>1, <1>2, <1>4, <1>5, <1>6, <1>7, <1>8, <1>9 DEF Looping

LEMMA CrashType == TypeOK /\ Crash => TypeOK'
<1> SUFFICES ASSUME TypeOK, Crash PROVE TypeOK'
    OBVIOUS
<1>1. PICK r \in Recoveries : scan' = Starting(r)
    BY DEF Crash
<1>2. scan' \in [Recoveries -> Scan]
    BY <1>1, OffType DEF Starting
<1>3. job' = NoJobs
    BY DEF Crash
<1>4. job' \in [Messages -> [Workers -> Job]]
    BY <1>3, AtType DEF NoJobs
<1>5. \A q \in Recoveries, m \in Messages : job'[m][q] = Idle
    BY <1>3 DEF NoJobs, Workers
<1>6. got' \in [Messages -> Got]
    BY DEF Crash, TypeOK, Got
<1> QED
    BY <1>2, <1>4, <1>5, <1>6 DEF Crash, TypeOK, disk

(* Every reachable state is well typed, and a scan that is over has left    *)
(* nothing running.                                                         *)
THEOREM TypeCorrect == Spec => []TypeOK
<1>1. Init => TypeOK
    BY InitType
<1>2. TypeOK /\ [Next]_vars => TypeOK'
    <2> SUFFICES ASSUME TypeOK, [Next]_vars PROVE TypeOK'
        OBVIOUS
    <2>1. CASE Next
        BY <2>1, WorkerType, CallType, LoopType, CrashType DEF Next
    <2>2. CASE UNCHANGED vars
        BY <2>2 DEF vars, disk, history, TypeOK
    <2> QED
        BY <2>1, <2>2
<1> QED
    BY <1>1, <1>2, PTL DEF Spec

-----------------------------------------------------------------------------
(* NeverLost is inductive with this: whoever is about to remove an entry    *)
(* does so for a message that was received or cancelled.                    *)
AckIsDeserved ==
    \A m \in Messages \ BestEffort, w \in Workers :
        job[m][w].pc = "acking" => got[m] # "never" \/ m \in aborted

SafeInv == TypeOK /\ AckIsDeserved /\ NeverLost

(* What the recipient has, and what the caller cancelled, stays so. *)
LEMMA HistoryGrows ==
    ASSUME TypeOK, Next, NEW m \in Messages
    PROVE  /\ got[m] # "never" => got'[m] # "never"
           /\ m \in aborted => m \in aborted'
<1>1. ASSUME NEW k \in Messages, NEW w \in Workers, Sending(k, w) \/ Settling(k, w)
      PROVE  /\ got[m] # "never" => got'[m] # "never"
             /\ m \in aborted => m \in aborted'
    BY <1>1 DEF Sending, SendSucceeds, SendPartly, SendFails, Sent, Settling,
           AckRename, AckFails, AckUnlink, FailRead, FailStore, Bury, history,
           TypeOK
<1>2. ASSUME NEW r \in Recoveries, Looping(r) \/ Restart(r)
      PROVE  /\ got[m] # "never" => got'[m] # "never"
             /\ m \in aborted => m \in aborted'
    BY <1>2 DEF Looping, List, Defer, Finish, Read, Expire, Skip, Attempt,
           Restart, history
<1>3. CASE Crash
    BY <1>3 DEF Crash, TypeOK
<1>4. ASSUME NEW k \in Messages,
             (\E outcome \in {"stored", "unstored"} : Enqueue(k, outcome))
                 \/ SendAborted(k)
      PROVE  /\ got[m] # "never" => got'[m] # "never"
             /\ m \in aborted => m \in aborted'
    BY <1>4 DEF Enqueue, SendAborted
<1> QED
    BY <1>1, <1>2, <1>3, <1>4 DEF Next

(* A worker comes to "acking" only as it has sent everything or was         *)
(* cancelled; without bestEffort there is no third way.                     *)
LEMMA DeservedStep ==
    ASSUME SafeInv, Next
    PROVE  AckIsDeserved'
<1> SUFFICES ASSUME NEW m \in Messages \ BestEffort, NEW w \in Workers,
                    job'[m][w].pc = "acking"
             PROVE  got'[m] # "never" \/ m \in aborted'
    BY DEF AckIsDeserved
<1> USE DEF SafeInv
<1>1. CASE job[m][w].pc = "acking"
    BY <1>1, HistoryGrows DEF AckIsDeserved
<1>2. CASE job[m][w].pc # "acking"
    <2>1. ASSUME NEW k \in Messages, NEW v \in Workers,
                 Sending(k, v) \/ Settling(k, v)
          PROVE  got'[m] # "never"
        <3>1. CASE SendSucceeds(k, v)
            <4>1. k = m
                BY <1>2, <2>1, <3>1 DEF SendSucceeds, Then, Do, TypeOK
            <4> QED
                BY <3>1, <4>1 DEF SendSucceeds, Sent, TypeOK
        <3>2. CASE SendPartly(k, v)
            <4>1. k # m
                BY <3>2 DEF SendPartly
            <4> QED
                BY <1>2, <2>1, <3>2, <4>1 DEF SendPartly, Then, Do, At, TypeOK
        <3>3. ASSUME NEW pc \in PCs, pc # "acking", Do(k, v, pc)
              PROVE  FALSE
            BY <1>2, <3>3 DEF Do, At, TypeOK
        <3>4. ASSUME NEW pc \in PCs, pc # "acking", Then(k, v, pc)
              PROVE  FALSE
            BY <3>3, <3>4, "idle" \in PCs DEF Then, PCs
        <3>5. CASE SendFails(k, v)
            BY <3>4, <3>5, "failing" \in PCs, "burying" \in PCs
            DEF SendFails, AfterError, PCs
        <3>6. CASE Settling(k, v) /\ ~FailRead(k, v)
            BY <3>3, <3>6, "idle" \in PCs, "failing" \in PCs, "unlinking" \in PCs
            DEF Settling, AckRename, AckFails, AckUnlink, FailStore, Bury, PCs
        <3>7. CASE FailRead(k, v)
            <4>1. CASE Do(k, v, "idle")
                BY <3>3, <4>1, "idle" \in PCs DEF PCs
            <4>2. CASE job' = [job EXCEPT ![k][v] = [pc |-> "storing", n |-> json[k]]]
                BY <1>2, <4>2 DEF TypeOK
            <4> QED
                BY <3>7, <4>1, <4>2 DEF FailRead
        <3> QED
            BY <2>1, <3>1, <3>2, <3>5, <3>6, <3>7 DEF Sending
    <2>2. ASSUME NEW r \in Recoveries, Looping(r) \/ Restart(r)
          PROVE  FALSE
        <3> r \in Workers
            BY DEF Workers
        <3>1. ASSUME NEW k \in Messages, NEW pc \in {"sending", "burying"},
                     Do(k, r, pc)
              PROVE  FALSE
            BY <1>2, <3>1 DEF Do, At, TypeOK
        <3>2. CASE Defer(r)
            BY <1>2, <3>2 DEF Defer, At, TypeOK
        <3>3. CASE \E k \in Messages : Expire(r, k) \/ Attempt(r, k)
            BY <3>1, <3>3 DEF Expire, Attempt, Begin
        <3>4. CASE UNCHANGED job
            BY <1>2, <3>4
        <3> QED
            BY <2>2, <3>2, <3>3, <3>4
            DEF Looping, List, Finish, Read, Skip, Restart
    <2>3. CASE Crash
        BY <2>3 DEF Crash, NoJobs, Idle, At
    <2>4. ASSUME NEW k \in Messages, NEW outcome \in {"stored", "unstored"},
                 Enqueue(k, outcome)
          PROVE  FALSE
        BY <1>2, <2>4 DEF Enqueue, Do, At, TypeOK, Workers
    <2>5. ASSUME NEW k \in Messages, SendAborted(k)
          PROVE  m \in aborted'
        BY <1>2, <2>5 DEF SendAborted, Then, Do, At, TypeOK, Workers
    <2> QED
        BY <2>1, <2>2, <2>3, <2>4, <2>5 DEF Next
<1> QED
    BY <1>1, <1>2

(* Only AckRename and Bury remove an entry: one is deserved, and the other  *)
(* moves it.                                                                *)
LEMMA NeverLostStep ==
    ASSUME SafeInv, Next
    PROVE  NeverLost'
<1> SUFFICES ASSUME NEW m \in Messages \ BestEffort,
                    born'[m] = "stored", got'[m] = "never",
                    m \notin aborted'
             PROVE  json'[m] # Absent \/ failed'[m]
    BY DEF NeverLost
<1> USE DEF SafeInv
<1>1. got[m] = "never" /\ m \notin aborted
    BY HistoryGrows
<1>2. ASSUME NEW k \in Messages, NEW outcome \in {"stored", "unstored"},
             Enqueue(k, outcome)
      PROVE  json'[m] # Absent \/ failed'[m]
    BY <1>1, <1>2 DEF Enqueue, NeverLost, TypeOK, Absent
<1>3. CASE UNCHANGED <<born, json, failed>>
    BY <1>1, <1>3 DEF NeverLost
<1>4. ASSUME NEW k \in Messages, NEW w \in Workers, AckRename(k, w)
      PROVE  json'[m] # Absent \/ failed'[m]
    BY <1>1, <1>4 DEF AckRename, AckIsDeserved, NeverLost, TypeOK
<1>5. ASSUME NEW k \in Messages, NEW w \in Workers, FailStore(k, w)
      PROVE  json'[m] # Absent \/ failed'[m]
    <2>1. Bump(job[k][w].n) \in Retries
        BY BumpType DEF TypeOK, Job
    <2>2. Bump(job[k][w].n) # Absent
        BY <2>1 DEF Retries, Absent
    <2> QED
        BY <1>1, <1>5, <2>2 DEF FailStore, NeverLost, TypeOK
<1>6. ASSUME NEW k \in Messages, NEW w \in Workers, Bury(k, w)
      PROVE  json'[m] # Absent \/ failed'[m]
    BY <1>1, <1>6 DEF Bury, NeverLost, TypeOK
<1>7. ASSUME NEW k \in Messages, NEW w \in Workers, Sending(k, w) \/ Settling(k, w)
      PROVE  json'[m] # Absent \/ failed'[m]
    BY <1>3, <1>4, <1>5, <1>6, <1>7
    DEF Sending, SendSucceeds, SendPartly, SendFails, Settling, AckFails,
        AckUnlink, FailRead, disk
<1>8. ASSUME NEW r \in Recoveries, Looping(r) \/ Restart(r)
      PROVE  json'[m] # Absent \/ failed'[m]
    BY <1>3, <1>8 DEF Looping, List, Defer, Finish, Read, Expire, Skip,
       Attempt, Restart, disk
<1>9. ASSUME NEW k \in Messages, SendAborted(k) \/ Crash
      PROVE  json'[m] # Absent \/ failed'[m]
    BY <1>3, <1>9 DEF SendAborted, Crash, disk
<1> QED
    BY <1>2, <1>7, <1>8, <1>9 DEF Next

LEMMA SafeAlways == Spec => []SafeInv
<1>1. Init => SafeInv
    <2> SUFFICES ASSUME Init PROVE AckIsDeserved /\ NeverLost
        BY InitType DEF SafeInv
    <2> QED
        BY DEF Init, AckIsDeserved, NeverLost, NoJobs, Idle, At
<1>2. SafeInv /\ [Next]_vars => SafeInv'
    <2> SUFFICES ASSUME SafeInv, [Next]_vars PROVE SafeInv'
        OBVIOUS
    <2>1. CASE Next
        <3>1. TypeOK'
            BY <2>1, WorkerType, CallType, LoopType, CrashType DEF Next, SafeInv
        <3> QED
            BY <2>1, <3>1, DeservedStep, NeverLostStep DEF SafeInv
    <2>2. CASE UNCHANGED vars
        BY <2>2 DEF vars, disk, history, SafeInv, TypeOK, AckIsDeserved, NeverLost
    <2> QED
        BY <2>1, <2>2
<1> QED
    BY <1>1, <1>2, PTL DEF Spec

(* A message stored without bestEffort is never lost: not by crashes, not   *)
(* by failing disks, and not by scans that work on its file beside the      *)
(* delivering call and beside each other.                                   *)
THEOREM StoredIsNeverLost == Spec => []NeverLost
<1>1. SafeInv => NeverLost
    BY DEF SafeInv
<1> QED
    BY <1>1, SafeAlways, PTL
-----------------------------------------------------------------------------
(* Where no scan runs beside a delivery or beside another scan (~Overlap).  *)

(* One scan at a time, and no delivering call beside it.                    *)
Alone ==
    \A r \in Recoveries :
        /\ scan[r].pc # "off" =>
              /\ \A q \in Recoveries : scan[q].pc # "off" => q = r
              /\ \A m \in Messages : job[m][Live].pc = "idle"
        /\ scan[r].pc # "run" => scan[r].names = {}

Unborn(m) ==
    /\ born[m] = "unstored" => json[m] = Absent
    /\ born[m] = "new" => /\ json[m] = Absent /\ got[m] = "never" /\ attempts[m] = 0
                          /\ \A w \in Workers : job[m][w].pc = "idle"

(* What a scan knows of an entry it has not come to is true.                *)
ReadIsTrue(m) ==
    \A r \in Recoveries : scan[r].pc = "run" =>
        /\ m \in scan[r].names => json[m] # Absent /\ scan[r].pending[m] = Absent
        /\ scan[r].pending[m] # Absent => scan[r].pending[m] = json[m]
        /\ m \in scan[r].names \/ scan[r].pending[m] # Absent => job[m][r].pc = "idle"

(* Whoever works on an entry has it, until it is renamed.  A message that   *)
(* could not be stored is sent once, without one.                           *)
Unqueued(m, w) ==
    /\ born[m] = "unstored" /\ got[m] = "never"
    /\ w = Live /\ job[m][w].pc = "sending"
HasEntry(m) ==
    \A w \in Workers : job[m][w].pc \notin {"idle", "unlinking"} =>
        \/ json[m] # Absent /\ (job[m][w].pc = "storing" => job[m][w].n = json[m])
        \/ Unqueued(m, w)

Recorded(m) ==
    /\ got[m] # "twice"
    /\ got[m] = "sent" => json[m] = Absent \/ \E w \in Workers : job[m][w].pc = "acking"

(* The retryCount follows the attempts: it may lag by the one at work.      *)
Settled(m) == \A w \in Workers : job[m][w].pc \in {"idle", "unlinking"}
Budget(m) ==
    /\ attempts[m] <= MaxRetries + crashes
    /\ json[m] # Absent => attempts[m] <= json[m] + crashes + (IF Settled(m) THEN 0 ELSE 1)

(* A disk that fails may keep a count from being written.                   *)
Orderly(m) ==
    /\ Unborn(m) /\ ReadIsTrue(m) /\ HasEntry(m) /\ Recorded(m)
    /\ DiskMayFail \/ Budget(m)
SequentialInv == Alone /\ \A m \in Messages : Orderly(m)

LEMMA OneWorker ==
    ASSUME TypeOK, Alone, NEW m \in Messages, NEW w \in Workers, NEW v \in Workers,
           job[m][w].pc # "idle", job[m][v].pc # "idle"
    PROVE  v = w
<1>1. \A r \in Recoveries : job[m][r].pc # "idle" => scan[r].pc = "run"
    BY BusyScanRuns DEF Workers
<1> QED
    BY <1>1 DEF Alone, Workers

LEMMA RetriesAreCounts == \A n \in Retries : n \in Nat /\ n # Absent
BY DEF Retries, Absent

LEMMA CountsAreNat ==
    ASSUME TypeOK, NEW m \in Messages
    PROVE  /\ attempts[m] \in Nat /\ crashes \in Nat
           /\ json[m] # Absent => json[m] \in Nat
<1>1. attempts[m] \in 0 .. MaxRetries + MaxCrashes + 1 /\ crashes \in 0 .. MaxCrashes
    BY DEF TypeOK
<1>2. json[m] \in Retries \cup {Absent}
    BY DEF TypeOK
<1> QED
    BY <1>1, <1>2, RetriesAreCounts

(* A message the step has nothing to do with.                               *)
LEMMA Untouched ==
    ASSUME NEW m, Orderly(m), job'[m] = job[m], json'[m] = json[m],
           got'[m] = got[m], born'[m] = born[m], attempts'[m] = attempts[m],
           crashes' = crashes, scan' = scan
    PROVE  Orderly(m)'
BY DEF Orderly, Unborn, ReadIsTrue, HasEntry, Unqueued, Recorded, Budget, Settled

(* A step of worker w on the entry of message k, which goes on with "to".   *)
LEMMA WorkerFrame ==
    ASSUME TypeOK, SequentialInv, TypeOK',
           NEW k \in Messages, NEW w \in Workers, NEW to \in Job,
           job[k][w].pc # "idle", job' = [job EXCEPT ![k][w] = to],
           UNCHANGED <<scan, born, attempts, crashes>>,
           \A m \in Messages \ {k} : json'[m] = json[m] /\ got'[m] = got[m],
           to.pc \notin {"idle", "unlinking"} =>
               json'[k] # Absent /\ (to.pc = "storing" => to.n = json'[k]),
           json'[k] # Absent => json[k] # Absent,
           got'[k] # "twice",
           got'[k] = "sent" => json'[k] = Absent \/ to.pc = "acking",
           ~DiskMayFail /\ json'[k] # Absent =>
               attempts[k] <= json'[k] + crashes
                              + (IF to.pc \in {"idle", "unlinking"} THEN 0 ELSE 1)
    PROVE  SequentialInv'
<1>1. Alone /\ \A m \in Messages : Orderly(m)
    BY DEF SequentialInv
<1>2. /\ job'[k][w] = to
      /\ \A v \in Workers \ {w} : job'[k][v] = job[k][v] /\ job[k][v].pc = "idle"
      /\ \A m \in Messages \ {k} : job'[m] = job[m]
    <2>1. \A v \in Workers \ {w} : job[k][v].pc = "idle"
        BY <1>1, OneWorker
    <2> QED
        BY <2>1 DEF TypeOK
<1>3. \A r \in Recoveries : scan[r].pc = "run" => r = w
    <2>1. w \in Recoveries => scan[w].pc = "run"
        BY BusyScanRuns
    <2> QED
        BY <1>1, <2>1 DEF Alone, Workers
<1>4. Alone'
    <2>1. Live \in Workers
        BY DEF Workers
    <2>2. ASSUME NEW r \in Recoveries, scan[r].pc # "off" PROVE w # Live
        BY <1>1, <2>2 DEF Alone
    <2>3. ASSUME NEW r \in Recoveries, scan[r].pc # "off", NEW m \in Messages
          PROVE  job'[m][Live] = job[m][Live]
        BY <1>2, <2>1, <2>2, <2>3
    <2> QED
        BY <1>1, <2>3 DEF Alone
<1>5. ASSUME NEW m \in Messages \ {k} PROVE Orderly(m)'
    BY <1>1, <1>2, <1>5, Untouched
<1>6. Orderly(k)'
    <2>1. Unborn(k)'
        BY <1>1 DEF Orderly, Unborn
    <2>2. ReadIsTrue(k)'
        BY <1>1, <1>3 DEF Orderly, ReadIsTrue
    <2>3. HasEntry(k)'
        BY <1>2 DEF HasEntry
    <2>4. Recorded(k)'
        BY <1>2 DEF Recorded
    <2>5. Settled(k)' <=> to.pc \in {"idle", "unlinking"}
        BY <1>2 DEF Settled
    <2>6. ~DiskMayFail => Budget(k)'
        BY <1>1, <2>5 DEF Orderly, Budget
    <2> QED
        BY <2>1, <2>2, <2>3, <2>4, <2>6 DEF Orderly
<1> QED
    BY <1>4, <1>5, <1>6 DEF SequentialInv

(* What a worker that has not removed its entry can rely on.                *)
LEMMA AtWork ==
    ASSUME TypeOK, SequentialInv, NEW k \in Messages, NEW w \in Workers,
           job[k][w].pc \notin {"idle", "unlinking"}, ~Unqueued(k, w)
    PROVE  /\ json[k] # Absent /\ json[k] \in Nat /\ attempts[k] \in Nat /\ crashes \in Nat
           /\ job[k][w].pc = "storing" => job[k][w].n = json[k]
           /\ got[k] # "twice" /\ (got[k] = "sent" => job[k][w].pc = "acking")
           /\ ~DiskMayFail => /\ attempts[k] <= json[k] + crashes + 1
                              /\ attempts[k] <= MaxRetries + crashes
           /\ born[k] = "stored"
<1>1. Alone /\ Orderly(k)
    BY DEF SequentialInv
<1>2. json[k] # Absent /\ (job[k][w].pc = "storing" => job[k][w].n = json[k])
    BY <1>1 DEF Orderly, HasEntry
<1>3. json[k] \in Nat /\ attempts[k] \in Nat /\ crashes \in Nat
    BY <1>2, CountsAreNat
<1>4. got[k] # "twice" /\ (got[k] = "sent" => job[k][w].pc = "acking")
    <2>1. ASSUME got[k] = "sent" PROVE job[k][w].pc = "acking"
        <3>1. PICK v \in Workers : job[k][v].pc = "acking"
            BY <1>1, <1>2, <2>1 DEF Orderly, Recorded
        <3> QED
            BY <1>1, <3>1, OneWorker
    <2> QED
        BY <1>1, <2>1 DEF Orderly, Recorded
<1>5. ~DiskMayFail => /\ attempts[k] <= json[k] + crashes + 1
                      /\ attempts[k] <= MaxRetries + crashes
    BY <1>1, <1>2, <1>3 DEF Orderly, Budget
<1>6. born[k] = "stored"
    BY <1>1, <1>2 DEF Orderly, Unborn, TypeOK
<1> QED
    BY <1>2, <1>3, <1>4, <1>5, <1>6

(* The entry stays and the work on it goes on.                              *)
LEMMA GoesOn ==
    ASSUME TypeOK, SequentialInv, TypeOK',
           NEW k \in Messages, NEW w \in Workers, NEW pc \in PCs,
           job[k][w].pc \notin {"idle", "unlinking"}, ~Unqueued(k, w),
           pc \notin {"idle", "unlinking", "storing"}, Do(k, w, pc),
           UNCHANGED <<json, scan, born, attempts, crashes>>,
           \A m \in Messages \ {k} : got'[m] = got[m],
           got'[k] # "twice", got'[k] = "sent" => pc = "acking"
    PROVE  SequentialInv'
<1>1. At(pc) \in Job /\ At(pc).pc = pc
    BY AtType DEF At
<1>2. json[k] # Absent /\ (~DiskMayFail => attempts[k] <= json[k] + crashes + 1)
    BY AtWork
<1> QED
    BY <1>1, <1>2, WorkerFrame DEF Do

(* The work ends.                                                           *)
LEMMA Ends ==
    ASSUME TypeOK, SequentialInv, TypeOK',
           NEW k \in Messages, NEW w \in Workers, NEW pc \in {"idle", "unlinking"},
           job[k][w].pc # "idle", Do(k, w, pc),
           UNCHANGED <<scan, born, attempts, crashes>>,
           \A m \in Messages \ {k} : json'[m] = json[m] /\ got'[m] = got[m],
           json'[k] # Absent => json[k] # Absent,
           got'[k] # "twice", got'[k] = "sent" => json'[k] = Absent,
           ~DiskMayFail /\ json'[k] # Absent => attempts[k] <= json'[k] + crashes
    PROVE  SequentialInv'
<1>1. At(pc) \in Job /\ At(pc).pc = pc
    BY AtType DEF At, PCs
<1>3. json'[k] # Absent => json'[k] \in Nat /\ crashes \in Nat
    <2>1. json'[k] \in Retries \cup {Absent}
        BY DEF TypeOK
    <2> QED
        BY <2>1, CountsAreNat, RetriesAreCounts
<1>4. attempts[k] \in Nat
    BY CountsAreNat
<1>5. ~DiskMayFail /\ json'[k] # Absent =>
          attempts[k] <= json'[k] + crashes
                         + (IF At(pc).pc \in {"idle", "unlinking"} THEN 0 ELSE 1)
    BY <1>1, <1>3, <1>4
<1>6. /\ job' = [job EXCEPT ![k][w] = At(pc)] /\ UNCHANGED <<scan, born, attempts, crashes>>
      /\ \A m \in Messages \ {k} : json'[m] = json[m] /\ got'[m] = got[m]
    BY DEF Do
<1> QED
    BY <1>1, <1>5, <1>6, WorkerFrame

(* A message that is not in the queue is sent, once.                        *)
LEMMA SequentialUnqueued ==
    ASSUME TypeOK, SequentialInv, TypeOK', NEW k \in Messages, NEW w \in Workers,
           Sending(k, w) \/ (w = Live /\ SendAborted(k)), Unqueued(k, w)
    PROVE  SequentialInv'
<1>1. w = Live /\ born[k] = "unstored" /\ got[k] = "never" /\ job[k][w].pc = "sending"
    BY DEF Unqueued
<1>2. json[k] = Absent
    BY <1>1 DEF SequentialInv, Orderly, Unborn
<1>3. /\ \E pc \in {"acking", "failing", "burying"} : Then(k, w, pc)
      /\ UNCHANGED <<json, scan, born, attempts, crashes>>
      /\ \A m \in Messages \ {k} : got'[m] = got[m]
      /\ got'[k] # "twice"
    BY <1>1 DEF Sending, SendSucceeds, SendPartly, SendFails, SendAborted, Sent,
       AfterError, disk, history, TypeOK
<1>4. Do(k, w, "idle")
    BY <1>1, <1>3 DEF Then
<1> QED
    BY <1>1, <1>2, <1>3, <1>4, Ends

LEMMA SequentialSending ==
    ASSUME TypeOK, SequentialInv, TypeOK', NEW k \in Messages, NEW w \in Workers,
           Sending(k, w) \/ (w = Live /\ SendAborted(k)), ~Unqueued(k, w)
    PROVE  SequentialInv'
<1>1. job[k][w].pc = "sending"
    BY DEF Sending, SendSucceeds, SendPartly, SendFails, SendAborted
<1>2. born[k] = "stored" /\ got[k] # "sent" /\ got[k] # "twice"
    BY <1>1, AtWork
<1>3. ASSUME NEW pc \in {"acking", "failing", "burying"}, Then(k, w, pc),
             UNCHANGED <<json, scan, born, attempts, crashes>>,
             \A m \in Messages \ {k} : got'[m] = got[m],
             got'[k] = got[k] \/ got'[k] = "excused" \/ (pc = "acking" /\ got'[k] = "sent")
      PROVE  SequentialInv'
    <2>1. Do(k, w, pc)
        BY <1>2, <1>3 DEF Then
    <2>2. pc \in PCs
        BY DEF PCs
    <2> QED
        BY <1>1, <1>2, <1>3, <2>1, <2>2, GoesOn
<1>4. CASE SendSucceeds(k, w)
    <2>1. /\ \A m \in Messages \ {k} : got'[m] = got[m]
          /\ got'[k] = "sent"
        BY <1>2, <1>4 DEF SendSucceeds, Sent, TypeOK
    <2> QED
        BY <1>3, <1>4, <2>1 DEF SendSucceeds, disk
<1>5. CASE SendPartly(k, w)
    BY <1>3, <1>5 DEF SendPartly, disk, history
<1>6. CASE SendFails(k, w)
    <2>1. /\ \A m \in Messages \ {k} : got'[m] = got[m]
          /\ got'[k] = got[k] \/ got'[k] = "excused"
        BY <1>2, <1>6 DEF SendFails, Sent, TypeOK
    <2>2. PICK pc \in AfterError(w) : Then(k, w, pc)
        BY <1>6 DEF SendFails
    <2>3. pc \in {"acking", "failing", "burying"}
        BY DEF AfterError
    <2> QED
        BY <1>3, <1>6, <2>1, <2>2, <2>3 DEF SendFails, disk
<1>7. CASE w = Live /\ SendAborted(k)
    BY <1>3, <1>7 DEF SendAborted, disk
<1> QED
    BY <1>4, <1>5, <1>6, <1>7 DEF Sending

LEMMA SequentialSettling ==
    ASSUME TypeOK, SequentialInv, TypeOK',
           NEW k \in Messages, NEW w \in Workers, Settling(k, w)
    PROVE  SequentialInv'
<1>1. /\ got[k] # "twice"
      /\ job[k][w].pc # "sending" => ~Unqueued(k, w)
    BY DEF SequentialInv, Orderly, Recorded, Unqueued
<1>2. CASE AckRename(k, w)
    <2>1. /\ job[k][w].pc = "acking" /\ json' = [json EXCEPT ![k] = Absent]
          /\ Do(k, w, "unlinking") /\ UNCHANGED <<scan, born, attempts, crashes, got>>
        BY <1>2 DEF AckRename, history
    <2>2. json'[k] = Absent /\ \A m \in Messages \ {k} : json'[m] = json[m]
        BY <2>1 DEF TypeOK
    <2> QED
        BY <1>1, <2>1, <2>2, Ends
<1>3. CASE AckFails(k, w)
    <2>1. /\ DiskMayFail /\ job[k][w].pc = "acking" /\ json' = json
          /\ UNCHANGED <<scan, born, attempts, crashes>>
          /\ \A m \in Messages \ {k} : got'[m] = got[m]
          /\ got'[k] \notin {"sent", "twice"}
        BY <1>1, <1>3 DEF AckFails, disk, TypeOK
    <2>2. CASE w = Live
        <3>1. Do(k, w, "idle")
            BY <1>3, <2>2 DEF AckFails
        <3> QED
            BY <2>1, <3>1, Ends
    <2>3. CASE w # Live
        <3>1. Do(k, w, "failing") /\ "failing" \in PCs
            BY <1>3, <2>3 DEF AckFails, PCs
        <3> QED
            BY <1>1, <2>1, <3>1, GoesOn
    <2> QED
        BY <2>2, <2>3
<1>4. CASE AckUnlink(k, w)
    <2>1. /\ job[k][w].pc = "unlinking" /\ json' = json
          /\ Do(k, w, "idle") /\ UNCHANGED <<scan, born, attempts, crashes, got>>
        BY <1>4 DEF AckUnlink, history
    <2>2. Alone /\ Orderly(k)
        BY DEF SequentialInv
    <2>3. \A v \in Workers : job[k][v].pc \in {"idle", "unlinking"}
        BY <2>1, <2>2, OneWorker
    <2>4. got[k] = "sent" => json[k] = Absent
        BY <2>2, <2>3 DEF Orderly, Recorded
    <2>5. ~DiskMayFail /\ json[k] # Absent => attempts[k] <= json[k] + crashes
        <3>1. Settled(k)
            BY <2>3 DEF Settled
        <3>2. json[k] # Absent => json[k] \in Nat /\ crashes \in Nat
            BY CountsAreNat
        <3> QED
            BY <2>2, <3>1, <3>2 DEF Orderly, Budget
    <2> QED
        BY <1>1, <2>1, <2>4, <2>5, Ends
<1>5. CASE FailRead(k, w)
    <2>1. job[k][w].pc = "failing" /\ json' = json
          /\ UNCHANGED <<scan, born, attempts, crashes, got>>
        BY <1>5 DEF FailRead, disk, history
    <2>2. /\ json[k] # Absent /\ got[k] \notin {"sent", "twice"}
          /\ ~DiskMayFail => attempts[k] <= json[k] + crashes + 1
        BY <1>1, <2>1, AtWork
    <2>3. CASE job' = [job EXCEPT ![k][w] = [pc |-> "storing", n |-> json[k]]]
        <3> DEFINE to == [pc |-> "storing", n |-> json[k]]
        <3>1. job' = [job EXCEPT ![k][w] = to]
            BY <2>3
        <3>2. to \in Job /\ to.pc = "storing" /\ to.n = json[k]
            BY <2>2 DEF TypeOK, Job
        <3> HIDE DEF to
        <3> QED
            BY <2>1, <2>2, <3>1, <3>2, WorkerFrame
    <2>4. CASE DiskMayFail /\ Do(k, w, "idle")
        BY <2>1, <2>2, <2>4, Ends
    <2> QED
        BY <1>5, <2>2, <2>3, <2>4 DEF FailRead
<1>6. CASE FailStore(k, w)
    <2>1. /\ job[k][w].pc = "storing"
          /\ Do(k, w, "idle") /\ UNCHANGED <<scan, born, attempts, crashes, got>>
        BY <1>6 DEF FailStore, history
    <2>2. /\ job[k][w].n = json[k] /\ got[k] # "sent" /\ json[k] \in Nat
          /\ json[k] # Absent /\ attempts[k] \in Nat /\ crashes \in Nat
          /\ ~DiskMayFail => /\ attempts[k] <= json[k] + crashes + 1
                             /\ attempts[k] <= MaxRetries + crashes
        BY <1>1, <2>1, AtWork
    <2>3. CASE json' = [json EXCEPT ![k] = Bump(job[k][w].n)]
        <3>1. json'[k] = Bump(json[k]) /\ \A m \in Messages \ {k} : json'[m] = json[m]
            BY <2>2, <2>3 DEF TypeOK
        <3>2. ~DiskMayFail => attempts[k] <= Bump(json[k]) + crashes
            BY <2>2 DEF Bump
        <3> QED
            BY <1>1, <2>1, <2>2, <3>1, <3>2, Ends
    <2>4. CASE DiskMayFail /\ UNCHANGED json
        BY <1>1, <2>1, <2>2, <2>4, Ends
    <2> QED
        BY <1>6, <2>3, <2>4 DEF FailStore
<1>7. CASE Bury(k, w)
    <2>1. /\ job[k][w].pc = "burying"
          /\ Do(k, w, "idle") /\ UNCHANGED <<scan, born, attempts, crashes, got>>
        BY <1>7 DEF Bury, history
    <2>2. CASE json' = [json EXCEPT ![k] = Absent]
        <3>1. json'[k] = Absent /\ \A m \in Messages \ {k} : json'[m] = json[m]
            BY <2>2 DEF TypeOK
        <3> QED
            BY <1>1, <2>1, <3>1, Ends
    <2>3. CASE DiskMayFail /\ UNCHANGED json
        <3>1. got[k] # "sent"
            BY <1>1, <2>1, AtWork
        <3> QED
            BY <1>1, <2>1, <2>3, <3>1, Ends
    <2> QED
        BY <1>7, <2>2, <2>3 DEF Bury
<1> QED
    BY <1>2, <1>3, <1>4, <1>5, <1>6, <1>7 DEF Settling

LEMMA SequentialEnqueue ==
    ASSUME ~Overlap, TypeOK, SequentialInv, TypeOK', NEW k \in Messages,
           NEW outcome \in {"stored", "unstored"}, Enqueue(k, outcome)
    PROVE  SequentialInv'
<1>1. /\ born[k] = "new" /\ \A r \in Recoveries : scan[r].pc = "off"
      /\ born' = [born EXCEPT ![k] = outcome]
      /\ json' = IF outcome = "stored" THEN [json EXCEPT ![k] = 0] ELSE json
      /\ job' = [job EXCEPT ![k][Live] = At("sending")]
      /\ attempts' = [attempts EXCEPT ![k] = Attempted(@)]
      /\ UNCHANGED <<scan, got, crashes>>
    BY DEF Enqueue, Do, Counted
<1>2. Alone /\ \A m \in Messages : Orderly(m)
    BY DEF SequentialInv
<1>3. Alone'
    BY <1>1, <1>2 DEF Alone
<1>4. ASSUME NEW m \in Messages \ {k} PROVE Orderly(m)'
    BY <1>1, <1>2, Untouched DEF TypeOK
<1>5. Orderly(k)'
    <2>1. /\ born'[k] = outcome /\ json'[k] = (IF outcome = "stored" THEN 0 ELSE Absent)
          /\ got'[k] = "never"
          /\ job'[k][Live] = At("sending") /\ Live \in Workers
          /\ \A v \in Workers \ {Live} : job'[k][v].pc = "idle"
          /\ attempts'[k] = Attempted(0)
        <3>1. /\ got[k] = "never" /\ attempts[k] = 0 /\ json[k] = Absent
              /\ \A w \in Workers : job[k][w].pc = "idle"
            BY <1>1, <1>2 DEF Orderly, Unborn
        <3>2. Live \in Workers
            BY DEF Workers
        <3>3. /\ job'[k][Live] = At("sending")
              /\ \A v \in Workers \ {Live} : job'[k][v] = job[k][v]
            BY <1>1, <3>2 DEF TypeOK
        <3>4. born'[k] = outcome /\ attempts'[k] = Attempted(attempts[k])
            BY <1>1 DEF TypeOK
        <3>5. json'[k] = (IF outcome = "stored" THEN 0 ELSE Absent)
            BY <1>1, <3>1 DEF TypeOK
        <3> QED
            BY <1>1, <3>1, <3>2, <3>3, <3>4, <3>5
    <2>2. attempts'[k] = 1
        BY <2>1 DEF Attempted
    <2>3. ~Settled(k)'
        BY <2>1 DEF Settled, At
    <2>4. crashes \in Nat
        BY DEF TypeOK
    <2>5. Unborn(k)' /\ Recorded(k)'
        BY <2>1 DEF Unborn, Recorded
    <2>6. ReadIsTrue(k)'
        BY <1>1 DEF ReadIsTrue
    <2>7. HasEntry(k)'
        BY <2>1 DEF HasEntry, Unqueued, At, Absent
    <2>8. Budget(k)'
        BY <1>1, <2>1, <2>2, <2>3, <2>4 DEF Budget
    <2> QED
        BY <2>5, <2>6, <2>7, <2>8 DEF Orderly
<1> QED
    BY <1>3, <1>4, <1>5 DEF SequentialInv

LEMMA SequentialCrash ==
    ASSUME TypeOK, SequentialInv, Crash
    PROVE  SequentialInv'
<1>1. PICK r \in Recoveries : scan' = Starting(r)
    BY DEF Crash
<1>2. /\ crashes' = crashes + 1 /\ UNCHANGED <<json, born, attempts>>
      /\ \A m \in Messages, w \in Workers : job'[m][w].pc = "idle"
      /\ \A m \in Messages : got'[m] =
            IF got[m] = "sent" /\ \E w \in Workers : job[m][w].pc = "acking"
            THEN "excused" ELSE got[m]
    BY DEF Crash, NoJobs, Idle, At, disk
<1>3. \A q \in Recoveries : /\ scan'[q].pc # "run"
                            /\ scan'[q].pc # "off" => q = r
                            /\ scan'[q].names = {}
    BY <1>1 DEF Starting, Off
<1>4. Alone'
    BY <1>2, <1>3 DEF Alone, Workers
<1>5. ASSUME NEW m \in Messages PROVE Orderly(m)'
    <2>1. Orderly(m)
        BY DEF SequentialInv
    <2>2. Unborn(m)'
        BY <1>2, <2>1 DEF Orderly, Unborn
    <2>3. ReadIsTrue(m)' /\ HasEntry(m)'
        BY <1>2, <1>3 DEF ReadIsTrue, HasEntry
    <2>4. Recorded(m)'
        BY <1>2, <2>1 DEF Orderly, Recorded
    <2>5. ~DiskMayFail => Budget(m)'
        <3>1. /\ attempts[m] \in Nat /\ crashes \in Nat
              /\ json[m] # Absent => json[m] \in Nat
            BY CountsAreNat
        <3>2. ~DiskMayFail =>
                  /\ attempts[m] <= MaxRetries + crashes
                  /\ json[m] # Absent => attempts[m] <= json[m] + crashes + 1
            BY <2>1, <3>1 DEF Orderly, Budget
        <3>3. Settled(m)'
            BY <1>2 DEF Settled
        <3> QED
            BY <1>2, <3>1, <3>2, <3>3 DEF Budget
    <2> QED
        BY <2>2, <2>3, <2>4, <2>5 DEF Orderly
<1> QED
    BY <1>4, <1>5 DEF SequentialInv

(* What the scan goes on with is true, and it takes up only what it may.    *)
Informed(r, m, to) == to.pc = "run" =>
    /\ m \in to.names => json[m] # Absent /\ to.pending[m] = Absent
    /\ to.pending[m] # Absent => to.pending[m] = json[m]
    /\ m \in to.names \/ to.pending[m] # Absent => job'[m][r].pc = "idle"
Leaves(r, m) == job'[m][r] = job[m][r] /\ attempts'[m] = attempts[m]
TakesUp(r, m) ==
    /\ job[m][r].pc = "idle" /\ json[m] # Absent
    /\ job'[m][r].pc \in {"sending", "failing", "burying"}
    /\ attempts'[m] \in {attempts[m], attempts[m] + 1}
    /\ ~DiskMayFail => attempts'[m] <= MaxRetries + crashes

(* A step of scan r.  It may start work on entries it has come to.          *)
LEMMA ScanFrame ==
    ASSUME TypeOK, SequentialInv, TypeOK', NEW r \in Recoveries, NEW to \in Scan,
           scan[r].pc # "off", scan' = [scan EXCEPT ![r] = to],
           to.pc # "run" => to.names = {},
           UNCHANGED <<json, born, got, crashes>>,
           \A m \in Messages, w \in Workers \ {r} : job'[m][w] = job[m][w],
           \A m \in Messages : Informed(r, m, to) /\ (Leaves(r, m) \/ TakesUp(r, m))
    PROVE  SequentialInv'
<1>1. Alone /\ \A m \in Messages : Orderly(m)
    BY DEF SequentialInv
<1>2. /\ scan'[r] = to /\ \A q \in Recoveries \ {r} : scan'[q] = scan[q] /\ scan[q].pc = "off"
    BY <1>1 DEF TypeOK, Alone
<1>3. \A m \in Messages, w \in Workers \ {r} : job'[m][w] = job[m][w] /\ job[m][w].pc = "idle"
    <2>1. \A m \in Messages, q \in Recoveries \ {r} : job[m][q].pc = "idle"
        BY <1>2, BusyScanRuns DEF Workers
    <2> QED
        BY <1>1, <2>1 DEF Alone, Workers
<1>4. Alone'
    <2>1. \A m \in Messages : job'[m][Live].pc = "idle"
        BY <1>3 DEF Workers
    <2> QED
        BY <1>1, <1>2, <2>1 DEF Alone
<1>5. r \in Workers
    BY DEF Workers
<1>6. ASSUME NEW m \in Messages PROVE Orderly(m)'
    <2>1. Orderly(m)
        BY <1>1
    <2>2. ReadIsTrue(m)'
        BY <1>2 DEF ReadIsTrue, Informed
    <2>3. CASE Leaves(r, m)
        <3> USE DEF Leaves
        <3>1. \A w \in Workers : job'[m][w] = job[m][w]
            BY <1>3, <2>3
        <3>2. Unborn(m)' /\ HasEntry(m)' /\ Recorded(m)'
            BY <2>1, <2>3, <3>1 DEF Orderly, Unborn, HasEntry, Unqueued, Recorded
        <3>3. Settled(m)' <=> Settled(m)
            BY <3>1 DEF Settled
        <3>4. ~DiskMayFail => Budget(m)'
            BY <2>1, <2>3, <3>3 DEF Orderly, Budget
        <3> QED
            BY <2>2, <3>2, <3>4 DEF Orderly
    <2>4. CASE TakesUp(r, m)
        <3> USE DEF TakesUp
        <3>1. \A w \in Workers : job[m][w].pc = "idle"
            BY <1>3, <2>4
        <3>2. Unborn(m)'
            BY <2>1, <2>4 DEF Orderly, Unborn
        <3>3. HasEntry(m)'
            BY <1>3, <2>4 DEF HasEntry
        <3>4. got[m] \notin {"sent", "twice"}
            BY <2>1, <2>4, <3>1 DEF Orderly, Recorded
        <3>5. Settled(m) /\ ~Settled(m)'
            BY <1>5, <2>4, <3>1 DEF Settled
        <3>6. ASSUME ~DiskMayFail PROVE Budget(m)'
            <4>1. json[m] \in Nat /\ attempts[m] \in Nat /\ crashes \in Nat
                BY <2>4, CountsAreNat
            <4>2. attempts[m] <= json[m] + crashes
                BY <2>1, <2>4, <3>5, <3>6, <4>1 DEF Orderly, Budget
            <4>3. attempts'[m] <= json[m] + crashes + 1
                BY <2>4, <4>1, <4>2
            <4> QED
                BY <2>4, <3>5, <3>6, <4>3 DEF Budget
        <3> QED
            BY <2>2, <3>2, <3>3, <3>4, <3>6 DEF Orderly, Recorded
    <2> QED
        BY <2>3, <2>4
<1> QED
    BY <1>4, <1>6 DEF SequentialInv

(* Scans that begin no work.                                                *)
LEMMA QuietScan ==
    ASSUME TypeOK, SequentialInv, TypeOK', NEW r \in Recoveries, NEW to \in Scan,
           scan[r].pc # "off", scan' = [scan EXCEPT ![r] = to],
           to.pc # "run" => to.names = {},
           UNCHANGED <<json, born, got, crashes, job, attempts>>,
           \A m \in Messages : Informed(r, m, to)
    PROVE  SequentialInv'
<1>1. \A m \in Messages, w \in Workers \ {r} : job'[m][w] = job[m][w]
    OBVIOUS
<1>2. \A m \in Messages : Leaves(r, m)
    BY DEF Leaves
<1> QED
    BY <1>1, <1>2, ScanFrame

(* The scan is done with an entry, or has read it.                          *)
Advances(s, m, entry, t) ==
    \/ t = [s EXCEPT !.pending[m] = entry]
    \/ t = [s EXCEPT !.names = @ \ {m}, !.pending[m] = entry]
    \/ t = [s EXCEPT !.pending[m] = entry, !.awaited = TRUE]

LEMMA EntryFields ==
    ASSUME NEW s \in Scan, NEW m \in Messages, NEW entry \in Retries \cup {Absent}, NEW t,
           Advances(s, m, entry, t)
    PROVE  /\ t \in Scan /\ t.pc = s.pc /\ t.pending[m] = entry
           /\ \A k \in Messages \ {m} : t.pending[k] = s.pending[k]
<1> USE DEF Advances
<1>1. t \in Scan
    <2>1. /\ [s EXCEPT !.pending[m] = entry] \in Scan
          /\ [s EXCEPT !.names = @ \ {m}, !.pending[m] = entry] \in Scan
          /\ [s EXCEPT !.pending[m] = entry, !.awaited = TRUE] \in Scan
        BY EntryType
    <2>2. CASE t = [s EXCEPT !.pending[m] = entry]
        BY <2>1, <2>2, Zenon
    <2>3. CASE t = [s EXCEPT !.names = @ \ {m}, !.pending[m] = entry]
        BY <2>1, <2>3, Zenon
    <2>4. CASE t = [s EXCEPT !.pending[m] = entry, !.awaited = TRUE]
        BY <2>1, <2>4, Zenon
    <2> QED
        BY <2>2, <2>3, <2>4
<1>2. t.pc = s.pc /\ t.pending = [s.pending EXCEPT ![m] = entry]
    BY DEF Scan
<1>3. s.pending \in [Messages -> Retries \cup {Absent}]
    BY DEF Scan
<1> QED
    BY <1>1, <1>2, <1>3

(* What a scan that runs knows.                                             *)
LEMMA Knows ==
    ASSUME TypeOK, SequentialInv, NEW r \in Recoveries, scan[r].pc = "run", NEW m \in Messages
    PROVE  /\ m \in scan[r].names => json[m] # Absent /\ scan[r].pending[m] = Absent
           /\ scan[r].pending[m] # Absent => scan[r].pending[m] = json[m]
           /\ m \in scan[r].names \/ scan[r].pending[m] # Absent => job[m][r].pc = "idle"
BY DEF SequentialInv, Orderly, ReadIsTrue

(* What the scan remembers when it has taken entry k.                       *)
LEMMA TakesEntry ==
    ASSUME NEW s \in Scan, NEW k \in Messages
    PROVE  LET to == [s EXCEPT !.pending[k] = Absent, !.awaited = TRUE]
           IN /\ to \in Scan /\ to.pc = s.pc /\ to.names = s.names
              /\ to.pending[k] = Absent
              /\ \A m \in Messages \ {k} : to.pending[m] = s.pending[m]
<1> DEFINE to == [s EXCEPT !.pending[k] = Absent, !.awaited = TRUE]
<1>1. Absent \in Retries \cup {Absent}
    OBVIOUS
<1>2. to.names = s.names
    BY DEF Scan
<1>3. Advances(s, k, Absent, to)
    BY Zenon DEF Advances
<1> HIDE DEF to
<1>4. /\ to \in Scan /\ to.pc = s.pc /\ to.pending[k] = Absent
      /\ \A m \in Messages \ {k} : to.pending[m] = s.pending[m]
    BY <1>1, <1>3, EntryFields
<1> QED
    BY <1>2, <1>4 DEF to

(* The scan begins to work on entry k.                                      *)
LEMMA Begins ==
    ASSUME TypeOK, SequentialInv, TypeOK', NEW r \in Recoveries, NEW k \in Messages,
           NEW pc \in {"sending", "burying"}, AtEntry(r, k), Begin(r, k, pc),
           UNCHANGED <<json, born, got, crashes>>,
           attempts' = attempts \/ (attempts' = [attempts EXCEPT ![k] = Attempted(@)]
                                    /\ scan[r].pending[k] < MaxRetries)
    PROVE  SequentialInv'
<1> DEFINE to == [scan[r] EXCEPT !.pending[k] = Absent, !.awaited = TRUE]
<1>1. scan[r].pc = "run" /\ scan[r].names = {} /\ scan[r].pending[k] # Absent
      /\ scan[r] \in Scan
    BY DEF AtEntry, Ready, Remaining, TypeOK
<1>2. /\ to \in Scan /\ to.pc = "run" /\ to.names = {}
      /\ to.pending[k] = Absent
      /\ \A m \in Messages \ {k} : to.pending[m] = scan[r].pending[m]
    <2>1. /\ to \in Scan /\ to.pc = scan[r].pc /\ to.names = scan[r].names
          /\ to.pending[k] = Absent
          /\ \A m \in Messages \ {k} : to.pending[m] = scan[r].pending[m]
        BY <1>1, TakesEntry, Zenon
    <2> QED
        BY <1>1, <2>1, Zenon
<1>3. scan' = [scan EXCEPT ![r] = to]
    BY DEF Begin, TypeOK, Scan
<1>4. /\ job'[k][r].pc = pc
      /\ \A m \in Messages, w \in Workers : m # k \/ w # r => job'[m][w] = job[m][w]
    BY DEF Begin, Do, At, TypeOK, Workers
<1>5. scan[r].pending[k] = json[k] /\ job[k][r].pc = "idle"
    BY <1>1, Knows
<1>6. /\ attempts'[k] \in {attempts[k], attempts[k] + 1}
      /\ ~DiskMayFail => attempts'[k] <= MaxRetries + crashes
      /\ \A m \in Messages \ {k} : attempts'[m] = attempts[m]
    <2>1. json[k] \in Nat /\ attempts[k] \in Nat /\ crashes \in Nat
        BY <1>1, <1>5, CountsAreNat
    <2>2. Orderly(k) /\ Alone
        BY DEF SequentialInv
    <2>3. ~DiskMayFail => attempts[k] <= MaxRetries + crashes
        BY <2>2 DEF Orderly, Budget
    <2>4. CASE attempts' = attempts
        BY <2>3, <2>4
    <2>5. CASE /\ attempts' = [attempts EXCEPT ![k] = Attempted(@)]
               /\ scan[r].pending[k] < MaxRetries
        <3>1. attempts'[k] = Attempted(attempts[k])
              /\ \A m \in Messages \ {k} : attempts'[m] = attempts[m]
            BY <2>5 DEF TypeOK
        <3>2. Attempted(attempts[k]) \in {attempts[k], attempts[k] + 1}
            BY DEF Attempted
        <3>3. Settled(k)
            <4>1. \A w \in Workers : job[k][w].pc = "idle"
                <5>1. \A q \in Recoveries : scan[q].pc = "run" => q = r
                    BY <1>1, <2>2 DEF Alone
                <5>2. \A q \in Recoveries : job[k][q].pc = "idle"
                    BY <1>5, <5>1, BusyScanRuns DEF Workers
                <5>3. job[k][Live].pc = "idle"
                    BY <1>1, <2>2 DEF Alone
                <5> QED
                    BY <5>2, <5>3 DEF Workers
            <4> QED
                BY <4>1 DEF Settled
        <3>4. ~DiskMayFail => attempts[k] <= json[k] + crashes
            BY <1>1, <1>5, <2>1, <2>2, <3>3 DEF Orderly, Budget
        <3>5. ~DiskMayFail => attempts[k] + 1 <= MaxRetries + crashes
            BY <1>5, <2>1, <2>5, <3>4
        <3> QED
            BY <2>1, <2>3, <3>1, <3>2, <3>5
    <2> QED
        BY <2>4, <2>5
<1> HIDE DEF to
<1>7. ASSUME NEW m \in Messages
      PROVE  Informed(r, m, to) /\ (Leaves(r, m) \/ TakesUp(r, m))
    <2>1. CASE m = k
        <3>1. Informed(r, k, to)
            BY <1>2 DEF Informed
        <3>2. TakesUp(r, k)
            BY <1>1, <1>4, <1>5, <1>6 DEF TakesUp
        <3> QED
            BY <2>1, <3>1, <3>2
    <2>2. CASE m # k
        <3>1. Leaves(r, m)
            BY <1>4, <1>6, <2>2 DEF Leaves, Workers
        <3>2. to.pending[m] = scan[r].pending[m]
            BY <1>2, <2>2
        <3>3. scan[r].pending[m] # Absent =>
                  scan[r].pending[m] = json[m] /\ job[m][r].pc = "idle"
            BY <1>1, Knows
        <3>4. Informed(r, m, to)
            BY <1>2, <3>1, <3>2, <3>3 DEF Informed, Leaves
        <3> QED
            BY <3>1, <3>4
    <2> QED
        BY <2>1, <2>2
<1>8. \A m \in Messages, w \in Workers \ {r} : job'[m][w] = job[m][w]
    BY <1>4
<1> QED
    BY <1>1, <1>2, <1>3, <1>7, <1>8, ScanFrame

LEMMA SequentialLooping ==
    ASSUME ~Overlap, TypeOK, SequentialInv, TypeOK', NEW r \in Recoveries,
           Looping(r) \/ Restart(r)
    PROVE  SequentialInv'
<1>1. Alone /\ scan[r] \in Scan
    BY DEF SequentialInv, TypeOK
<1>2. CASE List(r)
    <2> DEFINE names == {m \in Messages : json[m] # Absent}
               to == IF names = {} THEN Off ELSE [Off EXCEPT !.pc = "run", !.names = names]
    <2>1. /\ to \in Scan /\ (to.pc # "run" => to.names = {})
          /\ \A m \in Messages : to.pending[m] = Absent /\ (m \in to.names => json[m] # Absent)
        BY DEF Off, Scan, NoneRead
    <2>2. /\ scan[r].pc = "start" /\ scan' = [scan EXCEPT ![r] = to]
          /\ UNCHANGED <<json, born, got, crashes, job, attempts>>
        BY <1>2 DEF List, history
    <2>3. \A m \in Messages : job[m][r].pc = "idle"
        BY <2>2 DEF TypeOK, Idle, At
    <2> HIDE DEF to
    <2>4. \A m \in Messages : Informed(r, m, to)
        BY <2>1, <2>2, <2>3 DEF Informed
    <2> QED
        BY <2>1, <2>2, <2>4, QuietScan
<1>3. ASSUME NEW k \in Messages, Read(r, k) PROVE SequentialInv'
    <2> PICK entry \in {json[k], Absent} :
               scan' = [scan EXCEPT ![r].names = @ \ {k}, ![r].pending[k] = entry]
        BY <1>3 DEF Read
    <2> DEFINE to == [scan[r] EXCEPT !.names = @ \ {k}, !.pending[k] = entry]
    <2>1. k \in scan[r].names /\ UNCHANGED <<json, born, got, crashes, job, attempts>>
        BY <1>3 DEF Read, disk, history
    <2>2. scan[r].pc = "run"
        BY <1>1, <2>1 DEF Alone
    <2>3. scan' = [scan EXCEPT ![r] = to]
        BY <1>1, Zenon DEF TypeOK, Scan
    <2>4. entry \in Retries \cup {Absent}
        BY DEF TypeOK
    <2>5. /\ to \in Scan /\ to.pc = "run" /\ to.names = scan[r].names \ {k}
          /\ to.pending[k] = entry
          /\ \A m \in Messages \ {k} : to.pending[m] = scan[r].pending[m]
        <3>1. to.names = scan[r].names \ {k}
            BY <1>1 DEF Scan
        <3>2. Advances(scan[r], k, entry, to)
            BY Zenon DEF Advances
        <3> HIDE DEF to
        <3>3. /\ to \in Scan /\ to.pc = scan[r].pc /\ to.pending[k] = entry
              /\ \A m \in Messages \ {k} : to.pending[m] = scan[r].pending[m]
            BY <1>1, <2>4, <3>2, EntryFields
        <3> QED
            BY <2>2, <3>1, <3>3
    <2> HIDE DEF to
    <2>6. ASSUME NEW m \in Messages PROVE Informed(r, m, to)
        <3>1. CASE m = k
            <4>1. job[k][r].pc = "idle"
                BY <2>1, <2>2, Knows
            <4> QED
                BY <2>1, <2>5, <3>1, <4>1 DEF Informed
        <3>2. CASE m # k
            <4>1. m \in to.names <=> m \in scan[r].names
                BY <2>5, <3>2
            <4>2. to.pending[m] = scan[r].pending[m]
                BY <2>5, <3>2
            <4>3. /\ m \in scan[r].names => json[m] # Absent /\ scan[r].pending[m] = Absent
                  /\ scan[r].pending[m] # Absent => scan[r].pending[m] = json[m]
                  /\ m \in scan[r].names \/ scan[r].pending[m] # Absent => job[m][r].pc = "idle"
                BY <2>2, Knows
            <4> QED
                BY <2>1, <4>1, <4>2, <4>3 DEF Informed
        <3> QED
            BY <3>1, <3>2
    <2> QED
        BY <2>1, <2>2, <2>3, <2>5, <2>6, QuietScan
<1>4. ASSUME NEW k \in Messages, Expire(r, k) PROVE SequentialInv'
    <2>1. /\ AtEntry(r, k) /\ Begin(r, k, "burying")
          /\ UNCHANGED <<json, born, got, crashes>> /\ attempts' = attempts
        BY <1>4 DEF Expire, disk, history
    <2> QED
        BY <2>1, Begins
<1>5. ASSUME NEW k \in Messages, Attempt(r, k) PROVE SequentialInv'
    <2>1. /\ AtEntry(r, k) /\ Begin(r, k, "sending") /\ scan[r].pending[k] < MaxRetries
          /\ attempts' = [attempts EXCEPT ![k] = Attempted(@)]
          /\ UNCHANGED <<json, born, got, crashes>>
        BY <1>5 DEF Attempt, Counted, disk
    <2> QED
        BY <2>1, Begins
<1>6. ASSUME NEW k \in Messages, Skip(r, k) PROVE SequentialInv'
    <2> DEFINE to == [scan[r] EXCEPT !.pending[k] = Absent]
    <2>1. scan[r].pc = "run" /\ scan[r].names = {}
        BY <1>6 DEF Skip, AtEntry, Ready
    <2>2. /\ to \in Scan /\ to.pc = "run" /\ to.names = {} /\ to.pending[k] = Absent
          /\ \A m \in Messages \ {k} : to.pending[m] = scan[r].pending[m]
        <3>1. to.names = {}
            BY <1>1, <2>1 DEF Scan
        <3>2. Absent \in Retries \cup {Absent}
            OBVIOUS
        <3>3. Advances(scan[r], k, Absent, to)
            BY Zenon DEF Advances
        <3> HIDE DEF to
        <3>4. scan[r] \in Scan
            BY <1>1
        <3>5. /\ to \in Scan /\ to.pc = scan[r].pc /\ to.pending[k] = Absent
              /\ \A m \in Messages \ {k} : to.pending[m] = scan[r].pending[m]
            BY <3>2, <3>3, <3>4, EntryFields
        <3> QED
            BY <2>1, <3>1, <3>5
    <2>3. scan' = [scan EXCEPT ![r] = to] /\ UNCHANGED <<json, born, got, crashes, job, attempts>>
        BY <1>6 DEF Skip, TypeOK, Scan, disk, history
    <2> HIDE DEF to
    <2>4. ASSUME NEW m \in Messages PROVE Informed(r, m, to)
        <3>1. to.pending[m] # Absent => to.pending[m] = scan[r].pending[m]
            BY <2>2
        <3>2. scan[r].pending[m] # Absent =>
                  scan[r].pending[m] = json[m] /\ job[m][r].pc = "idle"
            BY <2>1, Knows
        <3> QED
            BY <2>2, <2>3, <3>1, <3>2 DEF Informed
    <2> QED
        BY <2>1, <2>2, <2>3, <2>4, QuietScan
<1>7. CASE Defer(r)
    <2> DEFINE to == [scan[r] EXCEPT !.pending = NoneRead]
    <2>1. scan[r].pc = "run" /\ scan[r].names = {}
        BY <1>7 DEF Defer, Ready
    <2>2. /\ to \in Scan /\ to.pc = "run" /\ to.names = {}
          /\ \A m \in Messages : to.pending[m] = Absent
        <3>1. NoneRead \in [Messages -> Retries \cup {Absent}]
              /\ \A m \in Messages : NoneRead[m] = Absent
            BY DEF NoneRead
        <3> QED
            BY <1>1, <2>1, <3>1 DEF Scan
    <2>3. scan' = [scan EXCEPT ![r] = to] /\ UNCHANGED <<json, born, got, crashes, attempts>>
        BY <1>7 DEF Defer, TypeOK, Scan, disk, history
    <2>4. \A m \in Messages, w \in Workers \ {r} : job'[m][w] = job[m][w]
        BY <1>7 DEF Defer, TypeOK
    <2>5. ASSUME NEW m \in Messages, m \in Remaining(r)
          PROVE  job'[m][r].pc = "failing" /\ job[m][r].pc = "idle" /\ json[m] # Absent
        <3>1. job'[m][r] = At("failing")
            BY <1>7, <2>5 DEF Defer, TypeOK, Workers
        <3> QED
            BY <2>1, <2>5, <3>1, Knows DEF Remaining, At
    <2>6. \A m \in Messages : m \notin Remaining(r) => job'[m] = job[m]
        BY <1>7 DEF Defer
    <2>7. ~DiskMayFail => \A m \in Messages : attempts[m] <= MaxRetries + crashes
        BY DEF SequentialInv, Orderly, Budget
    <2> HIDE DEF to
    <2>8. \A m \in Messages : Informed(r, m, to)
        BY <2>2 DEF Informed
    <2>9. ASSUME NEW m \in Messages PROVE Leaves(r, m) \/ TakesUp(r, m)
        <3>1. CASE m \in Remaining(r)
            BY <2>3, <2>5, <2>7, <3>1 DEF TakesUp
        <3>2. CASE m \notin Remaining(r)
            BY <2>3, <2>6, <3>2 DEF Leaves
        <3> QED
            BY <3>1, <3>2
    <2> QED
        BY <2>1, <2>2, <2>3, <2>4, <2>8, <2>9, ScanFrame
<1>8. CASE Finish(r)
    <2>1. Off \in Scan /\ Off.pc = "off" /\ Off.names = {}
        BY OffType DEF Off
    <2>2. \A m \in Messages : Informed(r, m, Off)
        BY <2>1 DEF Informed
    <2>3. /\ scan[r].pc = "run" /\ scan' = [scan EXCEPT ![r] = Off]
          /\ UNCHANGED <<json, born, got, crashes, job, attempts>>
        BY <1>8 DEF Finish, Ready, disk, history
    <2> QED
        BY <1>8, <2>1, <2>2, <2>3, QuietScan
<1>9. CASE Restart(r)
    <2> DEFINE to == [Off EXCEPT !.pc = "start"]
    <2>1. Quiet /\ scan' = [scan EXCEPT ![r] = to] /\ UNCHANGED <<disk, job, born, history, crashes>>
        BY <1>9 DEF Restart
    <2>2. to.pc = "start" /\ to.names = {}
        BY DEF Off
    <2>3. scan'[r] = to /\ \A q \in Recoveries \ {r} : scan'[q] = scan[q]
        BY <2>1 DEF TypeOK
    <2> HIDE DEF to
    <2>4. Alone'
        BY <1>1, <2>1, <2>2, <2>3 DEF Alone, Quiet, Idle, At, Workers
    <2>5. ASSUME NEW m \in Messages PROVE Orderly(m)'
        <3>1. Orderly(m)
            BY DEF SequentialInv
        <3>2. ReadIsTrue(m)'
            BY <2>1, <2>2, <2>3 DEF ReadIsTrue, Quiet
        <3>3. /\ Unborn(m)' /\ HasEntry(m)' /\ Recorded(m)'
              /\ ~DiskMayFail => Budget(m)'
            BY <2>1, <3>1 DEF Orderly, Unborn, HasEntry, Unqueued, Recorded, Budget, Settled,
               disk, history
        <3> QED
            BY <3>2, <3>3 DEF Orderly
    <2> QED
        BY <2>4, <2>5 DEF SequentialInv
<1> QED
    BY <1>2, <1>3, <1>4, <1>5, <1>6, <1>7, <1>8, <1>9 DEF Looping

LEMMA SequentialStart == Init => SequentialInv
<1> SUFFICES ASSUME Init PROVE SequentialInv
    OBVIOUS
<1>1. PICK r \in Recoveries : scan = Starting(r)
    BY DEF Init
<1>2. \A m \in Messages, w \in Workers : job[m][w].pc = "idle"
    BY DEF Init, NoJobs, Idle, At
<1>3. \A q \in Recoveries : /\ scan[q].pc # "run" /\ scan[q].names = {}
                            /\ scan[q].pc # "off" => q = r
    BY <1>1 DEF Starting, Off
<1>4. Alone
    BY <1>2, <1>3 DEF Alone, Workers
<1>5. ASSUME NEW m \in Messages PROVE Orderly(m)
    <2>1. /\ json[m] = Absent /\ born[m] = "new" /\ got[m] = "never"
          /\ attempts[m] = 0 /\ crashes = 0
        BY DEF Init
    <2>2. Budget(m)
        BY <2>1, DeliveryQueueAssumption DEF Budget
    <2>3. Unborn(m) /\ ReadIsTrue(m) /\ HasEntry(m) /\ Recorded(m)
        BY <1>2, <1>3, <2>1 DEF Unborn, ReadIsTrue, HasEntry, Recorded
    <2> QED
        BY <2>2, <2>3 DEF Orderly
<1> QED
    BY <1>4, <1>5 DEF SequentialInv

LEMMA SequentialSafe == ASSUME ~Overlap PROVE Spec => []SequentialInv
<1>1. Init => SequentialInv
    BY SequentialStart
<1>2. ASSUME TypeOK, TypeOK', SequentialInv, [Next]_vars PROVE SequentialInv'
    <2>1. ASSUME NEW k \in Messages, NEW outcome \in {"stored", "unstored"},
                 Enqueue(k, outcome)
          PROVE  SequentialInv'
        BY <1>2, <2>1, SequentialEnqueue
    <2>2. ASSUME NEW k \in Messages, SendAborted(k) PROVE SequentialInv'
        BY <1>2, <2>2, SequentialSending, SequentialUnqueued DEF Workers
    <2>3. ASSUME NEW k \in Messages, NEW w \in Workers, Sending(k, w) \/ Settling(k, w)
          PROVE  SequentialInv'
        BY <1>2, <2>3, SequentialSending, SequentialUnqueued, SequentialSettling
    <2>4. ASSUME NEW r \in Recoveries, Looping(r) \/ Restart(r) PROVE SequentialInv'
        BY <1>2, <2>4, SequentialLooping
    <2>5. CASE Crash
        BY <1>2, <2>5, SequentialCrash
    <2>6. CASE UNCHANGED vars
        <3>1. UNCHANGED <<json, job, scan, born, got, attempts, crashes>>
            BY <2>6 DEF vars, disk, history
        <3>2. Alone'
            BY <1>2, <3>1 DEF SequentialInv, Alone
        <3>3. \A m \in Messages : Orderly(m)'
            BY <1>2, <3>1, Untouched DEF SequentialInv
        <3> QED
            BY <3>2, <3>3 DEF SequentialInv
    <2> QED
        BY <1>2, <2>1, <2>2, <2>3, <2>4, <2>5, <2>6 DEF Next
<1>3. Spec => []TypeOK
    BY TypeCorrect
<1> QED
    BY <1>1, <1>2, <1>3, PTL DEF Spec

(* Where no scan runs beside a delivery, a message whose send was recorded  *)
(* is not sent again, whatever crashes and whatever files cannot be read,   *)
(* written or renamed: what a scan has read of an entry is still true when  *)
(* it comes to it (ackDelivery, failDelivery, recoverPendingDeliveries).    *)
THEOREM RecordedIsNotSentAgain == ASSUME ~Overlap PROVE Spec => []NeverTwice
<1>1. SequentialInv => NeverTwice
    BY DEF SequentialInv, Orderly, Recorded, NeverTwice
<1> QED
    BY <1>1, SequentialSafe, PTL

(* If the disk does not fail either, it is attempted MAX_RETRIES times, and *)
(* once more for each crash: retryCount never lags behind the attempts by   *)
(* more than the one at work (failDelivery, deferRemainingEntriesForBudget). *)
THEOREM RetriesAreBounded == ASSUME ~Overlap, ~DiskMayFail PROVE Spec => []AttemptsBounded
<1>1. SequentialInv => AttemptsBounded
    BY DEF SequentialInv, Orderly, Budget, AttemptsBounded
<1> QED
    BY <1>1, SequentialSafe, PTL
-----------------------------------------------------------------------------
(* The queue as an outbox.                                                  *)

(* What was given up is not in the queue as well.                           *)
FiledOnce ==
    \A m \in Messages : failed[m] => json[m] = Absent /\ born[m] = "stored"

LEMMA FiledStep ==
    ASSUME TypeOK, TypeOK', SequentialInv, FiledOnce, [Next]_vars
    PROVE  FiledOnce'
<1>1. CASE UNCHANGED <<json, failed, born>>
    BY <1>1 DEF FiledOnce
<1>2. ASSUME NEW k \in Messages, NEW outcome \in {"stored", "unstored"},
             Enqueue(k, outcome)
      PROVE  FiledOnce'
    BY <1>2 DEF Enqueue, FiledOnce, TypeOK
<1>3. ASSUME NEW k \in Messages, NEW w \in Workers, AckRename(k, w)
      PROVE  FiledOnce'
    BY <1>3 DEF AckRename, FiledOnce, TypeOK
<1>4. ASSUME NEW k \in Messages, NEW w \in Workers, FailStore(k, w)
      PROVE  FiledOnce'
    <2>1. job[k][w].pc = "storing"
        BY <1>4 DEF FailStore
    <2>2. json[k] # Absent
        BY <2>1, AtWork DEF Unqueued
    <2> QED
        BY <1>4, <2>2 DEF FailStore, FiledOnce, TypeOK
<1>5. ASSUME NEW k \in Messages, NEW w \in Workers, Bury(k, w)
      PROVE  FiledOnce'
    <2>1. job[k][w].pc = "burying"
        BY <1>5 DEF Bury
    <2>2. born[k] = "stored"
        BY <2>1, AtWork DEF Unqueued
    <2> QED
        BY <1>5, <2>2 DEF Bury, FiledOnce, TypeOK
<1>6. ASSUME NEW k \in Messages, NEW w \in Workers,
             Sending(k, w) \/ SendAborted(k) \/ AckFails(k, w) \/ AckUnlink(k, w)
                 \/ FailRead(k, w)
      PROVE  UNCHANGED <<json, failed, born>>
    BY <1>6 DEF Sending, SendSucceeds, SendPartly, SendFails, SendAborted, AckFails,
        AckUnlink, FailRead, disk
<1>7. ASSUME NEW r \in Recoveries, Looping(r) \/ Restart(r)
      PROVE  UNCHANGED <<json, failed, born>>
    BY <1>7 DEF Looping, List, Defer, Finish, Read, Expire, Skip, Attempt, Restart, disk
<1>8. ASSUME Crash \/ UNCHANGED vars PROVE UNCHANGED <<json, failed, born>>
    BY <1>8 DEF Crash, vars, disk
<1>9. Live \in Workers
    BY DEF Workers
<1> QED
    BY <1>1, <1>2, <1>3, <1>4, <1>5, <1>6, <1>7, <1>8, <1>9 DEF Next, Settling

(* The outbox stands still.                                                 *)
LEMMA BoxStill ==
    ASSUME UNCHANGED <<json, failed, born>>, Done' = Done
    PROVE  UNCHANGED Box!vars
<1>1. \A m \in Messages : Place(m)' = Place(m) /\ Tries(m)' = Tries(m)
    BY DEF Place, Tries
<1> QED
    BY <1>1 DEF Box!vars

(* One message moves, its retries change, and nothing else does.            *)
LEMMA BoxMoves ==
    ASSUME TypeOK, TypeOK', NEW k \in Messages,
           \A m \in Messages \ {k} : /\ json'[m] = json[m] /\ failed'[m] = failed[m]
                                     /\ born'[m] = born[m]
    PROVE  /\ [m \in Messages |-> Place(m)]' = [[m \in Messages |-> Place(m)] EXCEPT ![k] = Place(k)']
           /\ [m \in Messages |-> Tries(m)]' = [[m \in Messages |-> Tries(m)] EXCEPT ![k] = Tries(k)']
<1>1. \A m \in Messages \ {k} : Place(m)' = Place(m) /\ Tries(m)' = Tries(m)
    BY DEF Place, Tries
<1> HIDE DEF Place, Tries
<1> QED
    BY <1>1

(* Only what is in the queue, or was sent without it, is sent.              *)
LEMMA BoxSending ==
    ASSUME TypeOK, TypeOK', SequentialInv, NEW k \in Messages, NEW w \in Workers,
           Sending(k, w) \/ (w = Live /\ SendAborted(k))
    PROVE  Box!Reach(k) \/ UNCHANGED Box!vars
<1>1. job[k][w].pc = "sending" /\ UNCHANGED <<json, failed, born>>
    BY DEF Sending, SendSucceeds, SendPartly, SendFails, SendAborted, disk
<1>2. Place(k) \in {"queued", "direct"}
    <2>1. CASE Unqueued(k, w)
        BY <2>1 DEF Unqueued, Place
    <2>2. CASE ~Unqueued(k, w)
        <3>1. born[k] = "stored" /\ json[k] # Absent
            BY <1>1, <2>2, AtWork
        <3> QED
            BY <3>1 DEF Place
    <2> QED
        BY <2>1, <2>2
<1>3. Done' = Done \/ Done' = Done \cup {k}
    <2>1. ASSUME NEW recorded \in BOOLEAN, Sent(k, recorded), aborted' = aborted
          PROVE  Done' = Done \cup {k}
        <3>1. got'[k] # "never" /\ \A m \in Messages \ {k} : got'[m] = got[m]
            BY <2>1 DEF Sent, TypeOK
        <3> QED
            BY <2>1, <3>1 DEF Done
    <2>2. CASE UNCHANGED <<got, aborted>>
        BY <2>2 DEF Done
    <2>3. CASE got' = got /\ aborted' = aborted \cup {k}
        BY <2>3 DEF Done
    <2> QED
        BY <2>1, <2>2, <2>3
        DEF Sending, SendSucceeds, SendPartly, SendFails, SendAborted, history
<1>4. CASE Done' = Done
    BY <1>1, <1>4, BoxStill
<1>5. CASE Done' = Done \cup {k}
    <2>1. \A m \in Messages : Place(m)' = Place(m) /\ Tries(m)' = Tries(m)
        BY <1>1 DEF Place, Tries
    <2> QED
        BY <1>2, <1>5, <2>1 DEF Box!Reach
<1> QED
    BY <1>3, <1>4, <1>5

LEMMA BoxSettling ==
    ASSUME TypeOK, TypeOK', SequentialInv, AckIsDeserved, FiledOnce,
           NEW k \in Messages, NEW w \in Workers, Settling(k, w)
    PROVE  Box!Retry(k) \/ Box!Acknowledge(k) \/ Box!GiveUp(k) \/ UNCHANGED Box!vars
<1> DEFINE place == [m \in Messages |-> Place(m)]
           tries == [m \in Messages |-> Tries(m)]
<1>1. job[k][w].pc # "sending"
    BY DEF Settling, AckRename, AckFails, AckUnlink, FailRead, FailStore, Bury
<1>2. ASSUME job[k][w].pc \notin {"idle", "unlinking"}
      PROVE  /\ json[k] # Absent /\ json[k] \in Nat /\ born[k] = "stored"
             /\ ~failed[k] /\ Place(k) = "queued" /\ Tries(k) = json[k]
             /\ job[k][w].pc = "storing" => job[k][w].n = json[k]
    <2>1. /\ json[k] # Absent /\ json[k] \in Nat /\ born[k] = "stored"
          /\ job[k][w].pc = "storing" => job[k][w].n = json[k]
        BY <1>1, <1>2, AtWork DEF Unqueued
    <2>2. ~failed[k]
        BY <2>1 DEF FiledOnce
    <2> QED
        BY <2>1, <2>2 DEF Place, Tries
<1>3. CASE AckFails(k, w) \/ AckUnlink(k, w) \/ FailRead(k, w)
    <2>1. UNCHANGED <<json, failed, born, aborted>>
        BY <1>3 DEF AckFails, AckUnlink, FailRead, disk, history
    <2>2. \A m \in Messages : got'[m] # "never" <=> got[m] # "never"
        BY <1>3 DEF AckFails, AckUnlink, FailRead, history, TypeOK
    <2>3. Done' = Done
        BY <2>1, <2>2 DEF Done
    <2> QED
        BY <2>1, <2>3, BoxStill
<1>4. CASE AckRename(k, w)
    <2>1. /\ job[k][w].pc = "acking" /\ json' = [json EXCEPT ![k] = Absent]
          /\ UNCHANGED <<failed, born, got, aborted>>
        BY <1>4 DEF AckRename, history
    <2>2. Place(k) = "queued" /\ Place(k)' = "gone" /\ Tries(k)' = 0
        <3>1. json'[k] = Absent
            BY <2>1 DEF TypeOK
        <3> QED
            BY <1>2, <2>1, <3>1 DEF Place, Tries
    <2>3. k \in Done \cup BestEffort
        BY <2>1 DEF AckIsDeserved, Done
    <2>4. Done' = Done
        BY <2>1 DEF Done
    <2>5. \A m \in Messages \ {k} : /\ json'[m] = json[m] /\ failed'[m] = failed[m]
                                    /\ born'[m] = born[m]
        BY <2>1 DEF TypeOK
    <2>6. place' = [place EXCEPT ![k] = "gone"] /\ tries' = [tries EXCEPT ![k] = 0]
        BY <2>2, <2>5, BoxMoves
    <2> QED
        BY <2>2, <2>3, <2>4, <2>6 DEF Box!Acknowledge, Box!Leave, Box!Move
<1>5. CASE FailStore(k, w)
    <2>1. job[k][w].pc = "storing" /\ UNCHANGED <<failed, born, got, aborted>>
        BY <1>5 DEF FailStore, history
    <2>2. Done' = Done
        BY <2>1 DEF Done
    <2>3. CASE UNCHANGED json
        BY <2>1, <2>2, <2>3, BoxStill
    <2>4. CASE json' = [json EXCEPT ![k] = Bump(job[k][w].n)]
        <3>1. json'[k] = Bump(json[k])
            BY <1>2, <2>1, <2>4 DEF TypeOK
        <3>2. CASE Bump(json[k]) = json[k]
            <4>1. json' = json
                BY <1>2, <2>1, <2>4, <3>2 DEF TypeOK
            <4> QED
                BY <2>1, <2>2, <4>1, BoxStill
        <3>3. CASE Bump(json[k]) = json[k] + 1
            <4>1. json'[k] # Absent /\ Tries(k)' = Tries(k) + 1
                BY <1>2, <2>1, <3>1, <3>3 DEF Tries, Absent
            <4>2. Place(k)' = Place(k) /\ Place(k) = "queued"
                BY <1>2, <2>1, <4>1 DEF Place
            <4>3. \A m \in Messages \ {k} : /\ json'[m] = json[m] /\ failed'[m] = failed[m]
                                            /\ born'[m] = born[m]
                BY <2>1, <2>4 DEF TypeOK
            <4>4. place' = [place EXCEPT ![k] = Place(k)'] /\ tries' = [tries EXCEPT ![k] = Tries(k)']
                BY <4>3, BoxMoves
            <4>5. place' = place /\ tries' = [tries EXCEPT ![k] = @ + 1]
                BY <4>1, <4>2, <4>4
            <4> QED
                BY <2>2, <4>2, <4>5 DEF Box!Retry
        <3> QED
            BY <3>2, <3>3 DEF Bump
    <2> QED
        BY <1>5, <2>3, <2>4 DEF FailStore
<1>6. CASE Bury(k, w)
    <2>1. job[k][w].pc = "burying" /\ UNCHANGED <<born, got, aborted>>
        BY <1>6 DEF Bury, history
    <2>2. Done' = Done
        BY <2>1 DEF Done
    <2>3. CASE UNCHANGED <<json, failed>>
        BY <2>1, <2>2, <2>3, BoxStill
    <2>4. CASE /\ json' = [json EXCEPT ![k] = Absent]
               /\ failed' = [failed EXCEPT ![k] = @ \/ json[k] # Absent]
        <3>1. json'[k] = Absent /\ failed'[k]
            BY <1>2, <2>1, <2>4 DEF TypeOK
        <3>2. Place(k) = "queued" /\ Place(k)' = "failed" /\ Tries(k)' = 0
            BY <1>2, <2>1, <3>1 DEF Place, Tries
        <3>3. \A m \in Messages \ {k} : /\ json'[m] = json[m] /\ failed'[m] = failed[m]
                                        /\ born'[m] = born[m]
            BY <2>1, <2>4 DEF TypeOK
        <3>4. place' = [place EXCEPT ![k] = "failed"] /\ tries' = [tries EXCEPT ![k] = 0]
            BY <3>2, <3>3, BoxMoves
        <3> QED
            BY <2>2, <3>2, <3>4 DEF Box!GiveUp, Box!Leave, Box!Move
    <2> QED
        BY <1>6, <2>3, <2>4 DEF Bury
<1> QED
    BY <1>3, <1>4, <1>5, <1>6 DEF Settling

LEMMA BoxEnqueue ==
    ASSUME TypeOK, TypeOK', SequentialInv, NEW k \in Messages,
           NEW outcome \in {"stored", "unstored"}, Enqueue(k, outcome)
    PROVE  Box!Accept(k) \/ Box!PassBy(k)
<1> DEFINE place == [m \in Messages |-> Place(m)]
           tries == [m \in Messages |-> Tries(m)]
<1>1. /\ born[k] = "new" /\ born' = [born EXCEPT ![k] = outcome]
      /\ json' = IF outcome = "stored" THEN [json EXCEPT ![k] = 0] ELSE json
      /\ UNCHANGED <<failed, got, aborted>>
    BY DEF Enqueue
<1>2. json[k] = Absent
    BY <1>1 DEF SequentialInv, Orderly, Unborn
<1>3. Place(k) = "new" /\ Tries(k) = 0 /\ Tries(k)' = 0
    BY <1>1, <1>2 DEF Place, Tries, TypeOK, Absent
<1>4. Done' = Done
    BY <1>1 DEF Done
<1>5. \A m \in Messages \ {k} : /\ json'[m] = json[m] /\ failed'[m] = failed[m]
                                /\ born'[m] = born[m]
    BY <1>1 DEF TypeOK
<1>6. place' = [place EXCEPT ![k] = Place(k)'] /\ tries' = [tries EXCEPT ![k] = Tries(k)']
    BY <1>5, BoxMoves
<1>7. tries' = tries
    BY <1>3, <1>6
<1>8. CASE outcome = "stored"
    <2>1. Place(k)' = "queued"
        BY <1>1, <1>8 DEF Place, TypeOK, Absent
    <2> QED
        BY <1>3, <1>4, <1>6, <1>7, <2>1 DEF Box!Accept, Box!Move
<1>9. CASE outcome = "unstored"
    <2>1. Place(k)' = "direct"
        BY <1>1, <1>9 DEF Place, TypeOK
    <2> QED
        BY <1>3, <1>4, <1>6, <1>7, <2>1 DEF Box!PassBy, Box!Move
<1> QED
    BY <1>8, <1>9

LEMMA BoxStep ==
    ASSUME TypeOK, TypeOK', SequentialInv, AckIsDeserved, FiledOnce, [Next]_vars
    PROVE  [Box!Next]_(Box!vars)
<1>1. ASSUME NEW k \in Messages, NEW outcome \in {"stored", "unstored"},
             Enqueue(k, outcome)
      PROVE  Box!Next
    BY <1>1, BoxEnqueue DEF Box!Next
<1>2. ASSUME NEW k \in Messages, SendAborted(k)
      PROVE  Box!Next \/ UNCHANGED Box!vars
    <2>1. Live \in Workers
        BY DEF Workers
    <2> QED
        BY <1>2, <2>1, BoxSending DEF Box!Next
<1>3. ASSUME NEW k \in Messages, NEW w \in Workers, Sending(k, w) \/ Settling(k, w)
      PROVE  Box!Next \/ UNCHANGED Box!vars
    BY <1>3, BoxSending, BoxSettling DEF Box!Next
<1>4. ASSUME NEW r \in Recoveries, Looping(r) \/ Restart(r)
      PROVE  UNCHANGED Box!vars
    <2>1. UNCHANGED <<json, failed, born, got, aborted>>
        BY <1>4 DEF Looping, List, Defer, Finish, Read, Expire, Skip, Attempt, Restart,
            disk, history
    <2> QED
        BY <2>1, BoxStill DEF Done
<1>5. CASE Crash
    <2>1. UNCHANGED <<json, failed, born, aborted>>
        BY <1>5 DEF Crash, disk
    <2>2. \A m \in Messages : got'[m] # "never" <=> got[m] # "never"
        BY <1>5 DEF Crash
    <2>3. Done' = Done
        BY <2>1, <2>2 DEF Done
    <2> QED
        BY <2>1, <2>3, BoxStill
<1>6. CASE UNCHANGED vars
    <2>1. UNCHANGED <<json, failed, born, got, aborted>>
        BY <1>6 DEF vars, disk, history
    <2> QED
        BY <2>1, BoxStill DEF Done
<1> QED
    BY <1>1, <1>2, <1>3, <1>4, <1>5, <1>6 DEF Next

(* Where no scan runs beside a delivery, the files, workers and scans are   *)
(* an outbox, whatever crashes and whatever files cannot be read, written   *)
(* or renamed: what failDelivery writes back is what is there, an entry is  *)
(* acknowledged for what was done, and one that left stays away.            *)
THEOREM QueueImplementsOutbox == ASSUME ~Overlap PROVE Spec => ImplementsOutbox
<1>1. Init => FiledOnce
    BY DEF Init, FiledOnce
<1>2. Init => Box!Init
    BY DEF Init, Box!Init, Place, Tries, Done
<1>3. TypeOK /\ TypeOK' /\ SequentialInv /\ FiledOnce /\ [Next]_vars => FiledOnce'
    BY FiledStep
<1>4. /\ TypeOK /\ TypeOK' /\ SequentialInv /\ AckIsDeserved /\ FiledOnce
      /\ [Next]_vars
      => [Box!Next]_(Box!vars)
    BY BoxStep
<1>5. Spec => []TypeOK
    BY TypeCorrect
<1>6. Spec => []SequentialInv
    BY SequentialSafe
<1>7. Spec => []AckIsDeserved
    <2>1. SafeInv => AckIsDeserved
        BY DEF SafeInv
    <2> QED
        BY <2>1, SafeAlways, PTL
<1> QED
    BY <1>1, <1>2, <1>3, <1>4, <1>5, <1>6, <1>7, PTL DEF Spec, ImplementsOutbox, Box!Spec
=============================================================================
