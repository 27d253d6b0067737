----------------------------- MODULE SessionLock -----------------------------
(***************************************************************************)
(* The write lock of an OpenClaw session file (agents/session-write-lock.ts):*)
(* a lock file created exclusively, a table of held locks in each process,  *)
(* contenders that reclaim the file of a dead or forgotten lock, a watchdog *)
(* and signals that take locks away from their users, and the sweep that    *)
(* removes stale files when a gateway starts.                               *)
(*                                                                         *)
(* One session file.  Each lock is known by the number of its file; numbers *)
(* that nobody refers to are used again.  A client's steps are separated    *)
(* where the code awaits the file system.  Deadlines may pass at any time.  *)
(***************************************************************************)
EXTENDS Integers, FiniteSets

CONSTANTS
    Processes, Clients,
    ProcessOf,      \* of each client
    Reentrant,      \* clients that may share the lock of their process
    MaxTries,       \* bound: acquisitions
    MaxEnds,        \* bound: how often each process ends
    MaxSweeps       \* bound

ASSUME SessionLockAssumption ==
    /\ IsFiniteSet(Clients)
    /\ ProcessOf \in [Clients -> Processes]
    /\ Reentrant \subseteq Clients
    /\ MaxTries \in Nat /\ MaxEnds \in [Processes -> Nat] /\ MaxSweeps \in Nat

VARIABLES
    starttimes,     \* whether the platform tells when a process started
    file,           \* the file at the lock path, or NoFile
    held, count,    \* HELD_LOCKS of each process, and HeldLock.count
    removing,       \* of each process: locks whose path it will remove
    alive, life,    \* whether a process runs, and its start time
    pc, lock,       \* where a client is, and the lock it deals with
    sweeper,        \* where cleanStaleLockFiles is
    forced,         \* history: clients whose lock was taken away
    broken,         \* history: how the file of another lock was first removed
    tries, sweeps

clientVars == <<pc, lock, tries>>
tableVars == <<held, count, removing>>
processVars == <<starttimes, alive, life>>
sweepVars == <<sweeper, sweeps>>
vars == <<file, clientVars, tableVars, processVars, sweepVars, forced, broken>>

NoLock == 0
Locks == 1 .. MaxTries

(* written: the payload is there.  old: beyond staleMs.                     *)
File == [lock: Locks, process: Processes, life: Nat, written: BOOLEAN, old: BOOLEAN]
NoFile == [lock |-> NoLock]

TypeOK ==
    /\ starttimes \in BOOLEAN
    /\ file \in File \cup {NoFile}
    /\ held \in [Processes -> Locks \cup {NoLock}]
    /\ count \in [Processes -> Nat]
    /\ removing \in [Processes -> SUBSET Locks]
    /\ alive \in [Processes -> BOOLEAN]
    /\ life \in [Processes -> Nat]
    /\ pc \in [Clients -> {"idle", "trying", "writing", "stat", "stale", "holding"}]
    /\ lock \in [Clients -> Locks \cup {NoLock}]
    /\ sweeper \in {"idle", "stale"}
    /\ forced \subseteq Clients
    /\ broken \in {"never", "live", "race", "sweep"}
    /\ tries \in Nat /\ sweeps \in Nat
    /\ \A p \in Processes : (held[p] = NoLock) = (count[p] = 0)

-----------------------------------------------------------------------------
(* The process that created the file still runs.                            *)
Live(f) == f # NoFile /\ alive[f.process] /\ life[f.process] = f.life

(* inspectLockPayload of a payload: the process is dead, or another one has *)
(* its pid, which only the start time tells, or the lock is too old.        *)
Stale(f) == \/ IF starttimes THEN ~Live(f) ELSE ~alive[f.process]
            \/ f.old

(* shouldTreatAsOrphanSelfLock                                              *)
OrphanSelf(f, p) == f.process = p /\ ~starttimes /\ held[p] = NoLock

Users(p) == {c \in Clients : ProcessOf[c] = p /\ pc[c] = "holding" /\ lock[c] = held[p]}

Used == {lock[c] : c \in Clients} \cup {held[p] : p \in Processes}
        \cup UNION {removing[p] : p \in Processes} \cup {file.lock}

Runs(c) == alive[ProcessOf[c]]

Goto(c, where) == pc' = [pc EXCEPT ![c] = where]

Breaks(does, how) == broken' = IF does /\ broken = "never" THEN how ELSE broken

(* rm of the lock path, whatever is there.                                  *)
RemovePath == file' = NoFile

-----------------------------------------------------------------------------
Init ==
    /\ starttimes \in BOOLEAN
    /\ file = NoFile
    /\ held = [p \in Processes |-> NoLock]
    /\ count = [p \in Processes |-> 0]
    /\ removing = [p \in Processes |-> {}]
    /\ alive = [p \in Processes |-> TRUE]
    /\ life = [p \in Processes |-> 0]
    /\ pc = [c \in Clients |-> "idle"]
    /\ lock = [c \in Clients |-> NoLock]
    /\ sweeper = "idle"
    /\ forced = {}
    /\ broken = "never"
    /\ tries = 0
    /\ sweeps = 0

(* acquireSessionWriteLock: the table is looked at once, before the loop.   *)
Acquire(c) ==
    /\ Runs(c) /\ pc[c] = "idle"
    /\ tries < MaxTries
    /\ tries' = tries + 1
    /\ LET p == ProcessOf[c] IN
       IF c \in Reentrant /\ held[p] # NoLock
       THEN /\ count' = [count EXCEPT ![p] = @ + 1]
            /\ lock' = [lock EXCEPT ![c] = held[p]]
            /\ Goto(c, "holding")
       ELSE Goto(c, "trying") /\ UNCHANGED <<count, lock>>
    /\ UNCHANGED <<file, held, removing, processVars, sweepVars, forced, broken>>

(* open(lockPath, "wx") creates the file.                                   *)
Open(c) ==
    /\ Runs(c) /\ pc[c] = "trying"
    /\ file = NoFile
    /\ \E new \in Locks \ Used :
          /\ \A l \in 1 .. new - 1 : l \in Used
          /\ file' = [lock |-> new, process |-> ProcessOf[c],
                      life |-> life[ProcessOf[c]], written |-> FALSE, old |-> FALSE]
          /\ lock' = [lock EXCEPT ![c] = new]
    /\ Goto(c, "writing")
    /\ UNCHANGED <<tries, tableVars, processVars, sweepVars, forced, broken>>

(* The payload goes to the file that was created, which may not be at the   *)
(* path any more.                                                           *)
Write(c) ==
    /\ Runs(c) /\ pc[c] = "writing"
    /\ file' = IF file.lock = lock[c] THEN [file EXCEPT !.written = TRUE] ELSE file
    /\ held' = [held EXCEPT ![ProcessOf[c]] = lock[c]]
    /\ count' = [count EXCEPT ![ProcessOf[c]] = 1]
    /\ Goto(c, "holding")
    /\ UNCHANGED <<lock, tries, removing, processVars, sweepVars, forced, broken>>

WriteFails(c) ==
    /\ Runs(c) /\ pc[c] = "writing"
    /\ removing' = [removing EXCEPT ![ProcessOf[c]] = @ \cup {lock[c]}]
    /\ Goto(c, "idle")
    /\ lock' = [lock EXCEPT ![c] = NoLock]
    /\ UNCHANGED <<file, tries, held, count, processVars, sweepVars, forced, broken>>

(* What a contender has found out about the file at the path.               *)
Verdict(c, stale, otherwise) ==
    /\ Goto(c, IF stale THEN "stale" ELSE otherwise)
    /\ lock' = [lock EXCEPT ![c] = IF stale THEN file.lock ELSE NoLock]
    /\ Breaks(stale /\ Live(file), "live")
    /\ UNCHANGED <<file, tries, tableVars, processVars, sweepVars, forced>>

(* EEXIST and readLockPayload; without a payload the age of the file at the  *)
(* path decides.  A file that is gone before it is read means another try.  *)
Read(c) ==
    /\ Runs(c) /\ pc[c] = "trying"
    /\ file # NoFile
    /\ IF ~file.written
       THEN Verdict(c, FALSE, "stat")
       ELSE Verdict(c, Stale(file) \/ OrphanSelf(file, ProcessOf[c]), "trying")

(* Mutant: a file without a payload is never reclaimed.                     *)
StatNever(c) ==
    /\ Runs(c) /\ pc[c] = "stat"
    /\ Verdict(c, FALSE, "trying")

Stat(c) ==
    /\ Runs(c) /\ pc[c] = "stat"
    /\ Verdict(c, file # NoFile /\ file.old, "trying")

(* The reclaim removes what is at the path now.                             *)
Reclaim(c) ==
    /\ Runs(c) /\ pc[c] = "stale"
    /\ Breaks(file.lock \notin {lock[c], NoLock}, "race")
    /\ RemovePath
    /\ Goto(c, "trying")
    /\ lock' = [lock EXCEPT ![c] = NoLock]
    /\ UNCHANGED <<tries, tableVars, processVars, sweepVars, forced>>

TimesOut(c) ==
    /\ Runs(c) /\ pc[c] = "trying"
    /\ Goto(c, "idle")
    /\ UNCHANGED <<file, lock, tries, tableVars, processVars, sweepVars, forced, broken>>

-----------------------------------------------------------------------------
(* The lock leaves the table of the process, then the path is removed.      *)
Drop(p) ==
    /\ held' = [held EXCEPT ![p] = NoLock]
    /\ count' = [count EXCEPT ![p] = 0]
    /\ removing' = [removing EXCEPT ![p] = @ \cup {held[p]}]

Done(c) ==
    /\ Runs(c) /\ pc[c] = "holding"
    /\ Goto(c, "idle")
    /\ lock' = [lock EXCEPT ![c] = NoLock]
    /\ forced' = forced \ {c}
    /\ UNCHANGED <<file, tries, processVars, sweepVars, broken>>

(* Mutant: whatever lock the process has is released.                       *)
ReleaseUnchecked(c) ==
    /\ Done(c)
    /\ LET p == ProcessOf[c] IN
       \/ held[p] # NoLock /\ count[p] = 1 /\ Drop(p)
       \/ /\ held[p] # NoLock /\ count[p] > 1
          /\ count' = [count EXCEPT ![p] = @ - 1]
          /\ UNCHANGED <<held, removing>>
       \/ held[p] = NoLock /\ UNCHANGED tableVars

(* Mutant: the last release leaves the lock in the table.                   *)
ReleaseOffByOne(c) ==
    /\ Done(c)
    /\ LET p == ProcessOf[c] IN
       \/ /\ held[p] = lock[c]
          /\ count' = [count EXCEPT ![p] = @ - 1]
          /\ UNCHANGED <<held, removing>>
       \/ held[p] # lock[c] /\ UNCHANGED tableVars

(* releaseHeldLock of a client: only of the lock it got.                    *)
Release(c) ==
    /\ Done(c)
    /\ LET p == ProcessOf[c] IN
       \/ held[p] = lock[c] /\ count[p] = 1 /\ Drop(p)
       \/ /\ held[p] = lock[c] /\ count[p] > 1
          /\ count' = [count EXCEPT ![p] = @ - 1]
          /\ UNCHANGED <<held, removing>>
       \/ held[p] # lock[c] /\ UNCHANGED tableVars

(* runLockWatchdogCheck, after maxHoldMs: the users are not told.           *)
Watchdog(p) ==
    /\ alive[p]
    /\ held[p] # NoLock
    /\ forced' = forced \cup Users(p)
    /\ Drop(p)
    /\ UNCHANGED <<file, clientVars, processVars, sweepVars, broken>>

(* The end of a release, or of a failed write.                              *)
RemoveOwn(p) ==
    /\ \E l \in removing[p] : removing' = [removing EXCEPT ![p] = @ \ {l}]
    /\ RemovePath
    /\ UNCHANGED <<clientVars, held, count, processVars, sweepVars, forced, broken>>

(* releaseAllLocksSync                                                      *)
ReleaseAll(p) ==
    /\ held' = [held EXCEPT ![p] = NoLock]
    /\ count' = [count EXCEPT ![p] = 0]
    /\ IF held[p] # NoLock THEN RemovePath ELSE UNCHANGED file

(* A signal for which the process has another listener.                     *)
Signal(p) ==
    /\ alive[p]
    /\ held[p] # NoLock
    /\ forced' = forced \cup Users(p)
    /\ ReleaseAll(p)
    /\ UNCHANGED <<clientVars, removing, processVars, sweepVars, broken>>

(* The process is gone.                                                     *)
Ends(p) ==
    /\ alive[p]
    /\ life[p] < MaxEnds[p]
    /\ alive' = [alive EXCEPT ![p] = FALSE]
    /\ removing' = [removing EXCEPT ![p] = {}]
    /\ pc' = [c \in Clients |-> IF ProcessOf[c] = p THEN "idle" ELSE pc[c]]
    /\ lock' = [c \in Clients |-> IF ProcessOf[c] = p THEN NoLock ELSE lock[c]]
    /\ forced' = {c \in forced : ProcessOf[c] # p}
    /\ UNCHANGED <<tries, starttimes, life, sweepVars, broken>>

Crash(p) ==
    /\ Ends(p)
    /\ held' = [held EXCEPT ![p] = NoLock]
    /\ count' = [count EXCEPT ![p] = 0]
    /\ UNCHANGED file

(* With the cleanup of its exit handler.                                    *)
Exit(p) == Ends(p) /\ ReleaseAll(p)

(* A new process with the pid of an earlier one.                            *)
Restart(p) ==
    /\ ~alive[p]
    /\ alive' = [alive EXCEPT ![p] = TRUE]
    /\ life' = [life EXCEPT ![p] = @ + 1]
    /\ UNCHANGED <<file, clientVars, tableVars, starttimes, sweepVars, forced, broken>>

(* staleMs have passed for the file at the path.                            *)
Ages ==
    /\ file # NoFile
    /\ ~file.old
    /\ file' = [file EXCEPT !.old = TRUE]
    /\ UNCHANGED <<clientVars, tableVars, processVars, sweepVars, forced, broken>>

-----------------------------------------------------------------------------
(* cleanStaleLockFiles, of a gateway that starts or of the doctor command.   *)
(* What it reads may have been replaced since it was listed, or be gone; it *)
(* goes on to remove also that, and a file without a payload.               *)
SweepReads ==
    /\ sweeper = "idle"
    /\ sweeps < MaxSweeps
    /\ sweeps' = sweeps + 1
    /\ sweeper' = IF file = NoFile \/ ~file.written \/ Stale(file)
                  THEN "stale" ELSE "idle"
    /\ UNCHANGED <<file, clientVars, tableVars, processVars, forced, broken>>

SweepRemoves ==
    /\ sweeper = "stale"
    /\ sweeper' = "idle"
    /\ Breaks(Live(file), "sweep")
    /\ RemovePath
    /\ UNCHANGED <<clientVars, tableVars, processVars, sweeps, forced>>

-----------------------------------------------------------------------------
Contends(c) == Open(c) \/ Write(c) \/ Read(c) \/ Stat(c) \/ Reclaim(c)

Next ==
    \/ \E c \in Clients :
          Acquire(c) \/ Contends(c) \/ WriteFails(c) \/ TimesOut(c) \/ Release(c)
    \/ \E p \in Processes :
          \/ Watchdog(p) \/ Signal(p) \/ RemoveOwn(p)
          \/ Crash(p) \/ Exit(p) \/ Restart(p)
    \/ SweepReads \/ SweepRemoves
    \/ Ages

Spec == Init /\ [][Next]_vars

(* Calls to the file system return, time passes, and a lock that is used is *)
(* released some time.  No deadline and no sweep need come.                 *)
Fairness ==
    /\ \A c \in Clients : WF_vars(Contends(c) \/ Release(c))
    /\ WF_vars(\E p \in Processes : RemoveOwn(p))
    /\ WF_vars(Ages)

FairSpec == Spec /\ Fairness

-----------------------------------------------------------------------------
(* As long as no contender and no sweep removed the file of another live    *)
(* lock: a process with a lock in its table has its own file at the path, so *)
(* no two processes have one, and a client that holds a lock which was not  *)
(* taken away holds the one in the table of its process, however the other  *)
(* clients release, fail or lose theirs.  Contenders race for a reclaim     *)
(* only after the end of a process.                                         *)
LockKept ==
    /\ broken = "never" =>
          /\ \A p \in Processes : held[p] # NoLock =>
                file.lock = held[p] /\ file.process = p
          /\ \A c \in Clients :
                pc[c] = "holding" /\ c \notin forced => held[ProcessOf[c]] = lock[c]
    /\ broken = "race" => \E p \in Processes : life[p] > 0 \/ ~alive[p]

(* Every try ends, without a deadline too: whatever a process that is gone  *)
(* left at the path is removed some time.                                   *)
EveryTryEnds ==
    \A c \in Clients : pc[c] = "trying" ~> pc[c] \in {"holding", "idle"}
=============================================================================
