-------------------------- MODULE SessionLockProofs --------------------------
(***************************************************************************)
(* Proofs about SessionLock, for any number of processes and clients and    *)
(* every value of the bounds.                                               *)
(***************************************************************************)
EXTENDS SessionLock, FiniteSetTheorems, TLAPS

-----------------------------------------------------------------------------
(* The inductive invariant.                                                 *)

(* The file of l is at the path, of this life of process p.                 *)
At(l, p) == file.lock = l /\ file # NoFile /\ file.process = p /\ Live(file)

(* A process ended at some time.                                            *)
Ended == \E p \in Processes : life[p] > 0 \/ ~alive[p]

(* What holds in any case.                                                  *)
Basic ==
    /\ TypeOK
    /\ file # NoFile => file \in File /\ file.life <= life[file.process]
    /\ \A c \in Clients : pc[c] \in {"writing", "stale", "holding"} => lock[c] # NoLock
    /\ broken = "race" => Ended

(* Who counts on the file at the path has it.                               *)
Kept ==
    /\ \A p \in Processes : held[p] # NoLock => At(held[p], p)
    /\ \A c \in Clients : pc[c] = "writing" => At(lock[c], ProcessOf[c])
    /\ \A p \in Processes : \A l \in removing[p] : At(l, p)

(* Nobody else counts on it: a lock that is being written or removed is in  *)
(* no table, and nobody else writes it or uses it.                          *)
Apart ==
    /\ \A p \in Processes : held[p] \notin removing[p]
    /\ \A c \in Clients : pc[c] = "writing" =>
          /\ held[ProcessOf[c]] # lock[c]
          /\ lock[c] \notin removing[ProcessOf[c]]
          /\ \A d \in Clients \ {c} :
                lock[d] = lock[c] => pc[d] \notin {"writing", "holding"}

(* The count of a lock is that of its users.                                *)
Counted == \A p \in Processes : count[p] = Cardinality(Users(p))

(* A client whose lock was not taken away has the one of its process.       *)
Honest ==
    \A c \in Clients :
        pc[c] = "holding" /\ c \notin forced => held[ProcessOf[c]] = lock[c]

(* A file found stale is one of a process that has ended.                   *)
Judged ==
    \A c \in Clients : pc[c] = "stale" =>
        /\ Ended
        /\ file.lock = lock[c] => ~Live(file)

Unbroken == Kept /\ Apart /\ Counted /\ Honest /\ Judged

LockInv == Basic /\ (broken = "never" => Unbroken)

-----------------------------------------------------------------------------
LEMMA NoFileNoLock == /\ NoFile.lock = NoLock /\ NoFile \notin File
                      /\ \A f \in File : f.lock \in Locks /\ f # NoFile
<1>1. NoFile.lock = NoLock
  BY DEF NoFile
<1>2. ASSUME NEW f \in File PROVE f.lock \in Locks /\ f # NoFile
  <2>1. f.lock \in Locks
    BY DEF File
  <2> QED  BY <1>1, <2>1, SessionLockAssumption DEF Locks, NoLock
<1> QED  BY <1>1, <1>2

(* Ages and Write leave a file what it is.                                  *)
LEMMA SameFile ==
    ASSUME NEW f \in File, NEW g,
           g = [f EXCEPT !.written = TRUE] \/ g = [f EXCEPT !.old = TRUE]
    PROVE  /\ g \in File
           /\ g.lock = f.lock /\ g.process = f.process /\ g.life = f.life
  BY DEF File

LEMMA InvInit == Init => LockInv
<1> SUFFICES ASSUME Init PROVE LockInv
  OBVIOUS
<1>1. Basic
  BY SessionLockAssumption DEF Init, Basic, TypeOK, Locks, NoLock
<1>2. Unbroken
  <2>1. \A p \in Processes : Users(p) = {}
    BY DEF Init, Users
  <2>2. Counted
    BY <2>1, FS_EmptySet DEF Init, Counted
  <2> QED  BY <2>2 DEF Init, Unbroken, Kept, Apart, Honest, Judged
<1> QED  BY <1>1, <1>2 DEF LockInv
-----------------------------------------------------------------------------
(* Types, and what holds in any case.                                       *)
LEMMA BasicStep == LockInv /\ [Next]_vars => Basic'
<1> SUFFICES ASSUME LockInv, [Next]_vars PROVE Basic'
  OBVIOUS
<1> USE SessionLockAssumption, NoFileNoLock DEF LockInv, Basic, TypeOK, Locks, NoLock
<1>1. ASSUME NEW c \in Clients, Acquire(c) PROVE Basic'
  <2> DEFINE p == ProcessOf[c]
  <2>0. p \in Processes
    OBVIOUS
  <2>1. CASE c \in Reentrant /\ held[p] # NoLock
    <3>1. /\ count' = [count EXCEPT ![p] = @ + 1]
          /\ lock' = [lock EXCEPT ![c] = held[p]]
          /\ pc' = [pc EXCEPT ![c] = "holding"]
      BY <1>1, <2>1 DEF Acquire, Goto
    <3>2. /\ count' \in [Processes -> Nat]
          /\ \A q \in Processes : (held[q] = NoLock) = (count'[q] = 0)
      BY <2>0, <2>1, <3>1
    <3> QED  BY <1>1, <2>0, <2>1, <3>1, <3>2 DEF Acquire, processVars, sweepVars, Ended
  <2>2. CASE ~(c \in Reentrant /\ held[p] # NoLock)
    BY <1>1, <2>2 DEF Acquire, Goto, processVars, sweepVars, Ended
  <2> QED  BY <2>1, <2>2
<1>2. ASSUME NEW c \in Clients, Open(c) PROVE Basic'
  <2>1. PICK new \in Locks : /\ file' = [lock |-> new, process |-> ProcessOf[c],
                                 life |-> life[ProcessOf[c]], written |-> FALSE, old |-> FALSE]
                             /\ lock' = [lock EXCEPT ![c] = new]
    BY <1>2 DEF Open
  <2>2. file' \in File /\ file'.life = life[file'.process]
    BY <2>1 DEF File
  <2>3. TypeOK' /\ (\A d \in Clients : pc'[d] \in {"writing", "stale", "holding"} =>
                        lock'[d] # NoLock)
    BY <1>2, <2>1, <2>2 DEF Open, Goto, tableVars, processVars, sweepVars
  <2> QED  BY <1>2, <2>2, <2>3 DEF Open, tableVars, processVars, sweepVars, Ended
<1>3. ASSUME NEW c \in Clients, Write(c) PROVE Basic'
  <2>1. lock[c] \in Locks
    BY <1>3 DEF Write
  <2>2. \/ file' = file
        \/ file \in File /\ file' = [file EXCEPT !.written = TRUE]
    BY <1>3, <2>1 DEF Write
  <2>3. /\ file' \in File \cup {NoFile}
        /\ file' # NoFile => file' \in File /\ file'.life <= life[file'.process]
    BY <2>2, SameFile
  <2> QED  BY <1>3, <2>1, <2>3 DEF Write, Goto, processVars, sweepVars, Ended
<1>4. ASSUME NEW c \in Clients, WriteFails(c) PROVE Basic'
  BY <1>4 DEF WriteFails, Goto, processVars, sweepVars, Ended
<1>5. ASSUME NEW c \in Clients, NEW stale \in BOOLEAN, NEW where \in {"stat", "trying"},
             Verdict(c, stale, where), stale => file # NoFile
      PROVE  Basic'
  BY <1>5 DEF Verdict, Goto, Breaks, tableVars, processVars, sweepVars, Ended
<1>6. ASSUME NEW c \in Clients, Read(c) PROVE Basic'
  BY <1>5, <1>6 DEF Read
<1>7. ASSUME NEW c \in Clients, Stat(c) PROVE Basic'
  BY <1>5, <1>7 DEF Stat
<1>8. ASSUME NEW c \in Clients, Reclaim(c) PROVE Basic'
  <2>1. broken' = "race" => Ended
    BY <1>8 DEF Reclaim, Breaks, Unbroken, Judged
  <2> QED  BY <1>8, <2>1 DEF Reclaim, RemovePath, Goto, Breaks, tableVars, processVars,
                             sweepVars, Ended
<1>9. ASSUME NEW c \in Clients, TimesOut(c) PROVE Basic'
  BY <1>9 DEF TimesOut, Goto, tableVars, processVars, sweepVars, Ended
<1>10. ASSUME NEW c \in Clients, Release(c) PROVE Basic'
  <2> DEFINE p == ProcessOf[c]
  <2>0. p \in Processes
    OBVIOUS
  <2>1. /\ held' \in [Processes -> Locks \cup {NoLock}]
        /\ count' \in [Processes -> Nat]
        /\ removing' \in [Processes -> SUBSET Locks]
        /\ \A q \in Processes : (held'[q] = NoLock) = (count'[q] = 0)
    <3>1. CASE held[p] = lock[c] /\ count[p] = 1 /\ Drop(p)
      BY <2>0, <3>1 DEF Drop
    <3>2. CASE /\ held[p] = lock[c] /\ count[p] > 1
               /\ count' = [count EXCEPT ![p] = @ - 1]
               /\ UNCHANGED <<held, removing>>
      BY <2>0, <3>2
    <3>3. CASE UNCHANGED tableVars
      BY <3>3 DEF tableVars
    <3> QED  BY <1>10, <3>1, <3>2, <3>3 DEF Release
  <2> QED  BY <1>10, <2>1 DEF Release, Done, Goto, processVars, sweepVars, Ended
<1>11. ASSUME NEW p \in Processes, Watchdog(p) PROVE Basic'
  BY <1>11 DEF Watchdog, Drop, Users, clientVars, processVars, sweepVars, Ended
<1>12. ASSUME NEW p \in Processes, Signal(p) PROVE Basic'
  BY <1>12 DEF Signal, ReleaseAll, RemovePath, Users, clientVars, processVars, sweepVars, Ended
<1>13. ASSUME NEW p \in Processes, RemoveOwn(p) PROVE Basic'
  BY <1>13 DEF RemoveOwn, RemovePath, clientVars, processVars, sweepVars, Ended
<1>14. ASSUME NEW p \in Processes, Crash(p) PROVE Basic'
  BY <1>14 DEF Crash, Ends, sweepVars, Ended
<1>15. ASSUME NEW p \in Processes, Exit(p) PROVE Basic'
  BY <1>15 DEF Exit, Ends, ReleaseAll, RemovePath, sweepVars, Ended
<1>16. ASSUME NEW p \in Processes, Restart(p) PROVE Basic'
  <2>1. life' = [life EXCEPT ![p] = @ + 1] /\ \A q \in Processes : life[q] <= life'[q]
    BY <1>16 DEF Restart
  <2>2. file # NoFile => file.process \in Processes /\ file.life \in Nat
    BY DEF File
  <2>3. file' = file /\ (file # NoFile => file.life <= life'[file.process])
    BY <1>16, <2>1, <2>2 DEF Restart
  <2>4. Ended => Ended'
    BY <1>16, <2>1 DEF Restart, Ended
  <2> QED  BY <1>16, <2>3, <2>4 DEF Restart, clientVars, tableVars, sweepVars
<1>17. CASE Ages
  <2>1. file \in File /\ file' = [file EXCEPT !.old = TRUE]
    BY <1>17 DEF Ages
  <2>2. file' \in File /\ file'.life = file.life /\ file'.process = file.process
    BY <2>1, SameFile
  <2> QED  BY <1>17, <2>1, <2>2 DEF Ages, clientVars, tableVars, processVars, sweepVars, Ended
<1>18. CASE SweepReads
  BY <1>18 DEF SweepReads, clientVars, tableVars, processVars, Ended
<1>19. CASE SweepRemoves
  BY <1>19 DEF SweepRemoves, RemovePath, Breaks, clientVars, tableVars, processVars, Ended
<1>20. CASE UNCHANGED vars
  BY <1>20 DEF vars, clientVars, tableVars, processVars, sweepVars, Ended
<1> QED  BY <1>1, <1>2, <1>3, <1>4, <1>6, <1>7, <1>8, <1>9, <1>10, <1>11, <1>12, <1>13,
            <1>14, <1>15, <1>16, <1>17, <1>18, <1>19, <1>20 DEF Next, Contends

-----------------------------------------------------------------------------
(* The file at the path and those who count on it.                          *)
Steady == Kept /\ Apart /\ Judged

(* Nothing is at the path, and nobody counts on it.                         *)
LEMMA Nobody ==
    ASSUME Basic, Kept, ~Live(file)
    PROVE  /\ \A p \in Processes : held[p] = NoLock /\ removing[p] = {}
           /\ \A c \in Clients : pc[c] # "writing"
  BY DEF Kept, At, Basic, TypeOK

(* A process that did not end has the file it had.                          *)
LEMMA AtStays ==
    ASSUME NEW l, NEW p, At(l, p),
           file' = file \/ (file' # NoFile /\ file'.lock = file.lock
                            /\ file'.process = file.process /\ file'.life = file.life),
           alive'[p] = alive[p], life'[p] = life[p]
    PROVE  At(l, p)'
  BY DEF At, Live

LEMMA SteadyStep ==
    ASSUME LockInv, broken = "never", broken' = "never", [Next]_vars
    PROVE  Steady'
<1> USE SessionLockAssumption, NoFileNoLock
    DEF LockInv, Basic, TypeOK, Locks, NoLock, Unbroken, Steady, Ended
<1>1. ASSUME NEW c \in Clients, Acquire(c) PROVE Steady'
  BY <1>1, SMTT(30) DEF Acquire, Goto, processVars, Kept, Apart, Judged, At, Live
<1>2. ASSUME NEW c \in Clients, Open(c) PROVE Steady'
  <2>1. PICK new \in Locks \ Used :
            /\ file' = [lock |-> new, process |-> ProcessOf[c],
                        life |-> life[ProcessOf[c]], written |-> FALSE, old |-> FALSE]
            /\ lock' = [lock EXCEPT ![c] = new]
    BY <1>2 DEF Open
  <2>2. /\ \A p \in Processes : held[p] = NoLock /\ removing[p] = {}
        /\ \A d \in Clients : pc[d] # "writing"
    BY <1>2, Nobody DEF Open, Live
  <2>3. At(new, ProcessOf[c])'
    <3>1. file' # NoFile
      BY <2>1 DEF File
    <3> QED  BY <1>2, <2>1, <3>1 DEF At, Live, Open, Runs, processVars
  <2>4. \A d \in Clients : lock[d] # new
    BY <2>1 DEF Used
  <2>5. /\ pc' = [pc EXCEPT ![c] = "writing"]
        /\ UNCHANGED <<tableVars, alive, life>>
    BY <1>2 DEF Open, Goto, processVars
  <2>6. Kept'
    BY <2>1, <2>2, <2>3, <2>5 DEF Kept, tableVars
  <2>7. Apart'
    BY <2>1, <2>2, <2>4, <2>5 DEF Apart, tableVars
  <2>8. Judged'
    BY <2>1, <2>4, <2>5 DEF Judged
  <2> QED  BY <2>6, <2>7, <2>8
<1>3. ASSUME NEW c \in Clients, Write(c) PROVE Steady'
  <2> DEFINE p == ProcessOf[c]
  <2>0. p \in Processes
    OBVIOUS
  <2>1. /\ held' = [held EXCEPT ![p] = lock[c]]
        /\ pc' = [pc EXCEPT ![c] = "holding"]
        /\ pc[c] = "writing"
        /\ UNCHANGED <<lock, removing, alive, life>>
    BY <1>3 DEF Write, Goto, processVars
  <2>2. /\ At(lock[c], p)
        /\ file \in File /\ file' = [file EXCEPT !.written = TRUE]
    BY <1>3, <2>1 DEF Write, Kept, At
  <2>3. /\ file' \in File /\ file' # NoFile /\ file'.lock = file.lock
        /\ file'.process = file.process /\ file'.life = file.life
    BY <2>2, SameFile
  <2>4. ASSUME NEW l, NEW q, At(l, q) PROVE At(l, q)'
    BY <2>1, <2>3, <2>4, AtStays
  <2>5. Kept'
    BY <2>0, <2>1, <2>2, <2>4 DEF Kept
  <2>6. Apart'
    BY <2>0, <2>1 DEF Apart
  <2>7. Judged'
    BY <2>1, <2>3 DEF Judged, Live
  <2> QED  BY <2>5, <2>6, <2>7
<1>4. ASSUME NEW c \in Clients, WriteFails(c) PROVE Steady'
  BY <1>4 DEF WriteFails, Goto, processVars, Kept, Apart, Judged, At, Live
<1>5. ASSUME NEW c \in Clients, NEW stale \in BOOLEAN, NEW where \in {"stat", "trying"},
             Verdict(c, stale, where), stale => file # NoFile
      PROVE  Steady'
  <2>1. /\ pc' = [pc EXCEPT ![c] = IF stale THEN "stale" ELSE where]
        /\ lock' = [lock EXCEPT ![c] = IF stale THEN file.lock ELSE NoLock]
        /\ stale => ~Live(file)
        /\ UNCHANGED <<file, tableVars, alive, life>>
    BY <1>5 DEF Verdict, Goto, Breaks, processVars
  <2>2. stale => Ended
    <3> SUFFICES ASSUME stale PROVE Ended
      OBVIOUS
    <3>1. file \in File /\ file.life <= life[file.process] /\ ~Live(file)
      BY <1>5, <2>1
    <3>2. file.process \in Processes /\ file.life \in Nat
      BY <3>1 DEF File
    <3> QED  BY <3>1, <3>2 DEF Live
  <2>3. Kept' /\ Apart'
    BY <2>1 DEF Kept, Apart, At, Live, tableVars
  <2>4. Judged'
    BY <2>1, <2>2 DEF Judged, Live
  <2> QED  BY <2>3, <2>4
<1>6. ASSUME NEW c \in Clients, Read(c) PROVE Steady'
  BY <1>5, <1>6 DEF Read
<1>7. ASSUME NEW c \in Clients, Stat(c) PROVE Steady'
  BY <1>5, <1>7 DEF Stat
<1>8. ASSUME NEW c \in Clients, Reclaim(c) PROVE Steady'
  <2>1. ~Live(file)
    BY <1>8 DEF Reclaim, Breaks, Judged, Live
  <2>2. /\ file' = NoFile /\ UNCHANGED <<tableVars, alive, life>>
        /\ pc' = [pc EXCEPT ![c] = "trying"]
        /\ lock' = [lock EXCEPT ![c] = NoLock]
    BY <1>8 DEF Reclaim, RemovePath, Goto, processVars
  <2> QED  BY <2>1, <2>2, Nobody DEF Kept, Apart, Judged, tableVars, Live
<1>9. ASSUME NEW c \in Clients, TimesOut(c) PROVE Steady'
  BY <1>9 DEF TimesOut, Goto, tableVars, processVars, Kept, Apart, Judged, At, Live
<1>10. ASSUME NEW c \in Clients, Release(c) PROVE Steady'
  BY <1>10, SMTT(30)
     DEF Release, Done, Drop, Goto, tableVars, processVars, Kept, Apart, Judged, At, Live
<1>11. ASSUME NEW p \in Processes, Watchdog(p) PROVE Steady'
  BY <1>11 DEF Watchdog, Drop, clientVars, processVars, Kept, Apart, Judged, At, Live
<1>12. ASSUME NEW p \in Processes, Signal(p) PROVE Steady'
  BY <1>12 DEF Signal, ReleaseAll, RemovePath, clientVars, processVars,
               Kept, Apart, Judged, At, Live
<1>13. ASSUME NEW p \in Processes, RemoveOwn(p) PROVE Steady'
  BY <1>13 DEF RemoveOwn, RemovePath, clientVars, processVars, Kept, Apart, Judged, At, Live
<1>14. ASSUME NEW p \in Processes, Crash(p) PROVE Steady'
  BY <1>14, AtStays DEF Crash, Ends, Kept, Apart, Judged, At, Live
<1>15. ASSUME NEW p \in Processes, Exit(p) PROVE Steady'
  BY <1>15, AtStays DEF Exit, Ends, ReleaseAll, RemovePath, Kept, Apart, Judged, At, Live
<1>16. ASSUME NEW p \in Processes, Restart(p) PROVE Steady'
  BY <1>16, AtStays DEF Restart, clientVars, tableVars, Kept, Apart, Judged, At, Live
<1>17. CASE Ages
  <2>1. file \in File /\ file' = [file EXCEPT !.old = TRUE]
    BY <1>17 DEF Ages
  <2>2. /\ file' \in File /\ file'.lock = file.lock
        /\ file'.life = file.life /\ file'.process = file.process
    BY <2>1, SameFile
  <2>3. UNCHANGED <<pc, lock, held, removing, alive, life>>
    BY <1>17 DEF Ages, clientVars, tableVars, processVars
  <2>4. ASSUME NEW l, NEW q, At(l, q) PROVE At(l, q)'
    BY <2>2, <2>3, <2>4, AtStays
  <2>5. Kept' /\ Apart'
    BY <2>3, <2>4 DEF Kept, Apart
  <2>6. Judged'
    BY <2>2, <2>3 DEF Judged, Live
  <2> QED  BY <2>5, <2>6
<1>18. CASE SweepReads
  BY <1>18 DEF SweepReads, clientVars, tableVars, processVars, Kept, Apart, Judged, At, Live
<1>19. CASE SweepRemoves
  <2>1. ~Live(file)
    BY <1>19 DEF SweepRemoves, Breaks
  <2> QED  BY <1>19, <2>1, Nobody DEF SweepRemoves, RemovePath, clientVars, tableVars,
                                      processVars, Kept, Apart, Judged, Live
<1>20. CASE UNCHANGED vars
  BY <1>20 DEF vars, clientVars, tableVars, processVars, Kept, Apart, Judged, At, Live
<1> QED  BY <1>1, <1>2, <1>3, <1>4, <1>6, <1>7, <1>8, <1>9, <1>10, <1>11, <1>12, <1>13,
            <1>14, <1>15, <1>16, <1>17, <1>18, <1>19, <1>20 DEF Next, Contends

-----------------------------------------------------------------------------
(* The clients that use the lock of their process.                          *)
LEMMA UsersFinite ==
    ASSUME NEW p
    PROVE  IsFiniteSet(Users(p)) /\ Cardinality(Users(p)) \in Nat
<1>1. Users(p) \subseteq Clients
  BY DEF Users
<1> QED  BY <1>1, SessionLockAssumption, FS_Subset, FS_CardinalityType

(* A process without a lock has no user of it.                              *)
LEMMA NoUsers ==
    ASSUME NEW p, held'[p] = NoLock \/ \A c \in Clients : ProcessOf[c] = p => pc'[c] = "idle",
           Basic'
    PROVE  Users(p)' = {} /\ Cardinality(Users(p)') = 0
<1>1. Users(p)' = {}
  BY DEF Users, Basic
<1> QED  BY <1>1, FS_EmptySet

LEMMA UsersStep ==
    ASSUME LockInv, Basic', broken = "never", broken' = "never", [Next]_vars
    PROVE  Counted' /\ Honest'
<1> USE SessionLockAssumption, NoFileNoLock
    DEF LockInv, Basic, TypeOK, Unbroken
(* Steps of clients that have no lock, before or after.                     *)
<1>1. ASSUME NEW c \in Clients, pc[c] # "holding", pc'[c] # "holding",
             \A d \in Clients \ {c} : pc'[d] = pc[d] /\ lock'[d] = lock[d],
             UNCHANGED <<held, count, forced>>
      PROVE  Counted' /\ Honest'
  <2>1. \A p \in Processes : Users(p)' = Users(p)
    BY <1>1 DEF Users
  <2> QED  BY <1>1, <2>1 DEF Counted, Honest
<1>2. ASSUME NEW c \in Clients, Acquire(c) PROVE Counted' /\ Honest'
  <2> DEFINE p == ProcessOf[c]
  <2>1. p \in Processes /\ pc[c] = "idle" /\ UNCHANGED <<held, forced>>
    BY <1>2 DEF Acquire
  <2>2. CASE c \in Reentrant /\ held[p] # NoLock
    <3>1. /\ count' = [count EXCEPT ![p] = @ + 1]
          /\ lock' = [lock EXCEPT ![c] = held[p]]
          /\ pc' = [pc EXCEPT ![c] = "holding"]
      BY <1>2, <2>2 DEF Acquire, Goto
    <3>2. Users(p)' = Users(p) \cup {c} /\ c \notin Users(p)
      BY <2>1, <3>1 DEF Users
    <3>3. \A q \in Processes \ {p} : Users(q)' = Users(q)
      BY <2>1, <3>1 DEF Users
    <3>4. Cardinality(Users(p)') = Cardinality(Users(p)) + 1
      <4>1. IsFiniteSet(Users(p))
        BY UsersFinite
      <4>2. Cardinality(Users(p) \cup {c}) = Cardinality(Users(p)) + 1
        BY ONLY <3>2, <4>1, FS_AddElement
      <4> QED  BY ONLY <3>2, <4>2
    <3>5. Counted'
      BY <2>1, <3>1, <3>3, <3>4 DEF Counted
    <3>6. Honest'
      BY <2>1, <3>1 DEF Honest
    <3> QED  BY <3>5, <3>6
  <2>3. CASE ~(c \in Reentrant /\ held[p] # NoLock)
    BY <1>1, <1>2, <2>1, <2>3 DEF Acquire, Goto
  <2> QED  BY <2>2, <2>3
<1>3. ASSUME NEW c \in Clients, Open(c) PROVE Counted' /\ Honest'
  BY <1>1, <1>3 DEF Open, Goto, tableVars
<1>4. ASSUME NEW c \in Clients, Write(c) PROVE Counted' /\ Honest'
  <2> DEFINE p == ProcessOf[c]
  <2>1. /\ held' = [held EXCEPT ![p] = lock[c]]
        /\ count' = [count EXCEPT ![p] = 1]
        /\ pc' = [pc EXCEPT ![c] = "holding"]
        /\ pc[c] = "writing"
        /\ UNCHANGED <<lock, forced>>
        /\ p \in Processes
    BY <1>4 DEF Write, Goto
  <2>2. Users(p)' = {c}
    BY <2>1 DEF Users, Apart
  <2>3. \A q \in Processes \ {p} : Users(q)' = Users(q)
    BY <2>1 DEF Users
  <2>4. Counted'
    <3>1. Cardinality({c}) = 1
      BY FS_Singleton
    <3>2. Cardinality(Users(p)') = 1
      BY ONLY <2>2, <3>1
    <3> QED  BY <2>1, <2>3, <3>2 DEF Counted
  <2>5. held[p] = NoLock
    BY <2>1 DEF Kept, Apart, At
  <2>6. Honest'
    BY <2>1, <2>5 DEF Honest
  <2> QED  BY <2>4, <2>6
<1>5. ASSUME NEW c \in Clients, WriteFails(c) PROVE Counted' /\ Honest'
  BY <1>1, <1>5 DEF WriteFails, Goto
<1>6. ASSUME NEW c \in Clients, Read(c) \/ Stat(c) PROVE Counted' /\ Honest'
  BY <1>1, <1>6 DEF Read, Stat, Verdict, Goto, tableVars
<1>7. ASSUME NEW c \in Clients, Reclaim(c) \/ TimesOut(c) PROVE Counted' /\ Honest'
  BY <1>1, <1>7 DEF Reclaim, TimesOut, Goto, tableVars
<1>8. ASSUME NEW c \in Clients, Release(c) PROVE Counted' /\ Honest'
  <2> DEFINE p == ProcessOf[c]
  <2>1. /\ pc[c] = "holding" /\ lock[c] # NoLock /\ p \in Processes
        /\ pc' = [pc EXCEPT ![c] = "idle"]
        /\ lock' = [lock EXCEPT ![c] = NoLock]
        /\ forced' = forced \ {c}
    BY <1>8 DEF Release, Done, Goto
  <2>2. CASE held[p] = lock[c] /\ count[p] = 1 /\ Drop(p)
    <3>1. held' = [held EXCEPT ![p] = NoLock] /\ count' = [count EXCEPT ![p] = 0]
      BY <2>2 DEF Drop
    <3>2. c \in Users(p)
      BY <2>1, <2>2 DEF Users
    <3>3. Users(p) = {c}
      BY <2>1, <2>2, <3>2, UsersFinite, FS_Singleton DEF Counted
    <3>4. \A q \in Processes \ {p} : Users(q)' = Users(q)
      BY <2>1, <3>1 DEF Users
    <3>5. Counted'
      BY <2>1, <3>1, <3>4, NoUsers DEF Counted
    <3>6. Honest'
      BY <2>1, <3>1, <3>3 DEF Honest, Users
    <3> QED  BY <3>5, <3>6
  <2>3. CASE /\ held[p] = lock[c] /\ count[p] > 1
             /\ count' = [count EXCEPT ![p] = @ - 1]
             /\ UNCHANGED <<held, removing>>
    <3>1. Users(p)' = Users(p) \ {c} /\ c \in Users(p)
      BY <2>1, <2>3 DEF Users
    <3>2. \A q \in Processes \ {p} : Users(q)' = Users(q)
      BY <2>1, <2>3 DEF Users
    <3>3. Cardinality(Users(p)') = Cardinality(Users(p)) - 1
      <4>1. IsFiniteSet(Users(p))
        BY UsersFinite
      <4>2. Cardinality(Users(p) \ {c}) = Cardinality(Users(p)) - 1
        BY ONLY <3>1, <4>1, FS_RemoveElement
      <4> QED  BY ONLY <3>1, <4>2
    <3>4. Counted'
      BY <2>1, <2>3, <3>2, <3>3 DEF Counted
    <3>5. Honest'
      BY <2>1, <2>3 DEF Honest
    <3> QED  BY <3>4, <3>5
  <2>4. CASE held[p] # lock[c] /\ UNCHANGED tableVars
    <3>1. \A q \in Processes : Users(q)' = Users(q)
      BY <2>1, <2>4 DEF Users, tableVars
    <3> QED  BY <2>1, <2>4, <3>1 DEF Counted, Honest, tableVars
  <2> QED  BY <1>8, <2>2, <2>3, <2>4 DEF Release
(* A lock leaves the table with all its users knowing.                      *)
<1>9. ASSUME NEW p \in Processes, UNCHANGED <<pc, lock>>,
             held' = [held EXCEPT ![p] = NoLock], count' = [count EXCEPT ![p] = 0],
             forced' = forced \cup Users(p)
      PROVE  Counted' /\ Honest'
  <2>1. \A q \in Processes \ {p} : Users(q)' = Users(q)
    BY <1>9 DEF Users
  <2>2. Counted'
    BY <1>9, <2>1, NoUsers DEF Counted
  <2>3. Honest'
    BY <1>9 DEF Honest, Users
  <2> QED  BY <2>2, <2>3
<1>10. ASSUME NEW p \in Processes, Watchdog(p) PROVE Counted' /\ Honest'
  BY <1>9, <1>10 DEF Watchdog, Drop, clientVars
<1>11. ASSUME NEW p \in Processes, Signal(p) PROVE Counted' /\ Honest'
  BY <1>9, <1>11 DEF Signal, ReleaseAll, clientVars
<1>12. ASSUME NEW p \in Processes, Crash(p) \/ Exit(p) PROVE Counted' /\ Honest'
  <2>1. /\ pc' = [c \in Clients |-> IF ProcessOf[c] = p THEN "idle" ELSE pc[c]]
        /\ lock' = [c \in Clients |-> IF ProcessOf[c] = p THEN NoLock ELSE lock[c]]
        /\ forced' = {c \in forced : ProcessOf[c] # p}
        /\ held' = [held EXCEPT ![p] = NoLock]
        /\ count' = [count EXCEPT ![p] = 0]
    BY <1>12 DEF Crash, Exit, Ends, ReleaseAll
  <2>2. \A q \in Processes \ {p} : Users(q)' = Users(q)
    BY <2>1 DEF Users
  <2>3. Counted'
    BY <2>1, <2>2, NoUsers DEF Counted
  <2>4. Honest'
    BY <2>1 DEF Honest
  <2> QED  BY <2>3, <2>4
<1>13. ASSUME UNCHANGED <<pc, lock, held, count, forced>> PROVE Counted' /\ Honest'
  <2>1. \A q \in Processes : Users(q)' = Users(q)
    BY <1>13 DEF Users
  <2> QED  BY <1>13, <2>1 DEF Counted, Honest
<1>14. ASSUME NEW p \in Processes, RemoveOwn(p) \/ Restart(p) PROVE Counted' /\ Honest'
  BY <1>13, <1>14 DEF RemoveOwn, Restart, clientVars, tableVars
<1>15. CASE SweepReads \/ SweepRemoves \/ Ages \/ UNCHANGED vars
  BY <1>13, <1>15 DEF SweepReads, SweepRemoves, Ages, vars, clientVars, tableVars
<1> QED  BY <1>2, <1>3, <1>4, <1>5, <1>6, <1>7, <1>8, <1>10, <1>11, <1>12, <1>14, <1>15
         DEF Next, Contends

-----------------------------------------------------------------------------
(* What was broken stays so.                                                *)
LEMMA BrokenStays == [Next]_vars /\ broken' = "never" => broken = "never"
<1> SUFFICES ASSUME [Next]_vars, broken' = "never" PROVE broken = "never"
  OBVIOUS
<1>1. CASE \E c \in Clients :
              Acquire(c) \/ Contends(c) \/ WriteFails(c) \/ TimesOut(c) \/ Release(c)
  BY <1>1 DEF Acquire, Contends, Open, Write, Read, Stat, Verdict, Reclaim, Breaks,
              WriteFails, TimesOut, Release, Done
<1>2. CASE \E p \in Processes :
              \/ Watchdog(p) \/ Signal(p) \/ RemoveOwn(p)
              \/ Crash(p) \/ Exit(p) \/ Restart(p)
  BY <1>2 DEF Watchdog, Signal, RemoveOwn, Crash, Exit, Ends, Restart
<1>3. CASE SweepReads \/ SweepRemoves \/ Ages \/ UNCHANGED vars
  BY <1>3 DEF SweepReads, SweepRemoves, Ages, Breaks, vars
<1> QED  BY <1>1, <1>2, <1>3 DEF Next

LEMMA Invariant == Spec => []LockInv
<1>1. LockInv /\ [Next]_vars => LockInv'
  <2> SUFFICES ASSUME LockInv, [Next]_vars PROVE LockInv'
    OBVIOUS
  <2>1. Basic'
    BY BasicStep
  <2>2. ASSUME broken' = "never" PROVE Unbroken'
    <3>1. broken = "never"
      BY <2>2, BrokenStays
    <3>2. Steady'
      BY <2>2, <3>1, SteadyStep
    <3>3. Counted' /\ Honest'
      BY <2>1, <2>2, <3>1, UsersStep
    <3> QED  BY <3>2, <3>3 DEF Unbroken, Steady
  <2> QED  BY <2>1, <2>2 DEF LockInv
<1> QED  BY <1>1, InvInit, PTL DEF Spec

(* Every state is well typed: a process counts a lock if it has one.        *)
THEOREM TypeCorrect == Spec => []TypeOK
<1>1. LockInv => TypeOK
  BY DEF LockInv, Basic
<1> QED  BY <1>1, Invariant, PTL

(* Unless the file of a live lock was removed by a contender or a sweep, who *)
(* has a lock has the file, and contenders race only behind a process that  *)
(* ended.                                                                   *)
THEOREM LocksAreKept == Spec => []LockKept
<1>1. LockInv => LockKept
  BY DEF LockInv, Basic, Unbroken, Kept, Honest, At, LockKept, Ended
<1> QED  BY <1>1, Invariant, PTL
=============================================================================
