-------------------------- MODULE CronServiceProofs --------------------------
(***************************************************************************)
(* Proofs about CronService, for any jobs, clients and schedules and every  *)
(* value of the bounds.                                                     *)
(***************************************************************************)
EXTENDS CronService, FiniteSetTheorems, TLAPS

-----------------------------------------------------------------------------
(* The inductive invariant.                                                 *)

(* A one-shot that ended well has no slot left.                             *)
Over(j, job) ==
    kind[j] = "at" /\ job.lastStatus = "ok" /\ job.base <= job.lastRun

(* A stored job has a time if it is enabled, unless it is over; one that is *)
(* not stored has no marker.                                                *)
Fair(j, job) ==
    /\ job \in Job
    /\ job.stored = "yes" /\ job.enabled /\ job.next = NoTime => Over(j, job)
    /\ job.stored # "yes" => job.marked = NoTime

(* A result may give a disabled job a time, which the maintenance of the    *)
(* same section takes away.                                                 *)
Good(j, job) == Fair(j, job) /\ (job.stored = "yes" /\ ~job.enabled => job.next = NoTime)

AllFair(s) == s \in [Jobs -> Job] /\ \A j \in Jobs : Fair(j, s[j])
Sound(s) == s \in [Jobs -> Job] /\ \A j \in Jobs : Good(j, s[j])

Quiet == boot = "down" => ~armed /\ ~running /\ runs = {}

(* A marker has a run, and a run without a marker is a known one.           *)
Marked == boot # "down" => \A j \in Jobs : store[j].marked # NoTime => Holders(runs, j) # {}
Guarded == \A j \in Jobs : Holders(runs, j) # {} /\ store[j].marked = NoTime => unguarded[j]

Alone == \A j \in Jobs : ~unguarded[j] => \A q, r \in Holders(runs, j) : q = r

CronInv == TypeOK /\ Sound(store) /\ Quiet /\ TimerKept /\ Marked /\ Guarded /\ Alone

-----------------------------------------------------------------------------
(* The operators on jobs and stores.                                        *)
LEMMA DivisionIsNat == ASSUME NEW t \in Nat, NEW p \in Nat \ {0} PROVE t \div p \in Nat
  OBVIOUS

LEMMA NextRunGood ==
    ASSUME kind \in [Jobs -> {"every", "at", "cron"}],
           NEW j \in Jobs, NEW job \in Job, NEW t \in Nat
    PROVE  /\ NextRun(j, job, t) \in Times
           /\ ~job.enabled => NextRun(j, job, t) = NoTime
           /\ job.enabled /\ NextRun(j, job, t) = NoTime => Over(j, job)
<1> USE CronAssumption DEF Times, NoTime
<1>0. job.enabled \in BOOLEAN /\ job.base \in Nat /\ job.lastRun \in Times
  BY DEF Job
<1>1. CASE ~job.enabled
  BY <1>1 DEF NextRun
<1>2. CASE job.enabled /\ kind[j] = "at"
  BY <1>0, <1>2 DEF NextRun, Over
<1>3. CASE job.enabled /\ kind[j] = "cron"
  <2>1. NextRun(j, job, t) = Period * (t \div Period + 1)
    BY <1>3 DEF NextRun
  <2>2. t \div Period \in Nat
    BY DivisionIsNat
  <2>3. Period * (t \div Period + 1) \in Nat
    BY <2>2
  <2> QED  BY <1>3, <2>1, <2>3
<1>4. CASE job.enabled /\ kind[j] = "every"
  <2> DEFINE steps == (t - job.base + Period - 1) \div Period
  <2>1. CASE job.lastRun # NoTime /\ job.lastRun + Period > t
    <3>1. NextRun(j, job, t) = job.lastRun + Period
      BY <1>4, <2>1 DEF NextRun
    <3>2. job.lastRun + Period \in Nat
      BY <1>0, <2>1
    <3> QED  BY <1>4, <3>1, <3>2
  <2>2. CASE ~(job.lastRun # NoTime /\ job.lastRun + Period > t) /\ t < job.base
    <3>1. NextRun(j, job, t) = job.base
      BY <1>4, <2>2 DEF NextRun
    <3> QED  BY <1>0, <1>4, <3>1
  <2>3. CASE ~(job.lastRun # NoTime /\ job.lastRun + Period > t) /\ ~(t < job.base)
    <3>1. NextRun(j, job, t) = job.base + Period * Greater(1, steps)
      BY <1>4, <2>3 DEF NextRun
    <3>2. t - job.base + Period - 1 \in Nat
      BY <1>0, <2>3
    <3>3. steps \in Nat
      BY <3>2, DivisionIsNat
    <3>4. Greater(1, steps) \in Nat
      BY <3>3 DEF Greater
    <3>5. Period * Greater(1, steps) \in Nat
      BY <3>4
    <3> QED  BY <1>0, <1>4, <3>1, <3>5
  <2> QED  BY <2>1, <2>2, <2>3
<1> QED  BY <1>0, <1>1, <1>2, <1>3, <1>4

(* The slots of a schedule are the multiples of its period.                 *)
LEMMA SlotAfter ==
    ASSUME NEW t \in Nat
    PROVE  /\ t \div Period \in Nat
           /\ Period * (t \div Period) <= t
           /\ t < Period * (t \div Period + 1)
<1>1. t \div Period \in Nat
  BY CronAssumption, DivisionIsNat
<1>2. Period * (t \div Period) <= t /\ t < Period * (t \div Period + 1)
  BY CronAssumption
<1> QED  BY <1>1, <1>2

(* A "cron" job is given the first slot after now: none is passed over and  *)
(* the one that is being run is not given again.                            *)
THEOREM CronSlotIsNext ==
    ASSUME NEW j \in Jobs, kind[j] = "cron", NEW job \in Job, job.enabled, NEW t \in Nat
    PROVE  /\ NextRun(j, job, t) > t
           /\ \E i \in Nat : NextRun(j, job, t) = Period * i
           /\ \A i \in Nat : Period * i > t => NextRun(j, job, t) <= Period * i
<1> DEFINE k == t \div Period
<1>1. NextRun(j, job, t) = Period * (k + 1)
  BY DEF NextRun
<1>2. k \in Nat /\ Period * k <= t /\ t < Period * (k + 1)
  BY SlotAfter
<1> HIDE DEF k
<1>3. ASSUME NEW i \in Nat, Period * i > t PROVE Period * (k + 1) <= Period * i
  <2>1. Period * k < Period * ((i - 1) + 1)
    BY <1>2, <1>3, CronAssumption
  <2>2. k < i
    BY <1>2, <2>1, CronAssumption
  <2> QED  BY <1>2, <2>2, CronAssumption
<1>4. k + 1 \in Nat
  BY <1>2
<1> QED  BY <1>1, <1>2, <1>3, <1>4

(* An "every" job whose last run is a period ago, or that has none, is      *)
(* given the first slot after its anchor that has not passed; the slot that *)
(* is now still counts.                                                     *)
THEOREM EverySlotIsNext ==
    ASSUME NEW j \in Jobs, kind[j] = "every", NEW job \in Job, job.enabled,
           NEW t \in Nat, job.base <= t, job.lastRun = NoTime \/ job.lastRun + Period <= t
    PROVE  /\ NextRun(j, job, t) >= t
           /\ \E i \in Nat \ {0} : NextRun(j, job, t) = job.base + Period * i
           /\ \A i \in Nat \ {0} :
                 job.base + Period * i >= t => NextRun(j, job, t) <= job.base + Period * i
<1> DEFINE d == t - job.base
           k == (d + Period - 1) \div Period
           n == Greater(1, k)
<1>1. job.base \in Nat /\ job.lastRun \in Times
  BY DEF Job
<1>2. d \in Nat /\ d + Period - 1 \in Nat
  BY <1>1, CronAssumption
<1>3. NextRun(j, job, t) = job.base + Period * n
  <2>1. ~(job.lastRun # NoTime /\ job.lastRun + Period > t) /\ ~(t < job.base)
    BY <1>1, CronAssumption DEF Times, NoTime
  <2> QED  BY <2>1 DEF NextRun
<1>4. k \in Nat /\ Period * k <= d + Period - 1 /\ d + Period - 1 < Period * (k + 1)
  BY <1>2, SlotAfter
<1> HIDE DEF k, d
<1>5. d <= Period * k
  <2>1. Period * (k + 1) = Period * k + Period
    BY <1>4, CronAssumption
  <2>2. Period * k \in Nat
    BY <1>4, CronAssumption
  <2> QED  BY <1>2, <1>4, <2>1, <2>2, CronAssumption
<1>6. n \in Nat \ {0}
  BY <1>4 DEF Greater
<1>7. d <= Period * n
  <2>1. CASE k = 0
    BY <1>2, <1>5, <1>6, <2>1, CronAssumption
  <2>2. CASE k # 0
    <3>1. n = k
      BY <1>4, <2>2 DEF Greater
    <3> QED  BY <1>5, <3>1
  <2> QED  BY <2>1, <2>2
<1>8. ASSUME NEW i \in Nat \ {0}, d <= Period * i PROVE Period * n <= Period * i
  <2>1. Period * k < Period * (i + 1)
    <3>1. Period * (i + 1) = Period * i + Period
      BY <1>8, CronAssumption
    <3>2. Period * k \in Nat /\ Period * i \in Nat
      BY <1>4, CronAssumption
    <3> QED  BY <1>2, <1>4, <1>8, <3>1, <3>2, CronAssumption
  <2>2. k < i + 1
    BY <1>4, <2>1, CronAssumption
  <2>3. n <= i
    BY <1>4, <2>2 DEF Greater
  <2> QED  BY <1>6, <2>3, CronAssumption
<1>9. Period * n \in Nat
  BY <1>6, CronAssumption
<1> HIDE DEF n
<1>10. NextRun(j, job, t) >= t
  BY <1>1, <1>2, <1>3, <1>7, <1>9 DEF d
<1>11. ASSUME NEW i \in Nat \ {0}, job.base + Period * i >= t
       PROVE  NextRun(j, job, t) <= job.base + Period * i
  <2>1. Period * i \in Nat
    BY CronAssumption
  <2>2. d <= Period * i
    BY <1>1, <1>11, <2>1 DEF d
  <2> QED  BY <1>1, <1>3, <1>8, <1>9, <2>1, <2>2
<1> QED  BY <1>3, <1>6, <1>10, <1>11

(* A job whose slot is computed anew.                                       *)
LEMMA RescheduledGood ==
    ASSUME kind \in [Jobs -> {"every", "at", "cron"}],
           NEW j \in Jobs, NEW job \in Job, NEW t \in Nat, job.stored = "yes"
    PROVE  Good(j, [job EXCEPT !.next = NextRun(j, job, t)])
<1> DEFINE new == [job EXCEPT !.next = NextRun(j, job, t)]
<1>1. /\ new \in Job /\ new.stored = "yes" /\ new.enabled = job.enabled
      /\ new.next = NextRun(j, job, t) /\ new.lastStatus = job.lastStatus
      /\ new.base = job.base /\ new.lastRun = job.lastRun
  BY NextRunGood DEF Job
<1> QED  BY <1>1, NextRunGood DEF Good, Fair, Over

LEMMA NormalizedGood ==
    ASSUME NEW j \in Jobs, NEW job, Fair(j, job), job.stored = "yes"
    PROVE  /\ Good(j, Normalized(job))
           /\ Normalized(job).stored = "yes"
           /\ Normalized(job).enabled = job.enabled
           /\ job.enabled => Normalized(job).next = job.next
           /\ Normalized(job).marked \in {job.marked, NoTime}
           /\ Normalized(job).marked # job.marked =>
                 ~job.enabled \/ (job.marked # NoTime /\ now - job.marked > StuckAfter)
           /\ Over(j, Normalized(job)) = Over(j, job)
<1>1. CASE ~job.enabled
  BY <1>1 DEF Normalized, Good, Fair, Over, Job, Times, NoTime
<1>2. CASE job.enabled /\ job.marked # NoTime /\ now - job.marked > StuckAfter
  BY <1>2 DEF Normalized, Good, Fair, Over, Job, Times, NoTime
<1>3. CASE job.enabled /\ ~(job.marked # NoTime /\ now - job.marked > StuckAfter)
  BY <1>3 DEF Normalized, Good
<1> QED  BY <1>1, <1>2, <1>3

(* A maintenance takes a marker away from a disabled job or one of these.   *)
Stuck(job) == job.marked # NoTime /\ now - job.marked > StuckAfter

(* What a maintenance leaves alone.                                         *)
Maintains(s, t) ==
    /\ Sound(t)
    /\ \A j \in Jobs :
          /\ t[j].stored = s[j].stored /\ t[j].enabled = s[j].enabled
          /\ t[j].marked \in {s[j].marked, NoTime}
          /\ t[j].marked # s[j].marked => ~s[j].enabled \/ Stuck(s[j])
          /\ s[j].stored = "yes" /\ s[j].enabled /\ s[j].next = NoTime => t[j].next = NoTime

LEMMA WalkSound ==
    ASSUME NEW s, AllFair(s)
    PROVE  Maintains(s, Walk(s)) /\ \A j \in Jobs : Over(j, s[j]) => Over(j, Walk(s)[j])
<1>1. ASSUME NEW j \in Jobs, s[j].stored = "yes"
      PROVE  Walk(s)[j] = Normalized(s[j])
  BY <1>1 DEF Walk
<1>2. ASSUME NEW j \in Jobs, s[j].stored # "yes" PROVE Walk(s)[j] = s[j]
  BY <1>2 DEF Walk
<1>3. \A j \in Jobs : Good(j, Walk(s)[j])
  BY <1>1, <1>2, NormalizedGood DEF AllFair, Good
<1>4. Walk(s) \in [Jobs -> Job]
  BY <1>3 DEF Walk, Good, Fair
<1> QED  BY <1>1, <1>2, <1>3, <1>4, NormalizedGood DEF Maintains, Sound, AllFair, Stuck

LEMMA RecomputeSound ==
    ASSUME TypeOK, NEW s, Sound(s), NEW js
    PROVE  Maintains(s, Recompute(s, js))
<1> DEFINE t == Recompute(s, js)
<1>1. ASSUME NEW j \in Jobs, j \in js /\ s[j].stored = "yes" /\ s[j].enabled
      PROVE  /\ t[j] = [s[j] EXCEPT !.next = NextRun(j, s[j], now)]
             /\ Good(j, t[j])
  BY <1>1, RescheduledGood DEF Recompute, Sound, TypeOK
<1>2. ASSUME NEW j \in Jobs, ~(j \in js /\ s[j].stored = "yes" /\ s[j].enabled)
      PROVE  t[j] = s[j]
  BY <1>2 DEF Recompute
<1>3. \A j \in Jobs : Good(j, t[j])
  BY <1>1, <1>2 DEF Sound
<1>4. t \in [Jobs -> Job]
  BY <1>3 DEF Recompute, Good, Fair
<1>5. ASSUME NEW j \in Jobs, j \in js /\ s[j].stored = "yes" /\ s[j].enabled
      PROVE  /\ t[j].stored = s[j].stored /\ t[j].enabled = s[j].enabled
             /\ t[j].marked = s[j].marked
             /\ s[j].next = NoTime => t[j].next = NoTime
  <2>1. s[j] \in Job
    BY DEF Sound
  <2>2. s[j].next = NoTime => Over(j, s[j])
    BY <1>5 DEF Sound, Good, Fair
  <2>3. Over(j, s[j]) => NextRun(j, s[j], now) = NoTime
    BY <1>5 DEF Over, NextRun
  <2> QED  BY <1>1, <1>5, <2>1, <2>2, <2>3 DEF Job
<1> QED  BY <1>2, <1>3, <1>4, <1>5 DEF Maintains, Sound

LEMMA MaintainsBoth ==
    ASSUME NEW s, NEW t, NEW u, Maintains(s, t), Maintains(t, u) PROVE Maintains(s, u)
  BY DEF Maintains, Stuck

LEMMA MaintainedSound ==
    ASSUME TypeOK, NEW s, AllFair(s), NEW expired PROVE Maintains(s, Maintained(s, expired))
<1>1. PICK js : Maintained(s, expired) = Recompute(Walk(s), js)
  BY DEF Maintained
<1>2. Maintains(s, Walk(s))
  BY WalkSound
<1>3. Maintains(Walk(s), Recompute(Walk(s), js))
  BY <1>2, RecomputeSound DEF Maintains
<1> QED  BY <1>1, <1>2, <1>3, MaintainsBoth

LEMMA RecomputedSound ==
    ASSUME TypeOK, NEW s, AllFair(s) PROVE Maintains(s, Recomputed(s))
<1>1. PICK js : Recomputed(s) = Recompute(Walk(s), js)
  BY DEF Recomputed
<1>2. Maintains(s, Walk(s))
  BY WalkSound
<1>3. Maintains(Walk(s), Recompute(Walk(s), js))
  BY <1>2, RecomputeSound DEF Maintains
<1> QED  BY <1>1, <1>2, <1>3, MaintainsBoth

LEMMA SettledGood ==
    ASSUME kind \in [Jobs -> {"every", "at", "cron"}],
           NEW j \in Jobs, NEW job \in Job, job.stored = "yes", NEW r \in Run
    PROVE  Fair(j, Settled(j, job, r)) /\ Settled(j, job, r).marked = NoTime
<1> DEFINE failed == r.result \in {"transient", "permanent"}
           errors == IF failed
                     THEN IF job.errors < MaxErrors THEN job.errors + 1 ELSE MaxErrors
                     ELSE 0
           done == [job EXCEPT !.marked = NoTime, !.lastRun = r.at, !.errors = errors,
                               !.lastStatus = IF failed THEN "error" ELSE r.result]
           natural == IF r.force /\ kind[j] = "every"
                      THEN NextRun(j, [done EXCEPT !.lastRun = job.lastRun], r.until)
                      ELSE NextRun(j, done, r.until)
           retry == r.until + Backoff[Greater(1, errors)]
           new == Settled(j, job, r)
<1> USE CronAssumption
<1>1. errors \in 0 .. MaxErrors
  BY DEF Job
<1>2. r.until \in Nat /\ r.at \in Nat /\ r.result \in Results /\ r.force \in BOOLEAN
  BY DEF Run
<1>3. done \in Job /\ done.stored = "yes" /\ done.marked = NoTime
      /\ done.enabled = job.enabled
  BY <1>1, <1>2 DEF Job, Times, Results
<1>4. retry \in Nat
  <2>1. Greater(1, errors) \in 1 .. MaxErrors
    BY <1>1 DEF Greater
  <2> QED  BY <1>2, <2>1
<1>5. natural \in Times /\ (job.enabled /\ kind[j] # "at" => natural # NoTime)
  <2>1. [done EXCEPT !.lastRun = job.lastRun] \in Job
    BY <1>3 DEF Job
  <2>2. [done EXCEPT !.lastRun = job.lastRun].enabled = job.enabled
    BY <1>3 DEF Job
  <2> HIDE DEF done
  <2> QED  BY <1>2, <1>3, <2>1, <2>2, NextRunGood DEF Over
<1>6. CASE kind[j] # "at"
  <2> DEFINE next == IF ~job.enabled THEN NoTime
                     ELSE IF failed THEN Greater(natural, retry) ELSE natural
  <2>1. new = [done EXCEPT !.next = next]
    BY <1>6 DEF Settled
  <2> HIDE DEF done, natural, retry, new, failed
  <2>2. next \in Times /\ (job.enabled => next # NoTime) /\ (~job.enabled => next = NoTime)
    BY <1>4, <1>5, <1>6 DEF Greater, Times, NoTime
  <2> HIDE DEF next
  <2> QED  BY <1>3, <2>1, <2>2 DEF Fair, Job, new
<1>7. CASE kind[j] = "at"
  <2>1. new \in {Gone, [done EXCEPT !.next = retry],
                 [done EXCEPT !.enabled = FALSE, !.next = NoTime]}
    BY <1>7 DEF Settled
  <2> HIDE DEF done, natural, retry, new, failed
  <2>2. Gone \in Job /\ Gone.stored = "removed" /\ Gone.marked = NoTime
    BY DEF Gone, Job, Times
  <2>3. CASE new = Gone
    BY <2>2, <2>3 DEF Fair, new
  <2>4. CASE new = [done EXCEPT !.next = retry]
    <3> HIDE DEF new
    <3>1. retry \in Times /\ retry # NoTime
      BY <1>4 DEF Times, NoTime
    <3>2. new \in Job /\ new.next = retry /\ new.marked = NoTime /\ new.stored = "yes"
      BY <1>3, <2>4, <3>1 DEF Job
    <3>3. Fair(j, new) /\ new.marked = NoTime
      BY <3>1, <3>2 DEF Fair
    <3> QED  BY <3>3 DEF new
  <2>5. CASE new = [done EXCEPT !.enabled = FALSE, !.next = NoTime]
    BY <1>3, <2>5 DEF Fair, Job, Times, new
  <2> QED  BY <2>1, <2>3, <2>4, <2>5
<1> QED  BY <1>6, <1>7

LEMMA AllSettledFair ==
    ASSUME TypeOK, NEW s, AllFair(s), NEW ended \in SUBSET Run
    PROVE  /\ AllFair(AllSettled(s, ended))
           /\ \A j \in Jobs :
                 IF \E r \in ended : r.job = j
                 THEN AllSettled(s, ended)[j].marked = NoTime
                 ELSE AllSettled(s, ended)[j] = s[j]
<1> DEFINE t == AllSettled(s, ended)
<1>1. ASSUME NEW j \in Jobs, s[j].stored = "yes" /\ \E r \in ended : r.job = j
      PROVE  Fair(j, t[j]) /\ t[j].marked = NoTime
  <2>1. PICK r \in ended : t[j] = Settled(j, s[j], r)
    BY <1>1 DEF AllSettled
  <2> QED  BY <1>1, <2>1, SettledGood DEF AllFair, TypeOK
<1>2. ASSUME NEW j \in Jobs, ~(s[j].stored = "yes" /\ \E r \in ended : r.job = j)
      PROVE  t[j] = s[j]
  BY <1>2 DEF AllSettled
<1>3. \A j \in Jobs : Fair(j, t[j])
  BY <1>1, <1>2 DEF AllFair
<1>4. t \in [Jobs -> Job]
  BY <1>3 DEF AllSettled, Fair
<1>5. \A j \in Jobs : s[j].stored # "yes" => s[j].marked = NoTime
  BY DEF AllFair, Fair
<1> QED  BY <1>1, <1>2, <1>3, <1>4, <1>5 DEF AllFair

LEMMA MarkSound ==
    ASSUME TypeOK, NEW s, Sound(s), NEW js,
           \A j \in js \cap Jobs : s[j].stored = "yes"
    PROVE  /\ Sound(Mark(s, js))
           /\ \A j \in Jobs :
                 /\ Mark(s, js)[j].stored = s[j].stored
                 /\ Mark(s, js)[j].enabled = s[j].enabled
                 /\ Mark(s, js)[j].next = s[j].next
                 /\ Mark(s, js)[j].marked = IF j \in js THEN now ELSE s[j].marked
<1> DEFINE t == Mark(s, js)
<1>1. ASSUME NEW j \in Jobs, j \in js PROVE t[j] = [s[j] EXCEPT !.marked = now]
  BY <1>1 DEF Mark
<1>2. ASSUME NEW j \in Jobs, j \notin js PROVE t[j] = s[j]
  BY <1>2 DEF Mark
<1>3. now \in Times
  BY DEF TypeOK, Times
<1>4. \A j \in Jobs : s[j] \in Job /\ Good(j, s[j])
  BY DEF Sound
<1>5. ASSUME NEW j \in Jobs, j \in js
      PROVE  /\ Good(j, t[j])
             /\ t[j].stored = s[j].stored /\ t[j].enabled = s[j].enabled
             /\ t[j].next = s[j].next /\ t[j].marked = now
  <2>1. t[j] = [s[j] EXCEPT !.marked = now] /\ s[j] \in Job /\ Good(j, s[j])
    BY <1>1, <1>4, <1>5
  <2>2. /\ t[j] \in Job /\ t[j].marked = now
        /\ t[j].stored = s[j].stored /\ t[j].enabled = s[j].enabled
        /\ t[j].next = s[j].next /\ t[j].base = s[j].base
        /\ t[j].lastRun = s[j].lastRun /\ t[j].lastStatus = s[j].lastStatus
    BY <1>3, <2>1 DEF Job
  <2>3. s[j].stored = "yes"
    BY <1>5
  <2>4. Over(j, s[j]) => Over(j, t[j])
    BY <2>2 DEF Over
  <2> HIDE DEF t
  <2>5. Good(j, t[j])
    BY <2>1, <2>2, <2>3, <2>4 DEF Good, Fair
  <2> QED  BY <2>2, <2>5
<1>6. \A j \in Jobs : Good(j, t[j])
  BY <1>2, <1>4, <1>5
<1>7. t \in [Jobs -> Job]
  BY <1>6 DEF Mark, Good, Fair
<1> QED  BY <1>2, <1>5, <1>6, <1>7 DEF Sound

LEMMA FreshGood ==
    ASSUME kind \in [Jobs -> {"every", "at", "cron"}],
           NEW j \in Jobs, NEW base \in Nat, NEW t \in Nat
    PROVE  Good(j, Fresh(j, base, t)) /\ Fresh(j, base, t).marked = NoTime
<1> DEFINE job == [Gone EXCEPT !.stored = "yes", !.enabled = TRUE, !.base = base]
<1>1. job \in Job /\ job.stored = "yes" /\ job.marked = NoTime
  <2>1. Gone \in Job /\ Gone.marked = NoTime
    BY CronAssumption DEF Gone, Job, Times
  <2> QED  BY <2>1 DEF Job
<1>2. Fresh(j, base, t) = [job EXCEPT !.next = NextRun(j, job, t)]
  BY DEF Fresh
<1> HIDE DEF job
<1>3. Good(j, Fresh(j, base, t))
  BY <1>1, <1>2, RescheduledGood
<1>4. Fresh(j, base, t).marked = NoTime
  BY <1>1, <1>2 DEF Job
<1> QED  BY <1>3, <1>4

LEMMA GoneGood == ASSUME NEW j \in Jobs PROVE Good(j, Gone)
  BY CronAssumption DEF Gone, Good, Fair, Job, Times, NoTime

-----------------------------------------------------------------------------
(* The history variable and the runs.                                       *)
LEMMA GuardGives ==
    ASSUME Guard
    PROVE  /\ unguarded' \in [Jobs -> BOOLEAN]
           /\ \A j \in Jobs : ~unguarded'[j] /\ Holders(runs', j) # {} =>
                 ~unguarded[j] /\ store'[j].enabled /\ ~Stuck(store[j])
<1>1. unguarded' \in [Jobs -> BOOLEAN]
  BY DEF Guard
<1>2. ASSUME NEW j \in Jobs
      PROVE  unguarded'[j] <=> /\ Holders(runs', j) # {}
                               /\ unguarded[j] \/ ~store'[j].enabled \/ Stuck(store[j])
  BY Zenon DEF Guard, Stuck
<1> QED  BY <1>1, <1>2, Zenon

(* A marker of a job that is run is taken away only as Guard says.          *)
LEMMA GuardedStays ==
    ASSUME Guard, Guarded,
           \A j \in Jobs :
              store'[j].marked = NoTime /\ Holders(runs', j) # {} =>
                 \/ unguarded[j]
                 \/ ~store'[j].enabled
                 \/ Stuck(store[j])
                 \/ store[j].marked = NoTime /\ Holders(runs, j) # {}
    PROVE  Guarded'
  BY GuardGives DEF Guarded

LEMMA AloneFewer ==
    ASSUME Guard, Alone, \A j \in Jobs : Holders(runs', j) \subseteq Holders(runs, j)
    PROVE  Alone'
  BY GuardGives DEF Alone

(* A job that had a run gets a second one only if it had no marker.         *)
LEMMA AloneMore ==
    ASSUME Guard, Alone, Guarded, NEW js \in SUBSET Jobs,
           \A j \in js : store[j].marked = NoTime,
           \A j \in Jobs :
              IF j \in js
              THEN \A q, r \in Holders(runs', j) \ Holders(runs, j) : q = r
              ELSE Holders(runs', j) \subseteq Holders(runs, j)
    PROVE  Alone'
<1> SUFFICES ASSUME NEW j \in Jobs, ~unguarded'[j],
                    NEW q \in Holders(runs', j), NEW r \in Holders(runs', j)
             PROVE  q = r
  BY DEF Alone
<1>1. ~unguarded[j]
  BY GuardGives
<1>2. CASE j \in js
  <2>1. Holders(runs, j) = {}
    BY <1>1, <1>2 DEF Guarded
  <2> QED  BY <1>2, <2>1
<1>3. CASE j \notin js
  BY <1>1, <1>3 DEF Alone
<1> QED  BY <1>2, <1>3

(* A run goes on.                                                           *)
LEMMA AloneOn ==
    ASSUME Alone, NEW r \in runs, NEW s, runs' = (runs \ {r}) \cup {s},
           s.job = r.job, r.phase # "checked", s.phase # "checked",
           \A j \in Jobs : ~unguarded'[j] /\ Holders(runs', j) # {} => ~unguarded[j]
    PROVE  /\ Alone'
           /\ \A j \in Jobs : Holders(runs, j) # {} => Holders(runs', j) # {}
           /\ \A j \in Jobs : Holders(runs', j) # {} => Holders(runs, j) # {}
<1>1. \A j \in Jobs : Holders(runs', j) =
         IF j = r.job THEN (Holders(runs, j) \ {r}) \cup {s} ELSE Holders(runs, j)
  BY DEF Holders
<1>2. \A j \in Jobs : j = r.job => r \in Holders(runs, j)
  BY DEF Holders
<1>3. \A j \in Jobs : Holders(runs, j) # {} <=> Holders(runs', j) # {}
  BY <1>1, <1>2
<1>4. ASSUME NEW j \in Jobs, ~unguarded'[j]
      PROVE  \A p, q \in Holders(runs', j) : p = q
  <2>1. CASE Holders(runs', j) = {}
    BY <2>1
  <2>2. CASE Holders(runs', j) # {}
    <3>1. \A p, q \in Holders(runs, j) : p = q
      BY <1>4, <2>2 DEF Alone
    <3> QED  BY <1>1, <1>2, <3>1
  <2> QED  BY <2>1, <2>2
<1>5. Alone'
  BY <1>4 DEF Alone, Holders
<1> QED  BY <1>3, <1>5

LEMMA NewRunTyped ==
    ASSUME NEW by \in Actors, NEW j \in Jobs
    PROVE  /\ NewRun(by, j) \in Run
           /\ NewRun(by, j).by = by /\ NewRun(by, j).job = j
           /\ NewRun(by, j).phase = "due" /\ NewRun(by, j).at = 0
           /\ NewRun(by, j).until = 0
  BY DEF NewRun, Run, Results

LEMMA CheckedRunTyped ==
    ASSUME TypeOK, NEW m \in Manuals, NEW j \in Jobs, NEW force \in BOOLEAN
    PROVE  LET r == CheckedRun(m, j, force) IN
           /\ r \in Run
           /\ r.by = m /\ r.job = j /\ r.phase = "checked" /\ r.at = now /\ r.until = 0
           /\ r.force = force /\ r.ahead = {by \in Actors : Settling(by)}
           /\ r.beside = (Holders(runs, j) # {})
<1> DEFINE r == CheckedRun(m, j, force)
           front == {by \in Actors : Settling(by)}
           held == Holders(runs, j) # {}
<1>1. r = [NewRun(m, j) EXCEPT !.force = force, !.phase = "checked", !.at = now,
                               !.ahead = front, !.beside = held]
  BY DEF CheckedRun
<1>2. NewRun(m, j) \in Run /\ NewRun(m, j).by = m /\ NewRun(m, j).job = j
      /\ NewRun(m, j).until = 0
  BY NewRunTyped DEF Actors
<1>3. front \in SUBSET Actors /\ held \in BOOLEAN /\ now \in Nat
  BY DEF TypeOK
<1> HIDE DEF front, held
<1>4. /\ r \in Run /\ r.by = m /\ r.job = j /\ r.phase = "checked" /\ r.at = now
      /\ r.until = 0 /\ r.force = force /\ r.ahead = front /\ r.beside = held
  BY <1>1, <1>2, <1>3 DEF Run
<1> QED  BY <1>4 DEF front, held

(* A batch of new runs, each of another job.                                *)
LEMMA NewBatch ==
    ASSUME TypeOK, Alone, Guarded, Guard, NEW by \in Actors, NEW js \in SUBSET Jobs,
           \A j \in js : store[j].marked = NoTime,
           runs' = runs \cup {NewRun(by, j) : j \in js}
    PROVE  /\ Alone'
           /\ runs' \subseteq Run
           /\ \A r \in runs' \ runs : r.by = by /\ r.phase = "due"
           /\ js = {} => runs' = runs
           /\ \A j \in Jobs : j \in js \/ Holders(runs, j) # {} => Holders(runs', j) # {}
           /\ \A j \in Jobs : j \notin js => Holders(runs', j) = Holders(runs, j)
<1> DEFINE N == [j \in js |-> NewRun(by, j)]
<1>1. ASSUME NEW j \in js
      PROVE  N[j] \in Run /\ N[j].by = by /\ N[j].job = j /\ N[j].phase = "due"
  BY <1>1, NewRunTyped
<1>2. runs' = runs \cup {N[j] : j \in js}
  OBVIOUS
<1> HIDE DEF N
<1>3. ASSUME NEW j \in Jobs
      PROVE  Holders(runs', j) = Holders(runs, j) \cup (IF j \in js THEN {N[j]} ELSE {})
  <2>1. \A r \in runs' : r \in runs \/ \E k \in js : r = N[k]
    BY <1>2
  <2>2. j \in js => N[j] \in Holders(runs', j)
    BY <1>1, <1>2 DEF Holders
  <2>3. ASSUME NEW r \in Holders(runs', j), r \notin Holders(runs, j)
        PROVE  j \in js /\ r = N[j]
    <3>1. r \in runs' /\ r.job = j /\ r.phase # "checked" /\ r \notin runs
      BY <2>3 DEF Holders
    <3>2. PICK k \in js : r = N[k]
      BY <2>1, <3>1
    <3> QED  BY <1>1, <3>1, <3>2
  <2>4. Holders(runs, j) \subseteq Holders(runs', j)
    BY <1>2 DEF Holders
  <2> QED  BY <2>2, <2>3, <2>4
<1>4. Alone'
  <2>1. ASSUME NEW j \in Jobs, j \in js
        PROVE  \A q, r \in Holders(runs', j) \ Holders(runs, j) : q = r
    BY <1>3, <2>1
  <2>2. ASSUME NEW j \in Jobs, j \notin js
        PROVE  Holders(runs', j) \subseteq Holders(runs, j)
    BY <1>3, <2>2
  <2> QED  BY <2>1, <2>2, AloneMore
<1>5. \A r \in runs' : r \in runs \/ \E k \in js : r = N[k]
  BY <1>2
<1>6. runs' \subseteq Run /\ \A r \in runs' \ runs : r.by = by /\ r.phase = "due"
  <2>1. runs \subseteq Run
    BY DEF TypeOK
  <2>2. ASSUME NEW r \in runs', r \notin runs
        PROVE  r \in Run /\ r.by = by /\ r.phase = "due"
    <3>1. PICK k \in js : r = N[k]
      BY <1>5, <2>2
    <3> QED  BY <1>1, <3>1
  <2> QED  BY <2>1, <2>2
<1>7. js = {} => runs' = runs
  BY <1>2
<1> QED  BY <1>3, <1>4, <1>6, <1>7

(* A run after the section of a batch that it was behind.                   *)
Behind(r, by) == IF r.phase = "checked" THEN [r EXCEPT !.ahead = @ \ {by}] ELSE r

LEMMA BehindIs ==
    ASSUME NEW r \in Run, NEW by
    PROVE  /\ Behind(r, by) \in Run
           /\ Behind(r, by).by = r.by /\ Behind(r, by).job = r.job
           /\ Behind(r, by).phase = r.phase /\ Behind(r, by).at = r.at
           /\ Behind(r, by).until = r.until /\ Behind(r, by).force = r.force
           /\ Behind(r, by).beside = r.beside
           /\ r.phase = "checked" => Behind(r, by).ahead = r.ahead \ {by}
           /\ r.phase # "checked" => Behind(r, by) = r
<1>1. CASE r.phase = "checked"
  <2>1. Behind(r, by) = [r EXCEPT !.ahead = r.ahead \ {by}]
    BY <1>1 DEF Behind
  <2>2. r.ahead \ {by} \in SUBSET Actors
    BY DEF Run
  <2> QED  BY <1>1, <2>1, <2>2 DEF Run
<1>2. CASE r.phase # "checked"
  BY <1>2 DEF Behind
<1> QED  BY <1>1, <1>2

(* The runs of a batch leave, and the other ones stay as they are.          *)
LEMMA Leaving ==
    ASSUME runs \subseteq Run, NEW by, Settle(by)
    PROVE  /\ runs' \subseteq Run
           /\ \A r \in runs' : \E q \in runs : q.by # by /\ r = Behind(q, by)
           /\ \A q \in runs : q.by # by => Behind(q, by) \in runs'
           /\ EndedOf(by) \in SUBSET Run
           /\ \A r \in runs : r.by = by => r \in EndedOf(by) /\ r.phase = "ended"
           /\ \A r \in EndedOf(by) : r \in runs /\ r.by = by /\ r \notin runs'
           /\ \A j \in Jobs : Holders(runs', j) = {r \in Holders(runs, j) : r.by # by}
<1>1. runs' = {Behind(r, by) : r \in {q \in runs : q.by # by}}
  BY DEF Settle, Without, Behind
<1>2. \A r \in runs' : \E q \in runs : q.by # by /\ r = Behind(q, by)
  BY <1>1
<1>3. \A q \in runs : q.by # by => Behind(q, by) \in runs'
  BY <1>1
<1>4. \A r \in runs' : r \in Run /\ r.by # by
  BY <1>2, BehindIs
<1>5. ASSUME NEW j \in Jobs
      PROVE  Holders(runs', j) = {r \in Holders(runs, j) : r.by # by}
  <2>1. ASSUME NEW r \in Holders(runs', j) PROVE r \in Holders(runs, j) /\ r.by # by
    <3>1. r \in runs' /\ r.job = j /\ r.phase # "checked"
      BY <2>1 DEF Holders
    <3>2. PICK q \in runs : q.by # by /\ r = Behind(q, by)
      BY <1>2, <3>1
    <3>3. r = q
      BY <3>1, <3>2, BehindIs
    <3> QED  BY <3>1, <3>2, <3>3 DEF Holders
  <2>2. ASSUME NEW r \in Holders(runs, j), r.by # by PROVE r \in Holders(runs', j)
    <3>1. r \in runs /\ r.job = j /\ r.phase # "checked"
      BY <2>2 DEF Holders
    <3>2. Behind(r, by) = r
      BY <3>1, BehindIs
    <3> QED  BY <1>3, <2>2, <3>1, <3>2 DEF Holders
  <2> QED  BY <2>1, <2>2
<1> QED  BY <1>2, <1>3, <1>4, <1>5 DEF EndedOf, Settle, Settling

(* A marker of a job that had no run in a batch stays with the run it has.  *)
LEMMA BatchLeaves ==
    ASSUME CronInv, NEW by, Settle(by)
    PROVE  /\ \A j \in Jobs : Holders(runs', j) \subseteq Holders(runs, j)
           /\ EndedOf(by) \in SUBSET Run
           /\ AllFair(AllSettled(store, EndedOf(by)))
           /\ boot # "down" => \A j \in Jobs :
                 AllSettled(store, EndedOf(by))[j].marked # NoTime => Holders(runs', j) # {}
           /\ \A j \in Jobs : ~unguarded[j] /\ Holders(runs', j) # {} =>
                 AllSettled(store, EndedOf(by))[j] = store[j]
<1> DEFINE s == AllSettled(store, EndedOf(by))
<1>1. runs \subseteq Run /\ TypeOK
  BY DEF CronInv, TypeOK
<1>2. AllFair(store)
  BY DEF CronInv, Sound, AllFair, Good
<1>3. \A j \in Jobs : IF \E r \in EndedOf(by) : r.job = j
                       THEN s[j].marked = NoTime ELSE s[j] = store[j]
  BY <1>1, <1>2, Leaving, AllSettledFair
<1>4. \A j \in Jobs : (\E r \in EndedOf(by) : r.job = j)
                       <=> \E r \in Holders(runs, j) : r.by = by
  BY <1>1, Leaving DEF Holders
<1> HIDE DEF s
<1>5. ASSUME boot # "down", NEW j \in Jobs, s[j].marked # NoTime
      PROVE  Holders(runs', j) # {}
  <2>1. ~\E r \in Holders(runs, j) : r.by = by
    BY <1>3, <1>4, <1>5
  <2>2. store[j].marked # NoTime
    BY <1>3, <1>4, <1>5, <2>1
  <2>3. Holders(runs, j) # {}
    BY <1>5, <2>2 DEF CronInv, Marked
  <2> QED  BY <1>1, <2>1, <2>3, Leaving
<1>6. ASSUME NEW j \in Jobs, ~unguarded[j], Holders(runs', j) # {}
      PROVE  s[j] = store[j]
  <2>1. PICK q \in Holders(runs, j) : q.by # by
    BY <1>1, <1>6, Leaving
  <2>2. \A r \in Holders(runs, j) : r = q
    BY <1>6 DEF CronInv, Alone
  <2> QED  BY <1>3, <1>4, <2>1, <2>2
<1>7. \A j \in Jobs : Holders(runs', j) \subseteq Holders(runs, j)
  BY <1>1, Leaving
<1>8. EndedOf(by) \in SUBSET Run /\ AllFair(AllSettled(store, EndedOf(by)))
  BY <1>1, <1>2, Leaving, AllSettledFair
<1> QED  BY <1>5, <1>6, <1>7, <1>8 DEF s

-----------------------------------------------------------------------------
(* The invariant, part by part.                                             *)
RunsOK ==
    /\ runs \subseteq Run
    /\ \A r \in runs :
          /\ r.by = "start" => boot = "running"
          /\ r.by = "tick" => running
          /\ r.phase = "checked" => r.by \in Manuals

OthersOK ==
    /\ now \in Nat
    /\ kind \in [Jobs -> {"every", "at", "cron"}]
    /\ boot \in {"down", "planning", "running", "arming", "up"}
    /\ interrupted \subseteq Jobs /\ deferred \subseteq Jobs /\ putOff \subseteq Jobs
    /\ armed \in BOOLEAN /\ running \in BOOLEAN
    /\ unguarded \in [Jobs -> BOOLEAN]
    /\ edits \in Nat /\ crashes \in Nat

LEMMA Parts == CronInv => RunsOK /\ OthersOK
  BY DEF CronInv, TypeOK, RunsOK, OthersOK

LEMMA Together ==
    ASSUME kind' = kind, OthersOK', RunsOK', Sound(store'),
           Quiet', TimerKept', Marked', Guarded', Alone'
    PROVE  CronInv'
<1>1. Sound(store)'
  BY DEF Sound, Good, Fair, Over
<1>2. \A j \in Jobs :
         store'[j].stored = "yes" /\ ~store'[j].enabled => store'[j].next = NoTime
  BY DEF Sound, Good
<1>3. store' \in [Jobs -> Job]
  BY DEF Sound
<1>4. TypeOK'
  BY <1>2, <1>3 DEF TypeOK, OthersOK, RunsOK
<1> QED  BY <1>1, <1>4 DEF CronInv

LEMMA TimerSet == ASSUME armed' = Wakes(store') PROVE TimerKept'
  BY DEF TimerKept, Wakes

LEMMA TimerStays ==
    ASSUME TimerKept, armed' = armed, boot' = boot,
           \A j \in Jobs :
              store'[j].stored = "yes" /\ store'[j].enabled /\ store'[j].next # NoTime
              => store[j].stored = "yes" /\ store[j].enabled /\ store[j].next # NoTime
    PROVE  TimerKept'
  BY DEF TimerKept

(* A maintenance takes markers away only as Guard says.                     *)
LEMMA MaintainsGuarded ==
    ASSUME Guard, Guarded, Alone, Maintains(store, store'),
           \A j \in Jobs : Holders(runs', j) = Holders(runs, j)
    PROVE  Guarded' /\ Alone'
<1>1. \A j \in Jobs : store'[j].marked # store[j].marked =>
                          ~store'[j].enabled \/ Stuck(store[j])
  BY DEF Maintains
<1> QED  BY <1>1, GuardedStays, AloneFewer

LEMMA RunsOKFewer ==
    ASSUME RunsOK, NEW by, Settle(by),
           \A r \in runs : r.by # by =>
              (r.by = "start" => boot' = "running") /\ (r.by = "tick" => running')
    PROVE  RunsOK'
<1>1. ASSUME NEW r \in runs'
      PROVE  /\ r \in Run /\ (r.by = "start" => boot' = "running")
             /\ (r.by = "tick" => running') /\ (r.phase = "checked" => r.by \in Manuals)
  <2>1. PICK q \in runs : q.by # by /\ r = Behind(q, by)
    BY Leaving DEF RunsOK
  <2>2. q \in Run
    BY DEF RunsOK
  <2> QED  BY <2>1, <2>2, BehindIs DEF RunsOK
<1> QED  BY <1>1 DEF RunsOK

(* With the runs as they are, markers are only taken away.                  *)
LEMMA MarkersStay ==
    ASSUME Marked, boot # "down", runs' = runs,
           \A j \in Jobs : store'[j].marked \in {store[j].marked, NoTime}
    PROVE  Marked'
  BY DEF Marked

LEMMA InvInit == Init => CronInv
<1> SUFFICES ASSUME Init PROVE CronInv
  OBVIOUS
<1>1. PICK js \in SUBSET Jobs :
          store = [j \in Jobs |-> IF j \in js
                                  THEN Fresh(j, IF kind[j] = "at" THEN Period ELSE 0, 0)
                                  ELSE [Gone EXCEPT !.stored = "new"]]
  BY DEF Init
<1>2. kind \in [Jobs -> {"every", "at", "cron"}] /\ now = Period /\ Period \in Nat
  BY CronAssumption DEF Init
<1>3. ASSUME NEW j \in Jobs
      PROVE  Good(j, store[j])
  <2>1. ASSUME NEW base \in Nat PROVE Good(j, Fresh(j, base, 0))
    BY <1>2, FreshGood
  <2>2. Good(j, [Gone EXCEPT !.stored = "new"])
    <3> DEFINE new == [Gone EXCEPT !.stored = "new"]
    <3>1. Gone \in Job /\ Gone.marked = NoTime
      BY CronAssumption DEF Gone, Job, Times
    <3>2. new \in Job /\ new.stored = "new" /\ new.marked = NoTime
      BY <3>1 DEF Job
    <3>3. new.stored # "yes"
      BY <3>2
    <3> HIDE DEF new
    <3>4. Good(j, new)
      BY <3>2, <3>3 DEF Good, Fair
    <3> QED  BY <3>4 DEF new
  <2>3. CASE j \in js
    <3> DEFINE base == IF kind[j] = "at" THEN Period ELSE 0
    <3>1. store[j] = Fresh(j, base, 0)
      BY <1>1, <2>3
    <3>2. base \in Nat
      BY <1>2
    <3> HIDE DEF base
    <3> QED  BY <2>1, <3>1, <3>2
  <2>4. CASE j \notin js
    BY <1>1, <2>2, <2>4
  <2> QED  BY <2>3, <2>4
<1>4. store \in [Jobs -> Job]
  BY <1>1, <1>3 DEF Good, Fair
<1>5. Sound(store)
  BY <1>3, <1>4 DEF Sound
<1>6. TypeOK
  <2>1. \A j \in Jobs : store[j].stored = "yes" /\ ~store[j].enabled => store[j].next = NoTime
    BY <1>3 DEF Good
  <2>2. /\ boot = "down" /\ interrupted = {} /\ deferred = {} /\ armed = FALSE
        /\ running = FALSE /\ runs = {} /\ unguarded = [j \in Jobs |-> FALSE]
        /\ putOff = {} /\ edits = 0 /\ crashes = 0
    BY DEF Init
  <2> QED  BY <1>2, <1>4, <2>1, <2>2 DEF TypeOK
<1> QED  BY <1>5, <1>6 DEF Init, CronInv, Quiet, TimerKept, Marked, Guarded, Alone, Holders
-----------------------------------------------------------------------------
(* Every step preserves the invariant: first those of start().              *)
LEMMA StartClearsInv == CronInv /\ StartClears => CronInv'
<1> SUFFICES ASSUME CronInv, StartClears PROVE CronInv'
  OBVIOUS
<1>1. runs = {} /\ runs' = {} /\ Guard /\ boot' = "planning"
  BY DEF StartClears, CronInv, Quiet
<1>2. Sound(store') /\ \A j \in Jobs : store'[j].marked = NoTime
  <2>1. \A j \in Jobs : store'[j] = [store[j] EXCEPT !.marked = NoTime]
    BY DEF StartClears
  <2>2. \A j \in Jobs : store[j] \in Job /\ Good(j, store[j])
    BY DEF CronInv, Sound
  <2>3. ASSUME NEW j \in Jobs PROVE Good(j, store'[j]) /\ store'[j].marked = NoTime
    <3>1. /\ store'[j] \in Job /\ store'[j].marked = NoTime
          /\ store'[j].stored = store[j].stored /\ store'[j].enabled = store[j].enabled
          /\ store'[j].next = store[j].next /\ store'[j].lastStatus = store[j].lastStatus
          /\ store'[j].base = store[j].base /\ store'[j].lastRun = store[j].lastRun
      <4>1. store[j] \in Job /\ NoTime \in Times
        BY <2>2 DEF Times
      <4> QED  BY <2>1, <4>1 DEF Job
    <3> QED  BY <2>2, <3>1 DEF Good, Fair, Over
  <2>4. store' \in [Jobs -> Job]
    BY <2>3 DEF StartClears, Good, Fair
  <2> QED  BY <2>3, <2>4 DEF Sound
<1>3. RunsOK'
  BY <1>1 DEF RunsOK
<1>4. OthersOK'
  BY <1>1, Parts, GuardGives DEF OthersOK, StartClears
<1>5. Marked' /\ Quiet' /\ TimerKept'
  BY <1>1, <1>2 DEF Marked, Quiet, TimerKept
<1>6. Alone' /\ Guarded'
  <2>1. \A j \in Jobs : Holders(runs', j) = {}
    BY <1>1 DEF Holders
  <2> QED  BY <1>1, <2>1, AloneFewer DEF CronInv, Guarded
<1> QED  BY <1>1, <1>2, <1>3, <1>4, <1>5, <1>6, Together DEF StartClears

LEMMA StartPlansInv == CronInv /\ StartPlans => CronInv'
<1> SUFFICES ASSUME CronInv, StartPlans PROVE CronInv'
  OBVIOUS
<1> DEFINE missed == {j \in Jobs : MissedAtStart(j)}
<1>1. PICK chosen \in SUBSET missed :
         /\ deferred' = missed \ chosen
         /\ store' = Mark(store, chosen)
         /\ runs' = runs \cup {NewRun("start", j) : j \in chosen}
         /\ boot' = IF missed = {} THEN "arming" ELSE "running"
  BY DEF StartPlans
<1>2. boot = "planning" /\ Guard /\ TypeOK
  BY DEF StartPlans, CronInv
<1>3. \A j \in chosen : j \in Jobs /\ store[j].stored = "yes" /\ store[j].marked = NoTime
  BY DEF MissedAtStart
<1>4. /\ Sound(store')
      /\ \A j \in Jobs : store'[j].marked = IF j \in chosen THEN now ELSE store[j].marked
  BY <1>1, <1>2, <1>3, MarkSound DEF CronInv
<1>5. /\ Alone' /\ runs' \subseteq Run
      /\ \A r \in runs' \ runs : r.by = "start" /\ r.phase = "due"
      /\ chosen = {} => runs' = runs
      /\ \A j \in Jobs : j \in chosen \/ Holders(runs, j) # {} => Holders(runs', j) # {}
      /\ \A j \in Jobs : j \notin chosen => Holders(runs', j) = Holders(runs, j)
  <2>1. "start" \in Actors /\ chosen \in SUBSET Jobs
    BY <1>3 DEF Actors
  <2> HIDE DEF missed
  <2>2. /\ TypeOK /\ Alone /\ Guarded /\ Guard /\ \A j \in chosen : store[j].marked = NoTime
        /\ runs' = runs \cup {NewRun("start", j) : j \in chosen}
    BY <1>1, <1>2, <1>3 DEF CronInv
  <2> QED  BY <2>1, <2>2, NewBatch
<1>6. RunsOK'
  <2>1. \A r \in runs : r.by # "start"
    BY <1>2, Parts DEF RunsOK
  <2>2. chosen # {} => boot' = "running"
    BY <1>1
  <2>3. running' = running
    BY DEF StartPlans
  <2>4. RunsOK
    BY Parts
  <2> QED  BY <1>5, <2>1, <2>2, <2>3, <2>4 DEF RunsOK
<1>7. OthersOK'
  BY <1>1, <1>2, Parts, GuardGives DEF OthersOK, StartPlans
<1>8. Marked' /\ Quiet' /\ TimerKept'
  BY <1>1, <1>2, <1>4, <1>5 DEF Marked, Quiet, TimerKept, CronInv
<1>9. Guarded'
  <2>1. now # NoTime
    BY <1>2 DEF TypeOK, NoTime
  <2> QED  BY <1>2, <1>4, <1>5, <2>1, GuardedStays DEF CronInv
<1> QED  BY <1>2, <1>4, <1>5, <1>6, <1>7, <1>8, <1>9, Together DEF StartPlans

(* The deferred jobs get times of their own.                                *)
Spread(s, later, rank) ==
    [j \in Jobs |-> IF j \in later
                    THEN [s[j] EXCEPT !.next = now + Stagger * rank[j]]
                    ELSE s[j]]

LEMMA SpreadFair ==
    ASSUME TypeOK, NEW s, AllFair(s), NEW later \in SUBSET Jobs,
           NEW rank \in [later -> 1 .. Cardinality(later)]
    PROVE  /\ AllFair(Spread(s, later, rank))
           /\ \A j \in Jobs : /\ Spread(s, later, rank)[j].marked = s[j].marked
                              /\ Spread(s, later, rank)[j].enabled = s[j].enabled
<1> DEFINE d == Spread(s, later, rank)
<1>1. Cardinality(later) \in Nat
  BY CronAssumption, FS_Subset, FS_CardinalityType
<1>2. ASSUME NEW j \in Jobs
      PROVE  Fair(j, d[j]) /\ d[j].marked = s[j].marked /\ d[j].enabled = s[j].enabled
  <2>1. Fair(j, s[j]) /\ s[j] \in Job
    BY DEF AllFair
  <2>2. CASE j \notin later
    BY <2>1, <2>2 DEF Spread
  <2>3. CASE j \in later
    <3> DEFINE next == now + Stagger * rank[j]
    <3>1. rank[j] \in 1 .. Cardinality(later)
      BY <2>3
    <3>2. rank[j] \in Nat
      BY <1>1, <3>1
    <3>3. next \in Nat
      <4>1. now \in Nat /\ Stagger \in Nat
        BY CronAssumption DEF TypeOK
      <4>2. Stagger * rank[j] \in Nat
        BY <3>2, <4>1
      <4> QED  BY <4>1, <4>2
    <3>4. d[j] = [s[j] EXCEPT !.next = next]
      BY <2>3 DEF Spread
    <3> HIDE DEF next, d
    <3>5. next \in Times /\ next # NoTime
      BY <3>3 DEF Times, NoTime
    <3>6. /\ d[j] \in Job /\ d[j].next = next /\ d[j].marked = s[j].marked
          /\ d[j].stored = s[j].stored /\ d[j].enabled = s[j].enabled
      BY <2>1, <3>4, <3>5 DEF Job
    <3> QED  BY <2>1, <3>5, <3>6 DEF Fair
  <2> QED  BY <2>2, <2>3
<1> QED  BY <1>2 DEF AllFair, Fair, Spread

LEMMA StartAppliesInv == CronInv /\ StartApplies => CronInv'
<1> SUFFICES ASSUME CronInv, StartApplies PROVE CronInv'
  OBVIOUS
<1> DEFINE s == AllSettled(store, EndedOf("start"))
           later == {j \in deferred : s[j].stored = "yes" /\ s[j].enabled}
<1>1. PICK rank \in [later -> 1 .. Cardinality(later)] :
         /\ putOff' = putOff \cup {j \in later : Done(s, j)}
         /\ store' = Maintained(Spread(s, later, rank), FALSE)
  BY DEF StartApplies, Spread
<1> DEFINE d == Spread(s, later, rank)
<1>2. boot = "running" /\ boot' = "arming" /\ Guard /\ Settle("start") /\ TypeOK
  BY DEF StartApplies, CronInv
<1>3. /\ \A j \in Jobs : Holders(runs', j) \subseteq Holders(runs, j)
      /\ AllFair(s)
      /\ \A j \in Jobs : s[j].marked # NoTime => Holders(runs', j) # {}
      /\ \A j \in Jobs : ~unguarded[j] /\ Holders(runs', j) # {} => s[j] = store[j]
  BY <1>2, BatchLeaves
<1> HIDE DEF s
<1>4. later \subseteq Jobs
  BY <1>2 DEF TypeOK
<1>5. /\ AllFair(d)
      /\ \A j \in Jobs : d[j].marked = s[j].marked /\ d[j].enabled = s[j].enabled
  <2> HIDE DEF later
  <2> QED  BY <1>2, <1>3, <1>4, SpreadFair
<1>6. /\ Sound(store')
      /\ \A j \in Jobs :
            /\ store'[j].marked \in {s[j].marked, NoTime}
            /\ store'[j].marked # s[j].marked => ~store'[j].enabled \/ Stuck(s[j])
  <2>1. store' = Maintained(d, FALSE)
    BY <1>1
  <2> HIDE DEF d
  <2>2. Maintains(d, store')
    BY <1>2, <1>5, <2>1, MaintainedSound
  <2>3. \A j \in Jobs : d[j].marked = s[j].marked /\ d[j].enabled = s[j].enabled
    BY <1>5
  <2> QED  BY <2>2, <2>3 DEF Maintains, Stuck
<1>7. RunsOK'
  <2>1. RunsOK /\ running' = running
    BY Parts DEF StartApplies
  <2> QED  BY <1>2, <2>1, RunsOKFewer DEF RunsOK
<1>8. OthersOK'
  <2>1. putOff' \subseteq Jobs
    BY <1>1, <1>2, <1>4 DEF TypeOK
  <2>2. OthersOK
    BY Parts
  <2> HIDE DEF later
  <2> QED  BY <1>2, <2>1, <2>2, GuardGives DEF OthersOK, StartApplies
<1>9. Marked' /\ Quiet' /\ TimerKept'
  BY <1>2, <1>3, <1>6 DEF Marked, Quiet, TimerKept
<1>10. Alone' /\ Guarded'
  <2> HIDE DEF later, d
  <2> QED  BY <1>2, <1>3, <1>6, AloneFewer, GuardedStays DEF CronInv
<1> QED  BY <1>2, <1>6, <1>7, <1>8, <1>9, <1>10, Together DEF StartApplies

LEMMA StartArmsInv == CronInv /\ StartArms => CronInv'
<1> SUFFICES ASSUME CronInv, StartArms PROVE CronInv'
  OBVIOUS
<1>1. /\ boot = "arming" /\ boot' = "up" /\ Guard /\ TypeOK /\ runs' = runs
      /\ store' = Recomputed(store) /\ armed' = Wakes(store')
  BY DEF StartArms, CronInv
<1>2. AllFair(store)
  BY DEF CronInv, Sound, AllFair, Good
<1>3. Maintains(store, store') /\ Sound(store')
      /\ \A j \in Jobs : store'[j].marked \in {store[j].marked, NoTime}
  BY <1>1, <1>2, RecomputedSound DEF Maintains
<1>4. RunsOK'
  BY <1>1, Parts DEF RunsOK, StartArms
<1>5. OthersOK'
  BY <1>1, Parts, GuardGives DEF OthersOK, StartArms, Wakes
<1>6. Marked' /\ Quiet' /\ TimerKept'
  BY <1>1, <1>3, MarkersStay, TimerSet DEF Quiet, CronInv
<1>7. Alone' /\ Guarded'
  BY <1>1, <1>3, MaintainsGuarded DEF CronInv
<1> QED  BY <1>1, <1>3, <1>4, <1>5, <1>6, <1>7, Together DEF StartArms
-----------------------------------------------------------------------------
(* The timer's ticks and the runs.                                          *)
LEMMA TimerFiresInv == CronInv /\ TimerFires => CronInv'
<1> SUFFICES ASSUME CronInv, TimerFires PROVE CronInv'
  OBVIOUS
<1> DEFINE due == {j \in Jobs : Due(store[j])}
<1>1. /\ armed /\ ~running /\ Guard /\ boot' = boot /\ TypeOK /\ kind' = kind
      /\ store' = IF due = {} THEN Maintained(store, TRUE) ELSE Mark(store, due)
      /\ runs' = runs \cup {NewRun("tick", j) : j \in due}
      /\ running' = (due # {})
      /\ armed' = IF due = {} THEN Wakes(store') ELSE TRUE
  BY DEF TimerFires, CronInv
<1>2. \A j \in due : j \in Jobs /\ store[j].stored = "yes" /\ store[j].marked = NoTime
  BY DEF Due
<1>3. boot # "down" /\ AllFair(store)
  BY <1>1 DEF CronInv, Quiet, Sound, AllFair, Good
<1>4. /\ Alone' /\ runs' \subseteq Run
      /\ \A r \in runs' \ runs : r.by = "tick" /\ r.phase = "due"
      /\ due = {} => runs' = runs
      /\ \A j \in Jobs : j \in due \/ Holders(runs, j) # {} => Holders(runs', j) # {}
      /\ \A j \in Jobs : j \notin due => Holders(runs', j) = Holders(runs, j)
  <2>1. "tick" \in Actors /\ due \in SUBSET Jobs
    BY DEF Actors
  <2> HIDE DEF due
  <2>2. /\ TypeOK /\ Alone /\ Guarded /\ Guard /\ \A j \in due : store[j].marked = NoTime
        /\ runs' = runs \cup {NewRun("tick", j) : j \in due}
    BY <1>1, <1>2 DEF CronInv
  <2> QED  BY <2>1, <2>2, NewBatch
<1> HIDE DEF due
<1>5. /\ Sound(store') /\ Guarded'
      /\ \A j \in Jobs : store'[j].marked # NoTime => j \in due \/ store[j].marked # NoTime
  <2>1. CASE due = {}
    <3>1. Maintains(store, store')
      BY <1>1, <1>3, <2>1, MaintainedSound
    <3>2. Guarded'
      BY <1>1, <1>4, <2>1, <3>1, MaintainsGuarded DEF CronInv
    <3> QED  BY <3>1, <3>2 DEF Maintains
  <2>2. CASE due # {}
    <3>1. store' = Mark(store, due) /\ Sound(store) /\ TypeOK
      BY <1>1, <2>2 DEF CronInv
    <3>2. \A j \in due \cap Jobs : store[j].stored = "yes"
      BY <1>2
    <3>3. \A j \in Jobs : store'[j].marked = IF j \in due THEN now ELSE store[j].marked
      BY <3>1, <3>2, MarkSound
    <3>4. Sound(store')
      BY <3>1, <3>2, MarkSound
    <3>5. now # NoTime
      BY <3>1 DEF TypeOK, NoTime
    <3>6. Guarded'
      BY <1>1, <1>4, <3>3, <3>5, GuardedStays DEF CronInv
    <3> QED  BY <3>3, <3>4, <3>6
  <2> QED  BY <2>1, <2>2
<1>6. RunsOK'
  <2>1. \A r \in runs : r.by # "tick"
    BY <1>1, Parts DEF RunsOK
  <2>2. \A r \in runs' : r \in runs \/ (r.by = "tick" /\ r.phase = "due" /\ running')
    BY <1>1, <1>4
  <2>3. RunsOK
    BY Parts
  <2> QED  BY <1>1, <1>4, <2>1, <2>2, <2>3 DEF RunsOK
<1>7. OthersOK'
  <2>1. armed' \in BOOLEAN /\ running' \in BOOLEAN
    BY <1>1 DEF Wakes
  <2>2. OthersOK /\ unguarded' \in [Jobs -> BOOLEAN]
    BY <1>1, Parts, GuardGives
  <2> QED  BY <2>1, <2>2 DEF OthersOK, TimerFires
<1>8. Marked'
  BY <1>3, <1>4, <1>5 DEF Marked, CronInv
<1>9. TimerKept'
  <2>1. CASE due = {}
    BY <1>1, <2>1, TimerSet
  <2>2. CASE due # {}
    BY <1>1, <2>2 DEF TimerKept
  <2> QED  BY <2>1, <2>2
<1>10. Quiet'
  BY <1>1, <1>3 DEF Quiet
<1> QED  BY <1>1, <1>4, <1>5, <1>6, <1>7, <1>8, <1>9, <1>10, Together

LEMMA TickAppliesInv == CronInv /\ TickApplies => CronInv'
<1> SUFFICES ASSUME CronInv, TickApplies PROVE CronInv'
  OBVIOUS
<1> DEFINE s == AllSettled(store, EndedOf("tick"))
<1>1. /\ running /\ Settle("tick") /\ store' = Maintained(s, FALSE) /\ running' = FALSE
      /\ armed' = Wakes(store') /\ boot' = boot /\ kind' = kind /\ Guard /\ TypeOK
  BY DEF TickApplies, CronInv
<1>2. boot # "down"
  BY <1>1 DEF CronInv, Quiet
<1>3. /\ \A j \in Jobs : Holders(runs', j) \subseteq Holders(runs, j)
      /\ AllFair(s)
      /\ \A j \in Jobs : s[j].marked # NoTime => Holders(runs', j) # {}
      /\ \A j \in Jobs : ~unguarded[j] /\ Holders(runs', j) # {} => s[j] = store[j]
  BY <1>1, <1>2, BatchLeaves
<1> HIDE DEF s
<1>4. /\ Sound(store')
      /\ \A j \in Jobs :
            /\ store'[j].marked \in {s[j].marked, NoTime}
            /\ store'[j].marked # s[j].marked => ~store'[j].enabled \/ Stuck(s[j])
  BY <1>1, <1>3, MaintainedSound DEF Maintains
<1>5. RunsOK'
  BY <1>1, Parts, RunsOKFewer DEF RunsOK
<1>6. OthersOK'
  BY <1>1, Parts, GuardGives DEF OthersOK, TickApplies, Wakes
<1>7. Marked' /\ Quiet' /\ TimerKept'
  BY <1>1, <1>2, <1>3, <1>4, TimerSet DEF Marked, Quiet
<1>8. Alone' /\ Guarded'
  BY <1>1, <1>3, <1>4, AloneFewer, GuardedStays DEF CronInv
<1> QED  BY <1>1, <1>4, <1>5, <1>6, <1>7, <1>8, Together

LEMMA BeginInv == ASSUME CronInv, NEW r \in runs, Begin(r) PROVE CronInv'
<1> DEFINE new == [r EXCEPT !.phase = "running", !.at = now]
<1>1. /\ r.phase = "due" /\ runs' = (runs \ {r}) \cup {new} /\ Guard /\ TypeOK
      /\ boot' = boot /\ kind' = kind /\ running' = running /\ armed' = armed
  BY DEF Begin, CronInv
<1>2. store' = store \/ (store[r.job].stored = "yes" /\ store' = Mark(store, {r.job}))
  BY DEF Begin
<1>3. r \in Run /\ RunsOK /\ boot # "down"
  BY Parts DEF CronInv, RunsOK, Quiet
<1>4. new \in Run /\ new.phase = "running" /\ new.job = r.job /\ new.by = r.by
  BY <1>1, <1>3 DEF Run, TypeOK
<1> HIDE DEF new
<1>5. /\ Alone'
      /\ \A j \in Jobs : Holders(runs, j) # {} => Holders(runs', j) # {}
      /\ \A j \in Jobs : Holders(runs', j) # {} => Holders(runs, j) # {}
  BY <1>1, <1>4, GuardGives, AloneOn DEF CronInv
<1>6. /\ Sound(store')
      /\ \A j \in Jobs :
            /\ store'[j].stored = store[j].stored /\ store'[j].enabled = store[j].enabled
            /\ store'[j].next = store[j].next
            /\ j # r.job => store'[j].marked = store[j].marked
            /\ store'[j].marked \in {store[j].marked, now}
  <2>1. CASE store' = store
    BY <2>1 DEF CronInv
  <2>2. CASE store[r.job].stored = "yes" /\ store' = Mark(store, {r.job})
    <3>1. Sound(store) /\ TypeOK /\ \A j \in {r.job} \cap Jobs : store[j].stored = "yes"
      BY <1>1, <2>2 DEF CronInv
    <3> QED  BY <2>2, <3>1, MarkSound
  <2> QED  BY <1>2, <2>1, <2>2
<1>7. RunsOK'
  BY <1>1, <1>3, <1>4 DEF RunsOK
<1>8. OthersOK'
  BY <1>1, Parts, GuardGives DEF OthersOK, Begin
<1>9. Marked'
  <2>1. Holders(runs', r.job) # {}
    BY <1>1, <1>4 DEF Holders
  <2> QED  BY <1>3, <1>5, <1>6, <2>1 DEF Marked, CronInv
<1>10. Quiet' /\ TimerKept'
  BY <1>1, <1>3, <1>6, TimerStays DEF Quiet, CronInv
<1>11. Guarded'
  <2>1. now # NoTime
    BY <1>1 DEF TypeOK, NoTime
  <2> QED  BY <1>1, <1>5, <1>6, <2>1, GuardedStays DEF CronInv
<1> QED  BY <1>1, <1>5, <1>6, <1>7, <1>8, <1>9, <1>10, <1>11, Together

LEMMA EndInv == ASSUME CronInv, NEW r \in runs, End(r) PROVE CronInv'
<1>1. PICK result \in Results :
         runs' = (runs \ {r}) \cup {[r EXCEPT !.phase = "ended", !.until = now,
                                            !.result = result]}
  BY DEF End, Results
<1> DEFINE new == [r EXCEPT !.phase = "ended", !.until = now, !.result = result]
<1>2. /\ r.phase = "running" /\ TypeOK /\ store' = store /\ Guard
      /\ boot' = boot /\ kind' = kind /\ running' = running /\ armed' = armed
  BY DEF End, CronInv
<1>3. r \in Run /\ RunsOK /\ boot # "down"
  BY Parts DEF CronInv, RunsOK, Quiet
<1>4. new \in Run /\ new.phase = "ended" /\ new.job = r.job /\ new.by = r.by
  BY <1>2, <1>3 DEF Run, TypeOK
<1>5. runs' = (runs \ {r}) \cup {new}
  BY <1>1
<1> HIDE DEF new
<1>6. /\ Alone'
      /\ \A j \in Jobs : Holders(runs, j) # {} => Holders(runs', j) # {}
      /\ \A j \in Jobs : Holders(runs', j) # {} => Holders(runs, j) # {}
  BY <1>2, <1>4, <1>5, AloneOn, GuardGives DEF CronInv
<1>7. Sound(store')
  BY <1>2 DEF CronInv
<1>8. RunsOK'
  BY <1>2, <1>3, <1>4, <1>5 DEF RunsOK
<1>9. OthersOK'
  BY <1>2, Parts, GuardGives DEF OthersOK, End
<1>10. Marked' /\ Guarded'
  BY <1>2, <1>3, <1>6, GuardedStays DEF Marked, CronInv
<1>11. Quiet' /\ TimerKept'
  BY <1>2, <1>3, TimerStays DEF Quiet, CronInv
<1> QED  BY <1>2, <1>6, <1>7, <1>8, <1>9, <1>10, <1>11, Together

(* A reservation finds no marker: the run it begins is the only one, or     *)
(* another one has lost its marker.                                         *)
LEMMA ReserveInv == ASSUME CronInv, NEW r \in runs, Reserve(r) PROVE CronInv'
<1> DEFINE new == Reserved(r)
           free == store[r.job].stored = "yes" /\ store[r.job].marked = NoTime
<1>1. /\ r.phase = "checked" /\ Guard /\ TypeOK
      /\ boot' = boot /\ kind' = kind /\ running' = running /\ armed' = armed
      /\ IF free THEN /\ runs' = (runs \ {r}) \cup {new}
                      /\ store' = [store EXCEPT ![r.job].marked = r.at]
         ELSE runs' = runs \ {r} /\ store' = store
  BY DEF Reserve, CronInv
<1>2. r \in Run /\ RunsOK /\ boot # "down"
  BY Parts DEF CronInv, RunsOK, Quiet
<1>3. /\ new \in Run /\ new.phase = "running" /\ new.job = r.job /\ new.by = r.by
      /\ r.job \in Jobs /\ r.at \in Times /\ r.at # NoTime
  <2>1. r.job \in Jobs /\ r.at \in Times /\ r.at # NoTime
    BY <1>2 DEF Run, Times, NoTime
  <2>2. new \in Run /\ new.phase = "running" /\ new.job = r.job /\ new.by = r.by
    BY <1>2 DEF Run, Reserved
  <2> QED  BY <2>1, <2>2
<1> HIDE DEF new
<1>4. /\ Sound(store')
      /\ \A j \in Jobs :
            /\ store'[j].stored = store[j].stored /\ store'[j].enabled = store[j].enabled
            /\ store'[j].next = store[j].next
            /\ j # r.job => store'[j].marked = store[j].marked
            /\ store'[j].marked \in {store[j].marked, r.at}
            /\ free => store'[r.job].marked = r.at
  <2>1. CASE ~free
    BY <1>1, <2>1 DEF CronInv
  <2>2. CASE free
    <3> DEFINE job == [store[r.job] EXCEPT !.marked = r.at]
    <3>1. store[r.job] \in Job /\ Good(r.job, store[r.job]) /\ store[r.job].stored = "yes"
      BY <1>3, <2>2 DEF CronInv, Sound
    <3>2. /\ job \in Job /\ job.stored = "yes" /\ job.enabled = store[r.job].enabled
          /\ job.next = store[r.job].next /\ job.lastStatus = store[r.job].lastStatus
          /\ job.base = store[r.job].base /\ job.lastRun = store[r.job].lastRun
          /\ job.marked = r.at
      BY <1>3, <3>1 DEF Job
    <3>3. store' = [store EXCEPT ![r.job] = job]
      BY <1>1, <2>2
    <3> HIDE DEF job
    <3>4. Good(r.job, job)
      BY <3>1, <3>2 DEF Good, Fair, Over
    <3>5. store \in [Jobs -> Job] /\ \A j \in Jobs : Good(j, store[j])
      BY DEF CronInv, Sound
    <3>6. store'[r.job] = job /\ \A j \in Jobs \ {r.job} : store'[j] = store[j]
      BY <1>3, <3>3, <3>5
    <3>7. Sound(store')
      BY <3>2, <3>3, <3>4, <3>5, <3>6 DEF Sound
    <3>8. /\ job.stored = store[r.job].stored /\ job.enabled = store[r.job].enabled
          /\ job.next = store[r.job].next /\ job.marked = r.at
      BY <3>1, <3>2
    <3> QED  BY <3>6, <3>7, <3>8
  <2> QED  BY <2>1, <2>2
<1>5. \A j \in Jobs : Holders(runs', j) =
         IF free /\ j = r.job THEN Holders(runs, j) \cup {new} ELSE Holders(runs, j)
  BY <1>1, <1>3 DEF Holders
<1>6. Alone'
  <2> DEFINE js == IF free THEN {r.job} ELSE {}
  <2>1. js \in SUBSET Jobs /\ \A j \in js : store[j].marked = NoTime
    BY <1>3
  <2>2. ASSUME NEW j \in Jobs
        PROVE  IF j \in js
               THEN \A q, p \in Holders(runs', j) \ Holders(runs, j) : q = p
               ELSE Holders(runs', j) \subseteq Holders(runs, j)
    BY <1>5
  <2> HIDE DEF js
  <2> QED  BY <1>1, <2>1, <2>2, AloneMore DEF CronInv
<1>7. RunsOK'
  BY <1>1, <1>2, <1>3 DEF RunsOK
<1>8. OthersOK'
  BY <1>1, Parts, GuardGives DEF OthersOK, Reserve
<1>9. Marked'
  BY <1>1, <1>2, <1>4, <1>5 DEF Marked, CronInv
<1>10. Quiet' /\ TimerKept'
  BY <1>1, <1>2, <1>4, TimerStays DEF Quiet, CronInv
<1>11. Guarded'
  BY <1>1, <1>3, <1>4, <1>5, GuardedStays DEF CronInv
<1> QED  BY <1>1, <1>4, <1>6, <1>7, <1>8, <1>9, <1>10, <1>11, Together

LEMMA ManualAppliesInv == ASSUME CronInv, NEW m \in Manuals, ManualApplies(m) PROVE CronInv'
<1> DEFINE s == AllSettled(store, EndedOf(m))
<1>1. /\ Settle(m) /\ runs # {} /\ boot' = boot /\ kind' = kind /\ running' = running
      /\ Guard /\ TypeOK
      /\ \/ store' = Maintained(s, TRUE) /\ armed' = Wakes(store')
         \/ /\ ~\E r \in EndedOf(m) : store[r.job].stored = "yes"
            /\ store' = store /\ armed' = armed
  <2>1. m # "start"
    BY CronAssumption
  <2> QED  BY <2>1 DEF ManualApplies, CronInv, Settle, Settling
<1>2. boot # "down"
  BY <1>1 DEF CronInv, Quiet
<1>3. /\ AllFair(s) /\ EndedOf(m) \in SUBSET Run
      /\ \A j \in Jobs : Holders(runs', j) \subseteq Holders(runs, j)
      /\ \A j \in Jobs : s[j].marked # NoTime => Holders(runs', j) # {}
      /\ \A j \in Jobs : ~unguarded[j] /\ Holders(runs', j) # {} => s[j] = store[j]
  BY <1>1, <1>2, BatchLeaves
<1>4. /\ Sound(store') /\ TimerKept' /\ armed' \in BOOLEAN
      /\ \A j \in Jobs : store'[j].marked # NoTime => Holders(runs', j) # {}
      /\ \A j \in Jobs :
            store'[j].marked # s[j].marked => ~store'[j].enabled \/ Stuck(s[j])
  <2>1. CASE store' = Maintained(s, TRUE) /\ armed' = Wakes(store')
    <3> HIDE DEF s
    <3>1. Maintains(s, store')
      BY <1>1, <1>3, <2>1, MaintainedSound
    <3> QED  BY <1>3, <2>1, <3>1, TimerSet DEF Maintains, Wakes
  <2>2. CASE /\ ~\E r \in EndedOf(m) : store[r.job].stored = "yes"
             /\ store' = store /\ armed' = armed
    <3>1. \A j \in Jobs : s[j] = store[j]
      BY <2>2 DEF AllSettled
    <3> HIDE DEF s
    <3>2. \A j \in Jobs : store'[j].marked # NoTime => Holders(runs', j) # {}
      BY <1>3, <2>2, <3>1
    <3> QED  BY <1>1, <2>2, <3>1, <3>2, TimerStays DEF CronInv, TypeOK
  <2> QED  BY <1>1, <2>1, <2>2
<1>5. RunsOK'
  BY <1>1, Parts, RunsOKFewer DEF RunsOK
<1>6. OthersOK'
  BY <1>1, <1>4, Parts, GuardGives DEF OthersOK, ManualApplies
<1>7. Marked' /\ Quiet'
  BY <1>1, <1>2, <1>4 DEF Marked, Quiet
<1>8. Alone' /\ Guarded'
  <2> HIDE DEF s
  <2> QED  BY <1>1, <1>3, <1>4, AloneFewer, GuardedStays DEF CronInv
<1> QED  BY <1>1, <1>4, <1>5, <1>6, <1>7, <1>8, Together
-----------------------------------------------------------------------------
(* Clients.  An edit of one job ends with armTimer and leaves the runs.     *)
LEMMA EditInv ==
    ASSUME CronInv, NEW j \in Jobs, Add(j) \/ Update(j) \/ Remove(j),
           Sound(store'),
           \A k \in Jobs :
              /\ store'[k].marked \in {store[k].marked, NoTime}
              /\ store'[k].marked # store[k].marked =>
                    ~store'[k].enabled \/ Stuck(store[k])
    PROVE  CronInv'
<1>1. /\ Client /\ armed' = Wakes(store') /\ runs' = runs /\ Guard /\ TypeOK
      /\ boot' = boot /\ kind' = kind /\ running' = running /\ boot # "down"
  BY DEF Add, Update, Remove, Client, CronInv
<1>2. RunsOK'
  BY <1>1, Parts DEF RunsOK
<1>3. OthersOK'
  <2>1. /\ now' = now /\ interrupted' = interrupted /\ deferred' = deferred
        /\ putOff' = putOff /\ crashes' = crashes /\ edits' = edits + 1
    BY DEF Add, Update, Remove, Client
  <2> QED  BY <1>1, <2>1, Parts, GuardGives DEF OthersOK, Wakes
<1>4. Marked' /\ Quiet' /\ TimerKept'
  BY <1>1, MarkersStay, TimerSet DEF Quiet, CronInv
<1>5. Alone' /\ Guarded'
  BY <1>1, AloneFewer, GuardedStays DEF CronInv, Holders
<1> QED  BY <1>1, <1>2, <1>3, <1>4, <1>5, Together

(* One job of a store is replaced.                                          *)
LEMMA ReplacedFair ==
    ASSUME Sound(store), NEW j \in Jobs, NEW job, Good(j, job),
           NEW t, t = [store EXCEPT ![j] = job]
    PROVE  /\ Sound(t) /\ AllFair(t)
           /\ \A k \in Jobs : t[k] = IF k = j THEN job ELSE store[k]
<1>1. store \in [Jobs -> Job] /\ job \in Job /\ \A k \in Jobs : Good(k, store[k])
  BY DEF Sound, Good, Fair
<1>2. /\ t \in [Jobs -> Job]
      /\ \A k \in Jobs : t[k] = IF k = j THEN job ELSE store[k]
  BY <1>1
<1>3. \A k \in Jobs : Good(k, t[k])
  BY <1>1, <1>2
<1>4. Sound(t) /\ AllFair(t)
  BY <1>2, <1>3 DEF Sound, AllFair, Good
<1> QED  BY <1>2, <1>4

LEMMA BaseIsNat == ASSUME TypeOK, NEW j \in Jobs PROVE Base(j) \in Nat
<1>1. now \in Nat
  BY DEF TypeOK
<1> QED  BY <1>1 DEF Base

LEMMA AddInv == ASSUME CronInv, NEW j \in Jobs, Add(j) PROVE CronInv'
<1> DEFINE job == Fresh(j, Base(j), now)
           t == [store EXCEPT ![j] = job]
<1>1. TypeOK /\ Sound(store) /\ store' = Recomputed(t) /\ store[j].marked = NoTime
  BY DEF Add, CronInv, Sound, Good, Fair
<1>2. Good(j, job) /\ job.marked = NoTime
  BY <1>1, BaseIsNat, FreshGood DEF TypeOK
<1> HIDE DEF job
<1>3. AllFair(t) /\ \A k \in Jobs : t[k].marked = store[k].marked
  BY <1>1, <1>2, ReplacedFair
<1> HIDE DEF t
<1>4. Maintains(t, store')
  BY <1>1, <1>3, RecomputedSound
<1>5. /\ Sound(store')
      /\ \A k \in Jobs :
            /\ store'[k].marked \in {store[k].marked, NoTime}
            /\ store'[k].marked # store[k].marked => ~store'[k].enabled \/ Stuck(store[k])
  BY <1>3, <1>4 DEF Maintains, Stuck
<1> QED  BY <1>5, EditInv

LEMMA UpdateInv == ASSUME CronInv, NEW j \in Jobs, Update(j) PROVE CronInv'
<1>1. /\ TypeOK /\ Sound(store) /\ store[j] \in Job /\ store[j].stored = "yes"
      /\ kind \in [Jobs -> {"every", "at", "cron"}] /\ now \in Nat
  BY DEF Update, CronInv, Sound, TypeOK
<1>2. PICK job \in {[store[j] EXCEPT !.enabled = ~store[j].enabled],
                    [store[j] EXCEPT !.base = Base(j)]} :
         store' = [store EXCEPT ![j] =
                      [job EXCEPT !.next = NextRun(j, job, now),
                                  !.marked = IF job.enabled THEN job.marked ELSE NoTime]]
  BY DEF Update
<1>3. job \in Job /\ job.stored = "yes" /\ job.marked = store[j].marked
  <2>1. Base(j) \in Nat
    BY <1>1, BaseIsNat
  <2> QED  BY <1>1, <1>2, <2>1 DEF Job
<1> DEFINE marker == IF job.enabled THEN job.marked ELSE NoTime
           new == [job EXCEPT !.next = NextRun(j, job, now), !.marked = marker]
<1>4. marker \in Times /\ marker = IF job.enabled THEN store[j].marked ELSE NoTime
  BY <1>3 DEF Job, Times
<1>5. store' = [store EXCEPT ![j] = new]
  BY <1>2
<1> HIDE DEF marker
<1>6. Good(j, new) /\ new.marked = marker /\ new.enabled = job.enabled
  <2>1. /\ NextRun(j, job, now) \in Times
        /\ ~job.enabled => NextRun(j, job, now) = NoTime
        /\ job.enabled /\ NextRun(j, job, now) = NoTime => Over(j, job)
    BY <1>1, <1>3, NextRunGood
  <2>2. /\ new \in Job /\ new.stored = "yes" /\ new.enabled = job.enabled
        /\ new.next = NextRun(j, job, now) /\ new.lastStatus = job.lastStatus
        /\ new.base = job.base /\ new.lastRun = job.lastRun /\ new.marked = marker
    BY <1>3, <1>4, <2>1 DEF Job
  <2> HIDE DEF new
  <2> QED  BY <2>1, <2>2 DEF Good, Fair, Over
<1> HIDE DEF new
<1>7. /\ Sound(store')
      /\ \A k \in Jobs :
            /\ store'[k].marked \in {store[k].marked, NoTime}
            /\ store'[k].marked # store[k].marked => ~store'[k].enabled
  <2> DEFINE t == [store EXCEPT ![j] = new]
  <2>1. Sound(t) /\ \A k \in Jobs : t[k] = IF k = j THEN new ELSE store[k]
    <3>1. Sound(store) /\ Good(j, new) /\ store \in [Jobs -> Job]
      BY <1>1, <1>6 DEF Sound
    <3>2. Sound(t)
      BY <3>1, ReplacedFair
    <3> QED  BY <3>1, <3>2
  <2>2. store' = t
    BY <1>5
  <2> HIDE DEF t
  <2> QED  BY <1>4, <1>6, <2>1, <2>2
<1> QED  BY <1>7, EditInv

LEMMA RemoveInv == ASSUME CronInv, NEW j \in Jobs, Remove(j) PROVE CronInv'
<1>1. store' = [store EXCEPT ![j] = Gone] /\ Sound(store)
  BY DEF Remove, CronInv
<1>2. Gone.marked = NoTime /\ ~Gone.enabled
  BY DEF Gone
<1>3. /\ Sound(store')
      /\ \A k \in Jobs :
            /\ store'[k].marked \in {store[k].marked, NoTime}
            /\ store'[k].marked # store[k].marked => ~store'[k].enabled
  <2> DEFINE t == [store EXCEPT ![j] = Gone]
  <2>1. Sound(t) /\ \A k \in Jobs : t[k] = IF k = j THEN Gone ELSE store[k]
    <3>1. Sound(store) /\ Good(j, Gone) /\ store \in [Jobs -> Job]
      BY <1>1, GoneGood DEF Sound
    <3>2. Sound(t)
      BY <3>1, ReplacedFair
    <3> QED  BY <3>1, <3>2
  <2>2. store' = t
    BY <1>1
  <2> HIDE DEF t
  <2> QED  BY <1>2, <2>1, <2>2
<1> QED  BY <1>3, EditInv

LEMMA PreflightInv ==
    ASSUME CronInv, NEW m \in Manuals, NEW j \in Jobs, Preflight(m, j) PROVE CronInv'
<1>1. /\ TypeOK /\ Guard /\ boot # "down" /\ store' = Maintained(store, FALSE)
      /\ boot' = boot /\ kind' = kind /\ running' = running /\ armed' = armed
  BY DEF Preflight, Client, CronInv
<1>2. PICK force \in BOOLEAN :
         runs' = runs \cup {CheckedRun(m, j, force)} \/ runs' = runs
  BY DEF Preflight
<1> DEFINE new == CheckedRun(m, j, force)
<1>3. new \in Run /\ new.by = m /\ new.phase = "checked"
  BY <1>1, CheckedRunTyped
<1> HIDE DEF new
<1>4. runs' = runs \cup {new} \/ runs' = runs
  BY <1>2 DEF new
<1>5. Maintains(store, store')
  <2>1. AllFair(store)
    BY DEF CronInv, Sound, AllFair, Good
  <2> QED  BY <1>1, <2>1, MaintainedSound
<1>6. \A k \in Jobs : Holders(runs', k) = Holders(runs, k)
  BY <1>3, <1>4 DEF Holders
<1>7. Alone' /\ Guarded'
  BY <1>1, <1>5, <1>6, MaintainsGuarded DEF CronInv
<1>8. RunsOK'
  <2>1. m # "start" /\ m # "tick"
    BY CronAssumption
  <2> QED  BY <1>1, <1>3, <1>4, <2>1, Parts DEF RunsOK
<1>9. OthersOK'
  BY <1>1, Parts, GuardGives DEF OthersOK, Preflight, Client
<1>10. Marked' /\ Quiet'
  BY <1>1, <1>5, <1>6 DEF Marked, Quiet, CronInv, Maintains
<1>11. Sound(store') /\ TimerKept'
  <2>1. \A k \in Jobs :
           store'[k].stored = "yes" /\ store'[k].enabled /\ store'[k].next # NoTime
           => store[k].stored = "yes" /\ store[k].enabled /\ store[k].next # NoTime
    BY <1>5 DEF Maintains
  <2> QED  BY <1>1, <1>5, <2>1, TimerStays DEF CronInv, Maintains
<1> QED  BY <1>1, <1>7, <1>8, <1>9, <1>10, <1>11, Together

LEMMA ElapseInv == CronInv /\ Elapse => CronInv'
<1> SUFFICES ASSUME CronInv, Elapse PROVE CronInv'
  OBVIOUS
<1>1. RunsOK' /\ OthersOK'
  BY Parts DEF RunsOK, OthersOK, Elapse
<1>2. Sound(store') /\ kind' = kind
  BY DEF Elapse, CronInv
<1>3. Quiet' /\ TimerKept' /\ Marked' /\ Guarded' /\ Alone'
  BY DEF Elapse, CronInv, Quiet, TimerKept, Marked, Guarded, Alone, Holders
<1> QED  BY <1>1, <1>2, <1>3, Together

LEMMA CrashInv == CronInv /\ Crash => CronInv'
<1> SUFFICES ASSUME CronInv, Crash PROVE CronInv'
  OBVIOUS
<1>1. boot' = "down" /\ runs' = {} /\ Guard /\ kind' = kind
  BY DEF Crash
<1>2. RunsOK'
  BY <1>1 DEF RunsOK
<1>3. OthersOK'
  <2>1. /\ now' = now /\ interrupted' = {} /\ deferred' = {} /\ putOff' = putOff
        /\ armed' = FALSE /\ running' = FALSE /\ edits' = edits /\ crashes' = crashes + 1
    BY DEF Crash
  <2>2. unguarded' \in [Jobs -> BOOLEAN]
    BY <1>1, GuardGives
  <2>3. OthersOK
    BY Parts
  <2>4. /\ boot' \in {"down", "planning", "running", "arming", "up"}
        /\ armed' \in BOOLEAN /\ running' \in BOOLEAN /\ kind' = kind
    BY <1>1, <2>1
  <2>5. crashes' \in Nat /\ putOff' \subseteq Jobs /\ interrupted' \subseteq Jobs
        /\ deferred' \subseteq Jobs
    BY <2>1, <2>3 DEF OthersOK
  <2> QED  BY <2>1, <2>2, <2>3, <2>4, <2>5 DEF OthersOK
<1>4. Sound(store') /\ Quiet' /\ TimerKept' /\ Marked'
  BY DEF Crash, CronInv, Quiet, TimerKept, Marked
<1>5. Alone' /\ Guarded'
  <2>1. \A j \in Jobs : Holders(runs', j) = {}
    BY <1>1 DEF Holders
  <2> QED  BY <1>1, <2>1, AloneFewer DEF CronInv, Guarded
<1> QED  BY <1>1, <1>2, <1>3, <1>4, <1>5, Together

LEMMA InvStep == CronInv /\ [Next]_vars => CronInv'
<1> SUFFICES ASSUME CronInv, [Next]_vars PROVE CronInv'
  OBVIOUS
<1>1. CASE ServiceSteps
  BY <1>1, StartClearsInv, StartPlansInv, StartAppliesInv, StartArmsInv, TimerFiresInv,
     TickAppliesInv, BeginInv, EndInv, ReserveInv, ManualAppliesInv
     DEF ServiceSteps, RunSteps
<1>2. CASE \E j \in Jobs : Add(j) \/ Update(j) \/ Remove(j)
  BY <1>2, AddInv, UpdateInv, RemoveInv
<1>3. CASE \E m \in Manuals, j \in Jobs : Preflight(m, j)
  BY <1>3, PreflightInv
<1>4. CASE UNCHANGED vars
  BY <1>4 DEF vars, CronInv, TypeOK, Sound, Good, Fair, Over, Quiet, TimerKept, Marked,
              Guarded, Alone, Holders
<1> QED  BY <1>1, <1>2, <1>3, <1>4, ElapseInv, CrashInv DEF Next
-----------------------------------------------------------------------------
(* What happens to the time of a due job.                                   *)
SlotKept(j) ==
    Due(store[j]) /\ store'[j].next # store[j].next =>
        \/ store[j].lastRun >= store[j].next
        \/ \E r \in Holders(runs, j) : r.phase = "ended" /\ r \notin runs'
        \/ j \in deferred /\ StartApplies
        \/ Update(j) \/ Remove(j)
        \/ \E k \in Jobs : Add(k)
        \/ StartArms

(* A maintenance takes a slot only from a job that was run for it.          *)
LEMMA MaintainedKeepsSlot ==
    ASSUME NEW s, NEW j \in Jobs, Due(s[j]), NEW expired,
           Maintained(s, expired)[j].next # s[j].next
    PROVE  s[j].lastRun >= s[j].next
<1>1. s[j].stored = "yes" /\ s[j].enabled /\ s[j].marked = NoTime /\ s[j].next # NoTime
  BY DEF Due
<1>2. Walk(s)[j] = s[j]
  BY <1>1 DEF Walk, Normalized
<1> DEFINE w == Walk(s)
           js == {k \in Jobs :
                    \/ w[k].next = NoTime
                    \/ /\ expired
                       /\ w[k].next <= now /\ w[k].marked = NoTime
                       /\ w[k].lastRun >= w[k].next}
<1>3. Maintained(s, expired) = Recompute(w, js)
  BY DEF Maintained
<1> HIDE DEF w
<1>4. j \notin js => Recompute(w, js)[j] = w[j]
  BY DEF Recompute
<1>5. j \in js
  BY <1>2, <1>3, <1>4 DEF w
<1> QED  BY <1>1, <1>2, <1>5 DEF w

(* A section leaves a job alone that has no run in its batch.               *)
LEMMA SettledSlot ==
    ASSUME CronInv, NEW by, Settle(by), NEW j \in Jobs,
           ~\E r \in Holders(runs, j) : r.phase = "ended" /\ r \notin runs'
    PROVE  AllSettled(store, EndedOf(by))[j] = store[j]
<1>1. runs \subseteq Run
  BY DEF CronInv, TypeOK
<1>2. ASSUME NEW r \in EndedOf(by), r.job = j PROVE FALSE
  <2>1. r \in runs /\ r.by = by /\ r \notin runs'
    BY <1>1, <1>2, Leaving
  <2>2. r.phase = "ended"
    BY <1>1, <2>1, Leaving
  <2> QED  BY <1>2, <2>1, <2>2 DEF Holders
<1> QED  BY <1>2 DEF AllSettled

LEMMA SlotStep ==
    ASSUME CronInv, [Next]_vars, NEW j \in Jobs
    PROVE  SlotKept(j)
<1> SUFFICES ASSUME Due(store[j]), store'[j].next # store[j].next,
                    ~\E r \in Holders(runs, j) : r.phase = "ended" /\ r \notin runs',
                    ~(j \in deferred /\ StartApplies), ~Update(j), ~Remove(j),
                    ~\E k \in Jobs : Add(k), ~StartArms
             PROVE  store[j].lastRun >= store[j].next
  BY DEF SlotKept
<1>0. store \in [Jobs -> Job] /\ TypeOK
  BY DEF CronInv, Sound
<1>1. CASE StartClears
  BY <1>0, <1>1 DEF StartClears, Job
<1>2. ASSUME NEW js, store' = Mark(store, js) PROVE FALSE
  BY <1>0, <1>2 DEF Mark, Job
<1>3. CASE StartPlans
  BY <1>2, <1>3 DEF StartPlans
<1>4. CASE StartApplies
  <2> DEFINE s == AllSettled(store, EndedOf("start"))
             later == {k \in deferred : s[k].stored = "yes" /\ s[k].enabled}
             put(rank) == [k \in Jobs |-> IF k \in later
                                    THEN [s[k] EXCEPT !.next = now + Stagger * rank[k]]
                                    ELSE s[k]]
  <2>1. PICK rank : store' = Maintained(put(rank), FALSE)
    BY <1>4 DEF StartApplies
  <2>2. s[j] = store[j]
    BY <1>4, SettledSlot DEF StartApplies
  <2>3. put(rank)[j] = store[j]
    BY <1>4, <2>2
  <2> HIDE DEF put
  <2> QED  BY <2>1, <2>3, MaintainedKeepsSlot
<1>5. CASE TimerFires
  <2>1. CASE store' = Maintained(store, TRUE)
    BY <2>1, MaintainedKeepsSlot
  <2>2. CASE ~(store' = Maintained(store, TRUE))
    BY <1>2, <1>5, <2>2 DEF TimerFires
  <2> QED  BY <2>1, <2>2
<1>6. ASSUME NEW by, Settle(by), NEW expired,
             store' = Maintained(AllSettled(store, EndedOf(by)), expired)
      PROVE  store[j].lastRun >= store[j].next
  <2>1. AllSettled(store, EndedOf(by))[j] = store[j]
    BY <1>6, SettledSlot
  <2> QED  BY <1>6, <2>1, MaintainedKeepsSlot
<1>7. CASE TickApplies
  BY <1>6, <1>7 DEF TickApplies
<1>8. ASSUME NEW m \in Manuals, ManualApplies(m) PROVE store[j].lastRun >= store[j].next
  BY <1>6, <1>8 DEF ManualApplies
<1>9. ASSUME NEW r \in runs, Begin(r) PROVE FALSE
  BY <1>2, <1>9 DEF Begin
<1>10. ASSUME NEW r \in runs, Reserve(r) PROVE FALSE
  BY <1>0, <1>10 DEF Reserve, Job
<1>11. ASSUME NEW k \in Jobs, k # j, Update(k) \/ Remove(k) PROVE FALSE
  <2>1. store'[j] = store[j]
    BY <1>0, <1>11 DEF Update, Remove
  <2> QED  BY <2>1
<1>12. ASSUME NEW m \in Manuals, NEW k \in Jobs, Preflight(m, k)
       PROVE  store[j].lastRun >= store[j].next
  BY <1>12, MaintainedKeepsSlot DEF Preflight
<1>13. CASE store' = store
  BY <1>13
<1> QED
  BY <1>1, <1>3, <1>4, <1>5, <1>7, <1>8, <1>9, <1>10, <1>11, <1>12, <1>13
     DEF Next, ServiceSteps, RunSteps, End, Elapse, Crash, vars
-----------------------------------------------------------------------------
(* One-shots.  One that is over has no time, unless it was put off, so it   *)
(* is not found due; and a client that found it due finds it so still.      *)
Spent(j, job, put) ==
    job.lastRun <= now /\ (Over(j, job) => job.next = NoTime \/ j \in put)
Checked(r) ==
    r.phase = "checked" /\ ~r.force /\ ~r.beside =>
        ~Over(r.job, store[r.job]) \/ r.job \in putOff
OnceInv ==
    /\ \A j \in Jobs : Spent(j, store[j], putOff)
    /\ \A r \in runs : r.at <= now /\ Checked(r)

(* The sections that are ahead of a reservation were called for before its  *)
(* check: none of them is of a run of its job that kept its marker.         *)
InFront(r, by) ==
    /\ Settling(by)
    /\ ~r.beside => \A q \in runs : q.by = by => q.job # r.job
AheadInv == \A r \in runs : r.phase = "checked" => \A by \in r.ahead : InFront(r, by)

(* A change of jobs that ends none and gives no job that is over a time.    *)
Calm(s, t) ==
    \A j \in Jobs : /\ Over(j, t[j]) <=> Over(j, s[j])
                    /\ t[j].lastRun = s[j].lastRun
                    /\ Over(j, s[j]) => t[j].next \in {s[j].next, NoTime}

LEMMA CalmBoth == ASSUME NEW s, NEW t, NEW u, Calm(s, t), Calm(t, u) PROVE Calm(s, u)
  BY DEF Calm

LEMMA CalmSpent ==
    ASSUME NEW s, NEW t, Calm(s, t), NEW put, NEW j \in Jobs, Spent(j, s[j], put)
    PROVE  Spent(j, t[j], put)
  BY DEF Calm, Spent

LEMMA MarkCalm ==
    ASSUME TypeOK, NEW s \in [Jobs -> Job], NEW js PROVE Calm(s, Mark(s, js))
<1>1. ASSUME NEW j \in Jobs
      PROVE  /\ Over(j, Mark(s, js)[j]) <=> Over(j, s[j])
             /\ Mark(s, js)[j].lastRun = s[j].lastRun
             /\ Mark(s, js)[j].next = s[j].next
  <2>1. Mark(s, js)[j] = s[j] \/ Mark(s, js)[j] = [s[j] EXCEPT !.marked = now]
    BY DEF Mark
  <2>2. s[j] \in Job
    OBVIOUS
  <2> QED  BY <2>1, <2>2 DEF Job, Over
<1> QED  BY <1>1 DEF Calm

LEMMA WalkCalm ==
    ASSUME NEW s \in [Jobs -> Job]
    PROVE  Calm(s, Walk(s)) /\ Walk(s) \in [Jobs -> Job]
<1>1. ASSUME NEW j \in Jobs
      PROVE  /\ Over(j, Walk(s)[j]) <=> Over(j, s[j])
             /\ Walk(s)[j].lastRun = s[j].lastRun
             /\ Walk(s)[j].next \in {s[j].next, NoTime} /\ Walk(s)[j] \in Job
  <2>1. \/ Walk(s)[j] = s[j]
        \/ Walk(s)[j] = [s[j] EXCEPT !.next = NoTime, !.marked = NoTime]
        \/ Walk(s)[j] = [s[j] EXCEPT !.marked = NoTime]
    BY DEF Walk, Normalized
  <2>2. s[j] \in Job
    OBVIOUS
  <2> QED  BY <2>1, <2>2 DEF Job, Over, Times
<1>2. Walk(s) \in [Jobs -> Job]
  BY <1>1 DEF Walk
<1> QED  BY <1>1, <1>2 DEF Calm

LEMMA RecomputeCalm ==
    ASSUME NEW s \in [Jobs -> Job], NEW js PROVE Calm(s, Recompute(s, js))
<1>1. ASSUME NEW j \in Jobs
      PROVE  /\ Over(j, Recompute(s, js)[j]) <=> Over(j, s[j])
             /\ Recompute(s, js)[j].lastRun = s[j].lastRun
             /\ Over(j, s[j]) => Recompute(s, js)[j].next \in {s[j].next, NoTime}
  <2>1. s[j] \in Job
    OBVIOUS
  <2>2. CASE Recompute(s, js)[j] = s[j]
    BY <2>2
  <2>3. CASE s[j].enabled /\ Recompute(s, js)[j] = [s[j] EXCEPT !.next = NextRun(j, s[j], now)]
    <3>1. Over(j, s[j]) => NextRun(j, s[j], now) = NoTime
      BY <2>3 DEF Over, NextRun
    <3> DEFINE new == Recompute(s, js)[j]
    <3>2. /\ new.lastStatus = s[j].lastStatus /\ new.base = s[j].base
          /\ new.lastRun = s[j].lastRun /\ new.next = NextRun(j, s[j], now)
      BY <2>1, <2>3 DEF Job
    <3> QED  BY <3>1, <3>2 DEF Over
  <2>4. \/ Recompute(s, js)[j] = s[j]
        \/ s[j].enabled /\ Recompute(s, js)[j] = [s[j] EXCEPT !.next = NextRun(j, s[j], now)]
    BY DEF Recompute
  <2> QED  BY <2>2, <2>3, <2>4
<1> QED  BY <1>1 DEF Calm

LEMMA MaintainedCalm ==
    ASSUME NEW s \in [Jobs -> Job], NEW expired
    PROVE  Calm(s, Maintained(s, expired)) /\ Calm(s, Recomputed(s))
<1>1. Calm(s, Walk(s)) /\ Walk(s) \in [Jobs -> Job]
  BY WalkCalm
<1>2. ASSUME NEW js PROVE Calm(s, Recompute(Walk(s), js))
  <2>1. Calm(Walk(s), Recompute(Walk(s), js))
    BY <1>1, RecomputeCalm
  <2> QED  BY <1>1, <2>1, CalmBoth
<1>3. PICK js : Maintained(s, expired) = Recompute(Walk(s), js)
  BY DEF Maintained
<1>4. PICK ks : Recomputed(s) = Recompute(Walk(s), ks)
  BY DEF Recomputed
<1> QED  BY <1>2, <1>3, <1>4

(* A one-shot that ends well has no time.                                   *)
LEMMA SettledSpent ==
    ASSUME NEW j \in Jobs, NEW job \in Job, NEW r \in Run, NEW put,
           job.lastRun <= now, r.at <= now, now \in Nat
    PROVE  Spent(j, Settled(j, job, r), put)
<1> DEFINE failed == r.result \in {"transient", "permanent"}
           errors == IF failed
                     THEN IF job.errors < MaxErrors THEN job.errors + 1 ELSE MaxErrors
                     ELSE 0
           done == [job EXCEPT !.marked = NoTime, !.lastRun = r.at, !.errors = errors,
                               !.lastStatus = IF failed THEN "error" ELSE r.result]
           retry == r.until + Backoff[Greater(1, errors)]
           new == Settled(j, job, r)
<1>1. done.lastRun = r.at /\ (failed => done.lastStatus = "error")
  BY DEF Job
<1>2. CASE kind[j] # "at"
  <2>1. PICK next : new = [done EXCEPT !.next = next]
    BY <1>2 DEF Settled
  <2>2. new.lastRun = r.at
    BY <2>1 DEF Job
  <2> QED  BY <1>2, <2>2 DEF Spent, Over
<1>3. CASE kind[j] = "at"
  <2>1. \/ new = Gone
        \/ failed /\ new = [done EXCEPT !.next = retry]
        \/ new = [done EXCEPT !.enabled = FALSE, !.next = NoTime]
    BY <1>3 DEF Settled
  <2>2. CASE new = Gone
    BY <2>2 DEF Gone, Spent, Over, NoTime
  <2>3. CASE failed /\ new = [done EXCEPT !.next = retry]
    <3>1. new.lastRun = r.at /\ new.lastStatus = "error"
      BY <2>3 DEF Job
    <3> QED  BY <3>1 DEF Spent, Over
  <2>4. CASE new = [done EXCEPT !.enabled = FALSE, !.next = NoTime]
    <3>1. new.lastRun = r.at /\ new.next = NoTime
      BY <2>4 DEF Job
    <3> QED  BY <3>1 DEF Spent
  <2> QED  BY <2>1, <2>2, <2>3, <2>4
<1> QED  BY <1>2, <1>3

(* Results leave the jobs alone that a client has checked.                  *)
LEMMA ResultsOnce ==
    ASSUME CronInv, OnceInv, AheadInv, NEW by, Settle(by)
    PROVE  LET s == AllSettled(store, EndedOf(by)) IN
           /\ s \in [Jobs -> Job]
           /\ \A j \in Jobs : Spent(j, s[j], putOff)
           /\ \A r \in runs : r.phase = "checked" /\ ~r.beside => s[r.job] = store[r.job]
<1> DEFINE s == AllSettled(store, EndedOf(by))
<1>1. AllFair(s) /\ runs \subseteq Run /\ store \in [Jobs -> Job] /\ now \in Nat
  BY BatchLeaves DEF CronInv, TypeOK, Sound
<1>2. ASSUME NEW j \in Jobs PROVE Spent(j, s[j], putOff)
  <2>1. Spent(j, store[j], putOff) /\ store[j] \in Job
    BY <1>1 DEF OnceInv
  <2>2. CASE s[j] = store[j]
    BY <2>1, <2>2
  <2>3. CASE s[j] # store[j]
    <3>1. PICK r \in runs : s[j] = Settled(j, store[j], r)
      BY <2>3 DEF AllSettled, EndedOf
    <3>2. r.at <= now /\ r \in Run
      BY <1>1, <3>1 DEF OnceInv
    <3>3. store[j].lastRun <= now
      BY <2>1 DEF Spent
    <3> QED  BY <1>1, <2>1, <3>1, <3>2, <3>3, SettledSpent
  <2> QED  BY <2>2, <2>3
<1>3. ASSUME NEW r \in runs, r.phase = "checked", ~r.beside PROVE s[r.job] = store[r.job]
  <2>1. by \in r.ahead
    BY <1>3 DEF Settle
  <2>2. \A e \in EndedOf(by) : e.job # r.job
    BY <1>3, <2>1 DEF AheadInv, InFront, EndedOf
  <2>3. r.job \in Jobs
    BY <1>1 DEF Run
  <2> QED  BY <2>2, <2>3 DEF AllSettled
<1> QED  BY <1>1, <1>2, <1>3 DEF AllFair

(* The invariant after a step, job by job and run by run.                   *)
Alike(q, r) ==
    /\ r.job = q.job /\ r.phase = q.phase /\ r.force = q.force
    /\ r.beside = q.beside /\ r.at = q.at
Keeps(r) ==
    \/ \E q \in runs :
          /\ Alike(q, r)
          /\ r.phase = "checked" /\ ~r.beside /\ Over(r.job, store'[r.job])
                => Over(r.job, store[r.job])
    \/ r.at <= now /\ (r.phase = "checked" /\ ~r.force /\ ~r.beside =>
                          ~Over(r.job, store'[r.job]) \/ r.job \in putOff')
LEMMA OnceAgain ==
    ASSUME OnceInv, now' = now, kind' = kind, putOff \subseteq putOff',
           \A j \in Jobs : Spent(j, store'[j], putOff'),
           \A r \in runs' : Keeps(r)
    PROVE  OnceInv'
<1>1. \A j \in Jobs : Spent(j, store[j], putOff)'
  BY DEF Spent, Over
<1>2. ASSUME NEW r \in runs' PROVE (r.at <= now /\ Checked(r))'
  <2>1. CASE \E q \in runs :
               /\ Alike(q, r)
               /\ r.phase = "checked" /\ ~r.beside /\ Over(r.job, store'[r.job])
                     => Over(r.job, store[r.job])
    <3>1. PICK q \in runs :
               /\ Alike(q, r)
               /\ r.phase = "checked" /\ ~r.beside /\ Over(r.job, store'[r.job])
                     => Over(r.job, store[r.job])
      BY <2>1
    <3>2. q.at <= now /\ Checked(q)
      BY DEF OnceInv
    <3> QED  BY <3>1, <3>2 DEF Alike, Checked, Over
  <2>2. CASE r.at <= now /\ (r.phase = "checked" /\ ~r.force /\ ~r.beside =>
                          ~Over(r.job, store'[r.job]) \/ r.job \in putOff')
    BY <2>2 DEF Checked, Over
  <2> QED  BY <2>1, <2>2 DEF Keeps
<1> QED  BY <1>1, <1>2 DEF OnceInv

LEMMA CalmOnce ==
    ASSUME CronInv, OnceInv, UNCHANGED <<now, kind, putOff>>, Calm(store, store'),
           \A r \in runs' :
              \/ \E q \in runs : Alike(q, r)
              \/ r.at <= now /\ (r.phase = "checked" /\ ~r.force /\ ~r.beside =>
                                    ~Over(r.job, store'[r.job]) \/ r.job \in putOff')
    PROVE  OnceInv'
<1>1. \A j \in Jobs : Spent(j, store'[j], putOff')
  BY CalmSpent DEF OnceInv
<1>2. ASSUME NEW r \in runs' PROVE Keeps(r)
  <2>1. ASSUME NEW q \in runs, Alike(q, r) PROVE r.job \in Jobs
    BY <2>1 DEF CronInv, TypeOK, Run, Alike
  <2> QED  BY <2>1 DEF Keeps, Calm
<1> QED  BY <1>1, <1>2, OnceAgain

LEMMA AlikeItself == ASSUME NEW r PROVE Alike(r, r)
  BY DEF Alike

LEMMA AlikeBehind ==
    ASSUME CronInv, NEW by, Settle(by), NEW r \in runs'
    PROVE  \E q \in runs : Alike(q, r)
<1>1. runs \subseteq Run
  BY DEF CronInv, TypeOK
<1>2. PICK q \in runs : r = Behind(q, by)
  BY <1>1, Leaving
<1> QED  BY <1>1, <1>2, BehindIs DEF Alike

LEMMA SettleOnce ==
    ASSUME CronInv, OnceInv, AheadInv, NEW by, Settle(by), UNCHANGED <<now, kind>>,
           putOff \subseteq putOff', NEW t \in [Jobs -> Job],
           \A j \in Jobs : /\ Over(j, t[j]) <=> Over(j, AllSettled(store, EndedOf(by))[j])
                           /\ Spent(j, t[j], putOff'),
           Calm(t, store')
    PROVE  OnceInv'
<1>1. \A j \in Jobs : Spent(j, store'[j], putOff')
  BY CalmSpent
<1>2. ASSUME NEW r \in runs' PROVE Keeps(r)
  <2>1. PICK q \in runs : Alike(q, r)
    BY AlikeBehind
  <2>2. r.job \in Jobs
    BY <2>1 DEF CronInv, TypeOK, Run, Alike
  <2>3. r.phase = "checked" /\ ~r.beside =>
            AllSettled(store, EndedOf(by))[r.job] = store[r.job]
    <3>1. q.phase = "checked" /\ ~q.beside =>
             AllSettled(store, EndedOf(by))[q.job] = store[q.job]
      BY ResultsOnce
    <3> QED  BY <2>1, <3>1 DEF Alike
  <2>4. Over(r.job, store'[r.job]) <=> Over(r.job, AllSettled(store, EndedOf(by))[r.job])
    BY <2>2 DEF Calm
  <2> QED  BY <2>1, <2>3, <2>4 DEF Keeps
<1> QED  BY <1>1, <1>2, OnceAgain

LEMMA OnceInit == Init => OnceInv
<1> SUFFICES ASSUME Init PROVE OnceInv
  OBVIOUS
<1>1. ASSUME NEW j \in Jobs
      PROVE  store[j].lastStatus = "none" /\ store[j].lastRun = NoTime
  <2>1. PICK js \in SUBSET Jobs :
            store = [k \in Jobs |-> IF k \in js
                                    THEN Fresh(k, IF kind[k] = "at" THEN Period ELSE 0, 0)
                                    ELSE [Gone EXCEPT !.stored = "new"]]
    BY DEF Init
  <2>2. CASE j \in js
    BY <2>1, <2>2 DEF Fresh, Gone
  <2>3. CASE j \notin js
    BY <2>1, <2>3 DEF Gone
  <2> QED  BY <2>2, <2>3
<1>2. now \in Nat /\ runs = {}
  BY CronAssumption DEF Init
<1> QED  BY <1>1, <1>2 DEF OnceInv, Spent, Over, NoTime

(* A client's edit of one job, which is not over then, or was so before and *)
(* has no time.                                                             *)
LEMMA EditOnce ==
    ASSUME CronInv, OnceInv, UNCHANGED <<now, kind, putOff, runs>>,
           NEW j \in Jobs, NEW job,
           job.lastRun \in {store[j].lastRun, NoTime},
           Over(j, job) => Over(j, store[j]) /\ job.next = NoTime,
           Calm([store EXCEPT ![j] = job], store')
    PROVE  OnceInv'
<1> DEFINE t == [store EXCEPT ![j] = job]
<1>1. t[j] = job /\ \A k \in Jobs \ {j} : t[k] = store[k]
  BY DEF CronInv, Sound
<1> HIDE DEF t
<1>2. ASSUME NEW k \in Jobs
      PROVE  Spent(k, t[k], putOff) /\ (Over(k, t[k]) => Over(k, store[k]))
  <2>1. Spent(k, store[k], putOff) /\ Spent(j, store[j], putOff)
    BY DEF OnceInv
  <2>2. CASE k # j
    BY <1>1, <2>1, <2>2
  <2>3. CASE k = j
    <3>1. now \in Nat
      BY DEF CronInv, TypeOK
    <3>2. job.lastRun <= now
      BY <2>1, <3>1 DEF Spent, NoTime
    <3> QED  BY <1>1, <2>3, <3>2 DEF Spent
  <2> QED  BY <2>2, <2>3
<1>3. Calm(t, store')
  BY DEF t
<1>4. \A k \in Jobs : Spent(k, store'[k], putOff')
  BY <1>2, <1>3, CalmSpent
<1>5. ASSUME NEW r \in runs' PROVE Keeps(r)
  <2>1. r \in runs /\ r.job \in Jobs
    BY DEF CronInv, TypeOK, Run
  <2> QED  BY <1>2, <1>3, <2>1, AlikeItself DEF Keeps, Calm
<1> QED  BY <1>4, <1>5, OnceAgain

LEMMA OnceStep == CronInv /\ OnceInv /\ AheadInv /\ [Next]_vars => OnceInv'
<1> SUFFICES ASSUME CronInv, OnceInv, AheadInv, [Next]_vars PROVE OnceInv'
  OBVIOUS
<1>0. /\ store \in [Jobs -> Job] /\ TypeOK /\ now \in Nat /\ runs \subseteq Run
      /\ Calm(store, store) /\ \A r \in runs : Alike(r, r)
  BY AlikeItself DEF CronInv, Sound, TypeOK, Calm
<1>1. ASSUME store' = store \/ (\E js : store' = Mark(store, js))
      PROVE  Calm(store, store')
  BY <1>0, <1>1, MarkCalm
<1>2. CASE StartClears
  <2>1. ASSUME NEW j \in Jobs
        PROVE  /\ Over(j, store'[j]) <=> Over(j, store[j])
               /\ store'[j].lastRun = store[j].lastRun /\ store'[j].next = store[j].next
    <3>1. store'[j] = [store[j] EXCEPT !.marked = NoTime] /\ store[j] \in Job
      BY <1>0, <1>2 DEF StartClears
    <3> QED  BY <3>1 DEF Job, Over
  <2>2. Calm(store, store')
    BY <2>1 DEF Calm
  <2> QED  BY <1>0, <1>2, <2>2, CalmOnce DEF StartClears
<1>3. ASSUME NEW by, NEW js, runs' = runs \cup {NewRun(by, j) : j \in js},
             NEW r \in runs', r \notin runs
      PROVE  r.at <= now /\ r.phase # "checked"
  BY <1>0, <1>3 DEF NewRun
<1>4. CASE StartPlans
  <2>1. PICK js : runs' = runs \cup {NewRun("start", j) : j \in js}
                  /\ store' = Mark(store, js)
    BY <1>4 DEF StartPlans
  <2>2. UNCHANGED <<now, kind, putOff>>
    BY <1>4 DEF StartPlans
  <2>3. Calm(store, store')
    BY <1>1, <2>1
  <2> QED  BY <1>0, <1>3, <2>1, <2>2, <2>3, CalmOnce
<1>5. CASE StartApplies
  <2> DEFINE s == AllSettled(store, EndedOf("start"))
             later == {k \in deferred : s[k].stored = "yes" /\ s[k].enabled}
             put(rank) == [k \in Jobs |-> IF k \in later
                                    THEN [s[k] EXCEPT !.next = now + Stagger * rank[k]]
                                    ELSE s[k]]
  <2>1. PICK rank \in [later -> 1 .. Cardinality(later)] :
            /\ putOff' = putOff \cup {k \in later : Done(s, k)}
            /\ store' = Maintained(put(rank), FALSE)
    BY <1>5 DEF StartApplies
  <2>2. Settle("start") /\ UNCHANGED <<now, kind>>
    BY <1>5 DEF StartApplies
  <2>3. s \in [Jobs -> Job] /\ \A j \in Jobs : Spent(j, s[j], putOff)
    BY <2>2, ResultsOnce
  <2>4. put(rank) \in [Jobs -> Job]
    <3>1. ASSUME NEW k \in later PROVE now + Stagger * rank[k] \in Times
      <4>1. rank[k] \in Nat
        <5>1. rank[k] \in 1 .. Cardinality(later)
          BY <2>1
        <5>2. later \subseteq Jobs
          BY DEF CronInv, TypeOK
        <5>3. Cardinality(later) \in Nat
          BY <5>2, CronAssumption, FS_Subset, FS_CardinalityType
        <5> QED  BY <5>1, <5>3
      <4>2. Stagger * rank[k] \in Nat
        BY <4>1, CronAssumption
      <4> QED  BY <1>0, <4>2 DEF Times
    <3> HIDE DEF s, later
    <3>2. ASSUME NEW k \in Jobs PROVE put(rank)[k] \in Job
      <4>1. s[k] \in Job
        BY <2>3
      <4> QED  BY <3>1, <4>1 DEF Job
    <3> QED  BY <3>2
  <2>5. ASSUME NEW j \in Jobs
        PROVE  /\ Over(j, put(rank)[j]) <=> Over(j, s[j])
               /\ Spent(j, put(rank)[j], putOff')
    <3>1. Spent(j, s[j], putOff) /\ s[j] \in Job
      BY <2>3
    <3>2. CASE j \notin later
      BY <2>1, <3>1, <3>2 DEF Spent
    <3>3. CASE j \in later
      <4> HIDE DEF s, later
      <4>1. /\ put(rank)[j].lastRun = s[j].lastRun /\ put(rank)[j].base = s[j].base
            /\ put(rank)[j].lastStatus = s[j].lastStatus
        BY <3>1, <3>3 DEF Job
      <4>2. Over(j, s[j]) => j \in putOff'
        BY <2>1, <3>3 DEF Done, Over
      <4> QED  BY <3>1, <4>1, <4>2 DEF Spent, Over
    <3> QED  BY <3>2, <3>3
  <2> HIDE DEF put
  <2>6. Calm(put(rank), store')
    BY <2>1, <2>4, MaintainedCalm
  <2> QED  BY <2>1, <2>2, <2>4, <2>5, <2>6, SettleOnce
<1>6. CASE StartArms
  <2>1. Calm(store, store') /\ UNCHANGED <<now, kind, putOff, runs>>
    BY <1>0, <1>6, MaintainedCalm DEF StartArms
  <2> QED  BY <1>0, <2>1, CalmOnce
<1>7. CASE TimerFires
  <2>1. PICK js : runs' = runs \cup {NewRun("tick", j) : j \in js}
    BY <1>7 DEF TimerFires
  <2>2. UNCHANGED <<now, kind, putOff>>
    BY <1>7 DEF TimerFires
  <2>3. Calm(store, store')
    <3>1. store' = Maintained(store, TRUE) \/ \E ks : store' = Mark(store, ks)
      BY <1>7 DEF TimerFires
    <3> QED  BY <1>0, <1>1, <3>1, MaintainedCalm
  <2> QED  BY <1>0, <1>3, <2>1, <2>2, <2>3, CalmOnce
<1>8. ASSUME NEW by, Settle(by), UNCHANGED <<now, kind, putOff>>, NEW expired,
             store' = Maintained(AllSettled(store, EndedOf(by)), expired)
      PROVE  OnceInv'
  <2> DEFINE s == AllSettled(store, EndedOf(by))
  <2>1. s \in [Jobs -> Job] /\ \A j \in Jobs : Spent(j, s[j], putOff)
    BY <1>8, ResultsOnce
  <2>2. Calm(s, store')
    BY <1>8, <2>1, MaintainedCalm
  <2> QED  BY <1>8, <2>1, <2>2, SettleOnce
<1>9. CASE TickApplies
  BY <1>8, <1>9 DEF TickApplies
<1>10. ASSUME NEW m \in Manuals, ManualApplies(m) PROVE OnceInv'
  <2>1. Settle(m) /\ UNCHANGED <<now, kind, putOff>>
    BY <1>10 DEF ManualApplies
  <2>2. CASE store' = Maintained(AllSettled(store, EndedOf(m)), TRUE)
    BY <1>8, <2>1, <2>2
  <2>3. CASE store' = store
    <3>1. \A r \in runs' : \E q \in runs : Alike(q, r)
      BY <2>1, AlikeBehind
    <3> QED  BY <1>0, <2>1, <2>3, <3>1, CalmOnce
  <2> QED  BY <1>10, <2>2, <2>3 DEF ManualApplies
<1>11. ASSUME NEW r \in runs, NEW q, runs' = (runs \ {r}) \cup {q} \/ runs' = runs \ {r},
              q.at <= now /\ q.phase # "checked",
              UNCHANGED <<now, kind, putOff>>, Calm(store, store')
       PROVE  OnceInv'
  BY <1>0, <1>11, CalmOnce
<1>12. ASSUME NEW r \in runs, Begin(r) PROVE OnceInv'
  <2> DEFINE q == [r EXCEPT !.phase = "running", !.at = now]
  <2>1. q.at <= now /\ q.phase # "checked"
    BY <1>0 DEF Run
  <2>2. runs' = (runs \ {r}) \cup {q} /\ UNCHANGED <<now, kind, putOff>>
    BY <1>12 DEF Begin
  <2>3. Calm(store, store')
    BY <1>1, <1>12 DEF Begin
  <2> HIDE DEF q
  <2> QED  BY <1>11, <2>1, <2>2, <2>3
<1>13. ASSUME NEW r \in runs, End(r) PROVE OnceInv'
  <2>1. PICK result :
            runs' = (runs \ {r}) \cup
                        {[r EXCEPT !.phase = "ended", !.until = now, !.result = result]}
    BY <1>13 DEF End
  <2> DEFINE q == [r EXCEPT !.phase = "ended", !.until = now, !.result = result]
  <2>2. q.at <= now /\ q.phase # "checked"
    BY <1>0 DEF Run, OnceInv
  <2>3. UNCHANGED <<now, kind, putOff>> /\ Calm(store, store')
    BY <1>1, <1>13 DEF End
  <2> HIDE DEF q
  <2>4. runs' = (runs \ {r}) \cup {q}
    BY <2>1 DEF q
  <2> QED  BY <1>11, <2>2, <2>3, <2>4
<1>14. ASSUME NEW r \in runs, Reserve(r) PROVE OnceInv'
  <2> DEFINE q == Reserved(r)
  <2>1. q.at <= now /\ q.phase # "checked"
    BY <1>0 DEF Run, OnceInv, Reserved
  <2>2. runs' = (runs \ {r}) \cup {q} \/ runs' = runs \ {r}
    BY <1>14 DEF Reserve
  <2>3. UNCHANGED <<now, kind, putOff>>
    BY <1>14 DEF Reserve
  <2>4. Calm(store, store')
    <3>1. ASSUME NEW j \in Jobs
          PROVE  /\ Over(j, store'[j]) <=> Over(j, store[j])
                 /\ store'[j].lastRun = store[j].lastRun
                 /\ store'[j].next = store[j].next
      <4>1. store'[j] = store[j] \/ store'[j] = [store[j] EXCEPT !.marked = r.at]
        BY <1>0, <1>14 DEF Reserve
      <4>2. store[j] \in Job
        BY <1>0
      <4> QED  BY <4>1, <4>2 DEF Job, Over
    <3> QED  BY <3>1 DEF Calm
  <2> HIDE DEF q
  <2> QED  BY <1>11, <2>1, <2>2, <2>3, <2>4
<1>15. ASSUME NEW j \in Jobs, Add(j) PROVE OnceInv'
  <2> DEFINE job == Fresh(j, Base(j), now)
  <2>1. job.lastRun = NoTime /\ job.lastStatus = "none"
    BY DEF Fresh, Gone
  <2>2. /\ store' = Recomputed([store EXCEPT ![j] = job])
        /\ UNCHANGED <<now, kind, putOff, runs>>
    BY <1>15 DEF Add
  <2>3. [store EXCEPT ![j] = job] \in [Jobs -> Job]
    <3>1. Good(j, job)
      BY <1>0, BaseIsNat, FreshGood DEF TypeOK
    <3> QED  BY <1>0, <3>1 DEF Good, Fair
  <2> HIDE DEF job
  <2>4. Calm([store EXCEPT ![j] = job], store')
    BY <2>2, <2>3, MaintainedCalm
  <2>5. job.lastRun \in {store[j].lastRun, NoTime} /\ ~Over(j, job)
    BY <2>1 DEF Over
  <2>6. UNCHANGED <<now, kind, putOff, runs>>
    BY <2>2
  <2> QED  BY <2>4, <2>5, <2>6, EditOnce
<1>16. ASSUME NEW j \in Jobs, Update(j) PROVE OnceInv'
  <2>1. PICK job \in {[store[j] EXCEPT !.enabled = ~store[j].enabled],
                      [store[j] EXCEPT !.base = Base(j)]} :
          store' = [store EXCEPT ![j] =
                [job EXCEPT !.next = NextRun(j, job, now),
                            !.marked = IF job.enabled THEN job.marked ELSE NoTime]]
    BY <1>16 DEF Update
  <2> DEFINE new == [job EXCEPT !.next = NextRun(j, job, now),
                            !.marked = IF job.enabled THEN job.marked ELSE NoTime]
  <2>2. store[j] \in Job /\ Spent(j, store[j], putOff)
    BY <1>0 DEF OnceInv
  <2>3. Base(j) \in Nat
    BY <1>0, BaseIsNat
  <2>4. job \in Job
    BY <2>2, <2>3 DEF Job
  <2>5. job.lastRun = store[j].lastRun /\ job.lastStatus = store[j].lastStatus
    BY <2>2 DEF Job
  <2>6. Over(j, job) => Over(j, store[j]) /\ NextRun(j, job, now) = NoTime
    <3>1. CASE job = [store[j] EXCEPT !.enabled = ~store[j].enabled]
      <4>1. job.base = store[j].base
        BY <2>2, <3>1 DEF Job
      <4>2. Over(j, job) => NextRun(j, job, now) = NoTime
        <5>1. job.enabled \in BOOLEAN
          BY <2>4 DEF Job
        <5>2. ~job.enabled => NextRun(j, job, now) = NoTime
          BY DEF NextRun
        <5>3. job.enabled /\ Over(j, job) => NextRun(j, job, now) = NoTime
          BY DEF NextRun, Over
        <5> QED  BY <5>1, <5>2, <5>3
      <4> QED  BY <2>5, <4>1, <4>2 DEF Over
    <3>2. CASE job = [store[j] EXCEPT !.base = Base(j)]
      <4>1. job.base = Base(j)
        BY <2>2, <3>2 DEF Job
      <4>2. job.lastRun \in Times /\ job.lastRun <= now
        BY <2>2, <2>4, <2>5 DEF Spent, Job
      <4>3. ~Over(j, job)
        BY <1>0, <4>1, <4>2 DEF Over, Base, Times, NoTime
      <4> QED  BY <4>3
    <3> QED  BY <3>1, <3>2
  <2>7. /\ new.lastRun = job.lastRun /\ new.next = NextRun(j, job, now)
        /\ new.lastStatus = job.lastStatus /\ new.base = job.base
    BY <2>4 DEF Job
  <2>8. store' = [store EXCEPT ![j] = new] /\ UNCHANGED <<now, kind, putOff, runs>>
    BY <1>16, <2>1 DEF Update
  <2> HIDE DEF new
  <2>9. Calm([store EXCEPT ![j] = new], store')
    BY <2>8 DEF Calm
  <2>10. new.lastRun \in {store[j].lastRun, NoTime}
    BY <2>5, <2>7
  <2>11. Over(j, new) => Over(j, store[j]) /\ new.next = NoTime
    <3>1. Over(j, new) <=> Over(j, job)
      BY <2>7 DEF Over
    <3> QED  BY <2>6, <2>7, <3>1
  <2>12. UNCHANGED <<now, kind, putOff, runs>>
    BY <2>8
  <2> QED  BY <2>9, <2>10, <2>11, <2>12, EditOnce
<1>17. ASSUME NEW j \in Jobs, Remove(j) PROVE OnceInv'
  <2>1. Gone.lastRun = NoTime /\ Gone.lastStatus = "none"
    BY DEF Gone
  <2>2. store' = [store EXCEPT ![j] = Gone] /\ UNCHANGED <<now, kind, putOff, runs>>
    BY <1>17 DEF Remove
  <2>3. Calm([store EXCEPT ![j] = Gone], store')
    BY <2>2 DEF Calm
  <2>4. Gone.lastRun \in {store[j].lastRun, NoTime} /\ ~Over(j, Gone)
    BY <2>1 DEF Over
  <2>5. UNCHANGED <<now, kind, putOff, runs>>
    BY <2>2
  <2> QED  BY <2>3, <2>4, <2>5, EditOnce
<1>18. ASSUME NEW m \in Manuals, NEW j \in Jobs, Preflight(m, j) PROVE OnceInv'
  <2>1. store' = Maintained(store, FALSE) /\ UNCHANGED <<now, kind, putOff>>
    BY <1>18 DEF Preflight
  <2>2. Calm(store, store')
    BY <1>0, <2>1, MaintainedCalm
  <2>3. PICK force \in BOOLEAN :
          runs' = IF IF force THEN store'[j].marked = NoTime ELSE Due(store'[j])
                  THEN runs \cup {CheckedRun(m, j, force)} ELSE runs
    BY <1>18 DEF Preflight
  <2>4. ASSUME NEW r \in runs', r \notin runs
        PROVE  r.at <= now /\ (r.phase = "checked" /\ ~r.force /\ ~r.beside =>
                                  ~Over(r.job, store'[r.job]) \/ r.job \in putOff')
    <3>1. r = CheckedRun(m, j, force) /\ (~force => Due(store'[j]))
      BY <2>3, <2>4
    <3>2. r.at = now /\ r.job = j /\ r.force = force
      BY <1>0, <3>1, CheckedRunTyped
    <3>3. Spent(j, store'[j], putOff)
      BY <2>2, CalmSpent DEF OnceInv
    <3>4. ~force => ~Over(j, store'[j]) \/ j \in putOff
      BY <3>1, <3>3 DEF Spent, Due
    <3>5. putOff' = putOff /\ r.at <= now
      BY <1>0, <2>1, <3>2
    <3> QED  BY <3>2, <3>4, <3>5
  <2> QED  BY <1>0, <2>1, <2>2, <2>4, CalmOnce
<1>19. CASE Elapse
  <2>1. now' = now + 1 /\ UNCHANGED <<kind, store, runs, putOff>>
    BY <1>19 DEF Elapse
  <2>2. ASSUME NEW j \in Jobs PROVE Spent(j, store[j], putOff)'
    <3>1. Spent(j, store[j], putOff) /\ store[j].lastRun \in Times
      BY <1>0 DEF OnceInv, Job
    <3>2. store[j].lastRun <= now + 1
      BY <1>0, <3>1 DEF Spent, Times, NoTime
    <3> QED  BY <2>1, <3>1, <3>2 DEF Spent, Over
  <2>3. ASSUME NEW r \in runs PROVE r.at <= now + 1 /\ Checked(r)
    <3>1. r.at \in Nat
      BY <1>0 DEF Run
    <3> QED  BY <1>0, <3>1 DEF OnceInv
  <2> QED  BY <2>1, <2>2, <2>3 DEF OnceInv, Checked, Over
<1>20. CASE Crash
  <2>1. runs' = {} /\ store' = store /\ UNCHANGED <<now, kind, putOff>>
    BY <1>20 DEF Crash
  <2> QED  BY <1>0, <2>1, CalmOnce
<1>21. CASE UNCHANGED vars
  <2>1. runs' = runs /\ store' = store /\ UNCHANGED <<now, kind, putOff>>
    BY <1>21, Zenon DEF vars
  <2> QED  BY <1>0, <2>1, CalmOnce
<1> QED
  BY <1>2, <1>4, <1>5, <1>6, <1>7, <1>9, <1>10, <1>12, <1>13, <1>14, <1>15, <1>16,
     <1>17, <1>18, <1>19, <1>20, <1>21 DEF Next, ServiceSteps, RunSteps

(* The queue of the lock.                                                   *)
LEMMA AheadInit == Init => AheadInv
  BY DEF Init, AheadInv

(* Steps of others leave alone what is ahead of a reservation.              *)
LEMMA AheadAgain ==
    ASSUME CronInv, AheadInv, boot = "running" => boot' = "running",
           \A r \in runs' : r.phase = "checked" => r \in runs,
           \A by, q : /\ \E r \in runs : r.phase = "checked" /\ by \in r.ahead
                     /\ q.by = by
                     => (q \in runs' <=> q \in runs)
    PROVE  AheadInv'
<1> SUFFICES ASSUME NEW r \in runs', r.phase = "checked", NEW by \in r.ahead
             PROVE  InFront(r, by)'
  BY DEF AheadInv
<1>1. r \in runs /\ InFront(r, by)
  BY DEF AheadInv
<1>2. \A q : q.by = by => (q \in runs' <=> q \in runs)
  BY <1>1
<1>3. by = "start" => boot = "running"
  BY <1>1 DEF InFront, Settling, CronInv, TypeOK
<1> QED  BY <1>1, <1>2, <1>3 DEF InFront, Settling

LEMMA AheadStep == CronInv /\ AheadInv /\ [Next]_vars => AheadInv'
<1> SUFFICES ASSUME CronInv, AheadInv, [Next]_vars PROVE AheadInv'
  OBVIOUS
<1>0. /\ TypeOK /\ runs \subseteq Run
      /\ \A r \in runs : r.by = "start" => boot = "running"
      /\ \A r \in runs : r.by = "tick" => running
      /\ boot = "down" => runs = {}
  BY DEF CronInv, TypeOK, Quiet
<1>1. ASSUME NEW r \in runs, r.phase = "checked", NEW by \in r.ahead
      PROVE  /\ Settling(by)
             /\ by = "start" => boot = "running"
             /\ by # "start" => \E q \in runs : q.by = by
             /\ \A q \in runs : q.by = by => q.phase = "ended"
  BY <1>0, <1>1 DEF AheadInv, InFront, Settling
<1>2. ASSUME runs' = runs, boot = "running" => boot' = "running" PROVE AheadInv'
  BY <1>2, AheadAgain
<1>3. CASE StartClears \/ Crash
  <2>1. runs' = {}
    BY <1>0, <1>3 DEF StartClears, Crash
  <2> QED  BY <2>1 DEF AheadInv
<1>4. ASSUME NEW by, NEW js, runs' = runs \cup {NewRun(by, j) : j \in js},
             boot = "running" => boot' = "running",
             \A r \in runs : r.phase = "checked" => by \notin r.ahead
      PROVE  AheadInv'
  <2>1. \A q : q \in runs' => q \in runs \/ (q.by = by /\ q.phase = "due")
    BY <1>4 DEF NewRun
  <2>2. runs \subseteq runs'
    BY <1>4
  <2> QED  BY <1>4, <2>1, <2>2, AheadAgain
<1>5. CASE StartPlans
  <2>1. PICK js : runs' = runs \cup {NewRun("start", j) : j \in js}
    BY <1>5 DEF StartPlans
  <2>2. boot = "planning"
    BY <1>5 DEF StartPlans
  <2> QED  BY <1>1, <1>4, <2>1, <2>2
<1>6. CASE TimerFires
  <2>1. PICK js : runs' = runs \cup {NewRun("tick", j) : j \in js}
    BY <1>6 DEF TimerFires
  <2>2. ~running /\ boot' = boot
    BY <1>6 DEF TimerFires
  <2> QED  BY <1>0, <1>1, <1>4, <2>1, <2>2
<1>7. ASSUME NEW r \in runs, r.phase # "ended", NEW q, q.by = r.by, q.phase # "checked",
             runs' = (runs \ {r}) \cup {q} \/ runs' = runs \ {r}, boot' = boot
      PROVE  AheadInv'
  <2>1. \A p \in runs : p.phase = "checked" => r.by \notin p.ahead
    BY <1>1, <1>7
  <2> QED  BY <1>7, <2>1, AheadAgain
<1>8. ASSUME NEW r \in runs, RunSteps(r) PROVE AheadInv'
  <2>1. r \in Run
    BY <1>0
  <2>2. CASE Begin(r)
    <3> DEFINE q == [r EXCEPT !.phase = "running", !.at = now]
    <3>1. q.by = r.by /\ q.phase # "checked"
      BY <2>1 DEF Run
    <3>2. r.phase = "due" /\ runs' = (runs \ {r}) \cup {q} /\ boot' = boot
      BY <2>2 DEF Begin
    <3> HIDE DEF q
    <3> QED  BY <1>7, <3>1, <3>2
  <2>3. CASE End(r)
    <3>1. PICK result :
              runs' = (runs \ {r}) \cup
                          {[r EXCEPT !.phase = "ended", !.until = now, !.result = result]}
      BY <2>3 DEF End
    <3> DEFINE q == [r EXCEPT !.phase = "ended", !.until = now, !.result = result]
    <3>2. q.by = r.by /\ q.phase # "checked"
      BY <2>1 DEF Run
    <3>3. r.phase = "running" /\ runs' = (runs \ {r}) \cup {q} /\ boot' = boot
      BY <2>3, <3>1 DEF End
    <3> HIDE DEF q
    <3> QED  BY <1>7, <3>2, <3>3
  <2>4. CASE Reserve(r)
    <3>1. Reserved(r).by = r.by /\ Reserved(r).phase # "checked"
      BY <2>1 DEF Run, Reserved
    <3>2. /\ r.phase = "checked" /\ boot' = boot
          /\ runs' = (runs \ {r}) \cup {Reserved(r)} \/ runs' = runs \ {r}
      BY <2>4 DEF Reserve
    <3> QED  BY <1>7, <3>1, <3>2
  <2> QED  BY <1>8, <2>2, <2>3, <2>4 DEF RunSteps
<1>9. ASSUME NEW by, Settle(by),
             boot = "running" /\ by # "start" => boot' = "running"
      PROVE  AheadInv'
  <2> SUFFICES ASSUME NEW r \in runs', r.phase = "checked", NEW b \in r.ahead
               PROVE  InFront(r, b)'
    BY DEF AheadInv
  <2>1. PICK p \in runs : p.by # by /\ r = Behind(p, by)
    BY <1>0, <1>9, Leaving
  <2>2. /\ p.phase = "checked" /\ b \in p.ahead /\ b # by
        /\ r.job = p.job /\ r.beside = p.beside
    BY <1>0, <2>1, BehindIs
  <2>3. InFront(p, b)
    BY <2>2 DEF AheadInv
  <2>4. ASSUME NEW q \in runs, q.by = b PROVE q \in runs'
    <3>1. q.phase = "ended"
      BY <1>1, <2>2, <2>4
    <3>2. Behind(q, by) = q
      BY <1>0, <3>1, BehindIs
    <3> QED  BY <1>0, <1>9, <2>2, <2>4, <3>2, Leaving
  <2>5. ASSUME NEW q \in runs', q.by = b PROVE q \in runs /\ q.phase = "ended"
    <3>1. PICK o \in runs : o.by # by /\ q = Behind(o, by)
      BY <1>0, <1>9, Leaving
    <3>2. o.by = b
      BY <1>0, <2>5, <3>1, BehindIs
    <3>3. o.phase = "ended"
      BY <1>1, <2>2, <3>2
    <3> QED  BY <1>0, <3>1, <3>3, BehindIs
  <2>6. b = "start" => boot = "running" /\ boot' = "running"
    BY <1>1, <1>9, <2>2
  <2>7. Settling(b)'
    BY <1>1, <2>2, <2>4, <2>5, <2>6 DEF Settling
  <2>8. ~r.beside => \A q \in runs' : q.by = b => q.job # r.job
    BY <2>2, <2>3, <2>5 DEF InFront
  <2> QED  BY <2>7, <2>8 DEF InFront
<1>10. CASE StartApplies \/ TickApplies \/ \E m \in Manuals : ManualApplies(m)
  <2>1. CASE StartApplies
    BY <1>9, <2>1 DEF StartApplies
  <2>2. CASE TickApplies
    BY <1>9, <2>2 DEF TickApplies
  <2>3. ASSUME NEW m \in Manuals, ManualApplies(m) PROVE AheadInv'
    BY <1>9, <2>3 DEF ManualApplies
  <2> QED  BY <1>10, <2>1, <2>2, <2>3
<1>11. ASSUME NEW m \in Manuals, NEW j \in Jobs, Preflight(m, j) PROVE AheadInv'
  <2>1. /\ \A r \in runs : r.by # m
        /\ boot' = boot /\ m # "start"
    BY <1>11, CronAssumption DEF Preflight
  <2>2. PICK force \in BOOLEAN : runs' = runs \/ runs' = runs \cup {CheckedRun(m, j, force)}
    BY <1>11 DEF Preflight
  <2> DEFINE new == CheckedRun(m, j, force)
  <2>3. /\ new.by = m /\ new.job = j /\ new.phase = "checked"
        /\ new.ahead = {by \in Actors : Settling(by)}
        /\ new.beside = (Holders(runs, j) # {})
    BY <1>0, CheckedRunTyped
  <2>4. runs' = runs \/ runs' = runs \cup {new}
    BY <2>2
  <2> HIDE DEF new
  <2>5. ASSUME NEW r \in runs \cup {new}, r.phase = "checked", NEW by \in r.ahead
        PROVE  InFront(r, by) /\ by # m
    <3>1. CASE r \in runs
      BY <1>1, <2>1, <2>5, <3>1 DEF AheadInv
    <3>2. CASE r = new
      <4>1. Settling(by)
        BY <2>3, <2>5, <3>2
      <4>2. by # m
        BY <2>1, <4>1 DEF Settling
      <4>3. ~new.beside => \A q \in runs : q.by = by => q.job # j
        BY <2>3, <4>1 DEF Settling, Holders
      <4> QED  BY <2>3, <3>2, <4>1, <4>2, <4>3 DEF InFront
    <3> QED  BY <3>1, <3>2
  <2>6. ASSUME NEW r \in runs', r.phase = "checked", NEW by \in r.ahead
        PROVE  InFront(r, by)'
    <3>1. InFront(r, by) /\ by # m
      BY <2>4, <2>5, <2>6
    <3>2. \A q : q.by = by => (q \in runs' <=> q \in runs)
      BY <2>3, <2>4, <3>1
    <3> QED  BY <2>1, <3>1, <3>2 DEF InFront, Settling
  <2> QED  BY <2>6 DEF AheadInv
<1>12. CASE StartArms \/ Elapse
  BY <1>2, <1>12 DEF StartArms, Elapse
<1>13. CASE \E j \in Jobs : Add(j) \/ Update(j) \/ Remove(j)
  BY <1>2, <1>13 DEF Add, Update, Remove
<1>14. CASE UNCHANGED vars
  BY <1>2, <1>14 DEF vars
<1> QED
  BY <1>3, <1>5, <1>6, <1>8, <1>10, <1>11, <1>12, <1>13, <1>14 DEF Next, ServiceSteps

(* Who may run a one-shot that is over.                                     *)
RunsAgain(j) ==
    Done(store, j) =>
        \A r \in Holders(runs', j) :
            r.force \/ r.beside \/ j \in putOff \/ \E q \in Holders(runs, j) : q.by = r.by

LEMMA AgainStep ==
    ASSUME CronInv, OnceInv, [Next]_vars, NEW j \in Jobs
    PROVE  RunsAgain(j)
<1> SUFFICES ASSUME Done(store, j), j \notin putOff,
                    NEW r \in Holders(runs', j), ~r.force, ~r.beside
             PROVE  \E q \in Holders(runs, j) : q.by = r.by
  BY DEF RunsAgain
<1>0. r \in runs' /\ r.job = j /\ r.phase # "checked" /\ runs \subseteq Run
  BY DEF Holders, CronInv, TypeOK
<1>1. CASE r \in runs
  BY <1>0, <1>1 DEF Holders
<1>2. Over(j, store[j]) /\ Spent(j, store[j], putOff)
  BY DEF Done, Over, OnceInv
<1>3. store[j].next = NoTime
  BY <1>2 DEF Spent
<1>4. ASSUME NEW q \in runs, q.phase # "checked", q.job = r.job, q.by = r.by
      PROVE  \E p \in Holders(runs, j) : p.by = r.by
  BY <1>0, <1>4 DEF Holders
<1>5. CASE StartPlans
  <2>1. PICK js \in SUBSET {k \in Jobs : MissedAtStart(k)} :
            runs' = runs \cup {NewRun("start", k) : k \in js}
    BY <1>5 DEF StartPlans
  <2>2. CASE r \notin runs
    <3>1. PICK k \in js : r = NewRun("start", k)
      BY <1>0, <2>1, <2>2
    <3>2. k = j
      BY <1>0, <3>1 DEF NewRun
    <3>3. MissedAtStart(j)
      BY <2>1, <3>1, <3>2
    <3> QED  BY <1>2, <3>3 DEF MissedAtStart, Over
  <2> QED  BY <1>1, <2>2
<1>6. CASE TimerFires
  <2>1. runs' = runs \cup {NewRun("tick", k) : k \in {i \in Jobs : Due(store[i])}}
    BY <1>6 DEF TimerFires
  <2>2. CASE r \notin runs
    <3>1. PICK k \in Jobs : Due(store[k]) /\ r = NewRun("tick", k)
      BY <1>0, <2>1, <2>2
    <3>2. k = j
      BY <1>0, <3>1 DEF NewRun
    <3> QED  BY <1>3, <3>1, <3>2 DEF Due
  <2> QED  BY <1>1, <2>2
<1>7. ASSUME NEW q \in runs, Begin(q) PROVE \E p \in Holders(runs, j) : p.by = r.by
  <2>1. r \in runs \/ r = [q EXCEPT !.phase = "running", !.at = now]
    BY <1>0, <1>7 DEF Begin
  <2>2. CASE r = [q EXCEPT !.phase = "running", !.at = now]
    <3>1. r.job = q.job /\ r.by = q.by /\ q.phase = "due"
      BY <1>0, <1>7, <2>2 DEF Begin, Run
    <3> QED  BY <1>4, <3>1
  <2> QED  BY <1>1, <2>1, <2>2
<1>8. ASSUME NEW q \in runs, End(q) PROVE \E p \in Holders(runs, j) : p.by = r.by
  <2>1. PICK result : r \in runs \/
            r = [q EXCEPT !.phase = "ended", !.until = now, !.result = result]
    BY <1>0, <1>8 DEF End
  <2>2. CASE r = [q EXCEPT !.phase = "ended", !.until = now, !.result = result]
    <3>1. r.job = q.job /\ r.by = q.by /\ q.phase = "running"
      BY <1>0, <1>8, <2>2 DEF End, Run
    <3> QED  BY <1>4, <3>1
  <2> QED  BY <1>1, <2>1, <2>2
<1>9. ASSUME NEW q \in runs, Reserve(q) PROVE \E p \in Holders(runs, j) : p.by = r.by
  <2>1. r \in runs \/ r = Reserved(q)
    BY <1>0, <1>9 DEF Reserve
  <2>2. CASE r = Reserved(q)
    <3>1. /\ r.job = q.job /\ r.force = q.force /\ r.beside = q.beside
          /\ q.phase = "checked"
      BY <1>0, <1>9, <2>2 DEF Reserve, Reserved, Run
    <3>2. Checked(q)
      BY DEF OnceInv
    <3> QED  BY <1>0, <1>2, <3>1, <3>2 DEF Checked
  <2> QED  BY <1>1, <2>1, <2>2
<1>10. ASSUME NEW m \in Manuals, NEW k \in Jobs, Preflight(m, k)
       PROVE  \E p \in Holders(runs, j) : p.by = r.by
  <2>1. r \in runs \/ \E force \in BOOLEAN : r = CheckedRun(m, k, force)
    BY <1>0, <1>10 DEF Preflight
  <2>2. ASSUME NEW force \in BOOLEAN PROVE r # CheckedRun(m, k, force)
    BY <1>0, <1>10, CheckedRunTyped DEF CronInv
  <2> QED  BY <1>1, <2>1, <2>2
<1>11. CASE runs' \subseteq runs
  BY <1>0, <1>1, <1>11
<1>12. CASE StartClears \/ StartArms \/ Elapse \/ Crash
  BY <1>11, <1>12, Zenon DEF StartClears, StartArms, Elapse, Crash
<1>13. CASE StartApplies \/ TickApplies \/ \E m \in Manuals : ManualApplies(m)
  <2>1. PICK by : Settle(by)
    BY <1>13, Zenon DEF StartApplies, TickApplies, ManualApplies
  <2>2. r \in Holders(runs, j)
    BY <1>0, <2>1, Leaving
  <2> QED  BY <2>2
<1>14. CASE \E k \in Jobs : Add(k) \/ Update(k) \/ Remove(k)
  BY <1>11, <1>14, Zenon DEF Add, Update, Remove
<1>15. CASE UNCHANGED vars
  BY <1>11, <1>15, Zenon DEF vars
<1> QED
  BY <1>5, <1>6, <1>7, <1>8, <1>9, <1>10, <1>12, <1>13, <1>14, <1>15
     DEF Next, ServiceSteps, RunSteps
-----------------------------------------------------------------------------
(* What a result does to the time of a recurring job.                       *)
Failed(r) == r.result \in {"transient", "permanent"}

(* The next run is not before this one ended, after a failure not before    *)
(* the end of the backoff; unless a client forced this one, it is in a      *)
(* later slot, of an "every" job a period after this one began.             *)
Later(r, job) ==
    /\ job.next >= r.until
    /\ Failed(r) => job.next >= r.until + Backoff[Greater(1, job.errors)]
    /\ ~r.force => job.next > r.at
    /\ ~r.force /\ kind[r.job] = "every" => job.next >= r.at + Period

MovedOn(r) ==
    /\ r.phase = "ended" /\ boot' # "down" /\ kind[r.job] # "at"
    /\ store'[r.job].stored = "yes" /\ store'[r.job].enabled
    => Later(r, store'[r.job])

RunsMoveOn == [][\A r \in runs \ runs' : MovedOn(r)]_vars

(* A run has ended after it began; a batch has one run of a job, and the    *)
(* catch-up runs no job that it has deferred.                               *)
Timely(r) == r.at <= now /\ r.until <= now /\ (r.phase = "ended" => r.at <= r.until)

TimesInv ==
    /\ \A r \in runs : Timely(r)
    /\ \A q, r \in runs : q.by = r.by /\ q.job = r.job => q = r
    /\ \A r \in runs : r.by = "start" => r.job \notin deferred

LEMMA NextRunLater ==
    ASSUME NEW j \in Jobs, kind[j] \in {"every", "cron"}, NEW job \in Job, job.enabled,
           NEW t \in Nat
    PROVE  /\ NextRun(j, job, t) \in Int
           /\ NextRun(j, job, t) >= t
           /\ kind[j] = "cron" => NextRun(j, job, t) > t
           /\ kind[j] = "every" /\ job.lastRun # NoTime
              => NextRun(j, job, t) >= job.lastRun + Period
<1>1. job.base \in Nat /\ job.lastRun \in Int /\ Period \in Nat \ {0}
  BY CronAssumption DEF Job, Times, NoTime
<1>2. CASE kind[j] = "cron"
  <2>1. \E i \in Nat : NextRun(j, job, t) = Period * i
    BY <1>2, CronSlotIsNext
  <2>2. NextRun(j, job, t) \in Int
    BY <1>1, <2>1
  <2>3. NextRun(j, job, t) > t
    BY <1>2, CronSlotIsNext
  <2> QED  BY <1>2, <2>2, <2>3
<1>3. CASE kind[j] = "every"
  <2>1. CASE job.lastRun # NoTime /\ job.lastRun + Period > t
    <3>1. NextRun(j, job, t) = job.lastRun + Period
      BY <1>3, <2>1 DEF NextRun
    <3> QED  BY <1>1, <1>3, <2>1, <3>1
  <2>2. CASE ~(job.lastRun # NoTime /\ job.lastRun + Period > t) /\ t < job.base
    <3>1. NextRun(j, job, t) = job.base
      BY <1>3, <2>2 DEF NextRun
    <3> QED  BY <1>1, <1>3, <2>2, <3>1
  <2>3. CASE ~(job.lastRun # NoTime /\ job.lastRun + Period > t) /\ ~(t < job.base)
    <3>1. job.base <= t /\ (job.lastRun = NoTime \/ job.lastRun + Period <= t)
      BY <1>1, <2>3
    <3>2. PICK i \in Nat \ {0} : NextRun(j, job, t) = job.base + Period * i
      BY <1>3, <3>1, EverySlotIsNext
    <3>3. NextRun(j, job, t) \in Int
      BY <1>1, <3>2
    <3>4. NextRun(j, job, t) >= t
      BY <1>3, <3>1, EverySlotIsNext
    <3> QED  BY <1>1, <1>3, <3>1, <3>3, <3>4
  <2> QED  BY <2>1, <2>2, <2>3
<1> QED  BY <1>2, <1>3

LEMMA SettledLater ==
    ASSUME kind \in [Jobs -> {"every", "at", "cron"}],
           NEW r \in Run, r.at <= r.until, kind[r.job] # "at",
           NEW job \in Job, job.enabled
    PROVE  /\ Later(r, Settled(r.job, job, r))
           /\ Settled(r.job, job, r).lastRun = r.at
           /\ Settled(r.job, job, r).stored = job.stored /\ Settled(r.job, job, r).enabled
<1> DEFINE j == r.job
           errors == IF Failed(r)
                     THEN IF job.errors < MaxErrors THEN job.errors + 1 ELSE MaxErrors
                     ELSE 0
           status == IF Failed(r) THEN "error" ELSE r.result
           done == [job EXCEPT !.marked = NoTime, !.lastRun = r.at, !.errors = errors,
                               !.lastStatus = status]
           kept == [done EXCEPT !.lastRun = job.lastRun]
           forced == r.force /\ kind[j] = "every"
           natural == IF forced THEN NextRun(j, kept, r.until) ELSE NextRun(j, done, r.until)
           retry == r.until + Backoff[Greater(1, errors)]
           next == IF Failed(r) THEN Greater(natural, retry) ELSE natural
           new == Settled(j, job, r)
<1>1. /\ j \in Jobs /\ r.at \in Nat /\ r.until \in Nat /\ r.result \in Results
      /\ kind[j] \in {"every", "cron"} /\ Period \in Nat \ {0}
  BY CronAssumption DEF Run
<1>2. errors \in 0 .. MaxErrors
  BY CronAssumption DEF Job
<1>3. retry \in Nat
  <2>1. Greater(1, errors) \in 1 .. MaxErrors
    BY <1>2, CronAssumption DEF Greater
  <2> QED  BY <1>1, <2>1, CronAssumption
<1>4. new = [done EXCEPT !.next = next]
  <2> DEFINE f == r.result \in {"transient", "permanent"}
  <2>1. Failed(r) <=> f
    BY DEF Failed
  <2> QED  BY <2>1 DEF Settled, Failed
<1>5. status \in {"ok", "skipped", "error"}
  BY <1>1 DEF Failed, Results
<1> HIDE DEF errors, status
<1>6. /\ done \in Job /\ done.enabled /\ done.lastRun = r.at /\ done.errors = errors
      /\ done.stored = job.stored
      /\ kept \in Job /\ kept.enabled /\ kept.lastRun = job.lastRun
  BY <1>1, <1>2, <1>5 DEF Job, Times
<1> HIDE DEF done, kept
<1>7. natural \in Int /\ natural >= r.until
  BY <1>1, <1>6, NextRunLater
<1>8. ~r.force => natural > r.at
  <2>1. CASE kind[j] = "cron"
    BY <1>1, <1>6, <2>1, NextRunLater
  <2>2. CASE kind[j] = "every"
    BY <1>1, <1>6, <2>2, NextRunLater DEF NoTime
  <2> QED  BY <1>1, <2>1, <2>2
<1>9. ~r.force /\ kind[j] = "every" => natural >= r.at + Period
  BY <1>1, <1>6, NextRunLater DEF NoTime
<1> HIDE DEF natural, retry
<1>10. next \in Int /\ next >= natural /\ (Failed(r) => next >= retry)
  BY <1>3, <1>7 DEF Greater
<1> HIDE DEF next
<1>11. /\ new.next = next /\ new.errors = errors /\ new.lastRun = r.at
       /\ new.stored = job.stored /\ new.enabled
  BY <1>4, <1>6, <1>10 DEF Job
<1> QED  BY <1>1, <1>3, <1>7, <1>8, <1>9, <1>10, <1>11 DEF Later, retry

(* The maintenance of the same section gives a job a new time only if its   *)
(* slot was executed.                                                       *)
LEMMA MaintainedLater ==
    ASSUME now \in Nat, NEW s, NEW r \in Run, r.at <= r.until, r.until <= now,
           kind[r.job] \in {"every", "cron"},
           s[r.job] \in Job, s[r.job].stored = "yes", s[r.job].enabled,
           s[r.job].marked = NoTime, s[r.job].lastRun = r.at, Later(r, s[r.job]),
           NEW expired
    PROVE  Later(r, Maintained(s, expired)[r.job])
<1> DEFINE j == r.job
           w == Walk(s)
           js == {k \in Jobs :
                    \/ w[k].next = NoTime
                    \/ /\ expired
                       /\ w[k].next <= now /\ w[k].marked = NoTime
                       /\ w[k].lastRun >= w[k].next}
           b == Backoff[Greater(1, s[j].errors)]
<1>1. j \in Jobs /\ r.at \in Nat /\ r.until \in Nat /\ s[j].next \in Int
  BY DEF Run, Job, Times, NoTime
<1>2. w[j] = s[j]
  <2>1. Normalized(s[j]) = s[j]
    BY DEF Normalized
  <2> QED  BY <1>1, <2>1 DEF Walk
<1>3. Maintained(s, expired) = Recompute(w, js)
  BY DEF Maintained
<1> HIDE DEF w
<1>4. CASE j \notin js
  <2>1. Recompute(w, js)[j] = s[j]
    BY <1>1, <1>2, <1>4 DEF Recompute
  <2> QED  BY <1>3, <2>1
<1>5. CASE j \in js
  <2> DEFINE n == NextRun(j, s[j], now)
             new == Maintained(s, expired)[j]
  <2>1. new = [s[j] EXCEPT !.next = n]
    BY <1>1, <1>2, <1>3, <1>5 DEF Recompute
  <2>2. s[j].next >= r.until /\ s[j].next # NoTime
    BY <1>1 DEF Later, NoTime
  <2>3. s[j].next <= r.at
    BY <1>2, <1>5, <2>2
  <2>4. n \in Int /\ n >= now
    BY <1>1, NextRunLater
  <2>5. b \in Nat
    <3>1. Greater(1, s[j].errors) \in 1 .. MaxErrors
      BY CronAssumption DEF Greater, Job
    <3> QED  BY <3>1, CronAssumption
  <2>6. r.force
    BY <1>1, <2>3 DEF Later
  <2>7. Failed(r) => b = 0
    BY <1>1, <2>3, <2>5 DEF Later
  <2> HIDE DEF n
  <2>8. n >= r.until /\ (Failed(r) => n >= r.until + b)
    BY <1>1, <2>4, <2>5, <2>7
  <2> HIDE DEF new
  <2>9. new.next = n /\ new.errors = s[j].errors
    BY <2>1 DEF Job
  <2>10. Later(r, new)
    BY <2>6, <2>8, <2>9 DEF Later
  <2> QED  BY <2>10 DEF new
<1> QED  BY <1>4, <1>5

LEMMA TimesInit == Init => TimesInv
  BY DEF Init, TimesInv

(* Runs that are left alone, or that nobody waits for any more.             *)
LEMMA TimesFewer ==
    ASSUME CronInv, TimesInv, runs' \subseteq runs, now' \in Nat, now <= now',
           deferred' \subseteq deferred
    PROVE  TimesInv'
<1>1. now \in Nat /\ runs \subseteq Run
  BY DEF CronInv, TypeOK
<1>2. ASSUME NEW r \in runs' PROVE Timely(r)'
  <2>1. r \in runs /\ r.at \in Nat /\ r.until \in Nat
    BY <1>1, <1>2 DEF Run
  <2> QED  BY <1>1, <2>1 DEF TimesInv, Timely
<1> QED  BY <1>2 DEF TimesInv

(* One run goes on.                                                         *)
LEMMA TimesOn ==
    ASSUME CronInv, TimesInv, NEW r \in runs, NEW s, runs' \subseteq (runs \ {r}) \cup {s},
           now' = now, deferred' = deferred, s.by = r.by, s.job = r.job, Timely(s)
    PROVE  TimesInv'
<1>1. ASSUME NEW p \in runs' PROVE Timely(p)'
  BY <1>1 DEF TimesInv, Timely
<1>2. ASSUME NEW p \in runs', NEW q \in runs', p.by = q.by, p.job = q.job PROVE p = q
  BY <1>2 DEF TimesInv
<1>3. ASSUME NEW p \in runs', p.by = "start" PROVE p.job \notin deferred'
  BY <1>3 DEF TimesInv
<1> QED  BY <1>1, <1>2, <1>3 DEF TimesInv

(* An actor that has no runs begins some.                                   *)
LEMMA TimesNew ==
    ASSUME CronInv, TimesInv, NEW by, NEW js, \A r \in runs : r.by # by,
           \A r \in runs' \ runs : r.by = by /\ r.job \in js /\ Timely(r),
           \A q, r \in runs' \ runs : q.job = r.job => q = r,
           now' = now, by = "start" \/ deferred' = deferred,
           by = "start" => js \cap deferred' = {} /\ \A r \in runs : r.by # "start"
    PROVE  TimesInv'
<1>1. ASSUME NEW p \in runs' PROVE Timely(p)'
  BY <1>1 DEF TimesInv, Timely
<1>2. ASSUME NEW p \in runs', NEW q \in runs', p.by = q.by, p.job = q.job PROVE p = q
  BY <1>2 DEF TimesInv
<1>3. ASSUME NEW p \in runs', p.by = "start" PROVE p.job \notin deferred'
  BY <1>3 DEF TimesInv
<1> QED  BY <1>1, <1>2, <1>3 DEF TimesInv

LEMMA NewRunTimely ==
    ASSUME CronInv, NEW by \in Actors, NEW j \in Jobs
    PROVE  /\ NewRun(by, j).by = by /\ NewRun(by, j).job = j /\ Timely(NewRun(by, j))
<1>1. now \in Nat
  BY DEF CronInv, TypeOK
<1> QED  BY <1>1, NewRunTyped DEF Timely

LEMMA CheckedRunTimely ==
    ASSUME CronInv, NEW m \in Manuals, NEW j \in Jobs, NEW force \in BOOLEAN
    PROVE  LET r == CheckedRun(m, j, force) IN r.by = m /\ r.job = j /\ Timely(r)
<1>1. now \in Nat /\ TypeOK
  BY DEF CronInv, TypeOK
<1> QED  BY <1>1, CheckedRunTyped DEF Timely

(* The section of a batch: its runs leave.                                  *)
LEMMA TimesSettle ==
    ASSUME CronInv, TimesInv, NEW by, Settle(by), now' = now, deferred' \in {deferred, {}}
    PROVE  TimesInv'
<1>1. runs \subseteq Run
  BY DEF CronInv, TypeOK
<1>2. ASSUME NEW r \in runs'
      PROVE  \E q \in runs : /\ r = Behind(q, by) /\ r.by = q.by /\ r.job = q.job
                             /\ (Timely(q) => Timely(r))
  <2>1. PICK q \in runs : r = Behind(q, by)
    BY <1>1, Leaving
  <2> QED  BY <1>1, <2>1, BehindIs DEF Timely
<1>3. ASSUME NEW p \in runs' PROVE Timely(p)'
  BY <1>2 DEF TimesInv, Timely
<1>4. ASSUME NEW p \in runs', NEW q \in runs', p.by = q.by, p.job = q.job PROVE p = q
  BY <1>2, <1>4 DEF TimesInv
<1>5. ASSUME NEW p \in runs', p.by = "start" PROVE p.job \notin deferred'
  BY <1>2, <1>5 DEF TimesInv
<1> QED  BY <1>3, <1>4, <1>5 DEF TimesInv

LEMMA TimesStep == CronInv /\ TimesInv /\ [Next]_vars => TimesInv'
<1> SUFFICES ASSUME CronInv, TimesInv, [Next]_vars PROVE TimesInv'
  OBVIOUS
<1>0. /\ now \in Nat /\ runs \subseteq Run /\ deferred \subseteq Jobs
      /\ \A r \in runs : r.by = "start" => boot = "running"
      /\ \A r \in runs : r.by = "tick" => running
  BY DEF CronInv, TypeOK
<1>1. CASE runs' \subseteq runs /\ now' = now /\ deferred' \subseteq deferred
  BY <1>0, <1>1, TimesFewer
<1>2. CASE StartPlans
  <2>1. PICK js \in SUBSET {j \in Jobs : MissedAtStart(j)} :
            /\ deferred' = {j \in Jobs : MissedAtStart(j)} \ js
            /\ runs' = runs \cup {NewRun("start", j) : j \in js}
    BY <1>2 DEF StartPlans
  <2>2. boot = "planning" /\ now' = now
    BY <1>2 DEF StartPlans
  <2>3. \A r \in runs : r.by # "start"
    BY <1>0, <2>2
  <2>4. js \cap deferred' = {}
    BY <2>1
  <2>5. ASSUME NEW r \in runs' \ runs
        PROVE  /\ r.by = "start" /\ r.job \in js /\ Timely(r)
               /\ r = NewRun("start", r.job)
    <3>0. js \subseteq Jobs /\ "start" \in Actors
      BY DEF Actors
    <3>1. PICK j \in js : r = NewRun("start", j)
      BY <2>1
    <3>2. r.by = "start"
      BY <3>0, <3>1, NewRunTyped
    <3>3. r.job = j
      BY <3>0, <3>1, NewRunTyped
    <3>4. Timely(r)
      BY <3>0, <3>1, NewRunTimely
    <3>5. r = NewRun("start", r.job)
      BY <3>1, <3>3
    <3> QED  BY <3>1, <3>2, <3>3, <3>4, <3>5
  <2> QED  BY <2>2, <2>3, <2>4, <2>5, TimesNew
<1>3. CASE TimerFires
  <2> DEFINE due == {j \in Jobs : Due(store[j])}
  <2>1. runs' = runs \cup {NewRun("tick", j) : j \in due}
    BY <1>3 DEF TimerFires
  <2>2. ~running /\ now' = now /\ deferred' = deferred /\ due \in SUBSET Jobs
    BY <1>3 DEF TimerFires
  <2>3. \A r \in runs : r.by # "tick"
    BY <1>0, <2>2
  <2> HIDE DEF due
  <2>4. ASSUME NEW r \in runs' \ runs
        PROVE  /\ r.by = "tick" /\ r.job \in due /\ Timely(r)
               /\ r = NewRun("tick", r.job)
    <3>0. due \subseteq Jobs /\ "tick" \in Actors
      BY <2>2 DEF Actors
    <3>1. PICK j \in due : r = NewRun("tick", j)
      BY <2>1
    <3>2. r.by = "tick"
      BY <3>0, <3>1, NewRunTyped
    <3>3. r.job = j
      BY <3>0, <3>1, NewRunTyped
    <3>4. Timely(r)
      BY <3>0, <3>1, NewRunTimely
    <3>5. r = NewRun("tick", r.job)
      BY <3>1, <3>3
    <3> QED  BY <3>1, <3>2, <3>3, <3>4, <3>5
  <2> QED  BY <2>2, <2>3, <2>4, TimesNew
<1>4. ASSUME NEW r \in runs, Begin(r) PROVE TimesInv'
  <2> DEFINE s == [r EXCEPT !.phase = "running", !.at = now]
  <2>1. /\ runs' = (runs \ {r}) \cup {s} /\ now' = now /\ deferred' = deferred
    BY <1>4 DEF Begin
  <2>2. r \in Run /\ Timely(r)
    BY <1>0 DEF TimesInv
  <2>3. s.by = r.by /\ s.job = r.job /\ s.phase = "running" /\ s.at = now /\ s.until = r.until
    BY <2>2 DEF Run
  <2>4. Timely(s)
    BY <1>0, <2>2, <2>3 DEF Timely
  <2> HIDE DEF s
  <2> QED  BY <2>1, <2>3, <2>4, TimesOn
<1>5. ASSUME NEW r \in runs, End(r) PROVE TimesInv'
  <2>1. PICK result \in Results :
            runs' = (runs \ {r}) \cup
            {[r EXCEPT !.phase = "ended", !.until = now, !.result = result]}
    BY <1>5 DEF End, Results
  <2> DEFINE s == [r EXCEPT !.phase = "ended", !.until = now, !.result = result]
  <2>2. now' = now /\ deferred' = deferred /\ runs' = (runs \ {r}) \cup {s}
    BY <1>5, <2>1 DEF End
  <2>3. r \in Run /\ Timely(r)
    BY <1>0 DEF TimesInv
  <2>4. s.by = r.by /\ s.job = r.job /\ s.at = r.at /\ s.until = now
    BY <2>3 DEF Run
  <2>5. Timely(s)
    BY <1>0, <2>3, <2>4 DEF Timely
  <2> HIDE DEF s
  <2> QED  BY <2>2, <2>4, <2>5, TimesOn
<1>6. ASSUME NEW r \in runs, Reserve(r) PROVE TimesInv'
  <2> DEFINE s == Reserved(r)
  <2>1. runs' \subseteq (runs \ {r}) \cup {s} /\ now' = now /\ deferred' = deferred
    BY <1>6 DEF Reserve
  <2>2. r \in Run /\ Timely(r)
    BY <1>0 DEF TimesInv
  <2>3. s.by = r.by /\ s.job = r.job /\ s.phase = "running" /\ s.at = r.at /\ s.until = r.until
    BY <2>2 DEF Run, Reserved
  <2>4. Timely(s)
    BY <2>2, <2>3 DEF Timely
  <2> HIDE DEF s
  <2> QED  BY <2>1, <2>3, <2>4, TimesOn
<1>7. ASSUME NEW m \in Manuals, NEW j \in Jobs, Preflight(m, j) PROVE TimesInv'
  <2>1. PICK force \in BOOLEAN :
            runs' = runs \cup {CheckedRun(m, j, force)} \/ runs' = runs
    BY <1>7 DEF Preflight
  <2>2. /\ now' = now /\ deferred' = deferred
        /\ \A r \in runs : r.by # m
    BY <1>7 DEF Preflight
  <2>3. m # "start"
    BY CronAssumption
  <2>4. \A r \in runs' \ runs : r = CheckedRun(m, j, force)
    BY <2>1
  <2>5. \A r \in runs' \ runs : r.by = m /\ r.job \in {j} /\ Timely(r)
    BY <2>4, CheckedRunTimely
  <2> QED  BY <2>2, <2>3, <2>4, <2>5, TimesNew
<1>8. CASE Elapse
  <2>1. now' = now + 1 /\ runs' = runs /\ deferred' = deferred
    BY <1>8 DEF Elapse
  <2> QED  BY <1>0, <2>1, TimesFewer
<1>9. ASSUME NEW by, Settle(by), now' = now, deferred' \in {deferred, {}} PROVE TimesInv'
  BY <1>9, TimesSettle
<1>10. CASE StartApplies \/ TickApplies \/ \E m \in Manuals : ManualApplies(m)
  BY <1>9, <1>10 DEF StartApplies, TickApplies, ManualApplies
<1>11. CASE StartClears \/ StartArms \/ Crash
  BY <1>1, <1>11 DEF StartClears, StartArms, Crash
<1>12. CASE \E j \in Jobs : Add(j) \/ Update(j) \/ Remove(j)
  BY <1>1, <1>12 DEF Add, Update, Remove
<1>13. CASE UNCHANGED vars
  BY <1>1, <1>13 DEF vars
<1> QED
  BY <1>2, <1>3, <1>4, <1>5, <1>6, <1>7, <1>8, <1>10, <1>11, <1>12, <1>13
     DEF Next, ServiceSteps, RunSteps

(* A batch that is settled: each of its runs decides about its own job.     *)
LEMMA BatchLater ==
    ASSUME CronInv, TimesInv, NEW by, Settle(by), NEW r \in runs \ runs', r.phase = "ended",
           kind[r.job] # "at", store[r.job].stored = "yes", store[r.job].enabled
    PROVE  LET job == AllSettled(store, EndedOf(by))[r.job]
           IN /\ job \in Job /\ job.stored = "yes" /\ job.enabled
              /\ job.marked = NoTime /\ job.lastRun = r.at /\ Later(r, job)
<1> DEFINE ended == EndedOf(by)
           j == r.job
           job == AllSettled(store, ended)[j]
<1>1. /\ kind \in [Jobs -> {"every", "at", "cron"}] /\ j \in Jobs /\ store[j] \in Job
      /\ runs \subseteq Run /\ r \in Run
  BY DEF CronInv, TypeOK, Run
<1>2. ended = {q \in runs : q.by = by} /\ r.by = by
  <2>1. ASSUME r.by # by PROVE r \in runs'
    BY <1>1, <2>1, Leaving, BehindIs
  <2> QED  BY <2>1 DEF EndedOf
<1>3. (CHOOSE q \in ended : q.job = j) = r
  <2>1. r \in ended /\ r.job = j
    BY <1>2
  <2>2. \A q \in ended : q.job = j => q = r
    BY <1>2 DEF TimesInv
  <2>3. (CHOOSE q \in ended : q.job = j) \in ended /\ (CHOOSE q \in ended : q.job = j).job = j
    BY <2>1
  <2> QED  BY <2>2, <2>3
<1>4. job = Settled(j, store[j], r)
  <2>1. \E q \in ended : q.job = j
    BY <1>2
  <2>2. job = Settled(j, store[j], CHOOSE q \in ended : q.job = j)
    BY <1>1, <2>1 DEF AllSettled
  <2> QED  BY <1>3, <2>2
<1>5. r.at <= r.until
  BY <1>2 DEF TimesInv, Timely
<1>6. Fair(j, job) /\ job.marked = NoTime
  BY <1>1, <1>4, SettledGood
<1>7. Later(r, job) /\ job.lastRun = r.at /\ job.stored = "yes" /\ job.enabled
  BY <1>1, <1>4, <1>5, SettledLater
<1> QED  BY <1>6, <1>7 DEF Fair

(* A result neither enables nor stores a recurring job.                     *)
LEMMA SettledKeeps ==
    ASSUME NEW j \in Jobs, kind[j] # "at", NEW job \in Job, NEW r \in Run
    PROVE  /\ Settled(j, job, r).stored = job.stored
           /\ Settled(j, job, r).enabled = job.enabled
<1> DEFINE failed == r.result \in {"transient", "permanent"}
           errors == IF failed
                     THEN IF job.errors < MaxErrors THEN job.errors + 1 ELSE MaxErrors
                     ELSE 0
           done == [job EXCEPT !.marked = NoTime, !.lastRun = r.at, !.errors = errors,
                               !.lastStatus = IF failed THEN "error" ELSE r.result]
<1>1. PICK next : Settled(j, job, r) = [done EXCEPT !.next = next]
  BY DEF Settled
<1> QED  BY <1>1 DEF Job

LEMMA MovedOnStep ==
    ASSUME CronInv, TimesInv, [Next]_vars, NEW r \in runs \ runs'
    PROVE  MovedOn(r)
<1> SUFFICES ASSUME r.phase = "ended", boot' # "down", kind[r.job] # "at",
                    store'[r.job].stored = "yes", store'[r.job].enabled
             PROVE  Later(r, store'[r.job])
  BY DEF MovedOn
<1> DEFINE j == r.job
           s(by) == AllSettled(store, EndedOf(by))
<1>0. /\ AllFair(store) /\ now \in Nat /\ r \in Run /\ j \in Jobs /\ TypeOK
      /\ kind[j] \in {"every", "cron"} /\ runs \subseteq Run /\ store[j] \in Job
      /\ r.at <= r.until /\ r.until <= now
  BY DEF CronInv, TypeOK, AllFair, Sound, Good, Run, TimesInv, Timely
<1>1. ASSUME NEW by, Settle(by), s(by)[j].stored = "yes", s(by)[j].enabled
      PROVE  /\ s(by)[j] \in Job /\ s(by)[j].marked = NoTime /\ s(by)[j].lastRun = r.at
             /\ Later(r, s(by)[j])
  <2>1. store[j].stored = "yes" /\ store[j].enabled
    <3>1. \/ s(by)[j] = store[j]
          \/ \E q \in EndedOf(by) : s(by)[j] = Settled(j, store[j], q)
      BY <1>0 DEF AllSettled
    <3>2. EndedOf(by) \subseteq Run
      BY <1>0 DEF EndedOf
    <3> QED  BY <1>0, <1>1, <3>1, <3>2, SettledKeeps
  <2> QED  BY <1>1, <2>1, BatchLater
<1>2. ASSUME NEW by, Settle(by) PROVE AllFair(s(by))
  <2>1. EndedOf(by) \in SUBSET Run
    BY <1>0 DEF EndedOf
  <2> QED  BY <1>0, <2>1, AllSettledFair
<1>3. ASSUME NEW by, Settle(by), NEW t, AllFair(t), t[j] = s(by)[j], NEW expired,
             store' = Maintained(t, expired)
      PROVE  Later(r, store'[j])
  <2>1. t[j].stored = "yes" /\ t[j].enabled
    BY <1>0, <1>3, MaintainedSound DEF Maintains
  <2>2. t[j] \in Job /\ t[j].marked = NoTime /\ t[j].lastRun = r.at /\ Later(r, t[j])
    BY <1>1, <1>3, <2>1
  <2> QED  BY <1>0, <1>3, <2>1, <2>2, MaintainedLater
<1>4. CASE StartApplies
  <2> DEFINE later == {i \in deferred : s("start")[i].stored = "yes" /\ s("start")[i].enabled}
  <2>1. PICK rank \in [later -> 1 .. Cardinality(later)] :
            store' = Maintained(Spread(s("start"), later, rank), FALSE)
    BY <1>4 DEF StartApplies, Spread
  <2>2. Settle("start")
    BY <1>4 DEF StartApplies
  <2>3. r.by = "start"
    <3>1. ASSUME r.by # "start" PROVE r \in runs'
      BY <1>0, <2>2, <3>1, Leaving, BehindIs
    <3> QED  BY <3>1
  <2>4. j \notin later /\ later \in SUBSET Jobs
    BY <1>0, <2>3 DEF TimesInv, TypeOK
  <2> HIDE DEF later, s
  <2>5. Spread(s("start"), later, rank)[j] = s("start")[j]
    BY <1>0, <2>4 DEF Spread
  <2>6. AllFair(Spread(s("start"), later, rank))
    BY <1>0, <1>2, <2>1, <2>2, <2>4, SpreadFair
  <2> QED  BY <1>3, <2>1, <2>2, <2>5, <2>6
<1>5. CASE TickApplies
  BY <1>2, <1>3, <1>5 DEF TickApplies
<1>6. ASSUME NEW m \in Manuals, ManualApplies(m) PROVE Later(r, store'[j])
  <2>1. Settle(m)
    BY <1>6 DEF ManualApplies
  <2>2. CASE store' = Maintained(s(m), TRUE)
    BY <1>2, <1>3, <2>1, <2>2
  <2>3. CASE store' = store
    <3>1. r \in EndedOf(m)
      <4>1. ASSUME r.by # m PROVE r \in runs'
        BY <1>0, <2>1, <4>1, Leaving, BehindIs
      <4> QED  BY <4>1 DEF EndedOf
    <3>2. store' = Maintained(s(m), TRUE)
      BY <1>6, <2>3, <3>1 DEF ManualApplies
    <3> QED  BY <2>2, <3>2
  <2> QED  BY <1>6, <2>2, <2>3 DEF ManualApplies
<1>7. ASSUME NEW q \in runs, RunSteps(q) PROVE FALSE
  <2>1. CASE Begin(q)
    BY <2>1 DEF Begin
  <2>2. CASE End(q)
    BY <2>2 DEF End
  <2>3. CASE Reserve(q)
    BY <2>3 DEF Reserve
  <2> QED  BY <1>7, <2>1, <2>2, <2>3 DEF RunSteps
<1>8. ~(runs \subseteq runs')
  OBVIOUS
<1>9. ~(StartClears \/ StartArms \/ Elapse \/ Crash)
  <2>1. ~StartClears
    BY <1>8 DEF StartClears
  <2>2. ~StartArms
    BY <1>8 DEF StartArms
  <2>3. ~Elapse
    BY <1>8 DEF Elapse
  <2>4. ~Crash
    BY DEF Crash
  <2> QED  BY <2>1, <2>2, <2>3, <2>4
<1>10. ~StartPlans /\ ~TimerFires
  <2>1. ~StartPlans
    BY <1>8 DEF StartPlans
  <2>2. ~TimerFires
    BY <1>8 DEF TimerFires
  <2> QED  BY <2>1, <2>2
<1>11. ASSUME NEW i \in Jobs PROVE ~Add(i) /\ ~Update(i) /\ ~Remove(i)
  <2>1. ~Add(i)
    BY <1>8 DEF Add
  <2>2. ~Update(i)
    BY <1>8 DEF Update
  <2>3. ~Remove(i)
    BY <1>8 DEF Remove
  <2> QED  BY <2>1, <2>2, <2>3
<1>12. ~\E m \in Manuals, i \in Jobs : Preflight(m, i)
  BY <1>8 DEF Preflight
<1> QED
  BY <1>4, <1>5, <1>6, <1>7, <1>8, <1>9, <1>10, <1>11, <1>12 DEF Next, ServiceSteps, vars
-----------------------------------------------------------------------------
(* The state of the cron service is well typed: a run of the catch-up is    *)
(* there only while start() waits for it, and a disabled job has no time.   *)
THEOREM TypeCorrect == Spec => []TypeOK
<1>1. CronInv => TypeOK
  BY DEF CronInv
<1> QED  BY InvInit, InvStep, <1>1, PTL DEF Spec

(* However ticks, the catch-up, manual runs and edits interleave, a marker  *)
(* has a run that will take it away, and a job is run once at a time as     *)
(* long as, since it was last not run at all, it was enabled in every state *)
(* and its marker never older than STUCK_RUN_MS: only a call that walks the *)
(* store while one of these is not so can let a second execution in.        *)
THEOREM OneExecutionAtATime == Spec => []OneExecution
<1>1. ASSUME CronInv PROVE OneExecution
  <2>1. ASSUME boot # "down", NEW j \in Jobs, store[j].marked # NoTime
        PROVE  Holders(runs, j) # {}
    BY <1>1, <2>1 DEF CronInv, Marked
  <2>2. ASSUME NEW j \in Jobs, ~unguarded[j]
        PROVE  Cardinality(Holders(runs, j)) <= 1
    <3>1. \A q, r \in Holders(runs, j) : q = r
      BY <1>1, <2>2 DEF CronInv, Alone
    <3>2. CASE Holders(runs, j) = {}
      BY <3>2, FS_EmptySet
    <3>3. CASE Holders(runs, j) # {}
      <4>1. PICK r : Holders(runs, j) = {r}
        BY <3>1, <3>3
      <4> QED  BY <4>1, FS_Singleton
    <3> QED  BY <3>2, <3>3
  <2> QED  BY <2>1, <2>2 DEF OneExecution
<1> QED  BY InvInit, InvStep, <1>1, PTL DEF Spec

(* No tick, start, manual run, edit or reading call leaves an enabled job   *)
(* that has a time without a timer: the one-shot setTimeout is always set.  *)
THEOREM TimerAlwaysSet == Spec => []TimerKept
<1>1. CronInv => TimerKept
  BY DEF CronInv
<1> QED  BY InvInit, InvStep, <1>1, PTL DEF Spec

(* No tick, no check or result of a manual run of another job, no edit of   *)
(* another job but an add, and no reading call takes a slot that is due     *)
(* from a job that has not been run for it.                                 *)
THEOREM SlotsAreKept == Spec => NoSlotSkipped
<1>1. CronInv /\ [Next]_vars =>
        [\A j \in Jobs :
          Due(store[j]) /\ store'[j].next # store[j].next =>
              \/ store[j].lastRun >= store[j].next
              \/ \E r \in Holders(runs, j) : r.phase = "ended" /\ r \notin runs'
              \/ j \in deferred /\ StartApplies
              \/ Update(j) \/ Remove(j)
              \/ \E k \in Jobs : Add(k)
              \/ StartArms]_vars
  BY SlotStep DEF SlotKept
<1> QED  BY InvInit, InvStep, <1>1, PTL DEF Spec, NoSlotSkipped

(* A one-shot that ended well is not run again by a tick, a start or an     *)
(* unforced manual run, unless the catch-up of a start gave it a time or    *)
(* the manual run was let in beside a run of it that had lost its marker:   *)
(* the sections that are served between the check of a manual run and its   *)
(* reservation were called for before the check, so they are of runs that   *)
(* the check has seen.                                                      *)
THEOREM OneShotsEnd == Spec => OneShotOnce
<1>1. CronInv /\ OnceInv /\ AheadInv /\ [Next]_vars =>
        [\A j \in Jobs :
          Done(store, j) =>
             \A r \in Holders(runs', j) :
                r.force \/ r.beside \/ j \in putOff
                    \/ \E q \in Holders(runs, j) : q.by = r.by]_vars
  BY AgainStep DEF RunsAgain
<1> QED  BY InvInit, InvStep, OnceInit, OnceStep, AheadInit, AheadStep, <1>1, PTL DEF Spec, OneShotOnce

(* However ticks, manual runs, edits and deferrals interleave, a run of a   *)
(* recurring job that is settled leaves it with a time that is not before   *)
(* the run's end or the end of its backoff and, unless a client forced the  *)
(* run, after its beginning, so that no slot is run twice (applyJobResult   *)
(* and the maintenance after it).                                           *)
THEOREM ResultsMoveOn == Spec => RunsMoveOn
<1>1. CronInv /\ TimesInv /\ [Next]_vars => [\A r \in runs \ runs' : MovedOn(r)]_vars
  BY MovedOnStep
<1> QED  BY InvInit, InvStep, TimesInit, TimesStep, <1>1, PTL DEF Spec, RunsMoveOn
=============================================================================
