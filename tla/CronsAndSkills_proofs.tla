------------------------ MODULE CronsAndSkills_proofs ------------------------
(***************************************************************************)
(* Proofs about CronScheduler and CustomCrons, for any jobs, actions and   *)
(* any number of objects alive: triggers are honoured, stale work is       *)
(* bounded, and the registry of custom jobs agrees with the scheduler and  *)
(* with its file.  And about Skills, whose scan is one of the jobs: the    *)
(* registry of skills says what the bundles on disk say.                   *)
(*                                                                         *)
(* The first part is about the scheduler alone; the registry only calls    *)
(* its operations, or starts it anew, so CronInv holds beside it as well.  *)
(* The loop's list matters most: its objects are of different names and    *)
(* have not run stale yet, and the job under way is owed no idle trigger.  *)
(*                                                                         *)
(* The last part, about skills, rests on three facts.  A scan is a function*)
(* of the roots and the disk and lists under each name the one valid       *)
(* bundle there.  Every other step that writes to a scanned place says so  *)
(* in touched, installs into such a place included.  And a managed skill   *)
(* with a folder of its own shares its place with no other.                *)
(***************************************************************************)
EXTENDS CustomCrons, Skills, FiniteSetTheorems, SequenceTheorems, TLAPS

\* The loop works on what it has collected, and on nothing otherwise.
ListIsOfTheLoop == current = NoJob => batch = {}

\* What still awaits its turn, and what is registered and enabled, has no stale run behind it.
StaleIsSpent ==
  /\ \A o \in Objects : IsLive(o) \/ o \in batch => stale[o] = 0
  /\ StaleJobRunsAtMostOnce

\* A trigger that arrives while its job runs is not one of an idle job.
CurrentIsNotIdle == current \in Objects => asked[current] # "idle"

CronInv == /\ TypeOK
           /\ ListIsOfTheLoop
           /\ OneObjectPerNameInAPass
           /\ StaleIsSpent
           /\ CurrentIsNotIdle
           /\ IdleTriggerIsKept
           /\ TriggerCutsTheSleep

\* The registry and its file: specs, and no more of them than the limit.
SpecsOf == [Custom -> Specs \union {NoSpec}]
Held(m) == {n \in Custom : m[n] # NoSpec}
Fits(m) == m \in SpecsOf /\ Cardinality(Held(m)) <= MaxCustom

StoresFit ==
  /\ Fits(specs) /\ Fits(file) /\ started \in BOOLEAN
  /\ acked \in [Custom -> Specs \union {NoSpec, Unknown}]

\* A plugin that came up knows of every custom job what was acknowledged; a name too long
\* to be read back is the exception.
MemoryIsAcknowledged ==
  started => \A n \in Custom \ LongNames : acked[n] # Unknown => specs[n] = acked[n]

RegistryInv == /\ StoresFit
               /\ MemoryIsAcknowledged
               /\ AcknowledgedIsOnDisk
               /\ RegistryMatchesScheduler

-----------------------------------------------------------------------------
(* Objects and what operators do to them. *)

LEMMA ObjectFacts ==
  /\ NoJob \notin Objects
  /\ \A o \in Objects : o[1] \in Names /\ o[2] \in Slots /\ o = <<o[1], o[2]>> /\ o[2] # 0
  /\ \A n \in Names, s \in Slots : <<n, s>> \in Objects
BY TwoSlots DEF Objects, NoJob

LEMMA JobIsAnObject ==
  ASSUME TypeOK, NEW n \in Names, Registered(n)
  PROVE  Job(n) \in Objects /\ Job(n)[1] = n /\ Job(n)[2] = jobs[n]
BY DEF TypeOK, Registered, Job, Objects

LEMMA ForgetIsTyped ==
  ASSUME NEW n, NEW S, NEW value \in [Objects -> S], NEW init \in S
  PROVE  /\ Forget(n, value, init) \in [Objects -> S]
         /\ \A o \in Objects : Forget(n, value, init)[o] = IF o[1] = n THEN init ELSE value[o]
BY DEF Forget

\* The slot a new object takes: of one name the loop holds one object, and there are two slots.
FreeSlot(n) == CHOOSE i \in Slots : <<n, i>> \notin batch \union {current}

LEMMA SlotIsFree ==
  ASSUME OneObjectPerNameInAPass, NEW n
  PROVE  FreeSlot(n) \in Slots /\ <<n, FreeSlot(n)>> \notin batch \union {current}
<1>1. \E i \in Slots : <<n, i>> \notin batch \union {current}
  <2>1. SUFFICES ASSUME <<n, 1>> \in batch \union {current}, <<n, 2>> \in batch \union {current}
                 PROVE  FALSE
    BY TwoSlots
  <2>2. <<n, 1>> = <<n, 2>>
    BY <2>1 DEF OneObjectPerNameInAPass
  <2> QED
    BY <2>2
<1> QED
  BY <1>1 DEF FreeSlot
\* A call on name n counts its runs anew and makes no other object live.
LEMMA OwnObjectsKeepStaleSpent ==
  ASSUME StaleIsSpent, NEW n, batch' = batch,
         \A p \in Objects : stale'[p] = IF p[1] = n THEN 0 ELSE stale[p],
         \A p \in Objects : p[1] # n => (IsLive(p)' => IsLive(p))
  PROVE  StaleIsSpent'
<1>1. ASSUME NEW p \in Objects
      PROVE  (IsLive(p) \/ p \in batch => stale[p] = 0)' /\ (stale[p] <= 1)'
  <2>1. CASE p[1] = n
    BY <2>1
  <2>2. CASE p[1] # n
    BY <2>2 DEF StaleIsSpent, StaleJobRunsAtMostOnce
  <2> QED
    BY <2>1, <2>2
<1> QED
  BY <1>1 DEF StaleIsSpent, StaleJobRunsAtMostOnce

\* It wakes the loop, and takes triggers back at most.
LEMMA WakingKeepsTriggers ==
  ASSUME CurrentIsNotIdle, wake' = TRUE, current' = current,
         \A p \in Objects : asked'[p] \in {"no", asked[p]}
  PROVE  CurrentIsNotIdle' /\ TriggerCutsTheSleep'
BY DEF CurrentIsNotIdle, TriggerCutsTheSleep
-----------------------------------------------------------------------------
(* The operators' calls. *)

LEMMA AddKeepsCronInv ==
  ASSUME CronInv, NEW n \in Names, NEW f \in Fns, NEW on \in BOOLEAN, Add(n, f, on)
  PROVE  CronInv'
<1> DEFINE s == FreeSlot(n)
           o == <<n, s>>
<1>1. s \in Slots /\ o \in Objects /\ o \notin batch \union {current} /\ s # 0
  BY SlotIsFree, ObjectFacts DEF CronInv
<1>2. /\ jobs' = [jobs EXCEPT ![n] = s]
      /\ enabled' = [Forget(n, enabled, FALSE) EXCEPT ![o] = on]
      /\ due' = Forget(n, due, FALSE) /\ fn' = [fn EXCEPT ![o] = f]
      /\ asked' = Forget(n, asked, "no") /\ stale' = Forget(n, stale, 0) /\ wake' = TRUE
      /\ UNCHANGED <<lifetime, loopVars>>
  BY DEF Add, FreeSlot
<1>3. TypeOK
  BY DEF CronInv
<1> HIDE DEF s, o
<1>4. /\ Forget(n, enabled, FALSE) \in [Objects -> BOOLEAN]
      /\ due' \in [Objects -> BOOLEAN] /\ asked' \in [Objects -> {"no", "idle", "midrun"}]
      /\ stale' \in [Objects -> Nat]
  BY <1>2, <1>3, ForgetIsTyped DEF TypeOK
<1>5. \A p \in Objects : /\ asked'[p] = IF p[1] = n THEN "no" ELSE asked[p]
                         /\ stale'[p] = IF p[1] = n THEN 0 ELSE stale[p]
                         /\ due'[p] = IF p[1] = n THEN FALSE ELSE due[p]
  BY <1>2, <1>3 DEF TypeOK, Forget
<1>6. ASSUME NEW p \in Objects, p[1] # n
      PROVE  IsLive(p)' <=> IsLive(p)
  <2>1. p # o /\ p[1] \in Names
    BY <1>6, ObjectFacts DEF o
  <2>2. enabled'[p] = enabled[p] /\ jobs'[p[1]] = jobs[p[1]]
    BY <1>1, <1>2, <1>3, <1>6, <2>1 DEF TypeOK, Forget
  <2> QED
    BY <2>2 DEF IsLive
<1>7. TypeOK'
  BY <1>1, <1>2, <1>3, <1>4 DEF TypeOK, lifetime, loopVars
<1>8. ListIsOfTheLoop' /\ OneObjectPerNameInAPass'
  BY <1>2 DEF CronInv, ListIsOfTheLoop, OneObjectPerNameInAPass, loopVars
<1>9. StaleIsSpent'
  BY <1>2, <1>5, <1>6, OwnObjectsKeepStaleSpent DEF CronInv, loopVars
<1>10. CurrentIsNotIdle' /\ TriggerCutsTheSleep'
  BY <1>2, <1>5, WakingKeepsTriggers DEF CronInv, loopVars
<1>11. ASSUME NEW m \in Names, jobs'[m] # 0, asked'[<<m, jobs'[m]>>] = "idle"
       PROVE  due'[<<m, jobs'[m]>>]
  <2>1. <<m, jobs'[m]>> \in Objects
    BY <1>7, <1>11 DEF TypeOK, Objects
  <2>2. m # n
    BY <1>5, <1>11, <2>1
  <2>3. jobs'[m] = jobs[m]
    BY <1>2, <1>3, <2>2 DEF TypeOK
  <2>4. asked[<<m, jobs[m]>>] = "idle" /\ due'[<<m, jobs[m]>>] = due[<<m, jobs[m]>>]
    BY <1>5, <1>11, <2>1, <2>2, <2>3
  <2>5. due[<<m, jobs[m]>>]
    BY <1>11, <2>3, <2>4 DEF CronInv, IdleTriggerIsKept, Registered, Job
  <2> QED
    BY <2>3, <2>4, <2>5
<1>12. IdleTriggerIsKept'
  BY <1>11 DEF IdleTriggerIsKept, Registered, Job
<1> QED
  BY <1>7, <1>8, <1>9, <1>10, <1>12 DEF CronInv

LEMMA RemoveKeepsCronInv ==
  ASSUME CronInv, NEW n \in Names, Remove(n)
  PROVE  CronInv'
<1>1. TypeOK
  BY DEF CronInv
<1>2. /\ enabled' \in [Objects -> BOOLEAN]
      /\ due' \in [Objects -> BOOLEAN] /\ asked' \in [Objects -> {"no", "idle", "midrun"}]
      /\ stale' \in [Objects -> Nat]
  BY <1>1, ForgetIsTyped DEF TypeOK, Remove
<1>3. \A p \in Objects : /\ asked'[p] = IF p[1] = n THEN "no" ELSE asked[p]
                         /\ stale'[p] = IF p[1] = n THEN 0 ELSE stale[p]
                         /\ due'[p] = IF p[1] = n THEN FALSE ELSE due[p]
                         /\ enabled'[p] = IF p[1] = n THEN FALSE ELSE enabled[p]
  BY <1>1 DEF TypeOK, Forget, Remove
<1>4. \A p \in Objects : IsLive(p)' => IsLive(p)
  BY <1>1, <1>3, ObjectFacts DEF IsLive, TypeOK, Remove
<1>5. wake' = TRUE /\ UNCHANGED <<lifetime, loopVars>> /\ jobs' = [jobs EXCEPT ![n] = 0]
  BY DEF Remove
<1>6. TypeOK'
  BY <1>1, <1>2, <1>5 DEF TypeOK, Remove, lifetime, loopVars
<1>7. ListIsOfTheLoop' /\ OneObjectPerNameInAPass'
  BY <1>5 DEF CronInv, ListIsOfTheLoop, OneObjectPerNameInAPass, loopVars
<1>8. StaleIsSpent'
  BY <1>3, <1>4, <1>5, OwnObjectsKeepStaleSpent DEF CronInv, loopVars
<1>9. CurrentIsNotIdle' /\ TriggerCutsTheSleep'
  BY <1>3, <1>5, WakingKeepsTriggers DEF CronInv, loopVars
<1>10. IdleTriggerIsKept'
  BY <1>1, <1>3, <1>5, <1>6, JobIsAnObject DEF CronInv, IdleTriggerIsKept, TypeOK, Registered, Job, Objects
<1> QED
  BY <1>6, <1>7, <1>8, <1>9, <1>10 DEF CronInv

\* A call on the registered object j of a name, which stays registered: what becomes of the
\* object, and that nothing else changes.
LEMMA TouchKeepsCronInv ==
  ASSUME CronInv, NEW j \in Objects, UNCHANGED <<jobs, fn, lifetime, loopVars>>, TypeOK',
         \A p \in Objects \ {j} : /\ enabled'[p] = enabled[p] /\ due'[p] = due[p]
                                  /\ asked'[p] = asked[p] /\ stale'[p] = stale[p],
         stale'[j] = 0 \/ (stale'[j] = stale[j] /\ enabled'[j] = enabled[j]),
         asked'[j] = "idle" => due'[j],
         j = current => asked'[j] # "idle",
         wake' = TRUE \/ (wake' = wake /\ enabled' = enabled /\ asked' = asked)
  PROVE  CronInv'
<1>1. TypeOK
  BY DEF CronInv
<1>2. ListIsOfTheLoop' /\ OneObjectPerNameInAPass'
  BY DEF CronInv, ListIsOfTheLoop, OneObjectPerNameInAPass, loopVars
<1>3. StaleIsSpent'
  <2>1. ASSUME NEW p \in Objects
        PROVE  (IsLive(p) \/ p \in batch => stale[p] = 0)' /\ (stale[p] <= 1)'
    <3>1. stale[p] <= 1 /\ (IsLive(p) \/ p \in batch => stale[p] = 0)
      BY DEF CronInv, StaleIsSpent, StaleJobRunsAtMostOnce
    <3>2. CASE stale'[p] = 0
      BY <3>2
    <3>3. CASE stale'[p] = stale[p] /\ enabled'[p] = enabled[p]
      BY <3>1, <3>3 DEF IsLive, loopVars
    <3> QED
      BY <3>2, <3>3
  <2> QED
    BY <2>1 DEF StaleIsSpent, StaleJobRunsAtMostOnce
<1>4. CurrentIsNotIdle'
  BY DEF CronInv, CurrentIsNotIdle, loopVars
<1>5. IdleTriggerIsKept'
  <2>1. ASSUME NEW n \in Names, Registered(n), asked'[Job(n)] = "idle"
        PROVE  due'[Job(n)]
    <3>1. Job(n) \in Objects
      BY <1>1, <2>1, JobIsAnObject
    <3> QED
      BY <2>1, <3>1 DEF CronInv, IdleTriggerIsKept
  <2> QED
    BY <2>1 DEF IdleTriggerIsKept, Registered, Job
<1>6. TriggerCutsTheSleep'
  <2>1. CASE wake' = TRUE
    BY <2>1 DEF TriggerCutsTheSleep
  <2>2. CASE wake' = wake /\ enabled' = enabled /\ asked' = asked
    BY <2>2 DEF CronInv, TriggerCutsTheSleep, IsLive, loopVars
  <2> QED
    BY <2>1, <2>2
<1> QED
  BY <1>2, <1>3, <1>4, <1>5, <1>6 DEF CronInv

LEMMA SetEnabledKeepsCronInv ==
  ASSUME CronInv, NEW n \in Names, NEW on \in BOOLEAN, SetEnabled(n, on)
  PROVE  CronInv'
<1>1. TypeOK /\ Job(n) \in Objects
  BY JobIsAnObject DEF CronInv, SetEnabled
<1>2. /\ enabled' = [enabled EXCEPT ![Job(n)] = on]
      /\ due' = [due EXCEPT ![Job(n)] = due[Job(n)] /\ ~on]
      /\ asked' = [asked EXCEPT ![Job(n)] = IF on THEN "no" ELSE asked[Job(n)]]
      /\ stale' = [stale EXCEPT ![Job(n)] = 0]
      /\ wake' = TRUE
      /\ UNCHANGED <<jobs, fn, lifetime, loopVars>>
  BY DEF SetEnabled
<1>3. due'[Job(n)] = (due[Job(n)] /\ ~on) /\ asked'[Job(n)] = IF on THEN "no" ELSE asked[Job(n)]
  BY <1>1, <1>2 DEF TypeOK
<1>4. asked[Job(n)] = "idle" => due[Job(n)] /\ Job(n) # current
  BY <1>1 DEF CronInv, IdleTriggerIsKept, CurrentIsNotIdle, SetEnabled
<1>5. TypeOK'
  BY <1>1, <1>2 DEF TypeOK, lifetime, loopVars
<1>6. asked'[Job(n)] = "idle" => due'[Job(n)] /\ Job(n) # current
  BY <1>3, <1>4
<1> QED
  BY <1>1, <1>2, <1>5, <1>6, TouchKeepsCronInv DEF TypeOK

LEMMA SetIntervalKeepsCronInv ==
  ASSUME CronInv, NEW n \in Names, SetInterval(n)
  PROVE  CronInv'
<1>1. TypeOK /\ Job(n) \in Objects
  BY JobIsAnObject DEF CronInv, SetInterval
<1>2. TypeOK'
  BY <1>1 DEF TypeOK, SetInterval, lifetime, loopVars
<1>3. asked'[Job(n)] = "no"
  BY <1>1 DEF TypeOK, SetInterval
<1> QED
  BY <1>1, <1>2, <1>3, TouchKeepsCronInv DEF TypeOK, SetInterval

LEMMA TriggerKeepsCronInv ==
  ASSUME CronInv, NEW n \in Names, Trigger(n)
  PROVE  CronInv'
<1>1. TypeOK /\ Job(n) \in Objects
  BY JobIsAnObject DEF CronInv, Trigger
<1>2. TypeOK'
  BY <1>1 DEF TypeOK, Trigger, lifetime, loopVars
<1>3. due'[Job(n)] /\ (Job(n) = current => asked'[Job(n)] # "idle")
  BY <1>1 DEF TypeOK, Trigger
<1> QED
  BY <1>1, <1>2, <1>3, TouchKeepsCronInv DEF TypeOK, Trigger

LEMMA ComesDueKeepsCronInv ==
  ASSUME CronInv, NEW n \in Names, ComesDue(n)
  PROVE  CronInv'
<1>1. TypeOK /\ Job(n) \in Objects
  BY JobIsAnObject DEF CronInv, ComesDue
<1>2. TypeOK'
  BY <1>1 DEF TypeOK, ComesDue, lifetime, loopVars
<1>3. due'[Job(n)] /\ (Job(n) = current => asked'[Job(n)] # "idle")
  BY <1>1 DEF TypeOK, ComesDue, CronInv, CurrentIsNotIdle
<1> QED
  BY <1>1, <1>2, <1>3, TouchKeepsCronInv DEF TypeOK, ComesDue
-----------------------------------------------------------------------------
(* start(), stop(), and the loop. *)

LEMMA LifeCycleKeepsCronInv ==
  ASSUME CronInv, LifeCycle
  PROVE  CronInv'
<1>1. TypeOK /\ NoJob \notin Objects /\ UNCHANGED objects
  BY ObjectFacts DEF CronInv, LifeCycle, StartLoop, StopLoop, StopIsCancelled
<1>2. TypeOK'
  BY <1>1 DEF LifeCycle, StartLoop, StopLoop, StopIsCancelled, TypeOK, objects, loopVars
<1>3. current' \in {current, NoJob} /\ batch' \subseteq batch
      /\ (current' = NoJob => batch' = {})
      /\ (current' = current \/ batch' = {})
  BY <1>1 DEF LifeCycle, StartLoop, StopLoop, StopIsCancelled, loopVars, CronInv, ListIsOfTheLoop
<1>4. ListIsOfTheLoop' /\ OneObjectPerNameInAPass' /\ CurrentIsNotIdle'
  BY <1>1, <1>3 DEF CronInv, ListIsOfTheLoop, OneObjectPerNameInAPass, CurrentIsNotIdle, objects
<1>5. StaleIsSpent' /\ IdleTriggerIsKept'
  BY <1>1, <1>3 DEF CronInv, StaleIsSpent, StaleJobRunsAtMostOnce, IdleTriggerIsKept, objects, IsLive,
                    Registered, Job
<1>6. loop' = "asleep" => loop = "asleep" /\ (wake' = wake \/ wake') /\ nap' = nap
  BY <1>1 DEF LifeCycle, StartLoop, StopLoop, StopIsCancelled, loopVars
<1>7. TriggerCutsTheSleep'
  BY <1>1, <1>6 DEF CronInv, TriggerCutsTheSleep, objects, IsLive
<1> QED
  BY <1>2, <1>4, <1>5, <1>7 DEF CronInv

\* The loop takes up o, with rest to come, and leaves everything registered as it is.
LEMMA RunJobKeepsCronInv ==
  ASSUME TypeOK, StaleIsSpent, IdleTriggerIsKept,
         NEW o \in Objects, NEW rest \in SUBSET Objects, o \notin rest,
         \A p, q \in rest \union {o} : p[1] = q[1] => p = q,
         \A p \in rest \union {o} : stale[p] = 0,
         RunJob(o, rest), UNCHANGED <<jobs, enabled, fn, lifetime, nap, wake>>,
         due' \in [Objects -> BOOLEAN],
         \A p \in Objects : asked[p] = "idle" /\ p # o /\ due[p] => due'[p]
  PROVE  CronInv'
<1>1. /\ loop' = "running" /\ current' = o /\ batch' = rest
      /\ asked' = [asked EXCEPT ![o] = "no"]
      /\ stale' = [stale EXCEPT ![o] = IF IsLive(o) THEN 0 ELSE stale[o] + 1]
  BY DEF RunJob
<1>2. o # NoJob
  BY ObjectFacts
<1>3. stale[o] = 0 /\ \A p \in Objects : stale'[p] = IF p = o THEN IF IsLive(o) THEN 0 ELSE 1 ELSE stale[p]
  BY <1>1 DEF TypeOK
<1>4. TypeOK'
  <2>1. stale' \in [Objects -> Nat]
    BY <1>1, <1>3 DEF TypeOK
  <2> QED
    BY <1>1, <1>2, <2>1 DEF TypeOK, lifetime
<1>5. ListIsOfTheLoop' /\ OneObjectPerNameInAPass'
  BY <1>1, <1>2 DEF ListIsOfTheLoop, OneObjectPerNameInAPass
<1>6. StaleIsSpent'
  <2>1. ASSUME NEW p \in Objects
        PROVE  (IsLive(p) \/ p \in batch => stale[p] = 0)' /\ (stale[p] <= 1)'
    <3>1. IsLive(p)' <=> IsLive(p)
      BY DEF IsLive
    <3>2. CASE p = o
      BY <1>1, <1>3, <3>1, <3>2
    <3>3. CASE p # o
      BY <1>1, <1>3, <3>1, <3>3 DEF StaleIsSpent, StaleJobRunsAtMostOnce
    <3> QED
      BY <3>2, <3>3
  <2> QED
    BY <2>1 DEF StaleIsSpent, StaleJobRunsAtMostOnce
<1>7. CurrentIsNotIdle' /\ TriggerCutsTheSleep'
  BY <1>1 DEF TypeOK, CurrentIsNotIdle, TriggerCutsTheSleep
<1>8. IdleTriggerIsKept'
  <2>1. ASSUME NEW n \in Names, Registered(n), asked'[Job(n)] = "idle"
        PROVE  due'[Job(n)]
    <3>1. Job(n) \in Objects
      BY <2>1, JobIsAnObject
    <3> QED
      BY <1>1, <2>1, <3>1 DEF IdleTriggerIsKept, TypeOK
  <2> QED
    BY <2>1 DEF IdleTriggerIsKept, Registered, Job
<1> QED
  BY <1>4, <1>5, <1>6, <1>7, <1>8 DEF CronInv

\* The loop goes to sleep: a job that is owed an idle run is due, and cuts the nap.
LEMMA SleepKeepsCronInv ==
  ASSUME TypeOK, StaleIsSpent, IdleTriggerIsKept, Sleep(due'),
         UNCHANGED <<jobs, enabled, fn, asked, stale, lifetime>>,
         due' \in [Objects -> BOOLEAN],
         \A p \in Objects : asked[p] = "idle" /\ due[p] => due'[p]
  PROVE  CronInv'
<1>1. loop' = "asleep" /\ current' = NoJob /\ batch' = {} /\ NoJob \notin Objects
  BY ObjectFacts DEF Sleep
<1>2. nap' = IF \E o \in Objects : IsLive(o) /\ due'[o] THEN "short" ELSE "long"
  BY DEF Sleep
<1>3. TypeOK'
  BY <1>1, <1>2 DEF TypeOK, Sleep, lifetime
<1>4. ListIsOfTheLoop' /\ OneObjectPerNameInAPass' /\ CurrentIsNotIdle'
  BY <1>1 DEF ListIsOfTheLoop, OneObjectPerNameInAPass, CurrentIsNotIdle
<1>5. StaleIsSpent'
  BY <1>1 DEF StaleIsSpent, StaleJobRunsAtMostOnce, IsLive
<1>6. IdleTriggerIsKept'
  <2>1. ASSUME NEW n \in Names, Registered(n), asked[Job(n)] = "idle"
        PROVE  due'[Job(n)]
    BY <2>1, JobIsAnObject DEF IdleTriggerIsKept
  <2> QED
    BY <2>1 DEF IdleTriggerIsKept, Registered, Job
<1>7. TriggerCutsTheSleep'
  <2>1. ASSUME NEW o \in Objects, IsLive(o), asked[o] = "idle"
        PROVE  nap' = "short"
    <3>1. Registered(o[1]) /\ Job(o[1]) = o /\ o[1] \in Names
      BY <2>1, ObjectFacts DEF IsLive, Registered, Job
    <3>2. due'[o]
      BY <2>1, <3>1 DEF IdleTriggerIsKept
    <3> QED
      BY <1>2, <2>1, <3>2
  <2> QED
    BY <2>1 DEF TriggerCutsTheSleep, IsLive
<1> QED
  BY <1>3, <1>4, <1>5, <1>6, <1>7 DEF CronInv

\* A fresh list holds what is registered, so one object of a name.
LEMMA DueJobsAreApart ==
  ASSUME StaleIsSpent
  PROVE  /\ DueJobs \subseteq Objects
         /\ \A p, q \in DueJobs : p[1] = q[1] => p = q
         /\ \A p \in DueJobs : stale[p] = 0
<1>1. \A p \in DueJobs : p \in Objects /\ jobs[p[1]] = p[2] /\ IsLive(p)
  BY DEF DueJobs, IsLive
<1>2. \A p \in DueJobs : p = <<p[1], p[2]>>
  BY <1>1, ObjectFacts
<1>3. ASSUME NEW p \in DueJobs, NEW q \in DueJobs, p[1] = q[1]
      PROVE  p = q
  BY <1>1, <1>2, <1>3
<1> QED
  BY <1>1, <1>3 DEF StaleIsSpent

LEMMA CollectDueKeepsCronInv ==
  ASSUME CronInv, CollectDue
  PROVE  CronInv'
<1>1. PICK o \in DueJobs : RunJob(o, DueJobs \ {o})
  BY DEF CollectDue
<1>2. TypeOK /\ StaleIsSpent /\ IdleTriggerIsKept
  BY DEF CronInv
<1>3. /\ o \in Objects /\ DueJobs \ {o} \in SUBSET Objects
      /\ \A p, q \in (DueJobs \ {o}) \union {o} : p[1] = q[1] => p = q
      /\ \A p \in (DueJobs \ {o}) \union {o} : stale[p] = 0
  BY <1>2, DueJobsAreApart
<1>4. UNCHANGED <<jobs, enabled, fn, lifetime, nap, wake>> /\ due' = due
  BY DEF CollectDue
<1>5. due' \in [Objects -> BOOLEAN]
  BY <1>2, <1>4 DEF TypeOK
<1> QED
  BY <1>1, <1>2, <1>3, <1>4, <1>5, RunJobKeepsCronInv

LEMMA JobEndsKeepsCronInv ==
  ASSUME CronInv, JobEnds
  PROVE  CronInv'
<1>1. /\ TypeOK /\ StaleIsSpent /\ IdleTriggerIsKept /\ OneObjectPerNameInAPass
      /\ current \in Objects /\ asked[current] # "idle"
  BY DEF CronInv, JobEnds, TypeOK, CurrentIsNotIdle
<1>2. /\ due' = [due EXCEPT ![current] = FALSE]
      /\ UNCHANGED <<jobs, enabled, fn, lifetime>>
  BY DEF JobEnds
<1>3. /\ due' \in [Objects -> BOOLEAN]
      /\ \A p \in Objects : asked[p] = "idle" /\ due[p] => due'[p]
  BY <1>1, <1>2 DEF TypeOK
<1>4. CASE Sleep(due') /\ UNCHANGED <<asked, stale>>
  BY <1>1, <1>2, <1>3, <1>4, SleepKeepsCronInv
<1>5. CASE (\E o \in batch : RunJob(o, batch \ {o})) /\ UNCHANGED <<nap, wake>>
  <2>1. PICK o \in batch : RunJob(o, batch \ {o})
    BY <1>5
  <2>2. /\ o \in Objects /\ batch \ {o} \in SUBSET Objects
        /\ \A p, q \in (batch \ {o}) \union {o} : p[1] = q[1] => p = q
        /\ \A p \in (batch \ {o}) \union {o} : stale[p] = 0
    BY <1>1 DEF TypeOK, OneObjectPerNameInAPass, StaleIsSpent
  <2> QED
    BY <1>1, <1>2, <1>3, <1>5, <2>1, <2>2, RunJobKeepsCronInv
<1> QED
  BY <1>4, <1>5 DEF JobEnds

LEMMA LoopStepKeepsCronInv ==
  ASSUME CronInv, LoopStep
  PROVE  CronInv'
<1>1. CASE CollectDue
  BY <1>1, CollectDueKeepsCronInv
<1>2. CASE JobEnds
  BY <1>2, JobEndsKeepsCronInv
<1>3. CASE NothingDue
  <2>1. /\ TypeOK /\ StaleIsSpent /\ IdleTriggerIsKept /\ Sleep(due') /\ due' \in [Objects -> BOOLEAN]
        /\ UNCHANGED <<jobs, enabled, fn, asked, stale, lifetime>> /\ due' = due
    BY <1>3 DEF CronInv, NothingDue, objects, TypeOK
  <2> QED
    BY <2>1, SleepKeepsCronInv
<1>4. CASE LoopEnds
  <2>1. /\ UNCHANGED <<objects, current, batch, nap, wake, stop>> /\ loop' = "off"
        /\ stopping' = FALSE /\ loop # "running"
    BY <1>4 DEF LoopEnds
  <2>2. TypeOK'
    BY <2>1 DEF CronInv, TypeOK, objects
  <2> QED
    BY <2>1, <2>2 DEF CronInv, ListIsOfTheLoop, OneObjectPerNameInAPass, StaleIsSpent,
       StaleJobRunsAtMostOnce, CurrentIsNotIdle, IdleTriggerIsKept, TriggerCutsTheSleep, objects, IsLive,
       Registered, Job
<1> QED
  BY <1>1, <1>2, <1>3, <1>4 DEF LoopStep

LEMMA CronStep ==
  ASSUME CronInv, [Next]_cronVars
  PROVE  CronInv'
<1>1. CASE UNCHANGED cronVars
  BY <1>1 DEF CronInv, TypeOK, ListIsOfTheLoop, OneObjectPerNameInAPass, StaleIsSpent,
     StaleJobRunsAtMostOnce, CurrentIsNotIdle, IdleTriggerIsKept, TriggerCutsTheSleep, IsLive, Registered,
     Job, cronVars, vars, objects, lifetime, loopVars
<1>2. CASE Operators
  BY <1>2, AddKeepsCronInv, RemoveKeepsCronInv, SetEnabledKeepsCronInv, SetIntervalKeepsCronInv,
     TriggerKeepsCronInv DEF Operators
<1>3. CASE Clock
  BY <1>3, ComesDueKeepsCronInv DEF Clock
<1>4. CASE LifeCycle
  BY <1>4, LifeCycleKeepsCronInv
<1>5. CASE LoopStep
  BY <1>5, LoopStepKeepsCronInv
<1> QED
  BY <1>1, <1>2, <1>3, <1>4, <1>5 DEF Next, cronVars

\* A scheduler nobody has started or called since holds no list and owes nothing.
IdleLoop ==
  /\ InitLoop
  /\ jobs \in [Names -> Slots \union {0}] /\ enabled \in [Objects -> BOOLEAN]
  /\ fn \in [Objects -> Fns] /\ due = [o \in Objects |-> FALSE]
  /\ asked = [o \in Objects |-> "no"] /\ stale = [o \in Objects |-> 0]

LEMMA IdleLoopHoldsCronInv == IdleLoop => CronInv
<1> SUFFICES ASSUME IdleLoop PROVE CronInv
  OBVIOUS
<1>1. NoJob \notin Objects
  BY ObjectFacts
<1>2. TypeOK
  BY <1>1 DEF IdleLoop, InitLoop, TypeOK
<1>3. \A n \in Names : Registered(n) => Job(n) \in Objects
  BY <1>2, JobIsAnObject
<1> QED
  BY <1>1, <1>2, <1>3 DEF IdleLoop, InitLoop, CronInv, ListIsOfTheLoop, OneObjectPerNameInAPass, StaleIsSpent,
     StaleJobRunsAtMostOnce, CurrentIsNotIdle, IdleTriggerIsKept, TriggerCutsTheSleep

LEMMA InitHoldsCronInv == Init => CronInv
<1>1. (CHOOSE f \in Fns : TRUE) \in Fns
  BY FnsGiven
<1> QED
  BY <1>1, IdleLoopHoldsCronInv DEF Init, InitJobs, IdleLoop

LEMMA CronInvHolds == Spec => []CronInv
<1>1. CronInv /\ [Next]_vars => CronInv'
  BY CronStep DEF cronVars
<1> QED
  BY InitHoldsCronInv, <1>1, PTL DEF Spec

\* The scheduler keeps its types, whatever operators do to the jobs under its loop.
THEOREM SchedulerTypeCorrectness == Spec => []TypeOK
<1>1. CronInv => TypeOK
  BY DEF CronInv
<1> QED
  BY CronInvHolds, <1>1, PTL

\* An operator's trigger of an idle job is neither slept over nor forgotten, for any number of
\* jobs and whatever else is added, removed, paused or re-timed (cron/scheduler.py, trigger).
THEOREM TriggersAreKept == Spec => []TriggersAreHonoured
<1>1. CronInv => TriggersAreHonoured
  BY DEF CronInv, TriggersAreHonoured
<1> QED
  BY CronInvHolds, <1>1, PTL

\* A job paused, removed or replaced while the loop holds it begins once more at most, and the
\* loop holds one object of a name (cron/scheduler.py, the list _loop works off).
THEOREM StaleWorkEnds == Spec => []StaleWorkIsBounded
<1>1. CronInv => StaleWorkIsBounded
  BY DEF CronInv, StaleIsSpent, StaleWorkIsBounded
<1> QED
  BY CronInvHolds, <1>1, PTL
-----------------------------------------------------------------------------
(* The registry on top of the scheduler. *)

LEMMA SpecFacts ==
  /\ NoSpec \notin Specs /\ Unknown \notin Specs /\ NoSpec # Unknown
  /\ \A s \in Specs : s.fn \in Fns /\ s.on \in BOOLEAN
<1>1. "none" \notin Fns /\ "unknown" \notin Fns
  BY CustomNamesGiven
<1> QED
  BY <1>1 DEF NoSpec, Unknown, Specs

\* A plugin that starts, before its loop does.
LEMMA IdleLoopNext == IdleLoop' => CronInv'
BY IdleLoopHoldsCronInv, PTL

LEMMA DefaultIsAnAction == (CHOOSE f \in Fns : Buildable(f)) \in Fns
BY CustomNamesGiven DEF Buildable

LEMMA RestartHoldsCronInv ==
  ASSUME Restart, file \in [Custom -> Specs \union {NoSpec}]
  PROVE  CronInv'
<1>1. jobs' \in [Names -> Slots \union {0}]
  BY TwoSlots DEF Restart, Bootstrap
<1> DEFINE loaded == IF ComesUp(file) THEN Loadable(file) ELSE [n \in Custom |-> NoSpec]
<1>2. loaded \in [Custom -> Specs \union {NoSpec}]
  BY DEF Loadable
<1>3. enabled' \in [Objects -> BOOLEAN] /\ fn' \in [Objects -> Fns]
  <2>1. ASSUME NEW n \in Custom, loaded[n] # NoSpec
        PROVE  loaded[n].fn \in Fns
    BY <1>2, <2>1, SpecFacts
  <2>2. ASSUME NEW o \in Objects
        PROVE  (IF o[1] \in Custom /\ loaded[o[1]] # NoSpec
                THEN loaded[o[1]].fn ELSE CHOOSE f \in Fns : Buildable(f)) \in Fns
    BY <2>1, DefaultIsAnAction
  <2>3. fn' = [o \in Objects |->
                 IF o[1] \in Custom /\ loaded[o[1]] # NoSpec
                 THEN loaded[o[1]].fn ELSE CHOOSE f \in Fns : Buildable(f)]
    BY DEF Restart, Bootstrap
  <2>4. enabled' \in [Objects -> BOOLEAN]
    BY DEF Restart, Bootstrap
  <2> QED
    BY <2>2, <2>3, <2>4
<1>4. InitLoop' /\ due' = [o \in Objects |-> FALSE] /\ asked' = [o \in Objects |-> "no"]
      /\ stale' = [o \in Objects |-> 0]
  BY DEF Restart, Bootstrap, InitLoop
<1>5. IdleLoop'
  BY <1>1, <1>3, <1>4 DEF IdleLoop
<1> QED
  BY <1>5, IdleLoopNext

\* Requests take the scheduler through steps of its own.
LEMMA ServeIsASchedulerStep ==
  ASSUME Serve
  PROVE  [Next]_cronVars
<1>1. ASSUME NEW n \in Custom
      PROVE  Unschedule(n) => [Next]_cronVars
  BY CustomNamesGiven DEF Unschedule, Next, Operators
<1>2. ASSUME NEW n \in Custom, NEW s \in Specs, Apply(n, s)
      PROVE  [Next]_cronVars
  BY <1>2, SpecFacts, CustomNamesGiven DEF Apply, Next, Operators
<1>3. ASSUME NEW n \in Custom, (\E s \in Specs : Register(n, s) \/ Update(n, s)) \/ Delete(n)
      PROVE  [Next]_cronVars
  BY <1>1, <1>2, <1>3 DEF Register, Update, Delete
<1>4. CASE \E n \in Names : RemoveBuiltIn(n)
  BY <1>4 DEF RemoveBuiltIn, Next, Operators
<1>5. CASE SchedulerRoutes
  BY <1>5 DEF SchedulerRoutes, Next, Operators
<1>6. CASE SchedulerSteps
  BY <1>6 DEF SchedulerSteps, Next
<1> QED
  BY <1>3, <1>4, <1>5, <1>6 DEF Serve

LEMMA CustomStepKeepsCronInv ==
  ASSUME CronInv, file \in [Custom -> Specs \union {NoSpec}], [CustomNext]_customVars
  PROVE  CronInv'
<1>1. CASE UNCHANGED customVars
  BY <1>1, CronStep DEF customVars
<1>2. CASE Serve
  BY <1>2, ServeIsASchedulerStep, CronStep
<1>3. CASE Restart
  BY <1>3, RestartHoldsCronInv
<1> QED
  BY <1>1, <1>2, <1>3 DEF CustomNext

LEMMA HeldIsFinite ==
  ASSUME NEW m
  PROVE  IsFiniteSet(Held(m)) /\ Cardinality(Held(m)) \in Nat
<1>1. IsFiniteSet(Custom)
  BY NamesGiven, CustomNamesGiven, FS_Subset
<1>2. Held(m) \subseteq Custom
  BY DEF Held
<1> QED
  BY <1>1, <1>2, FS_Subset, FS_CardinalityType

\* One more job fits below the limit, a job the registry knows at any time.
LEMMA OneMoreFits ==
  ASSUME NEW m, Fits(m), NEW n \in Custom, NEW s \in Specs \union {NoSpec}, MaxCustom \in Nat,
         s = NoSpec \/ m[n] # NoSpec \/ Cardinality(Held(m)) < MaxCustom
  PROVE  Fits([m EXCEPT ![n] = s])
<1> DEFINE mm == [m EXCEPT ![n] = s]
<1>1. m \in SpecsOf /\ mm \in SpecsOf
  BY DEF Fits, SpecsOf
<1>2. /\ IsFiniteSet(Held(m)) /\ Cardinality(Held(m)) \in Nat /\ Cardinality(Held(m)) <= MaxCustom
      /\ IsFiniteSet(Held(mm)) /\ Cardinality(Held(mm)) \in Nat
  BY HeldIsFinite DEF Fits
<1>3. CASE s = NoSpec \/ m[n] # NoSpec
  <2>1. Held(mm) \subseteq Held(m)
    BY <1>1, <1>3 DEF Held, SpecsOf
  <2>2. Cardinality(Held(mm)) <= Cardinality(Held(m))
    BY <1>2, <2>1, FS_Subset
  <2> QED
    BY <1>1, <1>2, <2>2 DEF Fits
<1>4. CASE Cardinality(Held(m)) < MaxCustom /\ m[n] = NoSpec
  <2>1. Held(mm) \subseteq Held(m) \union {n} /\ n \notin Held(m)
    BY <1>1, <1>4 DEF Held, SpecsOf
  <2>2. /\ IsFiniteSet(Held(m) \union {n})
        /\ Cardinality(Held(m) \union {n}) = Cardinality(Held(m)) + 1
    BY <1>2, <2>1, FS_AddElement
  <2>3. Cardinality(Held(mm)) <= Cardinality(Held(m) \union {n})
    <3>1. Held(mm) \subseteq Held(m) \union {n} /\ IsFiniteSet(Held(m) \union {n})
      BY <2>1, <2>2
    <3> QED
      BY <3>1, FS_Subset
  <2>4. Cardinality(Held(mm)) <= MaxCustom
    BY <1>2, <1>4, <2>2, <2>3
  <2> QED
    BY <1>1, <2>4 DEF Fits
<1> QED
  BY <1>3, <1>4

LEMMA LoadableFits ==
  ASSUME NEW m, Fits(m)
  PROVE  Fits(Loadable(m)) /\ Fits([n \in Custom |-> NoSpec])
<1>1. m \in SpecsOf /\ Loadable(m) \in SpecsOf /\ [n \in Custom |-> NoSpec] \in SpecsOf
  BY DEF Fits, SpecsOf, Loadable
<1>2. Held(Loadable(m)) \subseteq Held(m) /\ Held([n \in Custom |-> NoSpec]) \subseteq Held(m)
  BY DEF Held, Loadable
<1>3. /\ Cardinality(Held(Loadable(m))) <= Cardinality(Held(m))
      /\ Cardinality(Held([n \in Custom |-> NoSpec])) <= Cardinality(Held(m))
  BY <1>2, HeldIsFinite, FS_Subset
<1> QED
  <2>1. /\ Cardinality(Held(Loadable(m))) \in Nat /\ Cardinality(Held(m)) \in Nat
        /\ Cardinality(Held([n \in Custom |-> NoSpec])) \in Nat /\ MaxCustom \in Nat
    BY HeldIsFinite, CustomNamesGiven
  <2> QED
    BY <1>1, <1>3, <2>1 DEF Fits
-----------------------------------------------------------------------------
(* Registry, scheduler and file. *)

\* A request writes the specs and answers, or fails and answers nothing to hold on to.
Writes(n) == \/ file' = specs' /\ acked' = [acked EXCEPT ![n] = specs'[n]]
             \/ UNCHANGED file /\ acked' = [acked EXCEPT ![n] = Unknown]

LEMMA WritesKeepStores ==
  ASSUME StoresFit, MemoryIsAcknowledged, AcknowledgedIsOnDisk, started, started' = started,
         NEW n \in Custom, NEW s \in Specs \union {NoSpec}, specs' = [specs EXCEPT ![n] = s],
         s = NoSpec \/ specs[n] # NoSpec \/ Cardinality(Held(specs)) < MaxCustom, Writes(n)
  PROVE  StoresFit' /\ MemoryIsAcknowledged' /\ AcknowledgedIsOnDisk'
<1>1. Fits(specs')
  BY OneMoreFits, CustomNamesGiven DEF StoresFit
<1>2. Fits(file')
  BY <1>1 DEF StoresFit, Writes
<1>3. specs \in SpecsOf /\ specs'[n] = s /\ \A m \in Custom \ {n} : specs'[m] = specs[m]
  BY DEF StoresFit, Fits, SpecsOf
<1>4. /\ acked'[n] \in {s, Unknown}
      /\ acked'[n] # Unknown => file' = specs'
      /\ \A m \in Custom \ {n} : acked'[m] = acked[m]
      /\ acked' \in [Custom -> Specs \union {NoSpec, Unknown}]
  BY <1>3, SpecFacts DEF StoresFit, Writes
<1>5. StoresFit'
  BY <1>1, <1>2, <1>4 DEF StoresFit, Fits, Held, SpecsOf
<1>6. MemoryIsAcknowledged'
  BY <1>3, <1>4 DEF MemoryIsAcknowledged
<1>7. AcknowledgedIsOnDisk'
  <2>1. ASSUME NEW m \in Custom \ LongNames, acked'[m] # Unknown
        PROVE  file'[m] = acked'[m]
    <3>1. CASE m = n
      BY <1>3, <1>4, <2>1, <3>1
    <3>2. CASE m # n
      BY <1>3, <1>4, <2>1, <3>2 DEF Writes, MemoryIsAcknowledged, AcknowledgedIsOnDisk
    <3> QED
      BY <3>1, <3>2
  <2> QED
    BY <2>1 DEF AcknowledgedIsOnDisk
<1> QED
  BY <1>5, <1>6, <1>7

\* What a name's object runs changes only where a new object takes the name.
LEMMA AddMatches ==
  ASSUME CronInv, NEW n \in Names, NEW f \in Fns, NEW on \in BOOLEAN, Add(n, f, on)
  PROVE  /\ Registered(n)' /\ fn'[Job(n)'] = f
         /\ \A m \in Names \ {n} : /\ Registered(m)' <=> Registered(m)
                                   /\ Registered(m) => fn'[Job(m)'] = fn[Job(m)]
<1> DEFINE s == FreeSlot(n)
<1>1. s \in Slots /\ s # 0 /\ <<n, s>> \in Objects
  BY SlotIsFree, TwoSlots, ObjectFacts DEF CronInv
<1>2. /\ jobs' = [jobs EXCEPT ![n] = s] /\ fn' = [fn EXCEPT ![<<n, s>>] = f]
  BY DEF Add, FreeSlot
<1>3. jobs \in [Names -> Slots \union {0}] /\ fn \in [Objects -> Fns]
  BY DEF CronInv, TypeOK
<1> HIDE DEF s
<1>4. jobs'[n] = s /\ fn'[<<n, s>>] = f /\ \A m \in Names \ {n} : jobs'[m] = jobs[m]
  BY <1>1, <1>2, <1>3
<1>5. ASSUME NEW m \in Names \ {n}, Registered(m)
      PROVE  fn'[<<m, jobs[m]>>] = fn[<<m, jobs[m]>>]
  <2>1. <<m, jobs[m]>> \in Objects /\ <<m, jobs[m]>> # <<n, s>>
    BY <1>3, <1>5 DEF Registered, Objects
  <2> QED
    BY <1>1, <1>2, <1>3, <2>1
<1> QED
  BY <1>1, <1>4, <1>5 DEF Registered, Job

LEMMA RemoveMatches ==
  ASSUME CronInv, NEW n \in Names, Unschedule(n)
  PROVE  /\ ~Registered(n)'
         /\ \A m \in Names \ {n} : /\ Registered(m)' <=> Registered(m)
                                   /\ Registered(m) => fn'[Job(m)'] = fn[Job(m)]
<1>1. jobs \in [Names -> Slots \union {0}]
  BY DEF CronInv, TypeOK
<1>2. CASE Remove(n)
  BY <1>1, <1>2 DEF Remove, Registered, Job
<1>3. CASE ~Registered(n) /\ UNCHANGED cronVars
  BY <1>3 DEF Registered, Job, cronVars, vars, objects
<1> QED
  BY <1>2, <1>3 DEF Unschedule

\* A request on n leaves the others as they were, and n with the spec s, or without a job.
LEMMA RequestKeepsMatches ==
  ASSUME RegistryMatchesScheduler, StoresFit, NEW n \in Custom, NEW s \in Specs \union {NoSpec},
         specs' = [specs EXCEPT ![n] = s],
         \A m \in Names \ {n} : /\ Registered(m)' <=> Registered(m)
                                /\ Registered(m) => fn'[Job(m)'] = fn[Job(m)],
         \/ Registered(n)' /\ Working(s) /\ fn'[Job(n)'] = s.fn
         \/ ~Registered(n)' /\ ~Working(s)
  PROVE  RegistryMatchesScheduler'
<1>1. specs \in SpecsOf /\ specs'[n] = s /\ \A m \in Custom \ {n} : specs'[m] = specs[m]
  BY DEF StoresFit, Fits, SpecsOf
<1>2. ASSUME NEW m \in Custom
      PROVE  (Registered(m)' <=> Working(specs'[m])) /\ (Registered(m)' => fn'[Job(m)'] = specs'[m].fn)
  <2>1. CASE m = n
    BY <1>1, <2>1
  <2>2. CASE m # n
    <3>1. m \in Names \ {n} /\ specs'[m] = specs[m]
      BY <1>1, <2>2, CustomNamesGiven
    <3> QED
      BY <3>1 DEF RegistryMatchesScheduler
  <2> QED
    BY <2>1, <2>2
<1> QED
  BY <1>2 DEF RegistryMatchesScheduler, Working, Buildable, Registered, Job

CustomInv == CronInv /\ RegistryInv

LEMMA WorkingFacts ==
  /\ ~Working(NoSpec)
  /\ \A s \in Specs : Working(s) <=> Buildable(s.fn)
BY SpecFacts DEF Working

LEMMA RequestStep ==
  ASSUME CustomInv, started, NEW n \in Custom, NEW s \in Specs, Register(n, s) \/ Update(n, s) \/ Delete(n)
  PROVE  RegistryInv'
<1>1. StoresFit /\ MemoryIsAcknowledged /\ AcknowledgedIsOnDisk /\ RegistryMatchesScheduler /\ CronInv
  BY DEF CustomInv, RegistryInv
<1>2. n \in Names /\ s.fn \in Fns /\ s.on \in BOOLEAN /\ started' = started
  BY SpecFacts, CustomNamesGiven DEF Register, Update, Delete
<1>3. Known = Held(specs)
  BY DEF Known, Held
<1>4. PICK ss \in {s, NoSpec} :
        /\ specs' = [specs EXCEPT ![n] = ss]
        /\ ss = NoSpec \/ specs[n] # NoSpec \/ Cardinality(Held(specs)) < MaxCustom
        /\ ss = s => Register(n, s) \/ Update(n, s)
        /\ ss = NoSpec => Delete(n)
  <2>1. s # NoSpec
    BY SpecFacts
  <2> QED
    BY <1>3, <2>1 DEF Register, Update, Delete, Known
<1>5. specs'[n] = ss
  BY <1>1, <1>4 DEF StoresFit, Fits, SpecsOf
<1>6. Writes(n)
  BY <1>5 DEF Register, Update, Delete, Apply, RefuseLate, Persist, Writes
<1>7. StoresFit' /\ MemoryIsAcknowledged' /\ AcknowledgedIsOnDisk'
  BY <1>1, <1>2, <1>4, <1>6, WritesKeepStores
<1>8. CASE Apply(n, s) /\ ss = s
  <2>1. Add(n, s.fn, s.on) /\ Working(s)
    BY <1>8, WorkingFacts DEF Apply
  <2>2. /\ Registered(n)' /\ fn'[Job(n)'] = s.fn
        /\ \A m \in Names \ {n} : /\ Registered(m)' <=> Registered(m)
                                  /\ Registered(m) => fn'[Job(m)'] = fn[Job(m)]
    BY <1>1, <1>2, <2>1, AddMatches
  <2>3. RegistryMatchesScheduler'
    BY <1>1, <1>4, <1>8, <2>1, <2>2, RequestKeepsMatches
  <2> QED
    BY <1>7, <2>3 DEF RegistryInv
<1>9. CASE Unschedule(n) /\ ~Working(ss)
  BY <1>1, <1>2, <1>4, <1>7, <1>9, RemoveMatches, RequestKeepsMatches DEF RegistryInv
<1>10. ~Buildable(s.fn) => ~Working(s)
  BY WorkingFacts
<1>11. CASE Register(n, s) /\ RefuseLate(n, s) /\ UNCHANGED cronVars /\ ss = s
  <2>1. ~Registered(n)
    BY <1>11, <1>1, WorkingFacts DEF Register, Known, RegistryMatchesScheduler
  <2> QED
    BY <1>9, <1>10, <1>11, <2>1 DEF Unschedule, RefuseLate
<1> QED
  BY <1>4, <1>8, <1>9, <1>10, <1>11, WorkingFacts DEF Register, Update, Delete, RefuseLate

\* What the scheduler does by itself, and on its own routes, leaves names and actions alone.
LEMMA OtherStep ==
  ASSUME CustomInv, UNCHANGED registry,
         (\E n \in Names : RemoveBuiltIn(n)) \/ UNCHANGED <<jobs, fn>>
  PROVE  RegistryInv'
<1>1. StoresFit' /\ MemoryIsAcknowledged' /\ AcknowledgedIsOnDisk'
  BY DEF CustomInv, RegistryInv, StoresFit, MemoryIsAcknowledged, AcknowledgedIsOnDisk, registry, Fits,
         Held, SpecsOf
<1>2. CASE UNCHANGED <<jobs, fn>>
  BY <1>1, <1>2 DEF CustomInv, RegistryInv, RegistryMatchesScheduler, registry, Registered, Job, Working,
                    Buildable
<1>3. ASSUME NEW n \in Names, RemoveBuiltIn(n)
      PROVE  RegistryInv'
  <2>1. n \notin Custom
    BY <1>3, WorkingFacts
    DEF RemoveBuiltIn, Remove, CustomInv, RegistryInv, RegistryMatchesScheduler, Known
  <2>2. Unschedule(n)
    BY <1>3 DEF RemoveBuiltIn, Remove, Unschedule
  <2>3. \A m \in Custom : /\ Registered(m)' <=> Registered(m)
                          /\ Registered(m) => fn'[Job(m)'] = fn[Job(m)]
    BY <2>1, <2>2, RemoveMatches, CustomNamesGiven DEF CustomInv
  <2>4. \A m \in Custom : Working(specs[m])' <=> Working(specs[m])
    BY DEF registry, Working, Buildable
  <2>5. RegistryMatchesScheduler'
    BY <2>3, <2>4 DEF CustomInv, RegistryInv, RegistryMatchesScheduler, registry
  <2> QED
    BY <1>1, <2>5 DEF RegistryInv
<1> QED
  BY <1>2, <1>3

LEMMA RestartStep ==
  ASSUME CustomInv, Restart
  PROVE  RegistryInv'
<1>1. StoresFit /\ AcknowledgedIsOnDisk /\ UNCHANGED <<file, acked>>
  BY DEF CustomInv, RegistryInv, Restart
<1> DEFINE empty == [n \in Custom |-> NoSpec]
           loaded == IF ComesUp(file) THEN Loadable(file) ELSE empty
<1>2. /\ specs' = loaded /\ started' = ComesUp(file)
      /\ jobs' = [n \in Names |-> IF n \notin Custom \/ loaded[n] # NoSpec THEN 1 ELSE 0]
      /\ fn' = [o \in Objects |-> IF o[1] \in Custom /\ loaded[o[1]] # NoSpec
                                  THEN loaded[o[1]].fn ELSE CHOOSE f \in Fns : Buildable(f)]
  BY DEF Restart, Bootstrap
<1>3. Fits(loaded)
  BY <1>1, LoadableFits DEF StoresFit
<1>4. StoresFit'
  BY <1>1, <1>2, <1>3 DEF StoresFit, Fits, Held, SpecsOf, ComesUp
<1>5. \A n \in Custom \ LongNames : Loadable(file)[n] = file[n]
  BY DEF Loadable
<1>6. AcknowledgedIsOnDisk' /\ MemoryIsAcknowledged'
  BY <1>1, <1>2, <1>5 DEF AcknowledgedIsOnDisk, MemoryIsAcknowledged
<1>7. ASSUME NEW n \in Custom
      PROVE  /\ Registered(n)' <=> Working(specs'[n])
             /\ Registered(n)' => fn'[Job(n)'] = specs'[n].fn
  <2>1. n \in Names /\ <<n, 1>> \in Objects
    BY CustomNamesGiven, TwoSlots DEF Objects
  <2>2. Working(loaded[n]) <=> loaded[n] # NoSpec
    <3>1. CASE ComesUp(file)
      <4>1. loaded[n] # NoSpec => loaded[n] = file[n] /\ Working(file[n])
        BY <3>1 DEF ComesUp, Loadable
      <4> QED
        BY <4>1, WorkingFacts
    <3>2. CASE ~ComesUp(file)
      BY <3>2, WorkingFacts
    <3> QED
      BY <3>1, <3>2
  <2> HIDE DEF loaded
  <2>3. jobs'[n] = IF loaded[n] # NoSpec THEN 1 ELSE 0
    BY <1>2, <2>1
  <2>4. loaded[n] # NoSpec => fn'[<<n, 1>>] = loaded[n].fn
    BY <1>2, <2>1
  <2> QED
    BY <1>2, <2>2, <2>3, <2>4 DEF Registered, Job
<1>8. RegistryMatchesScheduler'
  BY <1>7 DEF RegistryMatchesScheduler, Working, Buildable, Registered, Job
<1> QED
  BY <1>4, <1>6, <1>8 DEF RegistryInv

LEMMA CustomStep ==
  ASSUME CustomInv, [CustomNext]_customVars
  PROVE  CustomInv'
<1>1. CronInv'
  <2>1. file \in [Custom -> Specs \union {NoSpec}]
    BY DEF CustomInv, RegistryInv, StoresFit, Fits, SpecsOf
  <2> QED
    BY <2>1, CustomStepKeepsCronInv DEF CustomInv
<1>2. RegistryInv'
  <2>1. CASE UNCHANGED customVars
    BY <2>1, OtherStep DEF customVars, cronVars, vars, objects
  <2>2. CASE Restart
    BY <2>2, RestartStep
  <2>3. ASSUME NEW n \in Custom, NEW s \in Specs, started, Register(n, s) \/ Update(n, s)
        PROVE  RegistryInv'
    BY <2>3, RequestStep
  <2>4. ASSUME NEW n \in Custom, started, Delete(n)
        PROVE  RegistryInv'
    <3>1. PICK f \in Fns : TRUE
      BY FnsGiven
    <3>2. [fn |-> f, on |-> TRUE] \in Specs
      BY DEF Specs
    <3> QED
      BY <2>4, <3>2, RequestStep
  <2>5. CASE (\E n \in Names : RemoveBuiltIn(n)) \/ SchedulerRoutes \/ SchedulerSteps
    <3>1. UNCHANGED registry
      BY <2>5 DEF RemoveBuiltIn, SchedulerRoutes, SchedulerSteps
    <3>2. CASE SchedulerRoutes
      BY <3>1, <3>2, OtherStep DEF SchedulerRoutes, SetEnabled, SetInterval, Trigger
    <3>3. CASE SchedulerSteps
      <4>1. UNCHANGED <<jobs, fn>>
        BY <3>3 DEF SchedulerSteps, Clock, ComesDue, LifeCycle, StartLoop, StopLoop, StopIsCancelled,
                    LoopStep, CollectDue, NothingDue, LoopEnds, JobEnds, objects
      <4> QED
        BY <3>1, <4>1, OtherStep
    <3> QED
      BY <2>5, <3>1, <3>2, <3>3, OtherStep
  <2> QED
    BY <2>1, <2>2, <2>3, <2>4, <2>5 DEF CustomNext, Serve
<1> QED
  BY <1>1, <1>2 DEF CustomInv

LEMMA CustomInitHolds == CustomInit => CustomInv
<1> SUFFICES ASSUME CustomInit PROVE CustomInv
  OBVIOUS
<1> DEFINE empty == [n \in Custom |-> NoSpec]
<1>1. CronInv
  <2>1. jobs \in [Names -> Slots \union {0}] /\ enabled \in [Objects -> BOOLEAN]
        /\ fn \in [Objects -> Fns]
    BY DefaultIsAnAction, TwoSlots DEF CustomInit
  <2> QED
    BY <2>1, IdleLoopHoldsCronInv DEF CustomInit, IdleLoop
<1>2. specs = empty /\ file = empty /\ acked = empty /\ started = TRUE
  BY DEF CustomInit
<1>3. Fits(empty)
  <2>1. Held(empty) = {} /\ empty \in SpecsOf
    BY DEF Held, SpecsOf
  <2> QED
    BY <2>1, FS_EmptySet, CustomNamesGiven DEF Fits
<1>4. \A n \in Custom : ~Registered(n)
  BY CustomNamesGiven DEF CustomInit, Registered
<1>5. RegistryInv
  BY <1>2, <1>3, <1>4, WorkingFacts
  DEF RegistryInv, StoresFit, MemoryIsAcknowledged, AcknowledgedIsOnDisk, RegistryMatchesScheduler
<1> QED
  BY <1>1, <1>5 DEF CustomInv

LEMMA CustomInvHolds == CustomSpec => []CustomInv
<1>1. CustomInv /\ [CustomNext]_customVars => CustomInv'
  BY CustomStep
<1> QED
  BY CustomInitHolds, <1>1, PTL DEF CustomSpec

\* Registry, file and scheduler keep their types, and the registry never holds more jobs than
\* its limit, read back from the file or not (cron/custom.py, _MAX_CUSTOM_JOBS).
THEOREM RegistryTypeCorrectness == CustomSpec => []CustomTypeOK
<1>1. CustomInv => CustomTypeOK
  BY DEF CustomInv, CronInv, RegistryInv, StoresFit, Fits, SpecsOf, Held, Known, CustomTypeOK
<1> QED
  BY CustomInvHolds, <1>1, PTL

\* A custom job is scheduled exactly while it has a spec with an executor, and runs that spec's
\* action, through failed writes, late refusals and restarts (cron/custom.py, _apply).
THEOREM RegistryAgrees == CustomSpec => []RegistryMatchesScheduler
<1>1. CustomInv => RegistryMatchesScheduler
  BY DEF CustomInv, RegistryInv
<1> QED
  BY CustomInvHolds, <1>1, PTL

\* What was acknowledged of a job whose name can be read back is on disk, whatever writes of
\* other jobs fail and whenever the process is restarted (cron/custom.py, _persist).
THEOREM AcknowledgedJobsAreOnDisk == CustomSpec => []AcknowledgedIsOnDisk
<1>1. CustomInv => AcknowledgedIsOnDisk
  BY DEF CustomInv, RegistryInv
<1> QED
  BY CustomInvHolds, <1>1, PTL

\* The registry's calls, late refusals and restarts leave the scheduler's guarantees alone: no
\* trigger is forgotten and stale work is bounded beside it as well (cron/custom.py).
THEOREM SchedulerHoldsBesideRegistry ==
  CustomSpec => [](TriggersAreHonoured /\ StaleWorkIsBounded)
<1>1. CustomInv => TriggersAreHonoured /\ StaleWorkIsBounded
  BY DEF CustomInv, CronInv, TriggersAreHonoured, StaleIsSpent, StaleWorkIsBounded
<1> QED
  BY CustomInvHolds, <1>1, PTL
-----------------------------------------------------------------------------
(* The invariant of the skills. *)

SkillRecords == [scope  : {"none", "bundled", "managed", "workspace"},
                 place  : {<<>>} \union RootPlaces \union Places,
                 bundle : Bundles]
CallRecords  == [todo : Seq(Ids), dir : InstallDirs]

CallsFit == calls \in [Callers -> CallRecords]

SkillsTyped ==
  /\ roots \in Seq(Roots)
  /\ skills \in [SkillNames -> SkillRecords]
  /\ reports \subseteq Scanned \union RootPlaces
  /\ bundle \in [Places -> Bundles] /\ prompts \subseteq Roots
  /\ installDir \in InstallDirs
  /\ CallsFit
  /\ up \in BOOLEAN
  /\ touched \subseteq Scanned \union RootPlaces /\ broken \subseteq Places

\* What the registry says of an origin fits the name.
Origins ==
  \A n \in SkillNames :
    /\ skills[n].scope = "workspace" =>
         n \in WorkspaceNames /\ skills[n].place \in Scanned \union RootPlaces
    /\ skills[n].scope = "managed" =>
         n \in Ids /\ \E d \in InstallDirs : skills[n].place = Target(d, n)

SkillsInv == SkillsTyped /\ Origins /\ RegistryMatchesDisk /\ ListedIsOnDisk /\ ManagedHasItsFiles

\* The names a scan of the roots l on the disk d registers, and what as.
CustomNames(l, d) == {NameOf(p) : p \in Valid(l, d)}
PromptNames(l, d) == {PromptName(r[1]) : r \in SeenPrompts(l, d)}
ListedAs(l, d, n) ==
  IF n \in CustomNames(l, d) THEN Skill("workspace", Visible(d, n[1], n[2]), d[Visible(d, n[1], n[2])])
  ELSE Skill("workspace", <<n[1]>>, Absent)

\* The workspace skills in x are those, and no others.
Matches(l, x, d) ==
  \A n \in SkillNames :
    IF n \in CustomNames(l, d) \union PromptNames(l, d) THEN x[n] = ListedAs(l, d, n) ELSE x[n].scope # "workspace"
-----------------------------------------------------------------------------
(* Places, names and bundles. *)

LEMMA PlaceFacts ==
  /\ \A p \in Scanned : p = <<p[1], p[2], p[3]>> /\ p[1] \in Roots /\ p[3] \in Slugs /\ p \in Places /\ Len(p) = 3
  /\ \A r \in Roots, s \in Slugs : <<r, "skills", s>> \in Scanned /\ <<r, ".agents", s>> \in Scanned
  /\ \A d \in InstallDirs, i \in Ids : Target(d, i) \in Installed /\ Target(d, i)[3] = Folder[i]
  /\ \A p \in Installed : p \in Places /\ p \notin RootPlaces /\ Len(p) = 3
  /\ \A r \in RootPlaces : Len(r) = 1 /\ r \notin Places /\ r[1] \in Roots /\ r = <<r[1]>>
<1>1. \A p \in Scanned : /\ p = <<p[1], p[2], p[3]>> /\ p \in Places
                          /\ p[1] \in Roots /\ p[2] \in Layouts /\ p[3] \in Slugs
  BY DEF Scanned, Places
<1>2. \A p \in Installed : p = <<p[1], p[2], p[3]>> /\ p \in Places
  BY DEF Installed, Places, Target
<1>3. "skills" \in Layouts /\ ".agents" \in Layouts
  BY DEF Layouts
<1>4. \A x, y, z : Len(<<x, y, z>>) = 3 /\ Len(<<x>>) = 1
  OBVIOUS
<1>5. \A p \in Scanned \union Installed : Len(p) = 3
  BY <1>1, <1>2, <1>4
<1>6. \A r \in RootPlaces : Len(r) = 1 /\ r[1] \in Roots /\ r = <<r[1]>>
  BY <1>4 DEF RootPlaces
<1>7. \A r \in RootPlaces : r \notin Scanned \union Installed
  BY <1>5, <1>6
<1>8. \A r \in Roots, s \in Slugs : <<r, "skills", s>> \in Scanned /\ <<r, ".agents", s>> \in Scanned
  BY <1>3 DEF Scanned
<1>9. \A d \in InstallDirs, i \in Ids : Target(d, i) \in Installed /\ Target(d, i)[3] = Folder[i]
  BY DEF Installed, Target
<1> QED
  BY <1>1, <1>2, <1>3, <1>5, <1>6, <1>7, <1>8, <1>9 DEF Places

LEMMA NameFacts ==
  /\ \A n \in Ids : n \in SkillNames /\ n \notin WorkspaceNames
  /\ \A n \in Bundled : n \in SkillNames /\ n \notin WorkspaceNames
  /\ \A n \in WorkspaceNames : n \in SkillNames
  /\ \A p \in Scanned : NameOf(p) \in WorkspaceNames /\ NameOf(p)[1] = p[1] /\ NameOf(p)[2] = p[3]
  /\ \A r \in Roots : PromptName(r) \in WorkspaceNames /\ PromptName(r)[1] = r
BY PlaceFacts, HubNamesApart DEF SkillNames, NameOf, PromptName, WorkspaceNames

LEMMA BundleFacts ==
  /\ Absent \in Bundles /\ ~Absent.dir
  /\ Drafts \subseteq Bundles /\ Handmade \subseteq Bundles /\ Downloads \subseteq Bundles
  /\ \A new \in Downloads : new.dir
  /\ NoSkill \in SkillRecords /\ NoSkill.scope = "none"
  /\ BundledSkill \in SkillRecords /\ BundledSkill.scope = "bundled"
<1>1. Absent \in Bundles /\ ~Absent.dir
  BY DEF Absent, Bundles
<1>2. ASSUME NEW b \in Drafts PROVE b \in Bundles
  <2>1. PICK s \in {"blank", "odd", "plain"} : b = [dir |-> TRUE, skill |-> s, manifest |-> "tested"]
    BY DraftsAreWritten
  <2> QED
    BY <2>1 DEF Bundles
<1>3. Downloads \subseteq Bundles /\ \A new \in Downloads : new.dir
  BY DownloadsAreAccepted DEF Bundles
<1>4. /\ NoSkill \in SkillRecords /\ NoSkill.scope = "none"
      /\ BundledSkill \in SkillRecords /\ BundledSkill.scope = "bundled"
  BY <1>1 DEF NoSkill, BundledSkill, Skill, SkillRecords
<1> QED
  BY <1>1, <1>2, <1>3, <1>4, HandmadeAreBundles

LEMMA HalfWrittenFits ==
  ASSUME NEW old \in Bundles, NEW new \in Bundles, NEW b \in HalfWritten(old, new)
  PROVE  b \in Bundles
BY DEF HalfWritten, Bundles

LEMMA UnpackedFits ==
  ASSUME NEW old \in Bundles, NEW new \in Bundles
  PROVE  Unpacked(old, new) \in Bundles /\ Unpacked(old, new).dir /\ Unpacked(old, new).skill = new.skill
BY DEF Unpacked, Bundles
-----------------------------------------------------------------------------
(* Scans. *)

\* A scan looks at the scanned places only.
LEMMA VisibleIsScanned ==
  ASSUME NEW d, NEW r \in Roots, NEW s \in Slugs
  PROVE  Visible(d, r, s) \in Scanned /\ Visible(d, r, s) \in Places
BY PlaceFacts DEF Visible

LEMMA EarlierRoots ==
  ASSUME NEW l \in Seq(Roots), NEW r
  PROVE  Earlier(l, r) \subseteq Roots /\ Range(l) \subseteq Roots
BY ElementOfSeq DEF Earlier, Range

LEMMA SameScan ==
  ASSUME NEW l \in Seq(Roots), NEW d, NEW e, \A p \in Scanned : d[p] = e[p]
  PROVE  /\ Valid(l, d) = Valid(l, e) /\ SeenPrompts(l, d) = SeenPrompts(l, e)
         /\ \A r \in Roots, s \in Slugs : Visible(d, r, s) = Visible(e, r, s)
<1>1. \A r \in Roots, s \in Slugs : Visible(d, r, s) = Visible(e, r, s)
  BY PlaceFacts DEF Visible
<1>2. ASSUME NEW r \in Roots PROVE Raises(d, r) <=> Raises(e, r)
  <2>1. \A s \in Slugs : d[Visible(d, r, s)] = e[Visible(e, r, s)]
    BY <1>1, VisibleIsScanned
  <2> QED
    BY <2>1 DEF Raises
<1>3. \A r : Reached(l, d, r) <=> Reached(l, e, r)
  BY <1>2, EarlierRoots DEF Reached
<1>4. Seen(l, d) = Seen(l, e)
  BY <1>1, <1>2, <1>3, PlaceFacts DEF Seen
<1>5. Valid(l, d) = Valid(l, e)
  <2>1. \A p \in Seen(l, d) : p \in Scanned /\ d[p] = e[p]
    BY DEF Seen
  <2> QED
    BY <1>4, <2>1 DEF Valid
<1>6. SeenPrompts(l, d) = SeenPrompts(l, e)
  BY <1>3 DEF SeenPrompts
<1> QED
  BY <1>1, <1>5, <1>6

LEMMA ListedFacts ==
  ASSUME prompts \subseteq Roots, NEW l, NEW d \in [Places -> Bundles], NEW n
  PROVE  /\ n \in CustomNames(l, d) =>
              /\ n \in WorkspaceNames /\ ListedAs(l, d, n) \in SkillRecords
              /\ ListedAs(l, d, n).scope = "workspace" /\ ListedAs(l, d, n).place \in Scanned
              /\ ListedAs(l, d, n).bundle = d[ListedAs(l, d, n).place]
              /\ ListedAs(l, d, n).bundle.dir /\ Status(ListedAs(l, d, n).bundle) # "invalid"
         /\ n \in PromptNames(l, d) \ CustomNames(l, d) =>
              /\ n \in WorkspaceNames /\ ListedAs(l, d, n) \in SkillRecords
              /\ ListedAs(l, d, n).scope = "workspace" /\ ListedAs(l, d, n).place \in RootPlaces
<1>1. ASSUME n \in CustomNames(l, d)
      PROVE  /\ n \in WorkspaceNames /\ ListedAs(l, d, n) \in SkillRecords
             /\ ListedAs(l, d, n).scope = "workspace" /\ ListedAs(l, d, n).place \in Scanned
             /\ ListedAs(l, d, n).bundle = d[ListedAs(l, d, n).place]
             /\ ListedAs(l, d, n).bundle.dir /\ Status(ListedAs(l, d, n).bundle) # "invalid"
  <2>1. PICK p \in Valid(l, d) : n = NameOf(p)
    BY <1>1 DEF CustomNames
  <2>2. p \in Scanned /\ d[p].dir /\ p = Visible(d, p[1], p[3]) /\ Status(d[p]) # "invalid"
    BY DEF Valid, Seen
  <2>3. n \in WorkspaceNames /\ p = Visible(d, n[1], n[2]) /\ p \in Places
    BY <2>1, <2>2, NameFacts, PlaceFacts
  <2>4. ListedAs(l, d, n) = [scope |-> "workspace", place |-> p, bundle |-> d[p]]
    BY <1>1, <2>3 DEF ListedAs, Skill
  <2>5. d[p] \in Bundles
    BY <2>3
  <2> QED
    BY <2>2, <2>3, <2>4, <2>5 DEF SkillRecords
<1>2. ASSUME n \in PromptNames(l, d) \ CustomNames(l, d)
      PROVE  /\ n \in WorkspaceNames /\ ListedAs(l, d, n) \in SkillRecords
             /\ ListedAs(l, d, n).scope = "workspace" /\ ListedAs(l, d, n).place \in RootPlaces
  <2>1. PICK r \in prompts : n = PromptName(<<r>>[1])
    BY <1>2 DEF PromptNames, SeenPrompts
  <2>2. r \in Roots /\ n \in WorkspaceNames /\ n[1] = r
    BY <2>1, NameFacts
  <2>3. ListedAs(l, d, n) = [scope |-> "workspace", place |-> <<r>>, bundle |-> Absent]
    BY <1>2, <2>2 DEF ListedAs, Skill
  <2>4. <<r>> \in RootPlaces
    BY <2>2 DEF RootPlaces
  <2> QED
    BY <2>2, <2>3, <2>4, BundleFacts DEF SkillRecords
<1> QED
  BY <1>1, <1>2

LEMMA DiscoverIs ==
  ASSUME NEW l, NEW x, NEW d
  PROVE  Discover(l, x, d) = [n \in SkillNames |-> IF n \in CustomNames(l, d) \union PromptNames(l, d)
                                           THEN ListedAs(l, d, n) ELSE x[n]]
BY DEF Discover, CustomNames, PromptNames, ListedAs

LEMMA MatchesIs ==
  ASSUME prompts \subseteq Roots, NEW l, NEW d \in [Places -> Bundles], NEW x \in [SkillNames -> SkillRecords]
  PROVE  x = Discover(l, WithoutWorkspace(x), d) <=> Matches(l, x, d)
<1> DEFINE w == WithoutWorkspace(x)
           listed == CustomNames(l, d) \union PromptNames(l, d)
<1>1. \A n \in SkillNames : w[n] = IF x[n].scope = "workspace" THEN NoSkill ELSE x[n]
  BY DEF WithoutWorkspace
<1>2. \A n \in SkillNames : w[n].scope # "workspace"
  BY <1>1, BundleFacts
<1>3. Discover(l, w, d) = [n \in SkillNames |-> IF n \in listed THEN ListedAs(l, d, n) ELSE w[n]]
  BY DiscoverIs
<1>4. Matches(l, x, d) <=>
        \A n \in SkillNames : IF n \in listed THEN x[n] = ListedAs(l, d, n) ELSE x[n].scope # "workspace"
  BY DEF Matches
<1> HIDE DEF w, listed
<1>5. x = Discover(l, w, d) <=> \A n \in SkillNames : x[n] = IF n \in listed THEN ListedAs(l, d, n) ELSE w[n]
  BY <1>3
<1>6. \A n \in SkillNames : x[n] = w[n] <=> x[n].scope # "workspace"
  BY <1>1, <1>2
<1> QED
  BY <1>4, <1>5, <1>6 DEF w

\* What a scan makes of a registry without workspace skills.
LEMMA ScanFacts ==
  ASSUME prompts \subseteq Roots, NEW l, NEW d \in [Places -> Bundles], NEW x \in [SkillNames -> SkillRecords],
         \A n \in SkillNames : x[n].scope # "workspace"
  PROVE  /\ Discover(l, x, d) \in [SkillNames -> SkillRecords]
         /\ Matches(l, Discover(l, x, d), d)
         /\ \A n \in SkillNames : Discover(l, x, d)[n].scope # "workspace" => Discover(l, x, d)[n] = x[n]
<1> DEFINE y == Discover(l, x, d)
           listed == CustomNames(l, d) \union PromptNames(l, d)
<1>1. y = [n \in SkillNames |-> IF n \in listed THEN ListedAs(l, d, n) ELSE x[n]]
  BY DiscoverIs
<1>2. \A n \in listed : ListedAs(l, d, n) \in SkillRecords /\ ListedAs(l, d, n).scope = "workspace"
  BY ListedFacts
<1>3. Matches(l, y, d) <=>
        \A n \in SkillNames : IF n \in listed THEN y[n] = ListedAs(l, d, n) ELSE y[n].scope # "workspace"
  BY DEF Matches
<1> HIDE DEF y, listed
<1>4. \A n \in SkillNames : y[n] = IF n \in listed THEN ListedAs(l, d, n) ELSE x[n]
  BY <1>1
<1>5. y \in [SkillNames -> SkillRecords]
  BY <1>1, <1>2
<1> QED
  BY <1>2, <1>3, <1>4, <1>5 DEF y
-----------------------------------------------------------------------------
(* The parts of the invariant, said of given values. *)

ListedFits(x, d, t) ==
  \A n \in SkillNames :
    x[n].scope = "workspace" /\ Len(x[n].place) # 1 /\ x[n].place \notin t =>
      d[x[n].place] = x[n].bundle /\ Status(x[n].bundle) # "invalid"

ManagedFits(x, d, b) ==
  \A n \in Ids :
    x[n].scope = "managed" /\ OfItsOwn(x[n], n) /\ x[n].place \notin b =>
      d[x[n].place].dir /\ d[x[n].place].skill = x[n].bundle.skill

LEMMA PartsAre ==
  /\ RegistryMatchesDisk <=> (up /\ touched = {} => skills = Discover(roots, WithoutWorkspace(skills), bundle))
  /\ ListedIsOnDisk <=> (up => ListedFits(skills, bundle, touched))
  /\ ManagedHasItsFiles <=> ManagedFits(skills, bundle, broken)
<1>1. ListedIsOnDisk <=> (up => ListedFits(skills, bundle, touched))
  BY DEF ListedIsOnDisk, ListedFits, HasFiles, IsPrompt
<1>2. ManagedHasItsFiles <=> ManagedFits(skills, bundle, broken)
  BY DEF ManagedHasItsFiles, ManagedFits
<1> QED
  BY <1>1, <1>2 DEF RegistryMatchesDisk

LEMMA PartsWillBe ==
  /\ prompts' = prompts =>
       (RegistryMatchesDisk' <=>
          (up' /\ touched' = {} => skills' = Discover(roots', WithoutWorkspace(skills'), bundle')))
  /\ touched' # {} => RegistryMatchesDisk'
  /\ ListedIsOnDisk' <=> (up' => ListedFits(skills', bundle', touched'))
  /\ ManagedHasItsFiles' <=> ManagedFits(skills', bundle', broken')
<1>1. ListedIsOnDisk' <=> (up' => ListedFits(skills', bundle', touched'))
  BY DEF ListedIsOnDisk, ListedFits, HasFiles, IsPrompt, Status, Errors, OpenClawWarns, CompatibilityWarns
<1>2. ManagedHasItsFiles' <=> ManagedFits(skills', bundle', broken')
  BY DEF ManagedHasItsFiles, ManagedFits
<1>3. ASSUME prompts' = prompts
      PROVE  RegistryMatchesDisk' <=>
               (up' /\ touched' = {} => skills' = Discover(roots', WithoutWorkspace(skills'), bundle'))
  BY <1>3 DEF RegistryMatchesDisk, Discover, WithoutWorkspace, SeenPrompts, Reached, Raises, Visible, Valid,
              Seen, NameOf, PromptName, Earlier, Skill, Status, Errors, OpenClawWarns, CompatibilityWarns
<1>4. touched' # {} => RegistryMatchesDisk'
  BY DEF RegistryMatchesDisk
<1> QED
  BY <1>1, <1>2, <1>3, <1>4
-----------------------------------------------------------------------------
(* What a step does to the workspace skills. *)

\* Where a workspace skill is listed.
WorkspaceFits(x) ==
  \A n \in SkillNames : x[n].scope = "workspace" => n \in WorkspaceNames /\ x[n].place \in Scanned \union RootPlaces

ManagedPlaced(x) ==
  \A n \in SkillNames : x[n].scope = "managed" =>
    n \in Ids /\ \E d \in InstallDirs : x[n].place = Target(d, n)

LEMMA OriginsAre ==
  /\ Origins <=> WorkspaceFits(skills) /\ ManagedPlaced(skills)
  /\ Origins' <=> WorkspaceFits(skills') /\ ManagedPlaced(skills')
BY DEF Origins, WorkspaceFits, ManagedPlaced

\* A scan of a registry without workspace skills.
LEMMA AfterScan ==
  ASSUME prompts \subseteq Roots, prompts' = prompts, NEW l, roots' = l,
         NEW d \in [Places -> Bundles], bundle' = d,
         NEW x \in [SkillNames -> SkillRecords], \A n \in SkillNames : x[n].scope # "workspace",
         ScanInto(l, x, d)
  PROVE  /\ skills' \in [SkillNames -> SkillRecords] /\ reports' \subseteq Scanned \union RootPlaces
         /\ touched' = {}
         /\ WorkspaceFits(skills') /\ RegistryMatchesDisk' /\ ListedIsOnDisk'
         /\ \A n \in SkillNames : skills'[n].scope # "workspace" => skills'[n] = x[n]
<1>1. PICK y : y = Discover(l, x, d)
  OBVIOUS
<1>2. skills' = y /\ reports' = Seen(l, d) \union SeenPrompts(l, d) /\ touched' = {}
  BY <1>1 DEF ScanInto
<1>3. /\ y \in [SkillNames -> SkillRecords] /\ Matches(l, y, d)
      /\ \A n \in SkillNames : y[n].scope # "workspace" => y[n] = x[n]
  BY <1>1, ScanFacts
<1>4. reports' \subseteq Scanned \union RootPlaces
  BY <1>2 DEF Seen, SeenPrompts, RootPlaces
<1>5. y = Discover(l, WithoutWorkspace(y), d)
  BY <1>3, MatchesIs
<1>6. RegistryMatchesDisk'
  BY <1>2, <1>5, PartsWillBe
<1>7. \A n \in SkillNames : y[n].scope = "workspace" =>
        n \in CustomNames(l, d) \union PromptNames(l, d) /\ y[n] = ListedAs(l, d, n)
  BY <1>3 DEF Matches
<1>8. WorkspaceFits(y)
  BY <1>7, ListedFacts DEF WorkspaceFits
<1>9. ListedFits(y, d, {})
  <2>1. ASSUME NEW n \in SkillNames, y[n].scope = "workspace", Len(y[n].place) # 1
        PROVE  d[y[n].place] = y[n].bundle /\ Status(y[n].bundle) # "invalid"
    <3>1. n \in CustomNames(l, d)
      BY <1>7, <2>1, ListedFacts, PlaceFacts
    <3> QED
      BY <1>7, <2>1, <3>1, ListedFacts
  <2> QED
    BY <2>1 DEF ListedFits
<1>10. ListedIsOnDisk'
  BY <1>2, <1>9, PartsWillBe
<1> QED
  BY <1>2, <1>3, <1>4, <1>6, <1>8, <1>10

\* No other step lists a workspace skill, lists one otherwise or writes unnoticed to
\* a place that is scanned.
OnlyForgets ==
  /\ up' => up
  /\ touched \subseteq touched'
  /\ \A p \in Scanned : p \in touched' \/ bundle'[p] = bundle[p]
  /\ \A n \in SkillNames : skills'[n].scope = "workspace" => skills'[n] = skills[n]

\* As long as nothing is out of step it does not take one away, either.
LeavesWorkspace ==
  \/ touched' # {}
  \/ /\ prompts' = prompts /\ roots' = roots
     /\ \A n \in SkillNames : skills[n].scope = "workspace" => skills'[n] = skills[n]

LEMMA ListedStays ==
  ASSUME WorkspaceFits(skills), ListedIsOnDisk, OnlyForgets
  PROVE  WorkspaceFits(skills') /\ ListedIsOnDisk'
<1>1. WorkspaceFits(skills')
  BY DEF OnlyForgets, WorkspaceFits
<1>2. ASSUME up', NEW n \in SkillNames, skills'[n].scope = "workspace", Len(skills'[n].place) # 1,
             skills'[n].place \notin touched'
      PROVE  bundle'[skills'[n].place] = skills'[n].bundle /\ Status(skills'[n].bundle) # "invalid"
  <2>1. up /\ skills'[n] = skills[n] /\ skills[n].place \notin touched
    BY <1>2 DEF OnlyForgets
  <2>2. skills[n].place \in Scanned
    BY <1>2, <2>1, PlaceFacts DEF WorkspaceFits
  <2>3. bundle'[skills[n].place] = bundle[skills[n].place]
    BY <1>2, <2>1, <2>2 DEF OnlyForgets
  <2>4. ListedFits(skills, bundle, touched)
    BY <2>1, PartsAre
  <2>5. bundle[skills[n].place] = skills[n].bundle /\ Status(skills[n].bundle) # "invalid"
    BY <1>2, <2>1, <2>4 DEF ListedFits
  <2> QED
    BY <2>1, <2>3, <2>5
<1>3. up' => ListedFits(skills', bundle', touched')
  BY <1>2 DEF ListedFits
<1> QED
  BY <1>1, <1>3, PartsWillBe

LEMMA MatchStays ==
  ASSUME prompts \subseteq Roots, roots \in Seq(Roots), skills \in [SkillNames -> SkillRecords], bundle \in [Places -> Bundles],
         skills' \in [SkillNames -> SkillRecords], bundle' \in [Places -> Bundles],
         RegistryMatchesDisk, OnlyForgets, LeavesWorkspace
  PROVE  RegistryMatchesDisk'
<1>1. CASE touched' # {}
  BY <1>1, PartsWillBe
<1>2. CASE ~up'
  BY <1>2 DEF RegistryMatchesDisk
<1>3. CASE touched' = {} /\ up'
  <2>1. /\ up /\ touched = {} /\ prompts' = prompts /\ roots' = roots
        /\ \A p \in Scanned : bundle'[p] = bundle[p]
        /\ \A n \in SkillNames :
             skills[n].scope = "workspace" \/ skills'[n].scope = "workspace" => skills'[n] = skills[n]
    BY <1>3 DEF OnlyForgets, LeavesWorkspace
  <2>2. PICK d, y : d = bundle' /\ y = skills'
    OBVIOUS
  <2>3. d \in [Places -> Bundles] /\ y \in [SkillNames -> SkillRecords]
    BY <2>2
  <2>4. Matches(roots, skills, bundle)
    <3>1. skills = Discover(roots, WithoutWorkspace(skills), bundle)
      BY <2>1, PartsAre
    <3> QED
      BY <3>1, MatchesIs
  <2>5. \A p \in Scanned : bundle[p] = d[p]
    BY <2>1, <2>2
  <2>6. /\ Valid(roots, bundle) = Valid(roots, d) /\ SeenPrompts(roots, bundle) = SeenPrompts(roots, d)
        /\ \A r \in Roots, s \in Slugs : Visible(bundle, r, s) = Visible(d, r, s)
    BY <2>5, SameScan
  <2>7. CustomNames(roots, d) = CustomNames(roots, bundle) /\ PromptNames(roots, d) = PromptNames(roots, bundle)
    BY <2>6 DEF CustomNames, PromptNames
  <2>8. \A n \in CustomNames(roots, d) \union PromptNames(roots, d) : ListedAs(roots, d, n) = ListedAs(roots, bundle, n)
    <3>1. ASSUME NEW n \in CustomNames(roots, d) PROVE ListedAs(roots, d, n) = ListedAs(roots, bundle, n)
      <4>1. PICK p \in Valid(roots, d) : n = NameOf(p)
        BY <3>1 DEF CustomNames
      <4>2. p \in Scanned /\ n[1] \in Roots /\ n[2] \in Slugs
        BY <4>1, NameFacts, PlaceFacts DEF Valid, Seen
      <4>3. Visible(bundle, n[1], n[2]) = Visible(d, n[1], n[2]) /\ Visible(d, n[1], n[2]) \in Scanned
        BY <2>6, <4>2, VisibleIsScanned
      <4> QED
        BY <2>5, <2>7, <4>3 DEF ListedAs
    <3> QED
      BY <2>7, <3>1 DEF ListedAs
  <2>9. Matches(roots, y, d)
    <3>1. ASSUME NEW n \in SkillNames, n \in CustomNames(roots, d) \union PromptNames(roots, d) PROVE y[n] = ListedAs(roots, d, n)
      <4>1. skills[n] = ListedAs(roots, bundle, n)
        BY <2>4, <2>7, <3>1 DEF Matches
      <4>2. skills[n].scope = "workspace"
        BY <2>7, <3>1, <4>1, ListedFacts
      <4> QED
        BY <2>1, <2>2, <2>8, <3>1, <4>1, <4>2
    <3>2. ASSUME NEW n \in SkillNames, n \notin CustomNames(roots, d) \union PromptNames(roots, d) PROVE y[n].scope # "workspace"
      <4>1. skills[n].scope # "workspace"
        BY <2>4, <2>7, <3>2 DEF Matches
      <4> QED
        BY <2>1, <2>2, <4>1
    <3> QED
      BY <3>1, <3>2 DEF Matches
  <2>10. y = Discover(roots, WithoutWorkspace(y), d)
    BY <2>3, <2>9, MatchesIs
  <2> QED
    BY <2>1, <2>2, <2>10, PartsWillBe
<1> QED
  BY <1>1, <1>2, <1>3

\* Managed skills keep their entries and their files, but for those named in n.
ManagedKept(n) ==
  \A m \in Ids \ n : skills'[m].scope = "managed" /\ OfItsOwn(skills'[m], m) =>
       /\ skills'[m] = skills[m]
       /\ \/ skills[m].place \in broken'
          \/ skills[m].place \notin broken /\ bundle'[skills[m].place] = bundle[skills[m].place]

LEMMA ManagedStays ==
  ASSUME ManagedHasItsFiles, NEW n \in SUBSET Ids, ManagedKept(n),
         \A m \in n : bundle'[skills'[m].place].dir /\ bundle'[skills'[m].place].skill = skills'[m].bundle.skill
  PROVE  ManagedHasItsFiles'
<1>1. ASSUME NEW m \in Ids, m \notin n, skills'[m].scope = "managed", OfItsOwn(skills'[m], m),
             skills'[m].place \notin broken'
      PROVE  bundle'[skills'[m].place].dir /\ bundle'[skills'[m].place].skill = skills'[m].bundle.skill
  <2>1. /\ skills'[m] = skills[m]
        /\ skills[m].place \notin broken /\ bundle'[skills[m].place] = bundle[skills[m].place]
    BY <1>1 DEF ManagedKept
  <2>2. ManagedFits(skills, bundle, broken)
    BY PartsAre
  <2>3. bundle[skills[m].place].dir /\ bundle[skills[m].place].skill = skills[m].bundle.skill
    BY <1>1, <2>1, <2>2 DEF ManagedFits
  <2> QED
    BY <2>1, <2>3
<1>2. ManagedFits(skills', bundle', broken')
  BY <1>1 DEF ManagedFits
<1> QED
  BY <1>2, PartsWillBe
-----------------------------------------------------------------------------
(* One lemma for the steps that scan, one for those that do not. *)

LEMMA InvIs ==
  SkillsInv <=> /\ SkillsTyped /\ WorkspaceFits(skills) /\ ManagedPlaced(skills)
                /\ RegistryMatchesDisk /\ ListedIsOnDisk /\ ManagedHasItsFiles
BY OriginsAre DEF SkillsInv

LEMMA InvWillBe ==
  SkillsInv' <=> /\ SkillsTyped' /\ WorkspaceFits(skills') /\ ManagedPlaced(skills')
                 /\ RegistryMatchesDisk' /\ ListedIsOnDisk' /\ ManagedHasItsFiles'
BY OriginsAre DEF SkillsInv

LEMMA CallsStay ==
  ASSUME CallsFit, calls' = calls
  PROVE  CallsFit'
BY DEF CallsFit

LEMMA CallChanges ==
  ASSUME CallsFit, NEW c \in Callers, NEW r \in CallRecords, calls' = [calls EXCEPT ![c] = r]
  PROVE  CallsFit'
BY DEF CallsFit

LEMMA IdleFits == Idle \in CallRecords
<1>1. <<>> \in Seq(Ids)
  OBVIOUS
<1> QED
  BY <1>1, DirsKnown DEF Idle, CallRecords

\* A sync goes on with what is left, or is done.
LEMMA NextFits ==
  ASSUME CallsFit, NEW c \in Callers, Busy(c), NextInstall(c)
  PROVE  CallsFit'
<1>1. calls[c] \in CallRecords /\ calls[c].todo # <<>> /\ calls[c].todo \in Seq(Ids)
  BY DEF CallsFit, CallRecords, Busy
<1>2. CASE Len(calls[c].todo) = 1
  <2>1. calls' = [calls EXCEPT ![c] = Idle]
    BY <1>2 DEF NextInstall
  <2> QED
    BY <2>1, IdleFits, CallChanges
<1>3. CASE Len(calls[c].todo) # 1
  <2>1. PICK r : r = [calls[c] EXCEPT !.todo = Tail(calls[c].todo)]
    OBVIOUS
  <2>2. calls' = [calls EXCEPT ![c] = r]
    BY <1>3, <2>1 DEF NextInstall
  <2>3. Tail(calls[c].todo) \in Seq(Ids)
    BY <1>1, HeadTailProperties
  <2>4. r \in CallRecords
    BY <1>1, <2>1, <2>3 DEF CallRecords
  <2> QED
    BY <2>2, <2>4, CallChanges
<1> QED
  BY <1>2, <1>3

\* What an install writes to.
LEMMA CallPlace ==
  ASSUME CallsFit, NEW c \in Callers, Busy(c)
  PROVE  /\ Head(calls[c].todo) \in Ids /\ calls[c].dir \in InstallDirs
         /\ Target(calls[c].dir, Head(calls[c].todo)) \in Installed
<1>1. calls[c].todo \in Seq(Ids) /\ calls[c].todo # <<>> /\ calls[c].dir \in InstallDirs
  BY DEF CallsFit, CallRecords, Busy
<1>2. Head(calls[c].todo) \in Ids
  BY <1>1
<1> QED
  BY <1>1, <1>2, PlaceFacts

LEMMA ManagedIsInstalled ==
  ASSUME ManagedPlaced(skills), NEW m \in Ids, skills[m].scope = "managed"
  PROVE  skills[m].place \in Installed /\ skills[m].place \in Places /\ skills[m].place[3] = Folder[m]
<1>1. PICK d \in InstallDirs : skills[m].place = Target(d, m)
  BY NameFacts DEF ManagedPlaced
<1> QED
  BY <1>1, PlaceFacts

\* A skill with a folder of its own shares its place with no other.
LEMMA PlacesApart ==
  ASSUME ManagedPlaced(skills), NEW m \in Ids, skills[m].scope = "managed", OfItsOwn(skills[m], m)
  PROVE  /\ skills[m].place \in Places /\ skills[m].place \notin Scanned
         /\ \A k \in Ids \ {m}, d \in InstallDirs : skills[m].place # Target(d, k)
<1>1. \A k \in Ids \ {m} : Folder[k] # Folder[m]
  BY DEF OfItsOwn
<1>2. skills[m].place \notin Scanned
  BY DEF OfItsOwn
<1> QED
  BY <1>1, <1>2, ManagedIsInstalled, PlaceFacts

LEMMA RescanStep ==
  ASSUME SkillsInv, up, NEW s \in [SkillNames -> SkillRecords],
         \A n \in SkillNames : s[n] = skills[n] \/ s[n] = NoSkill,
         NEW d \in [Places -> Bundles], bundle' = d, RescanWith(s, d),
         prompts' = prompts, roots' = roots, installDir' = installDir, calls' = calls, up' = up, broken' \subseteq Places,
         \A m \in Ids : s[m].scope = "managed" /\ OfItsOwn(skills[m], m) =>
           \/ skills[m].place \in broken'
           \/ skills[m].place \notin broken /\ d[skills[m].place] = bundle[skills[m].place]
  PROVE  SkillsInv'
<1>1. /\ SkillsTyped /\ ManagedPlaced(skills) /\ ManagedHasItsFiles
      /\ prompts \subseteq Roots /\ roots \in Seq(Roots) /\ CallsFit /\ installDir \in InstallDirs
  BY InvIs DEF SkillsTyped
<1>2. PICK x : x = WithoutWorkspace(s)
  OBVIOUS
<1>3. /\ x \in [SkillNames -> SkillRecords]
      /\ \A n \in SkillNames : x[n].scope # "workspace"
      /\ \A n \in SkillNames : x[n].scope = "managed" => x[n] = s[n]
  BY <1>2, BundleFacts DEF WithoutWorkspace
<1>4. ScanInto(roots, x, d)
  BY <1>2 DEF RescanWith
<1>5. /\ skills' \in [SkillNames -> SkillRecords] /\ reports' \subseteq Scanned \union RootPlaces
      /\ touched' = {}
      /\ WorkspaceFits(skills') /\ RegistryMatchesDisk' /\ ListedIsOnDisk'
      /\ \A n \in SkillNames : skills'[n].scope # "workspace" => skills'[n] = x[n]
  BY <1>1, <1>3, <1>4, AfterScan
<1>6. \A n \in SkillNames : skills'[n].scope = "managed" => skills'[n] = skills[n] /\ s[n].scope = "managed"
  BY <1>3, <1>5, BundleFacts
<1>7. ManagedPlaced(skills')
  BY <1>1, <1>6 DEF ManagedPlaced
<1>8. ManagedKept({})
  BY <1>6, NameFacts DEF ManagedKept
<1>9. ManagedHasItsFiles'
  BY <1>1, <1>8, ManagedStays
<1>10. CallsFit'
  BY <1>1, CallsStay
<1>11. SkillsTyped'
  BY <1>1, <1>5, <1>10 DEF SkillsTyped
<1> QED
  BY <1>5, <1>7, <1>9, <1>11, InvWillBe

\* Any other step, which may install the skills in n.
LEMMA QuietStep ==
  ASSUME SkillsInv, SkillsTyped', OnlyForgets, LeavesWorkspace, NEW n \in SUBSET Ids, ManagedKept(n),
         \A m \in SkillNames \ n : skills'[m].scope = "managed" => skills'[m] = skills[m],
         \A m \in n : /\ \E d \in InstallDirs : skills'[m].place = Target(d, m)
                      /\ bundle'[skills'[m].place].dir
                      /\ bundle'[skills'[m].place].skill = skills'[m].bundle.skill
  PROVE  SkillsInv'
<1>1. /\ SkillsTyped /\ WorkspaceFits(skills) /\ ManagedPlaced(skills)
      /\ RegistryMatchesDisk /\ ListedIsOnDisk /\ ManagedHasItsFiles
  BY InvIs
<1>2. /\ prompts \subseteq Roots /\ roots \in Seq(Roots) /\ skills \in [SkillNames -> SkillRecords] /\ bundle \in [Places -> Bundles]
      /\ skills' \in [SkillNames -> SkillRecords] /\ bundle' \in [Places -> Bundles]
  BY <1>1 DEF SkillsTyped
<1>3. WorkspaceFits(skills') /\ ListedIsOnDisk'
  BY <1>1, ListedStays
<1>4. RegistryMatchesDisk'
  BY <1>1, <1>2, MatchStays
<1>5. ManagedHasItsFiles'
  BY <1>1, ManagedStays
<1>6. ManagedPlaced(skills')
  BY <1>1 DEF ManagedPlaced
<1> QED
  BY <1>3, <1>4, <1>5, <1>6, InvWillBe
-----------------------------------------------------------------------------
(* Scans, drafts and edits. *)

LEMMA InvFacts ==
  ASSUME SkillsInv
  PROVE  /\ skills \in [SkillNames -> SkillRecords] /\ bundle \in [Places -> Bundles]
         /\ prompts \subseteq Roots /\ broken \subseteq Places
         /\ touched \subseteq Scanned \union RootPlaces
         /\ roots \in Seq(Roots)
         /\ CallsFit /\ ManagedPlaced(skills) /\ WorkspaceFits(skills)
BY InvIs DEF SkillsTyped

LEMMA RescanHolds ==
  ASSUME SkillsInv, Rescan
  PROVE  SkillsInv'
<1>1. /\ up /\ RescanWith(skills, bundle) /\ bundle' = bundle /\ prompts' = prompts /\ roots' = roots
      /\ installDir' = installDir /\ calls' = calls /\ up' = up /\ broken' = broken
  BY DEF Rescan, disk, hub
<1>2. broken' \subseteq Places /\ bundle' = bundle
  BY <1>1, InvFacts
<1>3. \A m \in Ids : skills[m].scope = "managed" =>
        \/ skills[m].place \in broken'
        \/ skills[m].place \notin broken /\ bundle[skills[m].place] = bundle[skills[m].place]
  BY <1>1
<1> QED
  BY <1>1, <1>2, <1>3, InvFacts, RescanStep

\* Steps that only write to a place that is scanned, and say so.
LEMMA ScannedWrite ==
  ASSUME SkillsInv, NEW p \in Scanned, NEW b \in Bundles, bundle' = [bundle EXCEPT ![p] = b],
         touched' = touched \union {p},
         skills' = skills, reports' = reports, prompts' = prompts, installDir' = installDir,
         calls' = calls, up' = up, roots' = roots, broken' = broken
  PROVE  SkillsInv'
<1>1. p \in Places /\ bundle' \in [Places -> Bundles] /\ \A q \in Places \ {p} : bundle'[q] = bundle[q]
  BY InvFacts, PlaceFacts
<1>2. touched' \subseteq Scanned \union RootPlaces /\ CallsFit'
  BY InvFacts, CallsStay
<1>3. SkillsTyped'
  BY <1>1, <1>2, InvIs DEF SkillsTyped
<1>4. OnlyForgets /\ LeavesWorkspace
  BY <1>1, PlaceFacts DEF OnlyForgets, LeavesWorkspace
<1>5. ManagedKept({})
  <2>1. \A m \in Ids : skills[m].scope = "managed" /\ OfItsOwn(skills[m], m) => skills[m].place \in Places \ {p}
    BY InvFacts, PlacesApart, PlaceFacts
  <2> QED
    BY <1>1, <2>1 DEF ManagedKept
<1> QED
  BY <1>3, <1>4, <1>5, QuietStep

LEMMA CreateHolds ==
  ASSUME SkillsInv, NEW r \in Roots, NEW s \in Slugs, NEW draft \in Drafts, NEW overwrite,
         Create(r, s, draft, overwrite)
  PROVE  SkillsInv'
<1>1. PICK p, new : p = <<r, "skills", s>> /\ new = [bundle EXCEPT ![p] = draft]
  OBVIOUS
<1>2. /\ up /\ bundle' = new
      /\ IF Raises(new, r) THEN Touch(p) /\ UNCHANGED skillRegistry
                           ELSE RescanWith(skills, new)
      /\ UNCHANGED <<roots, prompts, hub, up, broken>>
  BY <1>1 DEF Create
<1>3. p \in Scanned /\ p \in Places /\ draft \in Bundles
  BY <1>1, PlaceFacts, BundleFacts
<1>4. CASE Raises(new, r)
  <2>1. /\ bundle' = [bundle EXCEPT ![p] = draft] /\ touched' = touched \union {p}
        /\ skills' = skills /\ reports' = reports /\ prompts' = prompts /\ installDir' = installDir
        /\ calls' = calls /\ up' = up /\ roots' = roots /\ broken' = broken
    BY <1>1, <1>2, <1>3, <1>4 DEF skillRegistry, hub, Touch
  <2> QED
    BY <1>3, <2>1, ScannedWrite
<1>5. CASE ~Raises(new, r)
  <2>1. new \in [Places -> Bundles] /\ \A q \in Places \ {p} : new[q] = bundle[q]
    BY <1>1, <1>3, InvFacts
  <2>2. \A m \in Ids : skills[m].scope = "managed" /\ OfItsOwn(skills[m], m) =>
          \/ skills[m].place \in broken'
          \/ skills[m].place \notin broken /\ new[skills[m].place] = bundle[skills[m].place]
    <3>1. \A m \in Ids : skills[m].scope = "managed" /\ OfItsOwn(skills[m], m) => skills[m].place \in Places \ {p}
      BY <1>3, InvFacts, PlacesApart, PlaceFacts
    <3> QED
      BY <1>2, <2>1, <3>1
  <2>3. /\ up /\ bundle' = new /\ RescanWith(skills, new) /\ prompts' = prompts /\ installDir' = installDir
        /\ calls' = calls /\ up' = up /\ roots' = roots /\ broken' \subseteq Places /\ skills \in [SkillNames -> SkillRecords]
    BY <1>2, <1>5, InvFacts DEF hub
  <2> QED
    BY <2>1, <2>2, <2>3, RescanStep
<1> QED
  BY <1>4, <1>5

LEMMA CreateFailsHolds ==
  ASSUME SkillsInv, NEW r \in Roots, NEW s \in Slugs, NEW draft \in Drafts, NEW overwrite,
         CreateFails(r, s, draft, overwrite)
  PROVE  SkillsInv'
<1>1. PICK p : p = <<r, "skills", s>>
  OBVIOUS
<1>2. PICK left \in HalfWritten(bundle[p], draft) :
        /\ bundle' = [bundle EXCEPT ![p] = left] /\ Touch(p)
        /\ skills' = skills /\ reports' = reports /\ prompts' = prompts /\ installDir' = installDir
        /\ calls' = calls /\ up' = up /\ roots' = roots /\ broken' = broken
  BY <1>1 DEF CreateFails, skillRegistry, hub
<1>3. p \in Scanned /\ p \in Places /\ draft \in Bundles /\ bundle[p] \in Bundles
  BY <1>1, PlaceFacts, BundleFacts, InvFacts
<1>4. left \in Bundles
  BY <1>3, HalfWrittenFits
<1> QED
  BY <1>2, <1>3, <1>4, ScannedWrite DEF Touch

LEMMA EditByHandHolds ==
  ASSUME SkillsInv, NEW p \in Scanned, NEW b \in Handmade \union {Absent}, EditByHand(p, b)
  PROVE  SkillsInv'
<1>1. /\ bundle' = [bundle EXCEPT ![p] = b] /\ touched' = touched \union {p}
      /\ skills' = skills /\ reports' = reports /\ prompts' = prompts /\ installDir' = installDir
      /\ calls' = calls /\ up' = up /\ roots' = roots /\ broken' = broken
  BY DEF EditByHand, skillRegistry, hub, Touch
<1>2. b \in Bundles
  BY BundleFacts
<1> QED
  BY <1>1, <1>2, ScannedWrite

\* Steps that leave registry and bundles alone.
LEMMA NothingListed ==
  ASSUME SkillsInv, SkillsTyped', skills' = skills, bundle' = bundle,
         up' = up, broken' = broken,
         touched \subseteq touched', touched' # {} \/ (prompts' = prompts /\ roots' = roots)
  PROVE  SkillsInv'
<1>1. OnlyForgets
  BY DEF OnlyForgets
<1>2. LeavesWorkspace
  BY DEF LeavesWorkspace
<1>3. ManagedKept({})
  BY DEF ManagedKept
<1> QED
  BY <1>1, <1>2, <1>3, QuietStep

LEMMA EditPromptsHolds ==
  ASSUME SkillsInv, NEW r \in Roots, EditPrompts(r)
  PROVE  SkillsInv'
<1>1. /\ prompts' \subseteq Roots /\ touched' = touched \union {<<r>>} /\ roots' = roots
      /\ skills' = skills /\ reports' = reports /\ bundle' = bundle /\ installDir' = installDir
      /\ calls' = calls /\ up' = up /\ broken' = broken
  BY InvFacts DEF EditPrompts, skillRegistry, hub
<1>2. touched' \subseteq Scanned \union RootPlaces /\ CallsFit'
  BY <1>1, InvFacts, CallsStay DEF RootPlaces
<1>3. SkillsTyped'
  BY <1>1, <1>2, InvIs DEF SkillsTyped
<1>4. touched \subseteq touched' /\ touched' # {}
  BY <1>1
<1> QED
  BY <1>1, <1>3, <1>4, NothingListed

\* A workspace comes or goes, and the registry is out of step with it.
LEMMA WorkspacesHold ==
  ASSUME SkillsInv, NEW w \in Workspaces, AddWorkspace(w) \/ RemoveWorkspace(w)
  PROVE  SkillsInv'
<1>1. w \in Roots /\ roots \in Seq(Roots)
  BY InvFacts DEF Roots
<1>2. roots' \in Seq(Roots)
  <2>1. CASE AddWorkspace(w)
    BY <1>1, <2>1, AppendProperties DEF AddWorkspace
  <2>2. CASE RemoveWorkspace(w)
    <3>1. PICK i \in 1..Len(roots) : roots' = SubSeq(roots, 1, i - 1) \o SubSeq(roots, i + 1, Len(roots))
      BY <2>2 DEF RemoveWorkspace
    <3>2. \A j \in 1..Len(roots) : roots[j] \in Roots
      BY <1>1, ElementOfSeq
    <3>3. Len(roots) \in Nat /\ i \in Int /\ 1 <= i /\ i <= Len(roots)
      BY <1>1, LenProperties
    <3>4. SubSeq(roots, 1, i - 1) \in Seq(Roots)
      BY <1>1, <3>2, <3>3, SubSeqProperties, Z3
    <3>5. SubSeq(roots, i + 1, Len(roots)) \in Seq(Roots)
      BY <1>1, <3>2, <3>3, SubSeqProperties, Z3
    <3> QED
      BY <3>1, <3>4, <3>5, ConcatProperties
  <2> QED
    BY <2>1, <2>2
<1>3. /\ touched' = touched \union {<<w>>} /\ skills' = skills /\ reports' = reports /\ bundle' = bundle
      /\ prompts' = prompts /\ installDir' = installDir /\ calls' = calls /\ up' = up /\ broken' = broken
  BY DEF AddWorkspace, RemoveWorkspace, skillRegistry, disk, hub
<1>4. touched' \subseteq Scanned \union RootPlaces /\ CallsFit'
  BY <1>1, <1>3, InvFacts, CallsStay DEF RootPlaces
<1>5. SkillsTyped'
  BY <1>2, <1>3, <1>4, InvIs DEF SkillsTyped
<1>6. touched \subseteq touched' /\ touched' # {}
  BY <1>3
<1> QED
  BY <1>3, <1>5, <1>6, NothingListed
-----------------------------------------------------------------------------
(* Requests to the hub. *)

\* Steps that change no more than a request or the client.
LEMMA RequestAlone ==
  ASSUME SkillsInv, CallsFit', installDir' \in InstallDirs,
         UNCHANGED <<roots, skillRegistry, disk, up, history>>
  PROVE  SkillsInv'
<1>1. /\ skills' = skills /\ reports' = reports /\ bundle' = bundle /\ prompts' = prompts
      /\ up' = up /\ touched' = touched /\ roots' = roots /\ broken' = broken
  BY DEF skillRegistry, disk, history
<1>2. SkillsTyped'
  BY <1>1, InvIs DEF SkillsTyped
<1> QED
  BY <1>1, <1>2, NothingListed

LEMMA RequestsHold ==
  ASSUME SkillsInv, NEW c \in Callers,
         \/ \E id \in Ids : StartInstall(c, id)
         \/ \E listing \in Listings : StartSync(c, listing)
         \/ InstallRefused(c) \/ InstallRaises(c)
  PROVE  SkillsInv'
<1>1. CallsFit /\ installDir \in InstallDirs
  BY InvIs DEF SkillsTyped
<1>2. ASSUME NEW id \in Ids, StartInstall(c, id) PROVE SkillsInv'
  <2>1. PICK r : r = [todo |-> <<id>>, dir |-> installDir]
    OBVIOUS
  <2>2. r \in CallRecords
    <3>1. <<id>> \in Seq(Ids)
      OBVIOUS
    <3> QED
      BY <1>1, <2>1, <3>1 DEF CallRecords
  <2>3. /\ calls' = [calls EXCEPT ![c] = r] /\ installDir' = installDir
        /\ UNCHANGED <<roots, skillRegistry, disk, up, history>>
    BY <1>2, <2>1 DEF StartInstall
  <2>4. CallsFit'
    BY <1>1, <2>2, <2>3, CallChanges
  <2> QED
    BY <1>1, <2>3, <2>4, RequestAlone
<1>3. ASSUME NEW listing \in Listings, StartSync(c, listing) PROVE SkillsInv'
  <2>1. PICK r : r = [todo |-> listing, dir |-> installDir]
    OBVIOUS
  <2>2. r \in CallRecords
    BY <1>1, <2>1, ListingsKnown DEF CallRecords
  <2>3. /\ calls' = [calls EXCEPT ![c] = r] /\ installDir' = installDir
        /\ UNCHANGED <<roots, skillRegistry, disk, up, history>>
    BY <1>3, <2>1 DEF StartSync
  <2>4. CallsFit'
    BY <1>1, <2>2, <2>3, CallChanges
  <2> QED
    BY <1>1, <2>3, <2>4, RequestAlone
<1>4. CASE InstallRefused(c)
  <2>1. /\ Busy(c) /\ NextInstall(c) /\ installDir' = installDir
        /\ UNCHANGED <<roots, skillRegistry, disk, up, history>>
    BY <1>4 DEF InstallRefused
  <2>2. CallsFit'
    BY <1>1, <2>1, NextFits
  <2> QED
    BY <1>1, <2>1, <2>2, RequestAlone
<1>5. CASE InstallRaises(c)
  <2>1. /\ calls' = [calls EXCEPT ![c] = Idle] /\ installDir' = installDir
        /\ UNCHANGED <<roots, skillRegistry, disk, up, history>>
    BY <1>5 DEF InstallRaises
  <2>2. CallsFit'
    BY <1>1, <2>1, IdleFits, CallChanges
  <2> QED
    BY <1>1, <2>1, <2>2, RequestAlone
<1> QED
  BY <1>2, <1>3, <1>4, <1>5

LEMMA ConfigureHolds ==
  ASSUME SkillsInv, NEW d \in InstallDirs, Configure(d)
  PROVE  SkillsInv'
<1>1. calls' = calls /\ installDir' \in InstallDirs /\ UNCHANGED <<roots, skillRegistry, disk, up, history>>
  BY DEF Configure
<1>2. CallsFit'
  BY <1>1, InvFacts, CallsStay
<1> QED
  BY <1>1, <1>2, RequestAlone

LEMMA InstallHolds ==
  ASSUME SkillsInv, NEW c \in Callers, NEW new \in Downloads, Install(c, new)
  PROVE  SkillsInv'
<1>1. PICK id, p : id = Head(calls[c].todo) /\ p = Target(calls[c].dir, id)
  OBVIOUS
<1>2. /\ Busy(c) /\ NextInstall(c)
      /\ bundle' = [bundle EXCEPT ![p] = Unpacked(bundle[p], new)]
      /\ skills' = [skills EXCEPT ![id] = Skill("managed", p, new)]
      /\ broken' = broken \ {p} /\ Touch(p)
      /\ reports' = reports /\ prompts' = prompts /\ installDir' = installDir /\ up' = up /\ roots' = roots
  BY <1>1 DEF Install
<1>3. id \in Ids /\ calls[c].dir \in InstallDirs /\ p \in Installed
  BY <1>1, <1>2, InvFacts, CallPlace
<1>4. id \in SkillNames /\ id \notin WorkspaceNames /\ p \in Places /\ new \in Bundles
  BY <1>3, NameFacts, PlaceFacts, BundleFacts
<1>5. /\ Unpacked(bundle[p], new) \in Bundles /\ Unpacked(bundle[p], new).dir
      /\ Unpacked(bundle[p], new).skill = new.skill
  BY <1>4, InvFacts, UnpackedFits
<1>6. /\ bundle' \in [Places -> Bundles] /\ \A q \in Places \ {p} : bundle'[q] = bundle[q]
      /\ bundle'[p].dir /\ bundle'[p].skill = new.skill
  BY <1>2, <1>4, <1>5, InvFacts
<1>7. Skill("managed", p, new) \in SkillRecords
  BY <1>4 DEF Skill, SkillRecords
<1>8. PICK e : e = Skill("managed", p, new)
  OBVIOUS
<1>9. e \in SkillRecords /\ e.scope = "managed" /\ e.place = p /\ e.bundle = new
  BY <1>7, <1>8 DEF Skill
<1>10. /\ skills' \in [SkillNames -> SkillRecords] /\ skills'[id] = e
       /\ \A n \in SkillNames \ {id} : skills'[n] = skills[n]
  BY <1>2, <1>4, <1>8, <1>9, InvFacts
<1>11. CallsFit' /\ touched' \subseteq Scanned \union RootPlaces /\ touched \subseteq touched'
  BY <1>2, InvFacts, NextFits DEF Touch
<1>12. SkillsTyped'
  BY <1>2, <1>6, <1>10, <1>11, InvIs DEF SkillsTyped
<1>13. OnlyForgets
  <2>1. \A q \in Scanned : q \in touched' \/ bundle'[q] = bundle[q]
    BY <1>2, <1>6, PlaceFacts DEF Touch
  <2> QED
    BY <1>2, <1>9, <1>10, <1>11, <2>1 DEF OnlyForgets
<1>14. skills[id].scope # "workspace"
  BY <1>4, InvFacts DEF WorkspaceFits
<1>15. LeavesWorkspace
  BY <1>2, <1>10, <1>14 DEF LeavesWorkspace
<1>16. ManagedKept({id})
  <2>1. ASSUME NEW m \in Ids \ {id}, skills'[m].scope = "managed", OfItsOwn(skills'[m], m)
        PROVE  /\ skills'[m] = skills[m] /\ skills[m].place \in Places \ {p}
               /\ skills[m].place \in broken' \/ skills[m].place \notin broken
    <3>1. m \in SkillNames
      BY NameFacts
    <3>2. skills'[m] = skills[m]
      BY <1>10, <3>1
    <3>3. skills[m].place \in Places \ {p}
      BY <1>1, <1>3, <2>1, <3>2, InvFacts, PlacesApart
    <3> QED
      BY <1>2, <3>2, <3>3
  <2> QED
    BY <1>2, <1>6, <2>1 DEF ManagedKept
<1>17. \A m \in {id} : /\ \E d \in InstallDirs : skills'[m].place = Target(d, m)
                       /\ bundle'[skills'[m].place].dir
                       /\ bundle'[skills'[m].place].skill = skills'[m].bundle.skill
  BY <1>1, <1>3, <1>6, <1>9, <1>10
<1>18. {id} \in SUBSET Ids /\ \A m \in SkillNames \ {id} : skills'[m].scope = "managed" => skills'[m] = skills[m]
  BY <1>3, <1>10
<1> QED
  BY <1>12, <1>13, <1>15, <1>16, <1>17, <1>18, QuietStep

\* Steps an OSError cuts short: the place is noted with what is listed from there.
LEMMA CutShort ==
  ASSUME SkillsInv, NEW p \in Places, NEW b \in Bundles, bundle' = [bundle EXCEPT ![p] = b],
         Touch(p), Break(p), CallsFit',
         skills' = skills, reports' = reports, prompts' = prompts, installDir' = installDir,
         up' = up, roots' = roots
  PROVE  SkillsInv'
<1>1. bundle' \in [Places -> Bundles] /\ \A q \in Places \ {p} : bundle'[q] = bundle[q]
  BY InvFacts
<1>2. broken' \subseteq Places /\ touched' \subseteq Scanned \union RootPlaces /\ touched \subseteq touched'
  BY InvFacts DEF Touch, Break
<1>3. SkillsTyped'
  BY <1>1, <1>2, InvIs DEF SkillsTyped
<1>4. OnlyForgets /\ LeavesWorkspace
  BY <1>1, <1>2, PlaceFacts DEF OnlyForgets, LeavesWorkspace, Touch
<1>5. ManagedKept({})
  <2>1. ASSUME NEW m \in Ids, skills[m].scope = "managed"
        PROVE  \/ skills[m].place \in broken'
               \/ skills[m].place \notin broken /\ bundle'[skills[m].place] = bundle[skills[m].place]
    <3>1. skills[m].place \in Places
      BY <2>1, InvFacts, ManagedIsInstalled
    <3> QED
      BY <1>1, <2>1, <3>1 DEF Break
  <2> QED
    BY <2>1 DEF ManagedKept
<1> QED
  BY <1>3, <1>4, <1>5, QuietStep

LEMMA InstallFailsHolds ==
  ASSUME SkillsInv, NEW c \in Callers, NEW new \in Downloads, InstallFails(c, new)
  PROVE  SkillsInv'
<1>1. PICK p : p = Target(calls[c].dir, Head(calls[c].todo))
  OBVIOUS
<1>2. PICK left \in HalfWritten(bundle[p], new) :
        /\ Busy(c)
        /\ bundle' = [bundle EXCEPT ![p] = left] /\ Touch(p) /\ Break(p)
        /\ calls' = [calls EXCEPT ![c] = Idle]
        /\ skills' = skills /\ reports' = reports /\ prompts' = prompts /\ installDir' = installDir
        /\ up' = up /\ roots' = roots
  BY <1>1 DEF InstallFails, skillRegistry
<1>3. p \in Places
  BY <1>1, <1>2, InvFacts, CallPlace, PlaceFacts
<1>4. bundle[p] \in Bundles /\ new \in Bundles
  BY <1>3, InvFacts, BundleFacts
<1>5. left \in Bundles
  BY <1>4, HalfWrittenFits
<1>6. CallsFit'
  BY <1>2, InvFacts, IdleFits, CallChanges
<1> QED
  BY <1>2, <1>3, <1>5, <1>6, CutShort
-----------------------------------------------------------------------------
(* Removals and restarts. *)

\* A removable skill with files has them in a place that is scanned or installed.
LEMMA FilesPlaced ==
  ASSUME SkillsInv, NEW n \in SkillNames, Removable(n), HasFiles(skills[n])
  PROVE  \/ skills[n].scope = "workspace" /\ n \in WorkspaceNames /\ skills[n].place \in Scanned
         \/ skills[n].scope = "managed" /\ n \in Ids /\ skills[n].place \in Installed
<1>1. CASE skills[n].scope = "workspace"
  <2>1. Len(skills[n].place) # 1 /\ n \in WorkspaceNames /\ skills[n].place \in Scanned \union RootPlaces
    BY <1>1, InvFacts DEF HasFiles, IsPrompt, WorkspaceFits
  <2> QED
    BY <1>1, <2>1, PlaceFacts
<1>2. CASE skills[n].scope = "managed"
  <2>1. n \in Ids
    BY <1>2, InvFacts DEF ManagedPlaced
  <2> QED
    BY <1>2, <2>1, InvFacts, ManagedIsInstalled
<1> QED
  BY <1>1, <1>2 DEF Removable

LEMMA RemoveEntryHolds ==
  ASSUME SkillsInv, NEW n \in SkillNames, RemoveEntry(n)
  PROVE  SkillsInv'
<1>1. /\ Removable(n) /\ ~Purges(skills[n])
      /\ skills' = [skills EXCEPT ![n] = NoSkill]
      /\ touched' = IF IsPrompt(skills[n]) THEN touched \union {<<n[1]>>} ELSE touched
      /\ reports' = reports /\ bundle' = bundle /\ prompts' = prompts /\ installDir' = installDir
      /\ calls' = calls /\ up' = up /\ roots' = roots /\ broken' = broken
  BY DEF RemoveEntry, disk, hub
<1>2. up /\ skills[n].scope \in {"managed", "workspace"}
  BY <1>1 DEF Removable
<1>3. /\ skills' \in [SkillNames -> SkillRecords] /\ skills'[n].scope = "none"
      /\ \A m \in SkillNames \ {n} : skills'[m] = skills[m]
  BY <1>1, InvFacts, BundleFacts
<1>4. touched' \subseteq Scanned \union RootPlaces /\ touched \subseteq touched'
  <2>1. ASSUME IsPrompt(skills[n]) PROVE <<n[1]>> \in RootPlaces
    BY <2>1, InvFacts DEF IsPrompt, WorkspaceFits, WorkspaceNames, RootPlaces
  <2> QED
    BY <1>1, <2>1, InvFacts
<1>5. CallsFit'
  BY <1>1, InvFacts, CallsStay
<1>6. SkillsTyped'
  BY <1>1, <1>3, <1>4, <1>5, InvIs DEF SkillsTyped
<1>7. OnlyForgets
  BY <1>1, <1>3, <1>4 DEF OnlyForgets
<1>8. LeavesWorkspace
  <2>1. CASE IsPrompt(skills[n])
    BY <1>1, <2>1 DEF LeavesWorkspace
  <2>2. CASE skills[n].scope = "managed"
    BY <1>1, <1>3, <2>2 DEF LeavesWorkspace
  <2>3. CASE skills[n].scope = "workspace" /\ ~IsPrompt(skills[n])
    <3>1. HasFiles(skills[n])
      BY <2>3 DEF HasFiles
    <3>2. skills[n].place \in Scanned /\ skills[n].place[1] \in Roots
      BY <1>1, <2>3, <3>1, FilesPlaced, PlaceFacts
    <3>3. ~bundle[skills[n].place].dir
      BY <1>1, <3>1, <3>2 DEF Purges, InState
    <3>4. ASSUME touched = {} PROVE FALSE
      <4>1. skills = Discover(roots, WithoutWorkspace(skills), bundle)
        BY <1>2, <3>4, InvIs, PartsAre
      <4>2. Matches(roots, skills, bundle)
        BY <4>1, InvFacts, MatchesIs
      <4>3. skills[n] = ListedAs(roots, bundle, n) /\ n \in CustomNames(roots, bundle) \union PromptNames(roots, bundle)
        BY <2>3, <4>2 DEF Matches
      <4>4. n \in CustomNames(roots, bundle)
        BY <3>2, <4>3, InvFacts, ListedFacts, PlaceFacts
      <4>5. bundle[skills[n].place].dir
        BY <4>3, <4>4, InvFacts, ListedFacts
      <4> QED
        BY <3>3, <4>5
    <3> QED
      BY <1>1, <1>4, <3>4 DEF LeavesWorkspace
  <2> QED
    BY <1>2, <2>1, <2>2, <2>3
<1>9. ManagedKept({}) /\ \A m \in SkillNames : skills'[m].scope = "managed" => skills'[m] = skills[m]
  BY <1>1, <1>3, NameFacts DEF ManagedKept
<1> QED
  BY <1>6, <1>7, <1>8, <1>9, QuietStep

LEMMA RemoveAndPurgeHolds ==
  ASSUME SkillsInv, NEW n \in SkillNames, RemoveAndPurge(n)
  PROVE  SkillsInv'
<1>1. PICK p, new, s : /\ p = skills[n].place /\ new = [bundle EXCEPT ![p] = Absent]
                       /\ s = [skills EXCEPT ![n] = NoSkill]
  OBVIOUS
<1>2. /\ Removable(n) /\ Purges(skills[n]) /\ bundle' = new /\ broken' = broken \ {p} /\ RescanWith(s, new)
      /\ prompts' = prompts /\ roots' = roots /\ installDir' = installDir /\ calls' = calls /\ up' = up
  BY <1>1 DEF RemoveAndPurge, hub
<1>3. up /\ HasFiles(skills[n])
  BY <1>2 DEF Removable, Purges
<1>4. \/ n \in WorkspaceNames /\ p \in Scanned
      \/ n \in Ids /\ skills[n].scope = "managed" /\ p \in Installed
  BY <1>1, <1>2, <1>3, FilesPlaced
<1>5. p \in Places /\ new \in [Places -> Bundles] /\ \A q \in Places \ {p} : new[q] = bundle[q]
  BY <1>1, <1>4, InvFacts, PlaceFacts, BundleFacts
<1>6. /\ s \in [SkillNames -> SkillRecords] /\ s[n] = NoSkill /\ s[n].scope = "none"
      /\ \A m \in SkillNames \ {n} : s[m] = skills[m]
  BY <1>1, InvFacts, BundleFacts
<1>7. ASSUME NEW m \in Ids, s[m].scope = "managed", OfItsOwn(skills[m], m)
      PROVE  \/ skills[m].place \in broken'
             \/ skills[m].place \notin broken /\ new[skills[m].place] = bundle[skills[m].place]
  <2>1. m \in SkillNames /\ m # n /\ skills[m].scope = "managed"
    BY <1>6, <1>7, NameFacts
  <2>2. /\ skills[m].place \in Places /\ skills[m].place \notin Scanned
        /\ \A k \in Ids \ {m}, d \in InstallDirs : skills[m].place # Target(d, k)
    BY <1>7, <2>1, InvFacts, PlacesApart
  <2>3. n \in Ids /\ skills[n].scope = "managed" => \E d \in InstallDirs : p = Target(d, n)
    BY <1>1, NameFacts, InvFacts DEF ManagedPlaced
  <2>4. skills[m].place # p
    BY <1>4, <2>1, <2>2, <2>3
  <2> QED
    BY <1>2, <1>5, <2>2, <2>4
<1>8. broken' \subseteq Places /\ \A m \in SkillNames : s[m] = skills[m] \/ s[m] = NoSkill
  BY <1>2, <1>6, InvFacts
<1> QED
  BY <1>2, <1>3, <1>5, <1>6, <1>7, <1>8, RescanStep

LEMMA PurgeFailsHolds ==
  ASSUME SkillsInv, NEW n \in SkillNames, PurgeFails(n)
  PROVE  SkillsInv'
<1>1. PICK p : p = skills[n].place
  OBVIOUS
<1>2. PICK left \in {bundle[p], [bundle[p] EXCEPT !.skill = "none"], [bundle[p] EXCEPT !.manifest = "none"]} :
        /\ Removable(n) /\ Purges(skills[n]) /\ bundle' = [bundle EXCEPT ![p] = left]
        /\ Touch(p) /\ Break(p)
        /\ skills' = skills /\ reports' = reports /\ prompts' = prompts /\ installDir' = installDir
        /\ calls' = calls /\ up' = up /\ roots' = roots
  BY <1>1 DEF PurgeFails, skillRegistry, hub
<1>3. HasFiles(skills[n])
  BY <1>2 DEF Purges
<1>4. p \in Places
  BY <1>1, <1>2, <1>3, FilesPlaced, PlaceFacts
<1>5. bundle[p] \in Bundles
  BY <1>4, InvFacts
<1>6. left \in Bundles
  BY <1>2, <1>5 DEF Bundles
<1>7. CallsFit'
  BY <1>2, InvFacts, CallsStay
<1> QED
  BY <1>2, <1>4, <1>6, <1>7, CutShort

LEMMA FreshFits ==
  /\ Fresh \in [SkillNames -> SkillRecords]
  /\ \A n \in SkillNames : Fresh[n].scope # "workspace" /\ Fresh[n].scope # "managed"
BY BundleFacts DEF Fresh

LEMMA AllIdle ==
  [c \in Callers |-> Idle] \in [Callers -> CallRecords]
BY IdleFits

LEMMA RestartHolds ==
  ASSUME SkillsInv, RestartPlugin
  PROVE  SkillsInv'
<1>1. /\ roots' \in RootLists /\ ScanInto(roots', Fresh, bundle) /\ installDir' = DefaultDir
      /\ calls' = [c \in Callers |-> Idle] /\ bundle' = bundle /\ prompts' = prompts /\ broken' = {}
      /\ up' \in BOOLEAN
  BY DEF RestartPlugin, disk, ScanFails
<1>2. PICK x, l : x = Fresh /\ l = roots'
  OBVIOUS
<1>3. x \in [SkillNames -> SkillRecords] /\ \A n \in SkillNames : x[n].scope # "workspace" /\ x[n].scope # "managed"
  BY <1>2, FreshFits
<1>4. ScanInto(l, x, bundle) /\ roots' = l
  BY <1>1, <1>2
<1>5. /\ skills' \in [SkillNames -> SkillRecords] /\ reports' \subseteq Scanned \union RootPlaces
      /\ touched' = {}
      /\ WorkspaceFits(skills') /\ RegistryMatchesDisk' /\ ListedIsOnDisk'
      /\ \A n \in SkillNames : skills'[n].scope # "workspace" => skills'[n] = x[n]
  BY <1>1, <1>3, <1>4, InvFacts, AfterScan
<1>6. \A n \in SkillNames : skills'[n].scope # "managed"
  BY <1>3, <1>5
<1>7. ManagedPlaced(skills')
  BY <1>6 DEF ManagedPlaced
<1>8. ManagedFits(skills', bundle', broken')
  BY <1>6, NameFacts DEF ManagedFits
<1>9. ManagedHasItsFiles'
  BY <1>8, PartsWillBe
<1>10. CallsFit' /\ installDir' \in InstallDirs /\ roots' \in Seq(Roots)
  BY <1>1, AllIdle, DirsKnown, RootsAreListed DEF CallsFit
<1>11. SkillsTyped'
  BY <1>1, <1>5, <1>10, InvFacts DEF SkillsTyped
<1> QED
  BY <1>5, <1>7, <1>9, <1>11, InvWillBe

\* At first nothing is on disk, and the registry lists the native skills.
LEMMA SkillsInitHolds ==
  ASSUME SkillsInit
  PROVE  SkillsInv
<1>1. /\ skills = Fresh /\ reports = {} /\ up = TRUE
      /\ bundle = [p \in Places |-> Absent] /\ prompts = {}
      /\ installDir = DefaultDir /\ roots \in RootLists /\ calls = [c \in Callers |-> Idle]
      /\ touched = {} /\ broken = {}
  BY DEF SkillsInit
<1>2. /\ skills \in [SkillNames -> SkillRecords]
      /\ \A n \in SkillNames : skills[n].scope # "workspace" /\ skills[n].scope # "managed"
  BY <1>1, FreshFits
<1>3. bundle \in [Places -> Bundles] /\ \A p \in Places : ~bundle[p].dir
  BY <1>1, BundleFacts
<1>4. CallsFit /\ installDir \in InstallDirs /\ roots \in Seq(Roots)
  BY <1>1, AllIdle, DirsKnown, RootsAreListed DEF CallsFit
<1>5. SkillsTyped
  BY <1>1, <1>2, <1>3, <1>4 DEF SkillsTyped
<1>6. WorkspaceFits(skills) /\ ManagedPlaced(skills)
  BY <1>2 DEF WorkspaceFits, ManagedPlaced
<1>7. CustomNames(roots, bundle) = {} /\ PromptNames(roots, bundle) = {}
  BY <1>1, <1>3, PlaceFacts DEF CustomNames, PromptNames, Valid, Seen, SeenPrompts
<1>8. Matches(roots, skills, bundle)
  BY <1>2, <1>7 DEF Matches
<1>9. RegistryMatchesDisk
  BY <1>1, <1>2, <1>3, <1>8, MatchesIs, PartsAre
<1>10. ListedFits(skills, bundle, touched) /\ ManagedFits(skills, bundle, broken)
  BY <1>2, NameFacts DEF ListedFits, ManagedFits
<1> QED
  BY <1>5, <1>6, <1>9, <1>10, InvIs, PartsAre

LEMMA SkillsStep ==
  ASSUME SkillsInv, [SkillsNext]_skillsVars
  PROVE  SkillsInv'
<1>1. CASE UNCHANGED skillsVars
  <2>1. installDir' = installDir /\ calls' = calls /\ UNCHANGED <<roots, skillRegistry, disk, up, history>>
    BY <1>1 DEF skillsVars, skillRegistry, disk, hub, history
  <2>2. CallsFit' /\ installDir' \in InstallDirs
    BY <2>1, InvFacts, InvIs, CallsStay DEF SkillsTyped
  <2> QED
    BY <2>1, <2>2, RequestAlone
<1>2. CASE Rescan
  BY <1>2, RescanHolds
<1>3. CASE Authoring
  BY <1>3, CreateHolds, CreateFailsHolds DEF Authoring
<1>4. ASSUME NEW d \in InstallDirs, Configure(d) PROVE SkillsInv'
  BY <1>4, ConfigureHolds
<1>5. ASSUME NEW c \in Callers, Hub(c) PROVE SkillsInv'
  BY <1>5, RequestsHold, InstallHolds, InstallFailsHolds DEF Hub
<1>6. ASSUME NEW n \in SkillNames, RemoveEntry(n) \/ RemoveAndPurge(n) \/ PurgeFails(n) PROVE SkillsInv'
  BY <1>6, RemoveEntryHolds, RemoveAndPurgeHolds, PurgeFailsHolds
<1>7. ASSUME NEW p \in Scanned, NEW b \in Handmade \union {Absent}, EditByHand(p, b) PROVE SkillsInv'
  BY <1>7, EditByHandHolds
<1>8. ASSUME NEW r \in Roots, EditPrompts(r) PROVE SkillsInv'
  BY <1>8, EditPromptsHolds
<1>9. CASE RestartPlugin
  BY <1>9, RestartHolds
<1>10. ASSUME NEW w \in Workspaces, AddWorkspace(w) \/ RemoveWorkspace(w) PROVE SkillsInv'
  BY <1>10, WorkspacesHold
<1> QED
  BY <1>1, <1>2, <1>3, <1>4, <1>5, <1>6, <1>7, <1>8, <1>9, <1>10 DEF SkillsNext
-----------------------------------------------------------------------------
(* The theorems. *)

LEMMA SkillsInvHolds == SkillsSpec => []SkillsInv
<1>1. SkillsInit => SkillsInv
  BY SkillsInitHolds
<1>2. SkillsInv /\ [SkillsNext]_skillsVars => SkillsInv'
  BY SkillsStep
<1> QED
  BY <1>1, <1>2, PTL DEF SkillsSpec

\* Roots, registry, disk, requests and history have their types, whatever the hub offers,
\* wherever it installs and whatever is put on disk.
THEOREM SkillsTypeCorrectness == SkillsSpec => []SkillsTypeOK
<1>1. SkillsInv => SkillsTypeOK
  BY InvIs DEF SkillsTyped, SkillsTypeOK, SkillRecords, CallsFit, CallRecords
<1> QED
  BY <1>1, SkillsInvHolds, PTL

\* Until the disk or the list of workspaces changes after a scan, the workspace skills
\* listed are exactly what the scan could find (plugin.py:169-176, _bootstrap.py:218-315),
\* installs into a directory that is scanned being such changes; and whatever changed, a
\* listed one keeps the valid bundle it was read from, unless its very place was written to
\* (_bootstrap.py:275-296, dashboard/routes/registry.py:224-253).
THEOREM RegistryKeepsFollowingDisk == SkillsSpec => []RegistryFollowsDisk
<1>1. SkillsInv => RegistryFollowsDisk
  BY DEF SkillsInv, RegistryFollowsDisk
<1> QED
  BY <1>1, SkillsInvHolds, PTL

\* A managed skill whose folder is its own and not scanned has the files of the install
\* that registered it, as long as no OSError struck them (clawhub.py:438-481).
THEOREM ManagedKeepsItsFiles == SkillsSpec => []ManagedHasItsFiles
<1>1. SkillsInv => ManagedHasItsFiles
  BY DEF SkillsInv
<1> QED
  BY <1>1, SkillsInvHolds, PTL
=============================================================================
