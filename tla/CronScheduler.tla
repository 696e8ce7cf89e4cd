---------------------------- MODULE CronScheduler ----------------------------
(***************************************************************************)
(* cron/scheduler.py: named jobs, one asyncio task that runs the due ones  *)
(* one after the other, and the operators who add, remove, pause, re-time  *)
(* and trigger jobs through dashboard/routes/registry.py while it does.    *)
(*                                                                         *)
(* Job objects.  self._jobs maps a name to a CronJob object, and the loop  *)
(* holds references of its own: the object whose fn it awaits and those    *)
(* still to come in its list of due jobs.  So a removed or replaced object *)
(* lives on until the loop drops it.  An object is a pair <<name, slot>>;  *)
(* Slots bounds how many objects of a name are alive at a time, and two    *)
(* are enough: the registered one and one the loop still holds.            *)
(*                                                                         *)
(* Atomicity.  Every mutator is synchronous.  The loop suspends only at    *)
(* `await job.fn()` (running) and at asyncio.wait (asleep).                *)
(*                                                                         *)
(* Time.  next_run_at <= now is the flag "due"; time passing is ComesDue.  *)
(* A sleep lasts at most a second, so waking up is always possible; "nap"  *)
(* tells whether it was cut to 50 ms because a job was already due.        *)
(*                                                                         *)
(* Abstracted: what a job does, and its runs, last_run_at and last_error.  *)
(***************************************************************************)
EXTENDS Integers, FiniteSets, Functions

CONSTANTS
  Names,       \* job names
  CronNames,   \* those registered with add_cron rather than add_interval
  Fns,         \* the coroutines jobs run
  Slots        \* bound: live objects of a name

ASSUME NamesGiven == CronNames \subseteq Names /\ IsFiniteSet(Names)
ASSUME FnsGiven   == Fns # {}
ASSUME TwoSlots   == Slots \subseteq Nat \ {0} /\ {1, 2} \subseteq Slots

VARIABLES
  jobs,      \* self._jobs: the slot of each name's registered object, 0 if none
  enabled, due, fn,  \* of each object: .enabled, .next_run_at <= now, .fn
  asked,     \* of each object, whether a trigger() it accepted is still owed a run:
             \*   "idle" or "midrun", as the object was running then, or "no"
  stale,     \* runs an object began since it was paused or taken out (history variable)
  loop,      \* "off", "ready" (task created, not started yet), "running", "asleep"
  current,   \* the object whose fn is awaited
  batch,     \* the rest of the list of due jobs; its order is left open
  nap,       \* "short" or "long", the sleep_for of the last sleep
  wake,      \* self._wake
  stop,      \* self._stop
  stopping   \* somebody awaits stop()

objects  == <<jobs, enabled, due, fn, asked, stale>>
lifetime == <<stop, stopping>>
loopVars == <<loop, current, batch, nap>>
vars     == <<objects, lifetime, loopVars, wake>>

Objects == Names \X Slots
NoJob   == <<"none", 0>>

Job(n)        == <<n, jobs[n]>>
Registered(n) == jobs[n] # 0
IsLive(o)     == jobs[o[1]] = o[2] /\ enabled[o]   \* registered and not paused

InitJobs ==
  /\ jobs    = [n \in Names |-> 0]
  /\ enabled = [o \in Objects |-> FALSE]
  /\ due     = [o \in Objects |-> FALSE]
  /\ fn      \in [Objects -> {CHOOSE f \in Fns : TRUE}]
  /\ asked   = [o \in Objects |-> "no"]
  /\ stale   = [o \in Objects |-> 0]

InitLoop ==
  /\ loop = "off" /\ current = NoJob /\ batch = {} /\ nap = "long"
  /\ wake = FALSE /\ stop = FALSE /\ stopping = FALSE

Init == InitJobs /\ InitLoop
-----------------------------------------------------------------------------
(* The operators' calls. *)

\* What is left of name n's objects once it is given to another, or to none.  Only
\* the loop can still reach a dropped object, and it reads its fn alone.
Forget(n, value, init) == [o \in Objects |-> IF o[1] = n THEN init ELSE value[o]]

\* add_interval / add_cron: a new object takes the name, due in the future.
Add(n, f, on) ==
  LET s == CHOOSE i \in Slots : <<n, i>> \notin batch \union {current}
      o == <<n, s>>
  IN  /\ jobs'    = [jobs EXCEPT ![n] = s]
      /\ enabled' = [Forget(n, enabled, FALSE) EXCEPT ![o] = on]
      /\ due'     = Forget(n, due, FALSE)
      /\ fn'      = [fn EXCEPT ![o] = f]
      /\ asked'   = Forget(n, asked, "no")
      /\ stale'   = Forget(n, stale, 0)
      /\ wake'    = TRUE
      /\ UNCHANGED <<lifetime, loopVars>>

Remove(n) ==
  /\ Registered(n)
  /\ jobs'    = [jobs EXCEPT ![n] = 0]
  /\ enabled' = Forget(n, enabled, FALSE)
  /\ due'     = Forget(n, due, FALSE)
  /\ asked'   = Forget(n, asked, "no")
  /\ stale'   = Forget(n, stale, 0)
  /\ wake'    = TRUE
  /\ UNCHANGED <<fn, lifetime, loopVars>>

\* set_enabled: enabling counts the interval anew, also of a job already enabled.
SetEnabled(n, on) ==
  /\ Registered(n)
  /\ enabled' = [enabled EXCEPT ![Job(n)] = on]
  /\ due'     = [due EXCEPT ![Job(n)] = @ /\ ~on]
  /\ asked'   = [asked EXCEPT ![Job(n)] = IF on THEN "no" ELSE @]
  /\ stale'   = [stale EXCEPT ![Job(n)] = 0]
  /\ wake'    = TRUE
  /\ UNCHANGED <<jobs, fn, lifetime, loopVars>>

\* set_interval: refused for a job driven by a cron expression.
SetInterval(n) ==
  /\ Registered(n)
  /\ n \notin CronNames
  /\ due'   = [due EXCEPT ![Job(n)] = FALSE]
  /\ asked' = [asked EXCEPT ![Job(n)] = "no"]
  /\ wake'  = TRUE
  /\ UNCHANGED <<jobs, enabled, fn, stale, lifetime, loopVars>>

Trigger(n) ==
  /\ Registered(n)
  /\ due'   = [due EXCEPT ![Job(n)] = TRUE]
  /\ asked' = [asked EXCEPT ![Job(n)] = IF Job(n) = current THEN "midrun" ELSE "idle"]
  /\ wake'  = TRUE
  /\ UNCHANGED <<jobs, enabled, fn, stale, lifetime, loopVars>>

\* next_run_at passes.  It matters for registered objects only.
ComesDue(n) ==
  /\ Registered(n)
  /\ ~due[Job(n)]
  /\ due' = [due EXCEPT ![Job(n)] = TRUE]
  /\ UNCHANGED <<jobs, enabled, fn, asked, stale, lifetime, loopVars, wake>>
-----------------------------------------------------------------------------
(* start() and stop(), called by the plugin's life cycle, one at a time.   *)

StartLoop ==
  /\ loop = "off" /\ ~stopping
  /\ stop' = FALSE
  /\ wake' = FALSE
  /\ loop' = "ready"
  /\ UNCHANGED <<objects, current, batch, nap, stopping>>

StopLoop ==
  /\ loop # "off" /\ ~stopping
  /\ stop' = TRUE /\ wake' = TRUE
  /\ stopping' = TRUE
  /\ UNCHANGED <<objects, loopVars>>

\* The task awaiting stop() is cancelled, and with it the loop it awaits, in the
\* middle of a job as well: no except clause of the loop catches CancelledError.
StopIsCancelled ==
  /\ stopping
  /\ stopping' = FALSE
  /\ loop' = "off" /\ current' = NoJob /\ batch' = {}
  /\ UNCHANGED <<objects, nap, stop, wake>>
-----------------------------------------------------------------------------
(* The loop. *)

\* Seeded fault: paused jobs are collected as well.
DueOrPaused == {o \in Objects : jobs[o[1]] = o[2] /\ due[o]}

DueJobs == {o \in Objects : IsLive(o) /\ due[o]}

\* The loop awaits the fn of o, with rest still to come.
RunJob(o, rest) ==
  /\ loop' = "running" /\ current' = o /\ batch' = rest
  /\ asked' = [asked EXCEPT ![o] = "no"]
  /\ stale' = [stale EXCEPT ![o] = IF IsLive(o) THEN 0 ELSE @ + 1]

\* Seeded fault: sleep_for is the tick whatever is due.
SleepATick(dueNow) ==
  /\ loop' = "asleep" /\ current' = NoJob /\ batch' = {}
  /\ nap'  = "long"
  /\ wake' = FALSE

\* sleep_for is computed, wake is cleared and the loop waits.
Sleep(dueNow) ==
  /\ loop' = "asleep" /\ current' = NoJob /\ batch' = {}
  /\ nap'  = IF \E o \in Objects : IsLive(o) /\ dueNow[o] THEN "short" ELSE "long"
  /\ wake' = FALSE

\* Seeded fault: the loop never looks at stop.
CollectDueForEver ==
  /\ loop \in {"ready", "asleep"}
  /\ \E o \in DueJobs : RunJob(o, DueJobs \ {o})
  /\ UNCHANGED <<jobs, enabled, due, fn, lifetime, nap, wake>>

\* The task starts, or the wait ends: by wake, by stop or by its timeout.
CollectDue ==
  /\ loop \in {"ready", "asleep"} /\ ~stop
  /\ \E o \in DueJobs : RunJob(o, DueJobs \ {o})
  /\ UNCHANGED <<jobs, enabled, due, fn, lifetime, nap, wake>>

NothingDue ==
  /\ loop \in {"ready", "asleep"} /\ ~stop
  /\ DueJobs = {}
  /\ Sleep(due)
  /\ UNCHANGED <<objects, lifetime>>

\* Seeded fault: an exception of a job ends the task.
JobEndsTheLoop ==
  /\ loop = "running"
  /\ loop' = "off" /\ current' = NoJob /\ batch' = {}
  /\ due' = [due EXCEPT ![current] = FALSE]
  /\ UNCHANGED <<jobs, enabled, fn, asked, stale, lifetime, nap, wake>>

\* fn returns or raises, which is all the same: next_run_at of the object is
\* rewritten, and the next job of the list starts; stop is not looked at in between.
JobEnds ==
  /\ loop = "running"
  /\ due' = [due EXCEPT ![current] = FALSE]
  /\ \/ /\ \E o \in batch : RunJob(o, batch \ {o})
        /\ UNCHANGED <<nap, wake>>
     \/ /\ batch = {}
        /\ Sleep(due')
        /\ UNCHANGED <<asked, stale>>
  /\ UNCHANGED <<jobs, enabled, fn, lifetime>>

\* while not self._stop.is_set(): the task ends and stop() returns.
LoopEnds ==
  /\ loop \in {"ready", "asleep"} /\ stop
  /\ loop' = "off"
  /\ stopping' = FALSE
  /\ UNCHANGED <<objects, current, batch, nap, wake, stop>>

Operators ==
  \E n \in Names :
    \/ \E f \in Fns, on \in BOOLEAN : Add(n, f, on)
    \/ Remove(n)
    \/ \E on \in BOOLEAN : SetEnabled(n, on)
    \/ SetInterval(n)
    \/ Trigger(n)

Clock     == \E n \in Names : ComesDue(n)
LifeCycle == StartLoop \/ StopLoop \/ StopIsCancelled
LoopStep  == CollectDue \/ NothingDue \/ LoopEnds \/ JobEnds

Next == Operators \/ Clock \/ LifeCycle \/ LoopStep

(***************************************************************************)
(* Fairness: the event loop resumes the task, and every fn ends: the       *)
(* built-in jobs never suspend, webhooks have a timeout of a minute.       *)
(***************************************************************************)
Spec     == Init /\ [][Next]_vars
FairSpec == Spec /\ WF_vars(LoopStep)
-----------------------------------------------------------------------------
(* Properties. *)

TypeOK ==
  /\ jobs \in [Names -> Slots \union {0}]
  /\ enabled \in [Objects -> BOOLEAN] /\ due \in [Objects -> BOOLEAN]
  /\ fn \in [Objects -> Fns]
  /\ asked \in [Objects -> {"no", "idle", "midrun"}]
  /\ stale \in [Objects -> Nat]
  /\ loop \in {"off", "ready", "running", "asleep"}
  /\ current \in Objects \union {NoJob} /\ batch \subseteq Objects
  /\ loop = "running" <=> current # NoJob
  /\ nap \in {"short", "long"}
  /\ wake \in BOOLEAN /\ stop \in BOOLEAN /\ stopping \in BOOLEAN

\* No wake-up is lost: the loop never sleeps a whole tick over a job an operator
\* triggered, although it clears the wake event after the calls made meanwhile.
TriggerCutsTheSleep ==
  loop = "asleep" =>
    \A o \in Objects : IsLive(o) /\ asked[o] = "idle" => wake \/ nap = "short"

\* A job paused, removed or replaced while the loop holds it in its list may still
\* begin once, and never again: the loop always works off a fresh list.
StaleJobRunsAtMostOnce == \A o \in Objects : stale[o] <= 1

\* An accepted trigger of a job that is not running stays owed until a run begins,
\* whatever else ends or is replaced meanwhile; only an operator re-timing the job
\* takes it back.
IdleTriggerIsKept ==
  \A n \in Names : Registered(n) /\ asked[Job(n)] = "idle" => due[Job(n)]

\* An operator's trigger of an idle job is neither slept over nor forgotten
\* (cron/scheduler.py, trigger and _loop).
TriggersAreHonoured == TriggerCutsTheSleep /\ IdleTriggerIsKept

\* The list never holds an object twice, and of one name the loop holds one object:
\* a job never runs beside or right after its own replacement in one pass.
OneObjectPerNameInAPass ==
  /\ current \notin batch
  /\ \A o, p \in batch \union {current} : o[1] = p[1] => o = p

\* What the loop holds of jobs removed, replaced or paused under it comes to one run at most.
StaleWorkIsBounded == StaleJobRunsAtMostOnce /\ OneObjectPerNameInAPass

\* A failing, slow or removed neighbour cannot starve a job: one that is due begins,
\* unless it is re-timed or paused or the scheduler is stopped.
DueJobRuns ==
  \A o \in Objects :
    (loop # "off" /\ IsLive(o) /\ due[o])
      ~> (current = o \/ ~IsLive(o) \/ ~due[o] \/ stop)

\* stop() returns once the list at hand is worked off.
StopReturns == stopping ~> ~stopping

(***************************************************************************)
(* A claim of the docstring of trigger that the code does not keep.        *)
(***************************************************************************)

\* scheduler.py:154, "Mark a job as due so the loop runs it on the next tick": a job
\* whose trigger was accepted, and that was not re-timed since, is due until it runs.
TriggeredJobStaysDue ==
  \A n \in Names : Registered(n) /\ asked[Job(n)] # "no" => due[Job(n)]
=============================================================================
