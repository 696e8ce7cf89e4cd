----------------------------- MODULE CustomCrons -----------------------------
(***************************************************************************)
(* cron/custom.py: the user-defined jobs.  CustomCronRegistry keeps the    *)
(* specs, registers each of them with the scheduler, and writes them all   *)
(* to custom_crons.json after every change; the plugin reads the file when *)
(* it starts.  The scheduler, its loop and its own routes go on beside it: *)
(* this module adds the registry's operations and restarts to those of     *)
(* CronScheduler.                                                          *)
(*                                                                         *)
(* Every operation is one segment of the event loop.  The order in it is   *)
(* memory, scheduler, file; a write that raises OSError (answered 500)     *)
(* leaves the first two changed.  The file is replaced as a whole, so it   *)
(* is never torn.  A spec whose validation fails changes nothing; one that *)
(* passes it and whose executor cannot be built is refused after the       *)
(* memory has it, and a stored one stops the plugin from starting.         *)
(*                                                                         *)
(* Abstracted: what the actions of the catalogue are, and intervals.       *)
(***************************************************************************)
EXTENDS CronScheduler

CONSTANTS
  Custom,      \* names of custom jobs, as stored: "custom." is in front of them
  LongNames,   \* those whose stored form is longer than the 120 characters of a spec
  Unbuildable, \* actions that validate and have no executor: a webhook whose timeout
               \* is not a number
  MaxCustom    \* _MAX_CUSTOM_JOBS (64 in the code)

ASSUME CustomNamesGiven == /\ Custom \subseteq Names \ CronNames
                           /\ LongNames \subseteq Custom
                           /\ Unbuildable \subseteq Fns /\ Unbuildable # Fns
                           /\ {"none", "unknown"} \cap Fns = {}
                           /\ MaxCustom \in Nat

VARIABLES
  specs,    \* self._specs
  file,     \* custom_crons.json
  started,  \* the last start of the plugin came through
  acked     \* of each name, what the last call that answered 200 made of it, or
            \* Unknown after a call that answered 500 (history variable)

cronVars    == vars
registry    == <<specs, file, started, acked>>
customVars  == <<cronVars, registry>>

Specs   == [fn : Fns, on : BOOLEAN]
NoSpec  == [fn |-> "none", on |-> FALSE]
Unknown == [fn |-> "unknown", on |-> FALSE]
Known   == {n \in Custom : specs[n] # NoSpec}

Buildable(f) == f \notin Unbuildable
Working(s)   == s # NoSpec /\ Buildable(s.fn)

\* plugin.initialize: the built-in jobs are registered, then the specs of the file
\* that still validate.  The file is left alone.  When one of them has no executor,
\* initialize raises before the loop is started, and nothing is served; what it had
\* registered by then is left out.
Loadable(stored) == [n \in Custom |-> IF n \in LongNames THEN NoSpec ELSE stored[n]]
ComesUp(stored)  == \A n \in Custom : Loadable(stored)[n] # NoSpec => Working(stored[n])

Bootstrap(stored) ==
  LET loaded == IF ComesUp(stored) THEN Loadable(stored) ELSE [n \in Custom |-> NoSpec]
      isJob(n) == n \notin Custom \/ loaded[n] # NoSpec
  IN  /\ started' = ComesUp(stored)
      /\ specs'   = loaded
      /\ jobs'    = [n \in Names |-> IF isJob(n) THEN 1 ELSE 0]
      /\ enabled' = [o \in Objects |->
                       o[2] = 1 /\ isJob(o[1]) /\ (o[1] \in Custom => loaded[o[1]].on)]
      /\ fn'      = [o \in Objects |->
                       IF o[1] \in Custom /\ loaded[o[1]] # NoSpec
                       THEN loaded[o[1]].fn ELSE CHOOSE f \in Fns : Buildable(f)]
      /\ due'     = [o \in Objects |-> FALSE]
      /\ asked'   = [o \in Objects |-> "no"]
      /\ stale'   = [o \in Objects |-> 0]

\* A first start: no file, the built-in jobs only.
CustomInit ==
  /\ InitLoop
  /\ specs = [n \in Custom |-> NoSpec] /\ file = specs /\ acked = specs
  /\ started = TRUE
  /\ jobs    = [n \in Names |-> IF n \in Custom THEN 0 ELSE 1]
  /\ enabled = [o \in Objects |-> o[1] \notin Custom /\ o[2] = 1]
  /\ fn      = [o \in Objects |-> CHOOSE f \in Fns : Buildable(f)]
  /\ due     = [o \in Objects |-> FALSE]
  /\ asked   = [o \in Objects |-> "no"]
  /\ stale   = [o \in Objects |-> 0]
-----------------------------------------------------------------------------
\* Seeded fault: a failed write is logged and answered 200.
PersistOrLog(n) ==
  /\ file' = specs' \/ UNCHANGED file
  /\ acked' = [acked EXCEPT ![n] = specs'[n]]

\* _persist: every spec is written, or none.
Persist(n) ==
  \/ file' = specs' /\ acked' = [acked EXCEPT ![n] = specs'[n]]
  \/ UNCHANGED file /\ acked' = [acked EXCEPT ![n] = Unknown]

\* _apply: the executor is built, then the job added and the specs written; when it
\* cannot be built the call is refused, and the next write takes the spec along.
Apply(n, spec) == Buildable(spec.fn) /\ Add(n, spec.fn, spec.on) /\ Persist(n)
RefuseLate(n, spec) ==
  ~Buildable(spec.fn) /\ acked' = [acked EXCEPT ![n] = Unknown] /\ UNCHANGED file

Register(n, spec) ==
  /\ n \notin Known
  /\ Cardinality(Known) < MaxCustom
  /\ specs' = [specs EXCEPT ![n] = spec]
  /\ \/ Apply(n, spec)
     \/ RefuseLate(n, spec) /\ UNCHANGED cronVars
  /\ UNCHANGED started

Unschedule(n) == IF Registered(n) THEN Remove(n) ELSE UNCHANGED cronVars

\* The old job object leaves the scheduler first, and a new one takes its name.
Update(n, spec) ==
  /\ n \in Known
  /\ specs' = [specs EXCEPT ![n] = spec]
  /\ \/ Apply(n, spec)
     \/ RefuseLate(n, spec) /\ Unschedule(n)
  /\ UNCHANGED started

\* POST /crons/{name}/remove of a custom job.
Delete(n) ==
  /\ n \in Known
  /\ specs' = [specs EXCEPT ![n] = NoSpec]
  /\ Unschedule(n)
  /\ Persist(n)
  /\ UNCHANGED started

\* Seeded fault: the route does not ask whether the job is a custom one.
RemoveAny(n) ==
  /\ Remove(n)
  /\ UNCHANGED registry

\* The same route for any other job: the scheduler's alone.
RemoveBuiltIn(n) ==
  /\ n \notin Known
  /\ Remove(n)
  /\ UNCHANGED registry

\* The process ends, at any point, and a new one starts.
Restart ==
  /\ Bootstrap(file)
  /\ loop' = "off" /\ current' = NoJob /\ batch' = {} /\ nap' = "long"
  /\ wake' = FALSE /\ stop' = FALSE /\ stopping' = FALSE
  /\ UNCHANGED <<file, acked>>

\* The scheduler's routes take any job's name; what they change is in no spec.
SchedulerRoutes ==
  /\ \E n \in Names : \/ \E on \in BOOLEAN : SetEnabled(n, on)
                      \/ SetInterval(n)
                      \/ Trigger(n)
  /\ UNCHANGED registry

SchedulerSteps == (Clock \/ LifeCycle \/ LoopStep) /\ UNCHANGED registry

\* Requests are served and the clock goes on in a plugin that came up.
Serve ==
  \/ \E n \in Custom : \/ \E spec \in Specs : Register(n, spec) \/ Update(n, spec)
                       \/ Delete(n)
  \/ \E n \in Names : RemoveBuiltIn(n)
  \/ SchedulerRoutes
  \/ SchedulerSteps

CustomNext == (started /\ Serve) \/ Restart

CustomSpec == CustomInit /\ [][CustomNext]_customVars
-----------------------------------------------------------------------------
(* Properties. *)

CustomTypeOK ==
  /\ TypeOK
  /\ specs \in [Custom -> Specs \union {NoSpec}]
  /\ file \in [Custom -> Specs \union {NoSpec}]
  /\ started \in BOOLEAN
  /\ acked \in [Custom -> Specs \union {NoSpec, Unknown}]
  /\ Cardinality(Known) <= MaxCustom

\* Registry and scheduler agree through failures, refusals, replacements and restarts: a
\* custom job is scheduled exactly while it has a spec with an executor, and runs that
\* spec's action, never the one of a spec it has replaced.
RegistryMatchesScheduler ==
  \A n \in Custom : /\ Registered(n) <=> Working(specs[n])
                    /\ Registered(n) => fn[Job(n)] = specs[n].fn

\* What a call that answered 200 made of a job, a deletion included, is on disk, and stays
\* there until another call on that job, whatever fails for other jobs and whichever of them
\* get lost.  A job whose stored name has outgrown the limit gets lost itself: no start
\* reads it back (custom.py:219-225), and the next write leaves it out.
AcknowledgedIsOnDisk ==
  \A n \in Custom \ LongNames : acked[n] # Unknown => file[n] = acked[n]

(***************************************************************************)
(* A claim of the module's docstring that the code does not keep.          *)
(***************************************************************************)

\* custom.py:3-4: custom jobs are stored and "rehydrated into the CronScheduler on
\* plugin initialization": a job whose creation was acknowledged is there afterwards.
AcknowledgedJobIsScheduled ==
  \A n \in Custom : acked[n] \in Specs => Registered(n)
=============================================================================
