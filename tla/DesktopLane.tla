----------------------------- MODULE DesktopLane -----------------------------
(***************************************************************************)
(* Desktop agent runs: the dispatch and cancel routes and the background   *)
(* task of dashboard/routes/desktop.py, the lane and the cancel events of  *)
(* computer_use/desktop_lane.py, the run tracker, and the loop of          *)
(* desktop_agent/agent.py.                                                 *)
(*                                                                         *)
(* Atomicity.  Everything runs on one event loop; the cancel lock is never *)
(* contended and its holder never suspends.  A background task suspends    *)
(* before it first runs ("spawned"), on a lane that is taken ("waiting"),  *)
(* while it observes and asks the model ("thinking"), in a tool ("acting") *)
(* and in the pause after one ("pausing"); all between two of these is one *)
(* step, the end of a run included: lane, tracker, cancel event and active *)
(* run id go in one segment.  asyncio.Lock is handed over in FIFO order,   *)
(* and between a release and the next holder's wake-up nobody holds it.    *)
(*                                                                         *)
(* Abstracted: screenshots, prompts, tool results, the step history; what  *)
(* a tool does and how it is gated is GatedTools.                          *)
(***************************************************************************)
EXTENDS Integers, Sequences, FiniteSets

CONSTANTS
  Runs,      \* accepted or refused dispatches; each has an event of its own
  RunIds,
  IdOf,      \* the run id a dispatch is given, by the client or the server
  MaxSteps   \* payload.max_steps

None == "none"

ASSUME IdsGiven    == IdOf \in [Runs -> RunIds]
ASSUME StepsGiven  == MaxSteps \in Nat \ {0}
ASSUME NoneIsNoRun == None \notin Runs /\ None \notin RunIds

VARIABLES
  armed,    \* effective_computer_use_config().enabled
  phase,    \* of each run, see above; also "new", "refused", "ended"
  step,     \* steps a run has taken
  result,   \* of an ended run: "completed" or "failed"
  lane,     \* holder of desktop_run_lane, or None
  queue,    \* runs waiting for it
  active,   \* _active_run_id, or None
  events,   \* _cancel_events: of each id, the run whose event is registered, or None
  cancelled,   \* runs whose event is set
  tracked,     \* desktop_run_tracker: of each id, the status shown, or "none"
  stepAtCancel \* the step of a run when its event was set (history variable)

vars == <<armed, phase, step, result, lane, queue, active, events, cancelled,
          tracked, stepAtCancel>>

InLoop(r) == phase[r] \in {"thinking", "acting", "pausing"}
Alive(r)  == InLoop(r) \/ phase[r] \in {"spawned", "waiting"}

Init ==
  /\ armed \in BOOLEAN
  /\ phase  = [r \in Runs |-> "new"]
  /\ step   = [r \in Runs |-> 0]
  /\ result = [r \in Runs |-> None]
  /\ lane = None /\ queue = << >> /\ active = None
  /\ events = [i \in RunIds |-> None]
  /\ cancelled = {}
  /\ tracked = [i \in RunIds |-> None]
  /\ stepAtCancel = [r \in Runs |-> 0]
-----------------------------------------------------------------------------
(* The routes. *)

SetPolicy(on) ==
  /\ armed' = on
  /\ UNCHANGED <<phase, step, result, lane, queue, active, events, cancelled,
                 tracked, stepAtCancel>>

\* 409 while the master switch is off or a run is active.
RefuseDispatch(r) ==
  /\ phase[r] = "new"
  /\ ~armed \/ active # None
  /\ phase' = [phase EXCEPT ![r] = "refused"]
  /\ UNCHANGED <<armed, step, result, lane, queue, active, events, cancelled,
                 tracked, stepAtCancel>>

\* register_cancel: a fresh event takes the place of one registered under that id.
RegisterCancel(r) == events' = [events EXCEPT ![IdOf[r]] = r]

Dispatch(r) ==
  /\ phase[r] = "new"
  /\ armed /\ active = None
  /\ phase'   = [phase EXCEPT ![r] = "spawned"]
  /\ tracked' = [tracked EXCEPT ![IdOf[r]] = "running"]
  /\ RegisterCancel(r)
  /\ UNCHANGED <<armed, step, result, lane, queue, active, cancelled, stepAtCancel>>

\* The cancel route; without a registered event it answers 404.
Cancel(id) ==
  /\ events[id] # None
  /\ LET r == events[id] IN
     /\ cancelled'    = cancelled \union {r}
     /\ stepAtCancel' = [stepAtCancel EXCEPT ![r] = IF r \in cancelled THEN @ ELSE step[r]]
  /\ UNCHANGED <<armed, phase, step, result, lane, queue, active, events, tracked>>
-----------------------------------------------------------------------------
(* The agent loop. *)

\* Seeded fault: every registered event is cleared.
ClearAllCancels(r) == events' = [i \in RunIds |-> None]

\* clear_cancel: whatever event is registered under the id goes.
ClearCancel(r) == events' = [events EXCEPT ![IdOf[r]] = None]

\* Seeded fault: a return from the loop leaves the lane locked.
EndInTheLane(r, verdict) ==
  /\ phase'   = [phase EXCEPT ![r] = "ended"]
  /\ result'  = [result EXCEPT ![r] = verdict]
  /\ lane'    = r
  /\ tracked' = [tracked EXCEPT ![IdOf[r]] = verdict]
  /\ ClearCancel(r)
  /\ active'  = IF active = IdOf[r] THEN None ELSE active

\* execute() returns or raises: out of the lane, tracker finished, finally clause.
End(r, verdict) ==
  /\ phase'   = [phase EXCEPT ![r] = "ended"]
  /\ result'  = [result EXCEPT ![r] = verdict]
  /\ lane'    = None
  /\ tracked' = [tracked EXCEPT ![IdOf[r]] = verdict]
  /\ ClearCancel(r)
  /\ active'  = IF active = IdOf[r] THEN None ELSE active

\* Seeded fault: the event is not looked at here.
TopWithoutCheck(r, taken) ==
  \/ taken = MaxSteps /\ End(r, "failed")
  \/ /\ taken < MaxSteps
     /\ phase' = [phase EXCEPT ![r] = "thinking"]
     /\ lane' = r /\ active' = IdOf[r]
     /\ UNCHANGED <<result, events, tracked>>

\* The top of an iteration: cancelled, out of steps, or on to observe and decide.
TopOfLoop(r, taken) ==
  \/ /\ r \in cancelled \/ taken = MaxSteps
     /\ End(r, "failed")
  \/ /\ r \notin cancelled /\ taken < MaxSteps
     /\ phase' = [phase EXCEPT ![r] = "thinking"]
     /\ lane' = r /\ active' = IdOf[r]
     /\ UNCHANGED <<result, events, tracked>>

\* The run has the lane: an agent is built from the policy of this moment; without
\* an allowed tool, or if building it raises, the run ends at once.
Enter(r) ==
  /\ \/ armed /\ TopOfLoop(r, 0)
     \/ End(r, "failed")
  /\ UNCHANGED <<armed, step, cancelled, stepAtCancel>>

\* Seeded fault: a task that starts does not take the lane first.
TaskStartsAtOnce(r) ==
  /\ phase[r] = "spawned"
  /\ Enter(r)
  /\ UNCHANGED queue

TaskStarts(r) ==
  /\ phase[r] = "spawned"
  /\ lane = None /\ queue = << >>
  /\ Enter(r)
  /\ UNCHANGED queue

TaskWaits(r) ==
  /\ phase[r] = "spawned"
  /\ lane # None \/ queue # << >>
  /\ phase' = [phase EXCEPT ![r] = "waiting"]
  /\ queue' = Append(queue, r)
  /\ UNCHANGED <<armed, step, result, lane, active, events, cancelled, tracked,
                 stepAtCancel>>

TakeLane(r) ==
  /\ phase[r] = "waiting"
  /\ lane = None /\ queue # << >> /\ Head(queue) = r
  /\ queue' = Tail(queue)
  /\ Enter(r)

\* The model says done; or says fail, repeats itself, is cut short by a cancellation
\* or raises; or names a tool the policy does not offer, which is a step.
Decided(r) ==
  /\ phase[r] = "thinking"
  /\ \/ \E verdict \in {"completed", "failed"} : End(r, verdict) /\ UNCHANGED step
     \/ /\ step' = [step EXCEPT ![r] = @ + 1]
        /\ TopOfLoop(r, step[r] + 1)
  /\ UNCHANGED <<armed, queue, cancelled, stepAtCancel>>

\* Seeded fault: the event is looked at between iterations only.
DispatchToolUnchecked(r) ==
  /\ phase[r] = "thinking"
  /\ phase' = [phase EXCEPT ![r] = "acting"]
  /\ UNCHANGED <<armed, step, result, lane, queue, active, events, cancelled,
                 tracked, stepAtCancel>>

\* It names a tool the policy offers, and the run is still not cancelled.
DispatchTool(r) ==
  /\ phase[r] = "thinking"
  /\ r \notin cancelled
  /\ phase' = [phase EXCEPT ![r] = "acting"]
  /\ UNCHANGED <<armed, step, result, lane, queue, active, events, cancelled,
                 tracked, stepAtCancel>>

\* The handler returns: an error ends the run, otherwise a pause may follow.
ToolReturns(r) ==
  /\ phase[r] = "acting"
  /\ step' = [step EXCEPT ![r] = @ + 1]
  /\ \/ End(r, "failed")
     \/ TopOfLoop(r, step[r] + 1)
     \/ /\ phase' = [phase EXCEPT ![r] = "pausing"]
        /\ UNCHANGED <<result, lane, active, events, tracked>>
  /\ UNCHANGED <<armed, queue, cancelled, stepAtCancel>>

PauseEnds(r) ==
  /\ phase[r] = "pausing"
  /\ TopOfLoop(r, step[r])
  /\ UNCHANGED <<armed, step, queue, cancelled, stepAtCancel>>

Advance(r) == \/ TaskStarts(r) \/ TaskWaits(r) \/ TakeLane(r)
              \/ Decided(r) \/ DispatchTool(r) \/ ToolReturns(r) \/ PauseEnds(r)

Next ==
  \/ \E on \in BOOLEAN : SetPolicy(on)
  \/ \E r \in Runs : RefuseDispatch(r) \/ Dispatch(r) \/ Advance(r)
  \/ \E id \in RunIds : Cancel(id)

(***************************************************************************)
(* Fairness: tasks are resumed; the vision call and the tools return: they *)
(* have timeouts, and a gated one is released by the approval gate.        *)
(***************************************************************************)
Spec     == Init /\ [][Next]_vars
FairSpec == Spec /\ \A r \in Runs : WF_vars(Advance(r))
-----------------------------------------------------------------------------
(* Properties. *)

TypeOK ==
  /\ armed \in BOOLEAN
  /\ phase \in [Runs -> {"new", "refused", "spawned", "waiting", "thinking", "acting",
                         "pausing", "ended"}]
  /\ step \in [Runs -> 0 .. MaxSteps]
  /\ result \in [Runs -> {None, "completed", "failed"}]
  /\ lane \in Runs \union {None}
  /\ queue \in Seq(Runs)
  /\ active \in RunIds \union {None}
  /\ events \in [RunIds -> Runs \union {None}]
  /\ cancelled \subseteq Runs
  /\ tracked \in [RunIds -> {None, "running", "completed", "failed"}]
  /\ stepAtCancel \in [Runs -> 0 .. MaxSteps]

\* Although several dispatches can be accepted before the first task starts, one run
\* at a time drives mouse and keyboard, and it is the one shown as active.
OneRunOnTheDesktop ==
  \A r \in Runs : InLoop(r) <=> lane = r /\ active = IdOf[r]

\* Once cancelled, a run dispatches no further tool, wherever the request caught it.
NoToolAfterCancel ==
  [][\A r \in cancelled : phase'[r] = "acting" => phase[r] = "acting"]_vars

\* A cancelled run costs at most the step in flight, also when the model keeps
\* choosing tools that are refused without being dispatched.
CancelCostsAtMostAStep ==
  \A r \in cancelled : step[r] <= stepAtCancel[r] + 1

\* Every run that is queued or under way can be cancelled: its own event is the one
\* registered under its id.  Run ids are distinct here.
AliveRunIsCancellable ==
  \A r \in Runs : Alive(r) => events[IdOf[r]] = r

\* What the tracker shows of a run is how it ended, or that it has not; and no event
\* outlives its run.  Run ids are distinct here.
TrackerShowsTheEnd ==
  \A r \in Runs :
    /\ phase[r] = "ended" => tracked[IdOf[r]] = result[r] /\ events[IdOf[r]] = None
    /\ Alive(r) => tracked[IdOf[r]] = "running"

\* Cancel registry and tracker follow every run from its acceptance to its end.
RegistersFollowRuns == AliveRunIsCancellable /\ TrackerShowsTheEnd

\* An accepted run ends, however many are queued before it.
AcceptedRunEnds == \A r \in Runs : Alive(r) ~> phase[r] = "ended"

(***************************************************************************)
(* A claim of the cancel route's docstring that the code does not keep.    *)
(***************************************************************************)

\* desktop.py:183-184, "Returns 404 when the run is not active (already finished or
\* never existed)": the run that drives the desktop is not answered 404.
ActiveRunIsFound == active # None => events[active] # None
=============================================================================
