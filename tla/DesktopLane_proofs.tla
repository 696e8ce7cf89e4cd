------------------------- MODULE DesktopLane_proofs --------------------------
(***************************************************************************)
(* Proofs about DesktopLane, for any number of runs and steps: one run on  *)
(* the desktop, what a cancellation costs, and, if run ids are distinct,   *)
(* that every run can be cancelled and the tracker tells its end.          *)
(*                                                                         *)
(* The lane's holder is in the loop and its id is active: the two change   *)
(* together, which makes OneRunOnTheDesktop inductive.  The bound on a     *)
(* cancelled run needs that until its next pause or end its step is still  *)
(* the one at which it was cancelled.                                      *)
(***************************************************************************)
EXTENDS DesktopLane, SequenceTheorems, TLAPS

\* The active id is that of the lane's holder.
ActiveFollowsTheLane == active = IF lane = None THEN None ELSE IdOf[lane]

\* A run takes its first step in the loop, and has one left while it thinks or acts.
StepsFitThePhase ==
  \A r \in Runs : /\ phase[r] \in {"new", "spawned", "waiting"} => step[r] = 0
                  /\ phase[r] \in {"thinking", "acting"} => step[r] < MaxSteps

\* A cancelled run stays at its step until it pauses or ends.
CancelledStaysAtItsStep ==
  \A r \in cancelled : phase[r] \notin {"pausing", "ended"} => step[r] = stepAtCancel[r]

LaneInv == /\ TypeOK
           /\ OneRunOnTheDesktop
           /\ ActiveFollowsTheLane
           /\ StepsFitThePhase
           /\ CancelledStaysAtItsStep
           /\ CancelCostsAtMostAStep

\* Ids are drawn by the server, or chosen apart.
IdsAreDistinct == \A r, s \in Runs : IdOf[r] = IdOf[s] => r = s
-----------------------------------------------------------------------------
(* A step of the run that has, or gets, the lane. *)

\* r has the lane, or it is free and r is next.
OwnsOrTakes(r) == lane = r \/ (lane = None /\ phase[r] \in {"spawned", "waiting"})

\* What such a step leaves alone, and how far it takes the run.
StepTo(r, taken) == /\ step' = [step EXCEPT ![r] = taken]
                    /\ queue' \in Seq(Runs)
                    /\ UNCHANGED <<armed, cancelled, stepAtCancel>>

\* The end of a run frees lane and active id together.
LEMMA EndKeepsLaneInv ==
  ASSUME LaneInv, NEW r \in Runs, OwnsOrTakes(r), NEW taken \in step[r] .. step[r] + 1,
         taken <= MaxSteps, StepTo(r, taken),
         phase[r] = "pausing" => taken = step[r],
         NEW verdict \in {"completed", "failed"}, End(r, verdict)
  PROVE  LaneInv'
<1>1. step[r] \in 0 .. MaxSteps /\ taken \in 0 .. MaxSteps /\ IdOf[r] \in RunIds
      /\ r # None
  BY StepsGiven, IdsGiven, NoneIsNoRun DEF LaneInv, TypeOK
<1>2. /\ phase' = [phase EXCEPT ![r] = "ended"]
      /\ lane' = None
  BY DEF End
<1>3. active' = None
  BY <1>1 DEF LaneInv, ActiveFollowsTheLane, OwnsOrTakes, End
<1>4. TypeOK'
  BY <1>1, <1>3 DEF LaneInv, TypeOK, StepTo, End, ClearCancel
<1>5. \A q \in Runs : q # r => ~InLoop(q)
  BY NoneIsNoRun DEF LaneInv, OneRunOnTheDesktop, OwnsOrTakes
<1>6. OneRunOnTheDesktop' /\ ActiveFollowsTheLane'
  BY <1>2, <1>3, <1>5, NoneIsNoRun
  DEF LaneInv, TypeOK, OneRunOnTheDesktop, ActiveFollowsTheLane, InLoop
<1>7. StepsFitThePhase'
  BY <1>2 DEF LaneInv, TypeOK, StepsFitThePhase, StepTo
<1>8. CancelledStaysAtItsStep' /\ CancelCostsAtMostAStep'
  <2>1. phase[r] \in {"spawned", "waiting", "thinking", "acting", "pausing"}
    BY <1>1 DEF LaneInv, OneRunOnTheDesktop, ActiveFollowsTheLane, OwnsOrTakes, InLoop
  <2>2. r \in cancelled => taken <= stepAtCancel[r] + 1
    BY <1>1, <2>1 DEF LaneInv, TypeOK, CancelledStaysAtItsStep, CancelCostsAtMostAStep
  <2> QED
    BY <1>2, <2>2 DEF LaneInv, TypeOK, CancelledStaysAtItsStep, CancelCostsAtMostAStep, StepTo
<1> QED
  BY <1>4, <1>6, <1>7, <1>8 DEF LaneInv

\* At the top of the loop a run ends, or takes up the lane for another iteration.
LEMMA TopOfLoopKeepsLaneInv ==
  ASSUME LaneInv, NEW r \in Runs, OwnsOrTakes(r), NEW taken \in step[r] .. step[r] + 1,
         taken <= MaxSteps, StepTo(r, taken),
         phase[r] = "pausing" => taken = step[r],
         TopOfLoop(r, taken)
  PROVE  LaneInv'
<1>1. CASE End(r, "failed")
  BY <1>1, EndKeepsLaneInv
<1>2. CASE /\ r \notin cancelled /\ taken < MaxSteps
           /\ phase' = [phase EXCEPT ![r] = "thinking"]
           /\ lane' = r /\ active' = IdOf[r]
           /\ UNCHANGED <<result, events, tracked>>
  <2>1. step[r] \in 0 .. MaxSteps /\ taken \in 0 .. MaxSteps /\ IdOf[r] \in RunIds
        /\ r # None /\ IdOf[r] # None
    BY StepsGiven, IdsGiven, NoneIsNoRun DEF LaneInv, TypeOK
  <2>2. TypeOK'
    BY <1>2, <2>1 DEF LaneInv, TypeOK, StepTo
  <2>3. \A q \in Runs : q # r => ~InLoop(q)
    BY NoneIsNoRun DEF LaneInv, OneRunOnTheDesktop, OwnsOrTakes
  <2>4. OneRunOnTheDesktop' /\ ActiveFollowsTheLane'
    BY <1>2, <2>1, <2>3
    DEF LaneInv, TypeOK, OneRunOnTheDesktop, ActiveFollowsTheLane, InLoop
  <2>5. StepsFitThePhase'
    BY <1>2 DEF LaneInv, TypeOK, StepsFitThePhase, StepTo
  <2>6. CancelledStaysAtItsStep' /\ CancelCostsAtMostAStep'
    BY <1>2 DEF LaneInv, TypeOK, CancelledStaysAtItsStep, CancelCostsAtMostAStep, StepTo
  <2> QED
    BY <2>2, <2>4, <2>5, <2>6 DEF LaneInv
<1> QED
  BY <1>1, <1>2 DEF TopOfLoop

LEMMA EnterKeepsLaneInv ==
  ASSUME LaneInv, NEW r \in Runs, lane = None, phase[r] \in {"spawned", "waiting"},
         queue' \in Seq(Runs), Enter(r)
  PROVE  LaneInv'
<1>1. OwnsOrTakes(r) /\ StepTo(r, step[r]) /\ step[r] \in step[r] .. step[r] + 1
      /\ step[r] = 0 /\ step[r] <= MaxSteps
  BY StepsGiven DEF LaneInv, TypeOK, StepsFitThePhase, OwnsOrTakes, StepTo, Enter
<1>2. CASE TopOfLoop(r, 0)
  BY <1>1, <1>2, TopOfLoopKeepsLaneInv
<1>3. CASE End(r, "failed")
  BY <1>1, <1>3, EndKeepsLaneInv
<1> QED
  BY <1>2, <1>3 DEF Enter

\* A step in which the lane does not change hands.
LEMMA SameHolderKeepsLaneInv ==
  ASSUME LaneInv, TypeOK', StepsFitThePhase', CancelledStaysAtItsStep',
         CancelCostsAtMostAStep', UNCHANGED <<lane, active>>,
         \A r \in Runs : InLoop(r)' <=> InLoop(r)
  PROVE  LaneInv'
BY DEF LaneInv, OneRunOnTheDesktop, ActiveFollowsTheLane
-----------------------------------------------------------------------------
(* One lemma for each kind of step. *)

LEMMA InitLaneInv == Init => LaneInv
BY EmptySeq, StepsGiven, NoneIsNoRun
DEF Init, LaneInv, TypeOK, OneRunOnTheDesktop, ActiveFollowsTheLane, StepsFitThePhase,
    CancelledStaysAtItsStep, CancelCostsAtMostAStep, InLoop

LEMMA RoutesKeepLaneInv ==
  ASSUME LaneInv,
         \/ \E on \in BOOLEAN : SetPolicy(on)
         \/ \E r \in Runs : RefuseDispatch(r) \/ Dispatch(r)
         \/ \E id \in RunIds : Cancel(id)
         \/ UNCHANGED vars
  PROVE  LaneInv'
<1>1. ASSUME NEW on \in BOOLEAN, SetPolicy(on) PROVE LaneInv'
  BY <1>1 DEF SetPolicy, LaneInv, TypeOK, OneRunOnTheDesktop, ActiveFollowsTheLane,
     StepsFitThePhase, CancelledStaysAtItsStep, CancelCostsAtMostAStep, InLoop
<1>2. ASSUME NEW r \in Runs, RefuseDispatch(r) PROVE LaneInv'
  <2>1. TypeOK' /\ \A q \in Runs : InLoop(q)' <=> InLoop(q)
    BY <1>2 DEF LaneInv, TypeOK, RefuseDispatch, InLoop
  <2>2. StepsFitThePhase' /\ CancelledStaysAtItsStep' /\ CancelCostsAtMostAStep'
    BY <1>2 DEF LaneInv, TypeOK, StepsFitThePhase, CancelledStaysAtItsStep,
       CancelCostsAtMostAStep, RefuseDispatch
  <2> QED
    BY <1>2, <2>1, <2>2, SameHolderKeepsLaneInv DEF RefuseDispatch
<1>3. ASSUME NEW r \in Runs, Dispatch(r) PROVE LaneInv'
  <2>1. TypeOK' /\ \A q \in Runs : InLoop(q)' <=> InLoop(q)
    BY <1>3, IdsGiven DEF LaneInv, TypeOK, Dispatch, RegisterCancel, InLoop
  <2>2. StepsFitThePhase' /\ CancelledStaysAtItsStep' /\ CancelCostsAtMostAStep'
    BY <1>3 DEF LaneInv, TypeOK, StepsFitThePhase, CancelledStaysAtItsStep,
       CancelCostsAtMostAStep, Dispatch
  <2> QED
    BY <1>3, <2>1, <2>2, SameHolderKeepsLaneInv DEF Dispatch
<1>4. ASSUME NEW id \in RunIds, Cancel(id) PROVE LaneInv'
  <2>1. events[id] \in Runs
    BY <1>4 DEF LaneInv, TypeOK, Cancel
  <2>2. TypeOK' /\ \A q \in Runs : InLoop(q)' <=> InLoop(q)
    BY <1>4, <2>1 DEF LaneInv, TypeOK, Cancel, InLoop
  <2>3. StepsFitThePhase' /\ CancelledStaysAtItsStep' /\ CancelCostsAtMostAStep'
    BY <1>4, <2>1 DEF LaneInv, TypeOK, StepsFitThePhase, CancelledStaysAtItsStep,
       CancelCostsAtMostAStep, Cancel
  <2> QED
    BY <1>4, <2>2, <2>3, SameHolderKeepsLaneInv DEF Cancel
<1>5. CASE UNCHANGED vars
  BY <1>5 DEF vars, LaneInv, TypeOK, OneRunOnTheDesktop, ActiveFollowsTheLane,
     StepsFitThePhase, CancelledStaysAtItsStep, CancelCostsAtMostAStep, InLoop
<1> QED
  BY <1>1, <1>2, <1>3, <1>4, <1>5

LEMMA AdvanceKeepsLaneInv ==
  ASSUME LaneInv, NEW r \in Runs, Advance(r)
  PROVE  LaneInv'
<1>1. CASE TaskStarts(r)
  BY <1>1, EnterKeepsLaneInv DEF TaskStarts, LaneInv, TypeOK
<1>2. CASE TaskWaits(r)
  <2>1. queue' \in Seq(Runs)
    BY <1>2, AppendProperties DEF LaneInv, TypeOK, TaskWaits
  <2>2. TypeOK' /\ \A q \in Runs : InLoop(q)' <=> InLoop(q)
    BY <1>2, <2>1 DEF LaneInv, TypeOK, TaskWaits, InLoop
  <2>3. StepsFitThePhase' /\ CancelledStaysAtItsStep' /\ CancelCostsAtMostAStep'
    BY <1>2 DEF LaneInv, TypeOK, StepsFitThePhase, CancelledStaysAtItsStep,
       CancelCostsAtMostAStep, TaskWaits
  <2> QED
    BY <1>2, <2>2, <2>3, SameHolderKeepsLaneInv DEF TaskWaits
<1>3. CASE TakeLane(r)
  <2>1. Tail(queue) \in Seq(Runs)
    BY <1>3, HeadTailProperties DEF LaneInv, TypeOK, TakeLane
  <2> QED
    BY <1>3, <2>1, EnterKeepsLaneInv DEF TakeLane
<1>4. CASE InLoop(r) /\ (Decided(r) \/ DispatchTool(r) \/ ToolReturns(r) \/ PauseEnds(r))
  <2>1. OwnsOrTakes(r) /\ queue \in Seq(Runs) /\ step[r] \in Nat
    BY <1>4 DEF LaneInv, TypeOK, OneRunOnTheDesktop, OwnsOrTakes
  <2>2. phase[r] \in {"thinking", "acting"} => step[r] + 1 <= MaxSteps
    BY <2>1, StepsGiven DEF LaneInv, StepsFitThePhase
  <2>3. step[r] <= MaxSteps
    BY DEF LaneInv, TypeOK
  <2>4. CASE Decided(r)
    <3>1. ASSUME NEW verdict \in {"completed", "failed"}, End(r, verdict), UNCHANGED step
          PROVE  LaneInv'
      <4>1. StepTo(r, step[r])
        BY <2>1, <2>4, <3>1 DEF Decided, StepTo, LaneInv, TypeOK
      <4> QED
        BY <2>1, <2>3, <3>1, <4>1, EndKeepsLaneInv
    <3>2. CASE step' = [step EXCEPT ![r] = @ + 1] /\ TopOfLoop(r, step[r] + 1)
      <4>1. StepTo(r, step[r] + 1)
        BY <2>1, <2>4, <3>2 DEF Decided, StepTo
      <4> QED
        BY <2>1, <2>2, <2>4, <3>2, <4>1, TopOfLoopKeepsLaneInv DEF Decided
    <3> QED
      BY <2>4, <3>1, <3>2 DEF Decided
  <2>5. CASE DispatchTool(r)
    <3>1. TypeOK' /\ \A q \in Runs : InLoop(q)' <=> InLoop(q)
      BY <2>5 DEF LaneInv, TypeOK, DispatchTool, InLoop
    <3>2. StepsFitThePhase' /\ CancelledStaysAtItsStep' /\ CancelCostsAtMostAStep'
      BY <2>5 DEF LaneInv, TypeOK, StepsFitThePhase, CancelledStaysAtItsStep,
         CancelCostsAtMostAStep, DispatchTool
    <3> QED
      BY <2>5, <3>1, <3>2, SameHolderKeepsLaneInv DEF DispatchTool
  <2>6. CASE ToolReturns(r)
    <3>1. StepTo(r, step[r] + 1) /\ phase[r] = "acting"
      BY <2>1, <2>6 DEF ToolReturns, StepTo
    <3>2. CASE End(r, "failed")
      BY <2>1, <2>2, <3>1, <3>2, EndKeepsLaneInv
    <3>3. CASE TopOfLoop(r, step[r] + 1)
      BY <2>1, <2>2, <3>1, <3>3, TopOfLoopKeepsLaneInv
    <3>4. CASE /\ phase' = [phase EXCEPT ![r] = "pausing"]
               /\ UNCHANGED <<result, lane, active, events, tracked>>
      <4>1. TypeOK' /\ \A q \in Runs : InLoop(q)' <=> InLoop(q)
        BY <2>1, <2>2, <3>1, <3>4 DEF LaneInv, TypeOK, StepTo, InLoop
      <4>2. StepsFitThePhase' /\ CancelledStaysAtItsStep'
        BY <3>1, <3>4 DEF LaneInv, TypeOK, StepsFitThePhase, CancelledStaysAtItsStep,
           StepTo
      <4>3. r \in cancelled => step[r] + 1 <= stepAtCancel[r] + 1
        BY <2>1, <3>1 DEF LaneInv, CancelledStaysAtItsStep
      <4>4. CancelCostsAtMostAStep'
        BY <3>1, <4>3 DEF LaneInv, TypeOK, CancelCostsAtMostAStep, StepTo
      <4> QED
        BY <3>4, <4>1, <4>2, <4>4, SameHolderKeepsLaneInv
    <3> QED
      BY <2>6, <3>2, <3>3, <3>4 DEF ToolReturns
  <2>7. CASE PauseEnds(r)
    <3>1. StepTo(r, step[r])
      BY <2>1, <2>7 DEF PauseEnds, StepTo, LaneInv, TypeOK
    <3> QED
      BY <2>1, <2>3, <2>7, <3>1, TopOfLoopKeepsLaneInv DEF PauseEnds
  <2> QED
    BY <1>4, <2>4, <2>5, <2>6, <2>7
<1> QED
  BY <1>1, <1>2, <1>3, <1>4
  DEF Advance, Decided, DispatchTool, ToolReturns, PauseEnds, InLoop

LEMMA NextKeepsLaneInv == LaneInv /\ [Next]_vars => LaneInv'
BY RoutesKeepLaneInv, AdvanceKeepsLaneInv DEF Next
-----------------------------------------------------------------------------
(* The theorems. *)

\* The invariant holds of every reachable state: routes and loop of desktop.py and
\* agent.py, however their segments interleave.
THEOREM LaneInvariance == Spec => []LaneInv
<1>1. Init => LaneInv
  BY InitLaneInv
<1>2. LaneInv /\ [Next]_vars => LaneInv'
  BY NextKeepsLaneInv
<1> QED
  BY <1>1, <1>2, PTL DEF Spec

\* Type correctness of the state of the lane, the routes and the runs.
THEOREM LaneTypeCorrectness == Spec => []TypeOK
<1>1. LaneInv => TypeOK
  BY DEF LaneInv
<1> QED
  BY <1>1, LaneInvariance, PTL

\* However many dispatches pass the check of the active run id before the first task
\* starts (desktop.py:139), one run at a time is in the loop, and it is the active one.
THEOREM LaneExcludes == Spec => []OneRunOnTheDesktop
<1>1. LaneInv => OneRunOnTheDesktop
  BY DEF LaneInv
<1> QED
  BY <1>1, LaneInvariance, PTL

\* From the cancel request on a run takes at most the step it was in (agent.py:126).
THEOREM CancellationIsPrompt == Spec => []CancelCostsAtMostAStep
<1>1. LaneInv => CancelCostsAtMostAStep
  BY DEF LaneInv
<1> QED
  BY <1>1, LaneInvariance, PTL
-----------------------------------------------------------------------------
(* Run ids that are apart. *)

\* A step that neither starts nor ends a run leaves the registers right.
LEMMA MoveKeepsRegisters ==
  ASSUME RegistersFollowRuns, UNCHANGED <<events, tracked>>,
         \A q \in Runs : /\ Alive(q)' <=> Alive(q)
                         /\ phase'[q] = "ended" => phase[q] = "ended"
                         /\ phase[q] = "ended" => result'[q] = result[q]
  PROVE  RegistersFollowRuns'
<1>1. AliveRunIsCancellable'
  BY DEF RegistersFollowRuns, AliveRunIsCancellable
<1>2. TrackerShowsTheEnd'
  BY DEF RegistersFollowRuns, TrackerShowsTheEnd
<1> QED
  BY <1>1, <1>2 DEF RegistersFollowRuns

\* The end of a run clears its own event and finishes its own row.
LEMMA EndKeepsRegisters ==
  ASSUME IdsAreDistinct, TypeOK, RegistersFollowRuns, NEW r \in Runs,
         NEW verdict \in {"completed", "failed"}, End(r, verdict)
  PROVE  RegistersFollowRuns'
<1>1. \A q \in Runs : IdOf[q] \in RunIds /\ (q # r => IdOf[q] # IdOf[r])
  BY IdsGiven DEF IdsAreDistinct
<1>2. \A q \in Runs : q # r => /\ phase'[q] = phase[q] /\ result'[q] = result[q]
                               /\ events'[IdOf[q]] = events[IdOf[q]]
                               /\ tracked'[IdOf[q]] = tracked[IdOf[q]]
  BY <1>1 DEF TypeOK, End, ClearCancel
<1>3. /\ phase'[r] = "ended" /\ result'[r] = verdict
      /\ events'[IdOf[r]] = None /\ tracked'[IdOf[r]] = verdict
  BY <1>1 DEF TypeOK, End, ClearCancel
<1>4. AliveRunIsCancellable'
  BY <1>2, <1>3 DEF RegistersFollowRuns, AliveRunIsCancellable, Alive, InLoop
<1>5. TrackerShowsTheEnd'
  BY <1>2, <1>3 DEF RegistersFollowRuns, TrackerShowsTheEnd, Alive, InLoop
<1> QED
  BY <1>4, <1>5 DEF RegistersFollowRuns

LEMMA TopOfLoopKeepsRegisters ==
  ASSUME IdsAreDistinct, TypeOK, RegistersFollowRuns, NEW r \in Runs, Alive(r),
         NEW taken, TopOfLoop(r, taken)
  PROVE  RegistersFollowRuns'
<1>1. CASE End(r, "failed")
  BY <1>1, EndKeepsRegisters
<1>2. CASE /\ phase' = [phase EXCEPT ![r] = "thinking"]
           /\ UNCHANGED <<result, events, tracked>>
  <2>1. \A q \in Runs : /\ Alive(q)' <=> Alive(q)
                        /\ phase'[q] = "ended" => phase[q] = "ended"
    BY <1>2 DEF TypeOK, Alive, InLoop
  <2> QED
    BY <1>2, <2>1, MoveKeepsRegisters
<1> QED
  BY <1>1, <1>2 DEF TopOfLoop

LEMMA AdvanceKeepsRegisters ==
  ASSUME IdsAreDistinct, TypeOK, RegistersFollowRuns, NEW r \in Runs, Advance(r)
  PROVE  RegistersFollowRuns'
<1>1. Alive(r)
  BY DEF Advance, TaskStarts, TaskWaits, TakeLane, Decided, DispatchTool, ToolReturns,
     PauseEnds, Alive, InLoop
<1>2. CASE \E verdict \in {"completed", "failed"} : End(r, verdict)
  BY <1>2, EndKeepsRegisters
<1>3. CASE \E taken \in {0, step[r], step[r] + 1} : TopOfLoop(r, taken)
  BY <1>1, <1>3, TopOfLoopKeepsRegisters
<1>4. CASE TaskWaits(r) \/ DispatchTool(r)
           \/ (ToolReturns(r) /\ phase' = [phase EXCEPT ![r] = "pausing"]
               /\ UNCHANGED <<result, events, tracked>>)
  <2>1. \A q \in Runs : /\ Alive(q)' <=> Alive(q)
                        /\ phase'[q] = "ended" => phase[q] = "ended"
    BY <1>4 DEF TypeOK, TaskWaits, DispatchTool, ToolReturns, Alive, InLoop
  <2> QED
    BY <1>4, <2>1, MoveKeepsRegisters DEF TaskWaits, DispatchTool
<1> QED
  BY <1>2, <1>3, <1>4 DEF Advance, TaskStarts, TakeLane, Enter, Decided, ToolReturns, PauseEnds

LEMMA NextKeepsRegisters ==
  ASSUME IdsAreDistinct, TypeOK, RegistersFollowRuns, [Next]_vars
  PROVE  RegistersFollowRuns'
<1>1. ASSUME NEW r \in Runs, Dispatch(r) PROVE RegistersFollowRuns'
  <2>1. \A q \in Runs : IdOf[q] \in RunIds /\ (q # r => IdOf[q] # IdOf[r])
    BY IdsGiven DEF IdsAreDistinct
  <2>2. \A q \in Runs : q # r => /\ phase'[q] = phase[q] /\ result'[q] = result[q]
                                 /\ events'[IdOf[q]] = events[IdOf[q]]
                                 /\ tracked'[IdOf[q]] = tracked[IdOf[q]]
    BY <1>1, <2>1 DEF TypeOK, Dispatch, RegisterCancel
  <2>3. phase'[r] = "spawned" /\ events'[IdOf[r]] = r /\ tracked'[IdOf[r]] = "running"
    BY <1>1, <2>1 DEF TypeOK, Dispatch, RegisterCancel
  <2>4. AliveRunIsCancellable'
    BY <2>2, <2>3 DEF RegistersFollowRuns, AliveRunIsCancellable, Alive, InLoop
  <2>5. TrackerShowsTheEnd'
    BY <2>2, <2>3 DEF RegistersFollowRuns, TrackerShowsTheEnd, Alive, InLoop
  <2> QED
    BY <2>4, <2>5 DEF RegistersFollowRuns
<1>2. ASSUME NEW r \in Runs, RefuseDispatch(r) PROVE RegistersFollowRuns'
  <2>1. \A q \in Runs : /\ Alive(q)' <=> Alive(q)
                        /\ phase'[q] = "ended" => phase[q] = "ended"
    BY <1>2 DEF TypeOK, RefuseDispatch, Alive, InLoop
  <2> QED
    BY <1>2, <2>1, MoveKeepsRegisters DEF RefuseDispatch
<1>3. CASE (\E on \in BOOLEAN : SetPolicy(on)) \/ (\E id \in RunIds : Cancel(id))
           \/ UNCHANGED vars
  <2>1. UNCHANGED <<phase, result, events, tracked>>
    BY <1>3 DEF SetPolicy, Cancel, vars
  <2> QED
    BY <2>1, MoveKeepsRegisters DEF Alive, InLoop
<1> QED
  BY <1>1, <1>2, <1>3, AdvanceKeepsRegisters DEF Next

\* If run ids are distinct, every run that is queued or under way can be cancelled
\* under its id, since register_cancel and clear_cancel (desktop_lane.py:27-44) touch no
\* other run's event; and the tracker's row is that of the run itself (the finally clause
\* of the background task, desktop.py).
THEOREM RegistersAreRight ==
  ASSUME IdsAreDistinct PROVE Spec => []RegistersFollowRuns
<1>1. Init => RegistersFollowRuns
  BY DEF Init, RegistersFollowRuns, AliveRunIsCancellable, TrackerShowsTheEnd, Alive, InLoop
<1>2. TypeOK /\ RegistersFollowRuns /\ [Next]_vars => RegistersFollowRuns'
  BY NextKeepsRegisters
<1> QED
  BY <1>1, <1>2, LaneTypeCorrectness, PTL DEF Spec
-----------------------------------------------------------------------------
(* Cancellation and the dispatch of tools. *)

\* The event is looked at after the model has answered (agent.py:211), so a run that is
\* already cancelled enters no tool.
THEOREM CancelledRunsDispatchNothing == Spec => NoToolAfterCancel
<1> DEFINE Quiet == \A r \in cancelled : phase'[r] = "acting" => phase[r] = "acting"
<1>1. ASSUME TypeOK, Next PROVE Quiet
  <2> SUFFICES ASSUME NEW r \in cancelled, phase'[r] = "acting" PROVE phase[r] = "acting"
    OBVIOUS
  <2>1. r \in Runs
    BY <1>1 DEF TypeOK
  <2>2. ASSUME NEW q \in Runs, DispatchTool(q) PROVE phase[r] = "acting"
    BY <1>1, <2>1, <2>2 DEF TypeOK, DispatchTool
  <2>3. ASSUME NEW q \in Runs, NEW to \in {"refused", "spawned", "waiting", "thinking",
                                          "pausing", "ended"},
               phase' = [phase EXCEPT ![q] = to]
        PROVE  phase[r] = "acting"
    BY <1>1, <2>1, <2>3 DEF TypeOK
  <2>4. CASE UNCHANGED phase
    BY <2>4
  <2>5. ASSUME NEW q \in Runs, NEW taken, TopOfLoop(q, taken) PROVE phase[r] = "acting"
    BY <2>3, <2>5 DEF TopOfLoop, End
  <2>6. ASSUME NEW q \in Runs, Advance(q) PROVE phase[r] = "acting"
    BY <2>2, <2>3, <2>5, <2>6
    DEF Advance, TaskStarts, TaskWaits, TakeLane, Enter, Decided, ToolReturns, PauseEnds, End
  <2> QED
    BY <1>1, <2>3, <2>4, <2>6 DEF Next, SetPolicy, RefuseDispatch, Dispatch, Cancel
<1>2. TypeOK /\ [Next]_vars => [Quiet]_vars
  BY <1>1
<1> QED
  BY <1>2, LaneTypeCorrectness, PTL DEF Spec, NoToolAfterCancel
=============================================================================
