---------------------------- MODULE RunRecording ----------------------------
(***************************************************************************)
(* How a browser run is recorded: the POST /run handler of api/router.py,  *)
(* the live RunTaskTracker (control/run_tracker.py) and the SQLite         *)
(* TaskReplayStore (control/replay.py) it writes to, with the dashboard    *)
(* reading, the retention job pruning and the process crashing.            *)
(*                                                                         *)
(* Threads.  The handler, the readers and the retention job run on the     *)
(* event loop; get_run is synchronous, so nothing else on the loop runs    *)
(* until it returns.  Only add_step runs elsewhere, in a worker thread, as *)
(* one critical section of the writer lock.                                *)
(*                                                                         *)
(* Every statement that changes a row of the runs table commits, so the    *)
(* table has one copy here; the steps table has the writer's view (steps)  *)
(* and what is committed (diskSteps), which a crash falls back to.         *)
(*                                                                         *)
(* Failures.  A statement on the writer connection may raise and change    *)
(* nothing (disk full, database locked); a commit that raises after its    *)
(* statement, and failing reads and prunings, are left out.                *)
(*                                                                         *)
(* Abstracted: what a step records besides its key (every step has a       *)
(* screenshot), tenants, and the agent, which emits steps until it ends.   *)
(***************************************************************************)
EXTENDS Integers, SequencesExt, FiniteSets

CONSTANTS
  Requests,    \* POST /run requests
  RunIds,      \* run ids; RunIdOf says which one a request asks for or is given
  RunIdOf,
  MaxSteps,    \* steps an agent may take
  Batch,       \* _STEP_COMMIT_BATCH (5 in the code)
  MaxRuns,     \* RunTaskTracker's max_runs (12 in the code)
  MaxCrashes   \* bound: crashes in a behaviour

ASSUME RunIdsGiven == RunIds # {} /\ RunIdOf \in [Requests -> RunIds]
ASSUME BoundsAreUsable == /\ {MaxSteps, Batch, MaxRuns} \subseteq Nat \ {0}
                          /\ MaxCrashes \in Nat

VARIABLES
  phase,      \* of each request's handler
  emitted,    \* steps its agent has emitted
  inThread,   \* requests whose add_step is in a worker thread
  dropped,    \* requests whose last add_step raised (history variable)
  tracked,    \* RunTaskTracker._runs, least recently touched first
  runs,       \* rows of the runs table
  old,        \* ids of runs past the retention period
  steps,      \* rows of the steps table, as the writer connection sees them
  diskSteps,  \* rows of the steps table that are committed
  pendingStepWrites,  \* _pending_step_writes
  sinceCommit,        \* step writes since the last commit (history variable)
  reader,     \* a get_run(include_screenshots=False) in progress
  published,  \* run.* events on the dashboard bus
  crashes

handler == <<phase, emitted, inThread, dropped>>
store   == <<runs, old, steps, diskSteps, pendingStepWrites, sinceCommit>>
vars    == <<handler, tracked, store, reader, published, crashes>>

RunStatus == {"running", "completed", "failed"}
RunRows   == [id : RunIds, by : Requests, status : RunStatus]
StepRows  == [id : RunIds, index : 1 .. MaxSteps, by : Requests]
NotReading == [at |-> "idle", id |-> CHOOSE id \in RunIds : TRUE,
               floor |-> {}, steps |-> {}]

LoopFree   == reader.at \in {"idle", "done"}
InFlight(q) == phase[q] \in {"running", "recording", "failing"}
StepsOf(id) == {s \in steps : s.id = id}

Init ==
  /\ phase    = [q \in Requests |-> "new"]
  /\ emitted  = [q \in Requests |-> 0]
  /\ inThread = {} /\ dropped = {}
  /\ tracked  = << >>
  /\ runs = {} /\ old = {} /\ steps = {} /\ diskSteps = {}
  /\ pendingStepWrites = 0
  /\ sinceCommit = 0
  /\ reader    = NotReading
  /\ published = {}
  /\ crashes   = 0
-----------------------------------------------------------------------------
(* RunTaskTracker. *)

IsTracked(id) == \E i \in 1 .. Len(tracked) : tracked[i].id = id
Place(id)      == CHOOSE i \in 1 .. Len(tracked) : tracked[i].id = id
TrackedRow(id) == tracked[Place(id)]
Others(id)     == IF IsTracked(id) THEN RemoveAt(tracked, Place(id)) ELSE tracked

\* start: a new state, moved to the end; the first ones go beyond max_runs,
\* whether or not they are running.
Track(row) ==
  LET all == Append(Others(row.id), row)
  IN  tracked' = IF Len(all) > MaxRuns
                 THEN SubSeq(all, Len(all) - MaxRuns + 1, Len(all)) ELSE all

\* Seeded fault: the entry is moved to the end and keeps its status.
RetrackAsItWas(id, status) ==
  tracked' = IF IsTracked(id) THEN Append(Others(id), TrackedRow(id)) ELSE tracked

\* step and finish: the entry is updated and moved to the end, if it is there.
Retrack(id, status) ==
  tracked' = IF IsTracked(id)
             THEN Append(Others(id), [TrackedRow(id) EXCEPT !.status = status])
             ELSE tracked
-----------------------------------------------------------------------------
(* TaskReplayStore. *)

Commit == /\ diskSteps' = steps'
          /\ pendingStepWrites' = 0
          /\ sinceCommit' = 0

\* INSERT OR REPLACE INTO runs: the steps of a former run of that id stay.
StartRun(q) ==
  /\ runs'  = {r \in runs : r.id # RunIdOf[q]}
                \union {[id |-> RunIdOf[q], by |-> q, status |-> "running"]}
  /\ old'   = old \ {RunIdOf[q]}
  /\ steps' = steps
  /\ Commit

\* Seeded fault: the end is stored without a commit of the steps before it.
FinishRunAlone(q, status) ==
  /\ runs' = {IF r.id = RunIdOf[q] THEN [r EXCEPT !.status = status] ELSE r : r \in runs}
  /\ UNCHANGED <<old, steps, diskSteps, pendingStepWrites, sinceCommit>>

\* UPDATE runs ... WHERE run_id = ?
FinishRun(q, status) ==
  /\ runs'  = {IF r.id = RunIdOf[q] THEN [r EXCEPT !.status = status] ELSE r : r \in runs}
  /\ steps' = steps
  /\ UNCHANGED old
  /\ Commit

\* Seeded fault: the commit comes one step late.
AddStepCommittedLate(q, index) ==
  /\ steps' = steps \union {[id |-> RunIdOf[q], index |-> index, by |-> q]}
  /\ IF pendingStepWrites + 1 > Batch
     THEN Commit
     ELSE /\ pendingStepWrites' = pendingStepWrites + 1
          /\ sinceCommit' = sinceCommit + 1
          /\ UNCHANGED diskSteps
  /\ UNCHANGED <<runs, old>>

\* INSERT OR REPLACE INTO steps, committed every Batch steps of whatever run.
AddStep(q, index) ==
  /\ steps' = {s \in steps : ~(s.id = RunIdOf[q] /\ s.index = index)}
                \union {[id |-> RunIdOf[q], index |-> index, by |-> q]}
  /\ IF pendingStepWrites + 1 >= Batch
     THEN Commit
     ELSE /\ pendingStepWrites' = pendingStepWrites + 1
          /\ sinceCommit' = sinceCommit + 1
          /\ UNCHANGED diskSteps
  /\ UNCHANGED <<runs, old>>

\* Seeded fault: a read commits nothing.
FlushNothing == UNCHANGED store

\* _flush_for_reader: commits only if step writes are pending.
FlushForReader ==
  /\ UNCHANGED <<runs, old, steps>>
  /\ IF pendingStepWrites > 0 THEN Commit
     ELSE UNCHANGED <<diskSteps, pendingStepWrites, sinceCommit>>
-----------------------------------------------------------------------------
(* POST /run. *)

Publish(type, q) == published' = published \union {<<type, q>>}

Begin(q) ==
  /\ LoopFree
  /\ phase[q] = "new"
  /\ phase' = [phase EXCEPT ![q] = "running"]
  /\ Track([id |-> RunIdOf[q], by |-> q, status |-> "running"])
  /\ StartRun(q)
  /\ Publish("run.started", q)
  /\ UNCHANGED <<emitted, inThread, dropped, reader, crashes>>

\* start_run raises, outside of any try: the request is a 500, and the tracker has a run
\* that no row tells of and nothing will ever finish.
BeginFails(q) ==
  /\ LoopFree
  /\ phase[q] = "new"
  /\ phase' = [phase EXCEPT ![q] = "refused"]
  /\ Track([id |-> RunIdOf[q], by |-> q, status |-> "running"])
  /\ UNCHANGED <<emitted, inThread, dropped, store, reader, published, crashes>>

\* _on_progress up to its await: the tracker is updated, add_step goes to a thread.
Progress(q) ==
  /\ LoopFree
  /\ phase[q] = "running"
  /\ emitted[q] < MaxSteps
  /\ emitted'  = [emitted EXCEPT ![q] = @ + 1]
  /\ phase'    = [phase EXCEPT ![q] = "recording"]
  /\ inThread' = inThread \union {q}
  /\ Retrack(RunIdOf[q], IF IsTracked(RunIdOf[q]) THEN TrackedRow(RunIdOf[q]).status
                                                  ELSE "running")
  /\ UNCHANGED <<dropped, store, reader, published, crashes>>

\* The worker thread.  It runs to its end even when its request is cancelled.
ThreadAddsStep(q) ==
  /\ q \in inThread
  /\ inThread' = inThread \ {q}
  /\ AddStep(q, emitted[q])
  /\ UNCHANGED <<phase, emitted, dropped, tracked, reader, published, crashes>>

\* add_step raises there: its request is going to, if it still waits.
ThreadFails(q) ==
  /\ q \in inThread
  /\ inThread' = inThread \ {q}
  /\ dropped'  = dropped \union {q}
  /\ phase'    = IF phase[q] = "recording" THEN [phase EXCEPT ![q] = "failing"] ELSE phase
  /\ UNCHANGED <<emitted, tracked, store, reader, published, crashes>>

\* _on_progress after its await.  The event tells of the tracker's copy of the
\* run, so there is none for a run that the tracker had dropped.
ProgressReturns(q) ==
  /\ LoopFree
  /\ phase[q] = "recording"
  /\ q \notin inThread
  /\ phase' = [phase EXCEPT ![q] = "running"]
  /\ \/ Publish("run.step", q)
     \/ ~IsTracked(RunIdOf[q]) /\ UNCHANGED published
  /\ UNCHANGED <<emitted, inThread, dropped, tracked, store, reader, crashes>>

\* What execute() comes to.  The exception of a lost step ends it, as a failure.
MayEndAs(q, status) ==
  \/ phase[q] = "running"
  \/ phase[q] = "failing" /\ status = "failed"

\* execute() returns or raises an Exception: tracker and store are finished, in
\* one segment of the loop, and the end is published.  So is, as a failure, a run whose
\* first finish_run raises and whose second one, in the handler, does not.
Finish(q, status) ==
  /\ LoopFree
  /\ MayEndAs(q, status)
  /\ phase' = [phase EXCEPT ![q] = "finished"]
  /\ Retrack(RunIdOf[q], status)
  /\ FinishRun(q, status)
  /\ Publish(IF status = "completed" THEN "run.completed" ELSE "run.failed", q)
  /\ UNCHANGED <<emitted, inThread, dropped, reader, crashes>>

\* finish_run raises, in the handler as well: the row goes on running and nothing is
\* published.  The tracker was finished before if execute() returned, and would have been
\* after if it raised.
FinishUnrecorded(q, status) ==
  /\ LoopFree
  /\ MayEndAs(q, status)
  /\ phase' = [phase EXCEPT ![q] = "unrecorded"]
  /\ \/ Retrack(RunIdOf[q], status)
     \/ phase[q] = "running" /\ UNCHANGED tracked
  /\ UNCHANGED <<emitted, inThread, dropped, store, reader, published, crashes>>

\* The request's task is cancelled: CancelledError is no Exception, so neither
\* record is finished.
Cancelled(q) ==
  /\ LoopFree
  /\ InFlight(q)
  /\ phase' = [phase EXCEPT ![q] = "cancelled"]
  /\ UNCHANGED <<emitted, inThread, dropped, tracked, store, reader, published, crashes>>
-----------------------------------------------------------------------------
(***************************************************************************)
(* get_run(include_screenshots=False): flush, then SELECTs on the reader   *)
(* connection, each with a snapshot of its own.  Only worker threads can   *)
(* run in between.  The third SELECT, which counts, is left out.           *)
(***************************************************************************)
ReadFlush(id) ==
  /\ LoopFree
  /\ FlushForReader
  /\ reader' = [NotReading EXCEPT !.at = "flushed", !.id = id, !.floor = StepsOf(id)]
  /\ UNCHANGED <<handler, tracked, published, crashes>>

ReadRow ==
  /\ reader.at = "flushed"
  /\ reader' = IF \E r \in runs : r.id = reader.id THEN [reader EXCEPT !.at = "row"]
                                                   ELSE NotReading
  /\ UNCHANGED <<handler, tracked, store, published, crashes>>

ReadSteps ==
  /\ reader.at = "row"
  /\ reader' = [reader EXCEPT !.at = "done",
                              !.steps = {s \in diskSteps : s.id = reader.id}]
  /\ UNCHANGED <<handler, tracked, store, published, crashes>>
-----------------------------------------------------------------------------
\* 14 days pass over a run; no run is in flight for that long.
Ages(id) ==
  /\ \E r \in runs : r.id = id
  /\ \A q \in Requests : RunIdOf[q] = id => ~InFlight(q) /\ q \notin inThread
  /\ old' = old \union {id}
  /\ UNCHANGED <<handler, tracked, runs, steps, diskSteps, pendingStepWrites,
                 sinceCommit, reader, published, crashes>>

\* prune_older_than, from the retention job: commits, and leaves the counter alone.
Prune ==
  /\ LoopFree
  /\ old # {}
  /\ runs'  = {r \in runs : r.id \notin old}
  /\ steps' = {s \in steps : s.id \notin old}
  /\ old'   = {}
  /\ diskSteps' = steps'
  /\ sinceCommit' = 0
  /\ UNCHANGED <<handler, tracked, pendingStepWrites, reader, published, crashes>>

\* The process dies and a new one opens the file.
Crash ==
  /\ crashes < MaxCrashes
  /\ crashes'  = crashes + 1
  /\ phase'    = [q \in Requests |-> IF InFlight(q) THEN "lost" ELSE phase[q]]
  /\ inThread' = {}
  /\ tracked'  = << >>
  /\ steps'    = diskSteps
  /\ pendingStepWrites' = 0
  /\ sinceCommit' = 0
  /\ reader'    = NotReading
  /\ published' = {}
  /\ UNCHANGED <<emitted, dropped, runs, old, diskSteps>>

Next ==
  \/ \E q \in Requests :
       \/ Begin(q) \/ BeginFails(q)
       \/ Progress(q)
       \/ ThreadAddsStep(q) \/ ThreadFails(q)
       \/ ProgressReturns(q)
       \/ \E status \in {"completed", "failed"} : Finish(q, status) \/ FinishUnrecorded(q, status)
       \/ Cancelled(q)
  \/ \E id \in RunIds : ReadFlush(id) \/ Ages(id)
  \/ ReadRow \/ ReadSteps
  \/ Prune
  \/ Crash

Spec == Init /\ [][Next]_vars
-----------------------------------------------------------------------------
(* Properties. *)

TypeOK ==
  /\ phase \in [Requests -> {"new", "refused", "running", "recording", "failing",
                          "finished", "unrecorded", "cancelled", "lost"}]
  /\ emitted \in [Requests -> 0 .. MaxSteps]
  /\ inThread \subseteq {q \in Requests : phase[q] \in {"recording", "cancelled"}}
  /\ dropped \subseteq {q \in Requests : phase[q] \in {"failing", "finished", "unrecorded",
                                                   "cancelled", "lost"}}
  /\ tracked \in Seq(RunRows) /\ Len(tracked) <= MaxRuns
  /\ runs \subseteq RunRows
  /\ old \subseteq RunIds
  /\ steps \subseteq StepRows /\ diskSteps \subseteq StepRows
  /\ pendingStepWrites \in 0 .. Batch /\ sinceCommit \in Nat
  /\ reader \in [at : {"idle", "flushed", "row", "done"}, id : RunIds,
                 floor : SUBSET StepRows, steps : SUBSET StepRows]
  /\ crashes \in 0 .. MaxCrashes

\* A crash loses fewer than Batch steps, over all runs together: the counter never
\* falls behind the writes that are at stake, whoever commits, flushes or prunes.
CrashLosesLessThanABatch ==
  /\ sinceCommit <= pendingStepWrites
  /\ pendingStepWrites < Batch
  /\ Cardinality(steps \ diskSteps) <= sinceCommit

\* What a crash leaves of a run are its first steps: no committed step follows one
\* that is not, although several runs share the connection and its transaction.
PersistedStepsFormAPrefix ==
  \A s, t \in steps :
    s.by = t.by /\ s.index < t.index /\ t \in diskSteps => s \in diskSteps

\* A crash costs a tail of each run, of fewer than Batch steps over all runs
\* (control/replay.py, add_step counts and commits for all runs at once).
CrashCostsAShortTail == CrashLosesLessThanABatch /\ PersistedStepsFormAPrefix

\* A run that ended, and whose end was recorded, is on disk with all its steps until it is
\* pruned, even across crashes.  A step whose write raised ends its run: it is the last one,
\* nothing else of the run is missing, and the run has failed.
FinishedRunIsComplete ==
  \A r \in runs :
    r.status # "running" =>
      /\ r.by \in dropped => r.status = "failed"
      /\ \A i \in 1 .. emitted[r.by] :
           \/ [id |-> r.id, index |-> i, by |-> r.by] \in diskSteps
           \/ i = emitted[r.by] /\ r.by \in dropped

\* The live view and the replay view never contradict each other on a run, unless the
\* writes of its end raised: then the row goes on running.
TrackerAgreesWithReplay ==
  \A i \in 1 .. Len(tracked) : \A r \in runs :
    r.id = tracked[i].id =>
      /\ r.by = tracked[i].by
      /\ IF phase[r.by] = "unrecorded" THEN r.status = "running"
                                       ELSE r.status = tracked[i].status

\* A client that is told a run has ended finds it ended in the replay store.
EndIsPublishedOnceRecorded ==
  \A q \in Requests : \A r \in runs :
    r.by = q => /\ <<"run.completed", q>> \in published <=>
                     r.status = "completed" /\ <<"run.started", q>> \in published
                /\ <<"run.failed", q>> \in published <=>
                     r.status = "failed" /\ <<"run.started", q>> \in published

\* Tracker, replay store and the events on the bus tell one story of a run.
StoriesAgree == TrackerAgreesWithReplay /\ EndIsPublishedOnceRecorded

\* A dashboard that tails a live run gets every step recorded before it asked.
LiveTailIsCurrent ==
  reader.at = "done" => reader.floor \subseteq reader.steps
=============================================================================
