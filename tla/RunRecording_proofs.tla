------------------------- MODULE RunRecording_proofs -------------------------
(***************************************************************************)
(* Proofs about RunRecording, for any requests, steps, batch and tracker   *)
(* size and any number of crashes: what a crash costs, and, if run ids are *)
(* distinct, that ended runs are complete on disk, that tracker, store and *)
(* events tell one story, and that a live tail is current.                 *)
(*                                                                         *)
(* The batch counter never falls behind the rows at stake, which also      *)
(* makes a flush that finds nothing pending a proof that nothing is.  A    *)
(* run is complete because each step is on record before the agent emits   *)
(* the next, and the commit of the end takes all of them along.            *)
(***************************************************************************)
EXTENDS RunRecording, FiniteSetTheorems, SequenceTheorems, TLAPS

Row(q, i) == [id |-> RunIdOf[q], index |-> i, by |-> q]

\* A step is recorded once, after it was emitted; the one in a thread is still to come.
RowsAreEmitted ==
  /\ \A s \in steps \union diskSteps : /\ s.index <= emitted[s.by]
                                       /\ s.by \in inThread => s.index < emitted[s.by]
  /\ \A q \in inThread : emitted[q] > 0

BatchInv == /\ TypeOK
            /\ RowsAreEmitted
            /\ IsFiniteSet(steps \ diskSteps)
            /\ CrashLosesLessThanABatch
            /\ PersistedStepsFormAPrefix

\* Ids are drawn by the server, or chosen apart by the clients.
IdsAreDistinct == \A p, q \in Requests : RunIdOf[p] = RunIdOf[q] => p = q

\* Rows bear the id of the request they are of.
RowsBearTheirId ==
  /\ \A s \in steps \union diskSteps : s.id = RunIdOf[s.by]
  /\ \A r \in runs : r.id = RunIdOf[r.by]
  /\ \A i \in 1 .. Len(tracked) : tracked[i].id = RunIdOf[tracked[i].by]

\* An OrderedDict holds a key once.
TrackedOnce ==
  \A i, j \in 1 .. Len(tracked) : tracked[i].id = tracked[j].id => i = j

\* What a run in flight has emitted is on record, but for a step in its thread and
\* one whose write raised; it is not old.
InFlightIsOnRecord ==
  \A q \in Requests : InFlight(q) =>
    /\ RunIdOf[q] \notin old
    /\ \A i \in 1 .. emitted[q] :
         i < emitted[q] \/ q \notin inThread \union dropped => Row(q, i) \in steps

\* A run that ended is there to the last step, in the writer's view and on disk, but for a
\* last step whose write raised; then it has failed.
EndedIsOnRecord ==
  \A r \in runs : r.status # "running" =>
    /\ r.by \in dropped => r.status = "failed"
    /\ \A i \in 1 .. emitted[r.by] :
         i < emitted[r.by] \/ r.by \notin dropped => Row(r.by, i) \in steps \intersect diskSteps

\* Rows and events follow the phase of the request; a request that is new has no steps.
PhasesAreTold ==
  /\ \A q \in Requests : phase[q] = "new" => emitted[q] = 0
  /\ \A r \in runs : /\ phase[r.by] # "new"
                     /\ r.status # "running" => phase[r.by] = "finished"
  /\ \A q \in Requests :
       /\ InFlight(q) => <<"run.started", q>> \in published
       /\ <<"run.completed", q>> \in published \/ <<"run.failed", q>> \in published
            => phase[q] = "finished"

\* What a reader has seen stays committed while it reads.
FloorIsCommitted ==
  /\ reader.at \in {"flushed", "row"} =>
       /\ reader.floor \subseteq steps \intersect diskSteps
       /\ \A s \in reader.floor : s.id = reader.id
  /\ LiveTailIsCurrent

StoryInv == /\ RowsBearTheirId /\ TrackedOnce
            /\ InFlightIsOnRecord /\ EndedIsOnRecord
            /\ PhasesAreTold /\ StoriesAgree
            /\ FloorIsCommitted
-----------------------------------------------------------------------------
(* The tracker. *)

Rows == RunRows

\* An entry leaves: the ones behind it move up.
LEMMA WithoutOne ==
  ASSUME NEW s \in Seq(Rows), NEW k \in 1 .. Len(s)
  PROVE  /\ RemoveAt(s, k) \in Seq(Rows)
         /\ Len(RemoveAt(s, k)) = Len(s) - 1
         /\ \A i \in 1 .. Len(s) - 1 : RemoveAt(s, k)[i] = IF i < k THEN s[i] ELSE s[i + 1]
<1> DEFINE front == SubSeq(s, 1, k - 1)
           back  == SubSeq(s, k + 1, Len(s))
<1>1. Len(s) \in Nat /\ k \in Int /\ 1 <= k /\ k <= Len(s)
  BY LenProperties
<1>2. \A i \in 1 .. Len(s) : s[i] \in Rows
  BY ElementOfSeq
<1>3. /\ front \in Seq(Rows) /\ Len(front) = k - 1
      /\ \A i \in 1 .. k - 1 : front[i] = s[i]
  <2>1. \A i \in 1 .. k - 1 : s[i] \in Rows
    BY <1>1, <1>2
  <2> QED
    BY <1>1, <2>1, SubSeqProperties, Z3
<1>4. /\ back \in Seq(Rows) /\ Len(back) = Len(s) - k
      /\ \A i \in 1 .. Len(s) - k : back[i] = s[k + i]
  <2>1. \A i \in k + 1 .. Len(s) : s[i] \in Rows
    BY <1>1, <1>2
  <2> QED
    BY <1>1, <2>1, SubSeqProperties, Z3
<1> HIDE DEF front, back
<1>5. /\ front \o back \in Seq(Rows) /\ Len(front \o back) = Len(front) + Len(back)
      /\ \A i \in 1 .. Len(front) + Len(back) :
           (front \o back)[i] = IF i <= Len(front) THEN front[i] ELSE back[i - Len(front)]
  BY <1>3, <1>4, ConcatProperties
<1>6. RemoveAt(s, k) = front \o back
  BY DEF RemoveAt, front, back
<1>7. Len(front) + Len(back) = Len(s) - 1
  BY <1>1, <1>3, <1>4
<1>8. ASSUME NEW i \in 1 .. Len(s) - 1
      PROVE  RemoveAt(s, k)[i] = IF i < k THEN s[i] ELSE s[i + 1]
  <2>1. CASE i < k
    BY <1>1, <1>3, <1>5, <1>6, <1>7, <2>1
  <2>2. CASE ~(i < k)
    <3>1. i - (k - 1) \in 1 .. Len(s) - k /\ k + (i - (k - 1)) = i + 1
      BY <1>1, <2>2
    <3>2. RemoveAt(s, k)[i] = back[i - (k - 1)]
      BY <1>1, <1>3, <1>5, <1>6, <1>7, <2>2
    <3>3. back[i - (k - 1)] = s[k + (i - (k - 1))]
      BY <1>4, <3>1
    <3> QED
      BY <2>2, <3>1, <3>2, <3>3
  <2> QED
    BY <2>1, <2>2
<1> QED
  BY <1>5, <1>6, <1>7, <1>8

\* What becomes of the tracker: every entry is an old one of another id, or the new one, which
\* is at the end; no entry is held twice if none was.
Renewed(id, row) ==
  /\ \A i \in 1 .. Len(tracked') :
       \/ tracked'[i] = row
       \/ \E j \in 1 .. Len(tracked) : tracked'[i] = tracked[j] /\ tracked[j].id # id
  /\ TrackedOnce'

LEMMA PlaceIsThere ==
  ASSUME NEW id, IsTracked(id)
  PROVE  Place(id) \in 1 .. Len(tracked) /\ tracked[Place(id)].id = id
BY DEF IsTracked, Place

LEMMA OthersAreOthers ==
  ASSUME tracked \in Seq(Rows), NEW id
  PROVE  /\ Others(id) \in Seq(Rows)
         /\ Len(Others(id)) = IF IsTracked(id) THEN Len(tracked) - 1 ELSE Len(tracked)
         /\ TrackedOnce =>
              /\ \A i \in 1 .. Len(Others(id)) :
                   \E j \in 1 .. Len(tracked) : Others(id)[i] = tracked[j] /\ tracked[j].id # id
              /\ \A i, j \in 1 .. Len(Others(id)) : Others(id)[i].id = Others(id)[j].id => i = j
<1>1. Len(tracked) \in Nat
  BY LenProperties
<1>2. CASE IsTracked(id)
  <2> DEFINE k == Place(id)
  <2>1. k \in 1 .. Len(tracked) /\ tracked[k].id = id
    BY <1>2, PlaceIsThere
  <2>2. Others(id) = RemoveAt(tracked, k)
    BY <1>2 DEF Others
  <2> HIDE DEF k
  <2>3. /\ Others(id) \in Seq(Rows) /\ Len(Others(id)) = Len(tracked) - 1
        /\ \A i \in 1 .. Len(tracked) - 1 : Others(id)[i] = IF i < k THEN tracked[i] ELSE tracked[i + 1]
    BY <2>1, <2>2, WithoutOne
  <2>4. ASSUME TrackedOnce
        PROVE  /\ \A i \in 1 .. Len(Others(id)) :
                    \E j \in 1 .. Len(tracked) : Others(id)[i] = tracked[j] /\ tracked[j].id # id
               /\ \A i, j \in 1 .. Len(Others(id)) : Others(id)[i].id = Others(id)[j].id => i = j
    <3> DEFINE from(i) == IF i < k THEN i ELSE i + 1
    <3>1. ASSUME NEW i \in 1 .. Len(Others(id))
          PROVE  from(i) \in 1 .. Len(tracked) /\ from(i) # k /\ Others(id)[i] = tracked[from(i)]
      BY <1>1, <2>1, <2>3
    <3>2. ASSUME NEW i \in 1 .. Len(Others(id)), NEW j \in 1 .. Len(Others(id)), from(i) = from(j)
          PROVE  i = j
      BY <1>1, <2>1, <2>3, <3>2
    <3> HIDE DEF from
    <3>3. \A i \in 1 .. Len(Others(id)) : tracked[from(i)].id # id
      BY <2>1, <2>4, <3>1 DEF TrackedOnce
    <3>4. \A i, j \in 1 .. Len(Others(id)) : Others(id)[i].id = Others(id)[j].id => i = j
      BY <2>4, <3>1, <3>2 DEF TrackedOnce
    <3> QED
      BY <3>1, <3>3, <3>4
  <2> QED
    BY <1>2, <2>3, <2>4
<1>3. CASE ~IsTracked(id)
  BY <1>3 DEF Others, IsTracked, TrackedOnce
<1> QED
  BY <1>2, <1>3

LEMMA AppendedIsRenewed ==
  ASSUME tracked \in Seq(Rows), NEW row \in Rows, tracked' = Append(Others(row.id), row)
  PROVE  /\ tracked' \in Seq(Rows)
         /\ Len(tracked') = Len(Others(row.id)) + 1
         /\ TrackedOnce => Renewed(row.id, row)
<1> DEFINE others == Others(row.id)
<1>1. others \in Seq(Rows) /\ Len(others) \in Nat
  BY OthersAreOthers, LenProperties
<1>2. /\ tracked' \in Seq(Rows) /\ Len(tracked') = Len(others) + 1
      /\ \A i \in 1 .. Len(others) : tracked'[i] = others[i]
      /\ tracked'[Len(others) + 1] = row
  BY <1>1, AppendProperties
<1>3. ASSUME TrackedOnce
      PROVE  Renewed(row.id, row)
  <2>1. /\ \A i \in 1 .. Len(others) :
             \E j \in 1 .. Len(tracked) : others[i] = tracked[j] /\ tracked[j].id # row.id
        /\ \A i, j \in 1 .. Len(others) : others[i].id = others[j].id => i = j
    BY <1>3, OthersAreOthers
  <2> HIDE DEF others
  <2>2. \A i \in 1 .. Len(tracked') : i \in 1 .. Len(others) \/ i = Len(others) + 1
    BY <1>1, <1>2
  <2>3. \A i \in 1 .. Len(others) : others[i].id # row.id
    BY <2>1
  <2>4. ASSUME NEW i \in 1 .. Len(tracked'), NEW j \in 1 .. Len(tracked'),
               tracked'[i].id = tracked'[j].id
        PROVE  i = j
    <3>1. CASE i \in 1 .. Len(others) /\ j \in 1 .. Len(others)
      BY <1>2, <2>1, <2>4, <3>1
    <3>2. CASE i \in 1 .. Len(others) /\ j = Len(others) + 1
      BY <1>2, <2>3, <2>4, <3>2
    <3>3. CASE i = Len(others) + 1 /\ j \in 1 .. Len(others)
      BY <1>2, <2>3, <2>4, <3>3
    <3> QED
      BY <2>2, <3>1, <3>2, <3>3
  <2>5. TrackedOnce'
    BY <2>4 DEF TrackedOnce
  <2> QED
    BY <1>2, <2>1, <2>2, <2>5 DEF Renewed
<1> QED
  BY <1>2, <1>3

\* start: trimming drops entries from the front.
LEMMA TrackIsRenewed ==
  ASSUME tracked \in Seq(Rows), NEW row \in Rows, Track(row)
  PROVE  /\ tracked' \in Seq(Rows) /\ Len(tracked') <= MaxRuns
         /\ TrackedOnce => Renewed(row.id, row)
<1> DEFINE all == Append(Others(row.id), row)
<1>0. MaxRuns \in Nat /\ MaxRuns > 0
  BY BoundsAreUsable
<1>1. Others(row.id) \in Seq(Rows) /\ all \in Seq(Rows) /\ Len(all) \in Nat
  BY OthersAreOthers, AppendProperties, LenProperties
<1>2. CASE ~(Len(all) > MaxRuns)
  <2>1. tracked' = all
    BY <1>2 DEF Track
  <2> QED
    BY <1>0, <1>1, <1>2, <2>1, AppendedIsRenewed
<1>3. CASE Len(all) > MaxRuns
  <2> DEFINE from == Len(all) - MaxRuns + 1
  <2>1. tracked' = SubSeq(all, from, Len(all))
    BY <1>3 DEF Track
  <2>2. \A i \in from .. Len(all) : all[i] \in Rows
    BY <1>0, <1>1, <1>3, ElementOfSeq
  <2>3. /\ tracked' \in Seq(Rows) /\ Len(tracked') = MaxRuns
        /\ \A i \in 1 .. MaxRuns : tracked'[i] = all[from + i - 1]
    <3>1. from \in Int /\ Len(all) \in Int /\ from <= Len(all) /\ Len(all) - from + 1 = MaxRuns
      BY <1>0, <1>1, <1>3
    <3> HIDE DEF from, all
    <3>2. /\ SubSeq(all, from, Len(all)) \in Seq(Rows)
          /\ Len(SubSeq(all, from, Len(all))) = MaxRuns
          /\ \A i \in 1 .. MaxRuns : SubSeq(all, from, Len(all))[i] = all[from + i - 1]
      BY <2>2, <3>1, SubSeqProperties
    <3> QED
      BY <2>1, <3>2
  <2>4. ASSUME TrackedOnce
        PROVE  Renewed(row.id, row)
    <3> DEFINE others == Others(row.id)
    <3>1. /\ Len(others) \in Nat /\ Len(all) = Len(others) + 1 /\ all[Len(others) + 1] = row
          /\ \A i \in 1 .. Len(others) : all[i] = others[i]
      BY <1>1, AppendProperties, LenProperties
    <3>2. /\ \A i \in 1 .. Len(others) :
               \E j \in 1 .. Len(tracked) : others[i] = tracked[j] /\ tracked[j].id # row.id
          /\ \A i, j \in 1 .. Len(others) : others[i].id = others[j].id => i = j
      BY <2>4, OthersAreOthers
    <3>3. \A i \in 1 .. MaxRuns : from + i - 1 \in 1 .. Len(others) \/ from + i - 1 = Len(others) + 1
      BY <1>0, <1>3, <3>1
    <3>4. \A i, j \in 1 .. MaxRuns : from + i - 1 = from + j - 1 => i = j
      BY <1>0, <1>1
    <3> HIDE DEF from, all, others
    <3>5. \A i \in 1 .. Len(others) : others[i].id # row.id
      BY <3>2
    <3>6. ASSUME NEW i \in 1 .. Len(others) + 1, NEW j \in 1 .. Len(others) + 1,
                 all[i].id = all[j].id
          PROVE  i = j
      <4>1. CASE i \in 1 .. Len(others) /\ j \in 1 .. Len(others)
        BY <3>1, <3>2, <3>6, <4>1
      <4>2. CASE i \in 1 .. Len(others) /\ j = Len(others) + 1
        BY <3>1, <3>5, <3>6, <4>2
      <4>3. CASE i = Len(others) + 1 /\ j \in 1 .. Len(others)
        BY <3>1, <3>5, <3>6, <4>3
      <4>4. \A n \in 1 .. Len(others) + 1 : n \in 1 .. Len(others) \/ n = Len(others) + 1
        BY <3>1
      <4> QED
        BY <4>1, <4>2, <4>3, <4>4
    <3>7. ASSUME NEW i \in 1 .. MaxRuns
          PROVE  /\ from + i - 1 \in 1 .. Len(others) + 1
                 /\ \/ tracked'[i] = row
                    \/ \E j \in 1 .. Len(tracked) :
                         tracked'[i] = tracked[j] /\ tracked[j].id # row.id
      <4> DEFINE n == from + i - 1
      <4>1. tracked'[i] = all[n] /\ (n \in 1 .. Len(others) \/ n = Len(others) + 1)
        BY <2>3, <3>3
      <4> HIDE DEF n
      <4>2. n \in 1 .. Len(others) + 1
        BY <3>1, <4>1
      <4>3. \/ tracked'[i] = row
            \/ \E j \in 1 .. Len(tracked) : tracked'[i] = tracked[j] /\ tracked[j].id # row.id
        <5>1. CASE n \in 1 .. Len(others)
          BY <3>1, <3>2, <4>1, <5>1
        <5>2. CASE n = Len(others) + 1
          BY <3>1, <4>1, <5>2
        <5> QED
          BY <4>1, <5>1, <5>2
      <4> QED
        BY <4>2, <4>3 DEF n
    <3>8. ASSUME NEW i \in 1 .. Len(tracked'), NEW j \in 1 .. Len(tracked'),
                 tracked'[i].id = tracked'[j].id
          PROVE  i = j
      <4>1. i \in 1 .. MaxRuns /\ j \in 1 .. MaxRuns
        BY <2>3
      <4>2. all[from + i - 1].id = all[from + j - 1].id
        BY <2>3, <3>8, <4>1
      <4>3. from + i - 1 = from + j - 1
        BY <3>6, <3>7, <4>1, <4>2
      <4> QED
        BY <3>4, <4>1, <4>3
    <3>9. TrackedOnce'
      BY <3>8 DEF TrackedOnce
    <3> QED
      BY <2>3, <3>7, <3>9 DEF Renewed
  <2> QED
    BY <1>0, <2>3, <2>4
<1> QED
  BY <1>2, <1>3

\* step and finish: the run's own entry takes the status, the others stay.
LEMMA RetrackIsRenewed ==
  ASSUME tracked \in Seq(Rows), Len(tracked) <= MaxRuns, NEW id, NEW status \in RunStatus,
         Retrack(id, status)
  PROVE  /\ tracked' \in Seq(Rows) /\ Len(tracked') <= MaxRuns
         /\ TrackedOnce => /\ IsTracked(id) => Renewed(id, [TrackedRow(id) EXCEPT !.status = status])
                           /\ ~IsTracked(id) => tracked' = tracked
<1>1. CASE IsTracked(id)
  <2> DEFINE row == [TrackedRow(id) EXCEPT !.status = status]
  <2>1. TrackedRow(id) \in Rows /\ TrackedRow(id).id = id
    BY <1>1, PlaceIsThere, ElementOfSeq DEF TrackedRow
  <2>2. row \in Rows /\ row.id = id
    BY <2>1 DEF Rows, RunRows
  <2>3. tracked' = Append(Others(row.id), row)
    BY <1>1, <2>2 DEF Retrack
  <2>4. Len(Others(id)) = Len(tracked) - 1 /\ Len(tracked) \in Nat
    BY <1>1, OthersAreOthers, LenProperties
  <2> HIDE DEF row
  <2>5. /\ tracked' \in Seq(Rows) /\ Len(tracked') = Len(Others(id)) + 1
        /\ TrackedOnce => Renewed(id, row)
    BY <2>2, <2>3, AppendedIsRenewed
  <2>6. Len(tracked') <= MaxRuns
    BY <2>4, <2>5
  <2> QED
    BY <1>1, <2>5, <2>6 DEF row
<1>2. CASE ~IsTracked(id)
  BY <1>2 DEF Retrack
<1> QED
  BY <1>1, <1>2
-----------------------------------------------------------------------------
(* What a crash costs, whatever the ids are. *)

LossInv == /\ IsFiniteSet(steps \ diskSteps)
           /\ CrashLosesLessThanABatch
           /\ PersistedStepsFormAPrefix

LEMMA Bounds == /\ MaxSteps \in Nat /\ MaxSteps > 0
                /\ Batch \in Nat /\ Batch > 0
                /\ MaxRuns \in Nat /\ MaxCrashes \in Nat
BY BoundsAreUsable

LEMMA NotReadingIsTyped ==
  NotReading \in [at : {"idle", "flushed", "row", "done"}, id : RunIds,
                  floor : SUBSET StepRows, steps : SUBSET StepRows]
BY RunIdsGiven DEF NotReading

LEMMA RowIsARow ==
  ASSUME NEW q \in Requests, NEW i \in 1 .. MaxSteps
  PROVE  Row(q, i) \in StepRows
BY RunIdsGiven DEF Row, StepRows

\* Once all is committed nothing is at stake, however it came about: a commit, a prune, a crash.
LEMMA CommittedIsSafe ==
  ASSUME diskSteps' = steps', sinceCommit' = 0, pendingStepWrites' \in Nat,
         pendingStepWrites' < Batch
  PROVE  LossInv'
<1>1. (steps \ diskSteps)' = {}
  OBVIOUS
<1>2. IsFiniteSet((steps \ diskSteps)') /\ Cardinality((steps \ diskSteps)') = 0
  BY <1>1, FS_EmptySet
<1>3. PersistedStepsFormAPrefix'
  BY DEF PersistedStepsFormAPrefix
<1> QED
  BY <1>2, <1>3 DEF LossInv, CrashLosesLessThanABatch

LEMMA CommitIsSafe ==
  ASSUME Commit PROVE LossInv' /\ pendingStepWrites' \in 0 .. Batch /\ sinceCommit' \in Nat
BY CommittedIsSafe, Bounds DEF Commit

\* A step that is added counts, and follows all the steps of its run.
LEMMA AddedStepIsCounted ==
  ASSUME BatchInv, NEW q \in Requests, q \in inThread, AddStep(q, emitted[q])
  PROVE  /\ LossInv'
         /\ pendingStepWrites' \in 0 .. Batch /\ sinceCommit' \in Nat
         /\ \A s \in steps' \union diskSteps' : s \in steps \union diskSteps \/ s = Row(q, emitted[q])
<1> DEFINE new == Row(q, emitted[q])
<1>1. /\ pendingStepWrites \in Nat /\ sinceCommit \in Nat /\ sinceCommit <= pendingStepWrites
      /\ IsFiniteSet(steps \ diskSteps) /\ Cardinality(steps \ diskSteps) <= sinceCommit
      /\ emitted[q] \in Nat /\ emitted[q] > 0
  BY Bounds DEF BatchInv, TypeOK, CrashLosesLessThanABatch, RowsAreEmitted
<1>2. steps' = {s \in steps : ~(s.id = RunIdOf[q] /\ s.index = emitted[q])} \union {new}
  BY DEF AddStep, Row
<1>3. CASE pendingStepWrites + 1 >= Batch
  <2>1. Commit
    BY <1>3 DEF AddStep
  <2>2. diskSteps' = steps'
    BY <2>1 DEF Commit
  <2> QED
    BY <1>2, <2>1, <2>2, CommitIsSafe
<1>4. CASE ~(pendingStepWrites + 1 >= Batch)
  <2>1. /\ pendingStepWrites' = pendingStepWrites + 1
        /\ sinceCommit' = sinceCommit + 1
        /\ diskSteps' = diskSteps
    BY <1>4 DEF AddStep
  <2>2. /\ pendingStepWrites' \in 0 .. Batch /\ sinceCommit' \in Nat
        /\ sinceCommit' <= pendingStepWrites' /\ pendingStepWrites' < Batch
    BY <1>1, <1>4, <2>1, Bounds
  <2>3. IsFiniteSet(steps' \ diskSteps') /\ Cardinality(steps' \ diskSteps') <= sinceCommit'
    <3>1. /\ IsFiniteSet((steps \ diskSteps) \union {new})
          /\ Cardinality((steps \ diskSteps) \union {new}) <= Cardinality(steps \ diskSteps) + 1
      <4> DEFINE D == steps \ diskSteps
      <4>1. IsFiniteSet(D) /\ Cardinality(D) \in Nat
        BY <1>1, FS_CardinalityType
      <4> HIDE DEF new, D
      <4>2. /\ IsFiniteSet(D \union {new})
            /\ \/ Cardinality(D \union {new}) = Cardinality(D)
               \/ Cardinality(D \union {new}) = Cardinality(D) + 1
        BY <4>1, FS_AddElement
      <4>3. IsFiniteSet(D \union {new}) /\ Cardinality(D \union {new}) <= Cardinality(D) + 1
        BY <4>1, <4>2
      <4> QED
        BY <4>3 DEF D
    <3>2. steps' \ diskSteps' \subseteq (steps \ diskSteps) \union {new}
      BY <1>2, <2>1
    <3>3. /\ IsFiniteSet(steps' \ diskSteps')
          /\ Cardinality(steps' \ diskSteps') <= Cardinality((steps \ diskSteps) \union {new})
      BY <3>1, <3>2, FS_Subset
    <3>4. /\ Cardinality(steps \ diskSteps) \in Nat
          /\ Cardinality(steps' \ diskSteps') \in Nat
          /\ Cardinality((steps \ diskSteps) \union {new}) \in Nat
      BY <1>1, <3>1, <3>3, FS_CardinalityType
    <3> HIDE DEF new
    <3> QED
      BY <1>1, <2>1, <3>1, <3>3, <3>4
  <2>4. PersistedStepsFormAPrefix'
    <3> SUFFICES ASSUME NEW s \in steps', NEW t \in steps', s.by = t.by, s.index < t.index,
                        t \in diskSteps
                 PROVE  s \in diskSteps
      BY <2>1 DEF PersistedStepsFormAPrefix
    <3>1. t.index <= emitted[t.by] /\ (t.by \in inThread => t.index < emitted[t.by])
      BY DEF BatchInv, RowsAreEmitted
    <3>2. t.index \in Nat
      BY Bounds DEF BatchInv, TypeOK, StepRows
    <3>3. new.by = q /\ new.index = emitted[q]
      BY DEF Row
    <3> HIDE DEF new
    <3>4. t # new
      BY <1>1, <3>1, <3>3
    <3>5. s # new
      BY <1>1, <3>1, <3>2, <3>3
    <3> QED
      BY <1>2, <3>4, <3>5 DEF BatchInv, PersistedStepsFormAPrefix
  <2>5. LossInv'
    BY <2>2, <2>3, <2>4 DEF LossInv, CrashLosesLessThanABatch
  <2> QED
    BY <1>2, <2>1, <2>2, <2>5
<1> QED
  BY <1>3, <1>4

LEMMA BatchInvInit == Init => BatchInv
<1> SUFFICES ASSUME Init PROVE BatchInv
  OBVIOUS
<1>1. TypeOK
  <2>1. 0 \in 0 .. MaxSteps /\ 0 \in 0 .. Batch /\ 0 \in 0 .. MaxCrashes
    BY Bounds
  <2>2. << >> \in Seq(RunRows) /\ Len(<< >>) <= MaxRuns
    BY Bounds, EmptySeq
  <2> QED
    BY <2>1, <2>2, NotReadingIsTyped DEF Init, TypeOK
<1>2. RowsAreEmitted
  BY DEF Init, RowsAreEmitted
<1>3. steps \ diskSteps = {}
  BY DEF Init
<1>4. IsFiniteSet(steps \ diskSteps) /\ CrashLosesLessThanABatch
  BY <1>3, Bounds, FS_EmptySet DEF Init, CrashLosesLessThanABatch
<1>5. PersistedStepsFormAPrefix
  BY DEF Init, PersistedStepsFormAPrefix
<1> QED
  BY <1>1, <1>2, <1>4, <1>5 DEF BatchInv

LEMMA LossIsKept ==
  ASSUME BatchInv, UNCHANGED <<steps, diskSteps, pendingStepWrites, sinceCommit>>
  PROVE  LossInv'
BY DEF BatchInv, LossInv, CrashLosesLessThanABatch, PersistedStepsFormAPrefix

\* Rows that stay are of steps that were emitted, and threads only end.
LEMMA RowsStayEmitted ==
  ASSUME BatchInv, emitted' = emitted, inThread' \subseteq inThread,
         steps' \union diskSteps' \subseteq steps \union diskSteps
  PROVE  RowsAreEmitted'
BY DEF BatchInv, RowsAreEmitted

\* A row as FinishRun leaves it.
LEMMA EndedRows ==
  ASSUME runs \subseteq RunRows, NEW q \in Requests, NEW status \in RunStatus,
         FinishRun(q, status)
  PROVE  runs' \subseteq RunRows
<1>1. ASSUME NEW r \in runs
      PROVE  (IF r.id = RunIdOf[q] THEN [r EXCEPT !.status = status] ELSE r) \in RunRows
  BY DEF RunRows
<1> QED
  BY <1>1 DEF FinishRun

LEMMA BatchInvNext == BatchInv /\ [Next]_vars => BatchInv'
<1> SUFFICES ASSUME BatchInv, [Next]_vars PROVE TypeOK' /\ RowsAreEmitted' /\ LossInv'
  BY DEF BatchInv, LossInv
<1>0. TypeOK /\ RowsAreEmitted
  BY DEF BatchInv
<1>1. ASSUME NEW q \in Requests, Begin(q)
      PROVE  TypeOK' /\ RowsAreEmitted' /\ LossInv'
  <2> DEFINE row == [id |-> RunIdOf[q], by |-> q, status |-> "running"]
  <2>1. row \in RunRows
    BY RunIdsGiven DEF RunRows, RunStatus
  <2>2. tracked' \in Seq(RunRows) /\ Len(tracked') <= MaxRuns
    BY <1>0, <1>1, <2>1, TrackIsRenewed DEF Begin, TypeOK, Rows
  <2>3. /\ Commit /\ steps' = steps
        /\ runs' \subseteq runs \union {row} /\ old' \subseteq old
    BY <1>1 DEF Begin, StartRun
  <2>4. /\ phase' = [phase EXCEPT ![q] = "running"] /\ phase[q] = "new"
        /\ UNCHANGED <<emitted, inThread, dropped, reader, crashes>>
    BY <1>1 DEF Begin
  <2>5. steps' = steps /\ diskSteps' = steps
    BY <2>3 DEF Commit
  <2> HIDE DEF row
  <2>6. TypeOK'
    BY <1>0, <2>1, <2>2, <2>3, <2>4, <2>5, CommitIsSafe DEF TypeOK
  <2> QED
    BY <2>3, <2>4, <2>5, <2>6, CommitIsSafe, RowsStayEmitted
<1>2. ASSUME NEW q \in Requests, Progress(q)
      PROVE  TypeOK' /\ RowsAreEmitted' /\ LossInv'
  <2>1. /\ phase[q] = "running" /\ phase' = [phase EXCEPT ![q] = "recording"]
        /\ emitted[q] < MaxSteps /\ emitted' = [emitted EXCEPT ![q] = @ + 1]
        /\ inThread' = inThread \union {q}
        /\ UNCHANGED <<dropped, runs, old, steps, diskSteps, pendingStepWrites, sinceCommit, reader, crashes>>
    BY <1>2 DEF Progress, store
  <2>2. emitted[q] \in Nat /\ emitted[q] + 1 \in 0 .. MaxSteps
    BY <1>0, <2>1, Bounds DEF TypeOK
  <2>3. q \notin inThread
    BY <1>0, <2>1 DEF TypeOK
  <2>4. tracked' \in Seq(RunRows) /\ Len(tracked') <= MaxRuns
    <3> DEFINE status == IF IsTracked(RunIdOf[q]) THEN TrackedRow(RunIdOf[q]).status ELSE "running"
    <3>1. Retrack(RunIdOf[q], status)
      BY <1>2 DEF Progress
    <3>2. status \in RunStatus
      <4>1. IsTracked(RunIdOf[q]) => TrackedRow(RunIdOf[q]) \in RunRows
        BY <1>0, PlaceIsThere, ElementOfSeq DEF TrackedRow, TypeOK
      <4> QED
        BY <4>1 DEF RunRows, RunStatus
    <3> HIDE DEF status
    <3> QED
      BY <1>0, <3>1, <3>2, RetrackIsRenewed DEF TypeOK, Rows
  <2>5. TypeOK'
    BY <1>0, <2>1, <2>2, <2>4 DEF TypeOK
  <2>6. /\ emitted'[q] = emitted[q] + 1
        /\ \A p \in Requests : p # q => emitted'[p] = emitted[p]
    BY <1>0, <2>1 DEF TypeOK
  <2>7. ASSUME NEW s \in steps' \union diskSteps'
        PROVE  s.index <= emitted'[s.by] /\ (s.by \in inThread' => s.index < emitted'[s.by])
    <3>1. s \in steps \union diskSteps /\ s.by \in Requests /\ s.index \in Nat
      BY <1>0, <2>1, Bounds DEF TypeOK, StepRows
    <3>2. s.index <= emitted[s.by] /\ (s.by \in inThread => s.index < emitted[s.by])
      BY <1>0, <3>1 DEF RowsAreEmitted
    <3> QED
      BY <2>1, <2>2, <2>6, <3>1, <3>2
  <2>8. \A p \in inThread' : emitted'[p] > 0
    BY <1>0, <2>1, <2>2, <2>6 DEF RowsAreEmitted, TypeOK
  <2> QED
    BY <2>1, <2>5, <2>7, <2>8, LossIsKept DEF RowsAreEmitted
<1>3. ASSUME NEW q \in Requests, ThreadAddsStep(q)
      PROVE  TypeOK' /\ RowsAreEmitted' /\ LossInv'
  <2>1. /\ q \in inThread /\ inThread' = inThread \ {q} /\ AddStep(q, emitted[q])
        /\ UNCHANGED <<phase, emitted, dropped, tracked, reader, crashes>>
    BY <1>3 DEF ThreadAddsStep
  <2>2. /\ LossInv'
        /\ pendingStepWrites' \in 0 .. Batch /\ sinceCommit' \in Nat
        /\ \A s \in steps' \union diskSteps' : s \in steps \union diskSteps \/ s = Row(q, emitted[q])
    BY <2>1, AddedStepIsCounted
  <2>3. Row(q, emitted[q]) \in StepRows
    <3>1. emitted[q] \in 1 .. MaxSteps
      BY <1>0, <2>1, Bounds DEF TypeOK, RowsAreEmitted
    <3> QED
      BY <3>1, RowIsARow
  <2>4. runs' = runs /\ old' = old
    BY <2>1 DEF AddStep
  <2>5. TypeOK'
    BY <1>0, <2>1, <2>2, <2>3, <2>4 DEF TypeOK
  <2>6. Row(q, emitted[q]).by = q /\ Row(q, emitted[q]).index = emitted[q] /\ emitted[q] \in Nat
    BY <1>0, Bounds DEF Row, TypeOK
  <2>7. ASSUME NEW s \in steps' \union diskSteps'
        PROVE  s.index <= emitted'[s.by] /\ (s.by \in inThread' => s.index < emitted'[s.by])
    <3>1. CASE s \in steps \union diskSteps
      BY <1>0, <2>1, <3>1 DEF RowsAreEmitted
    <3>2. CASE s = Row(q, emitted[q])
      <4>1. s.by = q /\ s.index = emitted[q] /\ q \notin inThread'
        BY <2>1, <2>6, <3>2
      <4> QED
        BY <2>1, <2>6, <4>1
    <3> QED
      BY <2>2, <3>1, <3>2
  <2>8. RowsAreEmitted'
    BY <1>0, <2>1, <2>7 DEF RowsAreEmitted
  <2> QED
    BY <2>2, <2>5, <2>8
<1>4. ASSUME NEW q \in Requests, ProgressReturns(q)
      PROVE  TypeOK' /\ RowsAreEmitted' /\ LossInv'
  <2>1. /\ q \notin inThread /\ phase[q] = "recording" /\ phase' = [phase EXCEPT ![q] = "running"]
        /\ UNCHANGED <<emitted, inThread, dropped, tracked, runs, old, steps, diskSteps,
                       pendingStepWrites, sinceCommit, reader, crashes>>
    BY <1>4 DEF ProgressReturns, store
  <2>2. TypeOK'
    BY <1>0, <2>1 DEF TypeOK
  <2> QED
    BY <2>1, <2>2, LossIsKept, RowsStayEmitted
<1>5. ASSUME NEW q \in Requests, NEW status \in {"completed", "failed"}, Finish(q, status)
      PROVE  TypeOK' /\ RowsAreEmitted' /\ LossInv'
  <2>1. /\ phase[q] \in {"running", "failing"} /\ phase' = [phase EXCEPT ![q] = "finished"]
        /\ Retrack(RunIdOf[q], status) /\ FinishRun(q, status)
        /\ UNCHANGED <<emitted, inThread, dropped, reader, crashes>>
    BY <1>5 DEF Finish, MayEndAs
  <2>2. status \in RunStatus
    BY DEF RunStatus
  <2>3. tracked' \in Seq(RunRows) /\ Len(tracked') <= MaxRuns
    BY <1>0, <2>1, <2>2, RetrackIsRenewed DEF TypeOK, Rows
  <2>4. runs' \subseteq RunRows /\ old' = old
    BY <1>0, <2>1, <2>2, EndedRows DEF TypeOK, FinishRun
  <2>5. Commit /\ steps' = steps /\ diskSteps' = steps
    BY <2>1 DEF FinishRun, Commit
  <2>6. TypeOK'
    BY <1>0, <2>1, <2>3, <2>4, <2>5, CommitIsSafe DEF TypeOK
  <2> QED
    BY <2>1, <2>5, <2>6, CommitIsSafe, RowsStayEmitted
<1>6. ASSUME NEW q \in Requests, Cancelled(q)
      PROVE  TypeOK' /\ RowsAreEmitted' /\ LossInv'
  <2>1. /\ InFlight(q) /\ phase' = [phase EXCEPT ![q] = "cancelled"]
        /\ UNCHANGED <<emitted, inThread, dropped, tracked, runs, old, steps, diskSteps,
                       pendingStepWrites, sinceCommit, reader, crashes>>
    BY <1>6 DEF Cancelled, store
  <2>2. TypeOK'
    BY <1>0, <2>1 DEF TypeOK
  <2> QED
    BY <2>1, <2>2, LossIsKept, RowsStayEmitted
<1>7. ASSUME NEW id \in RunIds, ReadFlush(id)
      PROVE  TypeOK' /\ RowsAreEmitted' /\ LossInv'
  <2>1. /\ FlushForReader
        /\ reader' = [NotReading EXCEPT !.at = "flushed", !.id = id, !.floor = StepsOf(id)]
        /\ UNCHANGED <<phase, emitted, inThread, dropped, tracked, crashes>>
    BY <1>7 DEF ReadFlush, handler
  <2>2. runs' = runs /\ old' = old /\ steps' = steps
    BY <2>1 DEF FlushForReader
  <2>3. reader' \in [at : {"idle", "flushed", "row", "done"}, id : RunIds,
                     floor : SUBSET StepRows, steps : SUBSET StepRows]
    <3>1. StepsOf(id) \subseteq StepRows
      BY <1>0 DEF TypeOK, StepsOf
    <3> QED
      BY <2>1, <3>1, NotReadingIsTyped
  <2>4. /\ diskSteps' \subseteq steps \union diskSteps
        /\ LossInv' /\ pendingStepWrites' \in 0 .. Batch /\ sinceCommit' \in Nat
    <3>1. CASE pendingStepWrites > 0
      BY <2>1, <2>2, <3>1, CommitIsSafe DEF FlushForReader, Commit
    <3>2. CASE ~(pendingStepWrites > 0)
      BY <1>0, <2>1, <2>2, <3>2, LossIsKept DEF FlushForReader, TypeOK
    <3> QED
      BY <3>1, <3>2
  <2>5. TypeOK'
    BY <1>0, <2>1, <2>2, <2>3, <2>4 DEF TypeOK
  <2> QED
    BY <2>1, <2>2, <2>4, <2>5, RowsStayEmitted
<1>8. ASSUME NEW id \in RunIds, Ages(id)
      PROVE  TypeOK' /\ RowsAreEmitted' /\ LossInv'
  <2>1. /\ old' = old \union {id}
        /\ UNCHANGED <<phase, emitted, inThread, dropped, tracked, runs, steps, diskSteps,
                       pendingStepWrites, sinceCommit, reader, crashes>>
    BY <1>8 DEF Ages, handler
  <2>2. TypeOK'
    BY <1>0, <2>1 DEF TypeOK
  <2> QED
    BY <2>1, <2>2, LossIsKept, RowsStayEmitted
<1>9. ASSUME ReadRow \/ ReadSteps
      PROVE  TypeOK' /\ RowsAreEmitted' /\ LossInv'
  <2>1. UNCHANGED <<phase, emitted, inThread, dropped, tracked, runs, old, steps, diskSteps,
                    pendingStepWrites, sinceCommit, crashes>>
    BY <1>9 DEF ReadRow, ReadSteps, handler, store
  <2>2. reader' \in [at : {"idle", "flushed", "row", "done"}, id : RunIds,
                     floor : SUBSET StepRows, steps : SUBSET StepRows]
    <3>1. CASE ReadRow
      BY <1>0, <3>1, NotReadingIsTyped DEF ReadRow, TypeOK
    <3>2. CASE ReadSteps
      BY <1>0, <3>2 DEF ReadSteps, TypeOK
    <3> QED
      BY <1>9, <3>1, <3>2
  <2>3. TypeOK'
    BY <1>0, <2>1, <2>2 DEF TypeOK
  <2> QED
    BY <2>1, <2>3, LossIsKept, RowsStayEmitted
<1>10. ASSUME Prune
       PROVE  TypeOK' /\ RowsAreEmitted' /\ LossInv'
  <2>1. /\ runs' \subseteq runs /\ steps' \subseteq steps /\ old' = {}
        /\ diskSteps' = steps' /\ sinceCommit' = 0
        /\ UNCHANGED <<phase, emitted, inThread, dropped, tracked, pendingStepWrites, reader, crashes>>
    BY <1>10 DEF Prune, handler
  <2>2. LossInv'
    BY <1>0, <2>1, CommittedIsSafe, Bounds DEF TypeOK, BatchInv, CrashLosesLessThanABatch
  <2>3. TypeOK'
    BY <1>0, <2>1 DEF TypeOK
  <2> QED
    BY <2>1, <2>2, <2>3, RowsStayEmitted
<1>11. ASSUME Crash
       PROVE  TypeOK' /\ RowsAreEmitted' /\ LossInv'
  <2>1. /\ crashes < MaxCrashes /\ crashes' = crashes + 1
        /\ phase' = [q \in Requests |-> IF InFlight(q) THEN "lost" ELSE phase[q]]
        /\ inThread' = {} /\ tracked' = << >>
        /\ steps' = diskSteps /\ diskSteps' = diskSteps
        /\ pendingStepWrites' = 0 /\ sinceCommit' = 0 /\ reader' = NotReading
        /\ UNCHANGED <<emitted, dropped, runs, old>>
    BY <1>11 DEF Crash
  <2>2. LossInv'
    BY <2>1, CommittedIsSafe, Bounds
  <2>3. << >> \in Seq(RunRows) /\ Len(<< >>) <= MaxRuns
    BY Bounds, EmptySeq
  <2>4. crashes + 1 \in 0 .. MaxCrashes /\ 0 \in 0 .. Batch
    BY <1>0, <2>1, Bounds DEF TypeOK
  <2>5. TypeOK'
    BY <1>0, <2>1, <2>3, <2>4, NotReadingIsTyped DEF TypeOK
  <2> QED
    BY <2>1, <2>2, <2>5, RowsStayEmitted
<1>12. ASSUME NEW q \in Requests, BeginFails(q)
       PROVE  TypeOK' /\ RowsAreEmitted' /\ LossInv'
  <2> DEFINE row == [id |-> RunIdOf[q], by |-> q, status |-> "running"]
  <2>1. row \in RunRows
    BY RunIdsGiven DEF RunRows, RunStatus
  <2>2. tracked' \in Seq(RunRows) /\ Len(tracked') <= MaxRuns
    BY <1>0, <1>12, <2>1, TrackIsRenewed DEF BeginFails, TypeOK, Rows
  <2>3. /\ phase[q] = "new" /\ phase' = [phase EXCEPT ![q] = "refused"]
        /\ UNCHANGED <<emitted, inThread, dropped, runs, old, steps, diskSteps,
                       pendingStepWrites, sinceCommit, reader, crashes>>
    BY <1>12 DEF BeginFails, store
  <2>4. TypeOK'
    BY <1>0, <2>2, <2>3 DEF TypeOK
  <2> QED
    BY <2>3, <2>4, LossIsKept, RowsStayEmitted
<1>13. ASSUME NEW q \in Requests, ThreadFails(q)
       PROVE  TypeOK' /\ RowsAreEmitted' /\ LossInv'
  <2>1. /\ q \in inThread /\ inThread' = inThread \ {q} /\ dropped' = dropped \union {q}
        /\ phase' = IF phase[q] = "recording" THEN [phase EXCEPT ![q] = "failing"] ELSE phase
        /\ UNCHANGED <<emitted, tracked, runs, old, steps, diskSteps,
                       pendingStepWrites, sinceCommit, reader, crashes>>
    BY <1>13 DEF ThreadFails, store
  <2>2. TypeOK'
    BY <1>0, <2>1 DEF TypeOK
  <2> QED
    BY <2>1, <2>2, LossIsKept, RowsStayEmitted
<1>14. ASSUME NEW q \in Requests, NEW status \in {"completed", "failed"}, FinishUnrecorded(q, status)
       PROVE  TypeOK' /\ RowsAreEmitted' /\ LossInv'
  <2>1. /\ phase[q] \in {"running", "failing"} /\ phase' = [phase EXCEPT ![q] = "unrecorded"]
        /\ Retrack(RunIdOf[q], status) \/ tracked' = tracked
        /\ UNCHANGED <<emitted, inThread, dropped, runs, old, steps, diskSteps,
                       pendingStepWrites, sinceCommit, reader, crashes>>
    BY <1>14 DEF FinishUnrecorded, MayEndAs, store
  <2>2. status \in RunStatus
    BY DEF RunStatus
  <2>3. tracked' \in Seq(RunRows) /\ Len(tracked') <= MaxRuns
    BY <1>0, <2>1, <2>2, RetrackIsRenewed DEF TypeOK, Rows
  <2>4. TypeOK'
    BY <1>0, <2>1, <2>3 DEF TypeOK
  <2> QED
    BY <2>1, <2>4, LossIsKept, RowsStayEmitted
<1>15. CASE UNCHANGED vars
  <2>1. UNCHANGED <<phase, emitted, inThread, dropped, tracked, runs, old, steps, diskSteps,
                    pendingStepWrites, sinceCommit, reader, crashes>>
    BY <1>15 DEF vars, handler, store
  <2>2. TypeOK'
    BY <1>0, <2>1 DEF TypeOK
  <2> QED
    BY <2>1, <2>2, LossIsKept, RowsStayEmitted
<1> QED
  BY <1>1, <1>2, <1>3, <1>4, <1>5, <1>6, <1>7, <1>8, <1>9, <1>10, <1>11, <1>12,
     <1>13, <1>14, <1>15 DEF Next

THEOREM RecordingTypeCorrectness == Spec => []TypeOK
<1>1. BatchInv => TypeOK
  BY DEF BatchInv
<1> QED
  BY BatchInvInit, BatchInvNext, <1>1, PTL DEF Spec

THEOREM CrashesCostShortTails == Spec => []CrashCostsAShortTail
<1>1. BatchInv => CrashCostsAShortTail
  BY DEF BatchInv, CrashCostsAShortTail
<1> QED
  BY BatchInvInit, BatchInvNext, <1>1, PTL DEF Spec
-----------------------------------------------------------------------------
(* What the records tell, if run ids are distinct. *)

LEMMA StoryInvInit == Init => StoryInv
<1> SUFFICES ASSUME Init PROVE StoryInv
  OBVIOUS
<1>1. tracked = << >> /\ Len(tracked) = 0 /\ steps = {} /\ diskSteps = {} /\ runs = {}
  BY EmptySeq DEF Init
<1>2. RowsBearTheirId /\ TrackedOnce /\ EndedIsOnRecord /\ StoriesAgree
  BY <1>1 DEF RowsBearTheirId, TrackedOnce, EndedIsOnRecord, StoriesAgree,
              TrackerAgreesWithReplay, EndIsPublishedOnceRecorded
<1>3. InFlightIsOnRecord /\ PhasesAreTold
  BY DEF Init, InFlightIsOnRecord, PhasesAreTold, InFlight
<1>4. FloorIsCommitted
  BY DEF Init, NotReading, FloorIsCommitted, LiveTailIsCurrent
<1> QED
  BY <1>2, <1>3, <1>4 DEF StoryInv

\* A worker thread's step is a new row: with distinct ids it replaces none.
LEMMA AddedStepIsNew ==
  ASSUME IdsAreDistinct, BatchInv, RowsBearTheirId, NEW q \in Requests, q \in inThread,
         AddStep(q, emitted[q])
  PROVE  /\ steps' = steps \union {Row(q, emitted[q])}
         /\ diskSteps' = diskSteps \/ diskSteps' = steps'
<1>1. steps' = {s \in steps : ~(s.id = RunIdOf[q] /\ s.index = emitted[q])}
                 \union {Row(q, emitted[q])}
  BY DEF AddStep, Row
<1>2. ASSUME NEW s \in steps, s.id = RunIdOf[q] PROVE s.index # emitted[q]
  <2>1. s.by \in Requests /\ s.id = RunIdOf[s.by]
    BY DEF BatchInv, TypeOK, StepRows, RowsBearTheirId
  <2>2. s.by = q
    BY <1>2, <2>1 DEF IdsAreDistinct
  <2>3. s.index < emitted[q] /\ s.index \in Nat /\ emitted[q] \in Nat
    BY <2>2, Bounds DEF BatchInv, RowsAreEmitted, TypeOK, StepRows
  <2> QED
    BY <2>3
<1>3. {s \in steps : ~(s.id = RunIdOf[q] /\ s.index = emitted[q])} = steps
  BY <1>2
<1> QED
  BY <1>1, <1>3 DEF AddStep, Commit

\* With nothing pending, nothing is at stake: a reader need not commit.
LEMMA NothingPendingIsCommitted ==
  ASSUME BatchInv, ~(pendingStepWrites > 0)
  PROVE  steps \subseteq diskSteps
<1>1. pendingStepWrites \in Nat /\ sinceCommit \in Nat /\ sinceCommit <= pendingStepWrites
  BY Bounds DEF BatchInv, TypeOK, CrashLosesLessThanABatch
<1>2. IsFiniteSet(steps \ diskSteps) /\ Cardinality(steps \ diskSteps) <= sinceCommit
  BY DEF BatchInv, CrashLosesLessThanABatch
<1>3. Cardinality(steps \ diskSteps) \in Nat
  BY <1>2, FS_CardinalityType
<1>4. Cardinality(steps \ diskSteps) = 0
  BY <1>1, <1>2, <1>3
<1>5. steps \ diskSteps = {}
  BY <1>2, <1>4, FS_EmptySet
<1> QED
  BY <1>5

\* Outside of a read, what happens to the store is nothing to the reader.
LEMMA NoReadNoFloor ==
  ASSUME FloorIsCommitted, LoopFree, reader' = reader
  PROVE  FloorIsCommitted'
BY DEF FloorIsCommitted, LiveTailIsCurrent, LoopFree

\* Rows are kept and become more committed, and the reader is left alone.
LEMMA FloorStays ==
  ASSUME FloorIsCommitted, reader' = reader, steps \subseteq steps',
         steps \intersect diskSteps \subseteq diskSteps'
  PROVE  FloorIsCommitted'
BY DEF FloorIsCommitted, LiveTailIsCurrent

\* Entries of the tracker, old and new, bear the id of their request.
LEMMA RenewedBearTheirId ==
  ASSUME RowsBearTheirId, NEW id, NEW row, row.id = RunIdOf[row.by], Renewed(id, row)
  PROVE  \A i \in 1 .. Len(tracked') : tracked'[i].id = RunIdOf[tracked'[i].by]
BY DEF RowsBearTheirId, Renewed

LEMMA BeginTellsTheStory ==
  ASSUME IdsAreDistinct, BatchInv, StoryInv, NEW q \in Requests, Begin(q)
  PROVE  StoryInv'
<1> DEFINE row == [id |-> RunIdOf[q], by |-> q, status |-> "running"]
<1> USE DEF StoryInv
<1>1. TypeOK /\ phase[q] = "new" /\ phase' = [phase EXCEPT ![q] = "running"] /\ LoopFree
  BY DEF Begin, BatchInv
<1>2. /\ runs' = {r \in runs : r.id # RunIdOf[q]} \union {row}
      /\ old' = old \ {RunIdOf[q]} /\ steps' = steps /\ diskSteps' = steps
      /\ published' = published \union {<<"run.started", q>>}
      /\ UNCHANGED <<emitted, inThread, dropped, reader, crashes>>
  BY DEF Begin, StartRun, Commit, Publish
<1>3. row \in RunRows /\ row.id = RunIdOf[q] /\ row.by = q /\ row.status = "running"
  BY RunIdsGiven DEF RunRows, RunStatus
<1>4. Renewed(row.id, row)
  BY <1>1, <1>3, TrackIsRenewed DEF Begin, TypeOK, Rows
<1> HIDE DEF row
<1>5. /\ phase'[q] = "running"
      /\ \A p \in Requests : p # q => phase'[p] = phase[p]
  BY <1>1 DEF TypeOK
<1>6. \A r \in runs' : r = row \/ (r \in runs /\ r.id # row.id)
  BY <1>2, <1>3
<1>7. \A r \in runs : r.by \in Requests /\ r.by # q
  BY <1>1 DEF PhasesAreTold, TypeOK, RunRows
<1>8. RowsBearTheirId'
  <2>1. \A i \in 1 .. Len(tracked') : tracked'[i].id = RunIdOf[tracked'[i].by]
    BY <1>3, <1>4, RenewedBearTheirId
  <2>2. \A r \in runs' : r.id = RunIdOf[r.by]
    BY <1>3, <1>6 DEF RowsBearTheirId
  <2> QED
    BY <1>2, <2>1, <2>2 DEF RowsBearTheirId
<1>9. TrackedOnce'
  BY <1>4 DEF Renewed
<1>10. InFlightIsOnRecord'
  <2> SUFFICES ASSUME NEW p \in Requests, InFlight(p)'
               PROVE  /\ RunIdOf[p] \notin old'
                      /\ \A i \in 1 .. emitted'[p] :
                           i < emitted'[p] \/ p \notin inThread' \union dropped' => Row(p, i) \in steps'
    BY DEF InFlightIsOnRecord, Row
  <2>1. CASE p = q
    <3>1. emitted'[p] = 0
      BY <1>1, <1>2, <2>1 DEF PhasesAreTold
    <3> QED
      BY <1>2, <2>1, <3>1
  <2>2. CASE p # q
    <3>1. InFlight(p)
      BY <1>5, <2>2 DEF InFlight
    <3> QED
      BY <1>2, <3>1 DEF InFlightIsOnRecord
  <2> QED
    BY <2>1, <2>2
<1>11. EndedIsOnRecord'
  BY <1>2, <1>3, <1>6 DEF EndedIsOnRecord, Row
<1>12. PhasesAreTold'
  <2>1. \A p \in Requests : phase'[p] = "new" => emitted'[p] = 0
    BY <1>2, <1>5 DEF PhasesAreTold
  <2>2. \A r \in runs' : /\ phase'[r.by] # "new"
                         /\ r.status # "running" => phase'[r.by] = "finished"
    BY <1>3, <1>5, <1>6, <1>7 DEF PhasesAreTold
  <2>3. \A p \in Requests : InFlight(p)' => <<"run.started", p>> \in published'
    BY <1>2, <1>5 DEF PhasesAreTold, InFlight
  <2>4. \A p \in Requests :
          <<"run.completed", p>> \in published' \/ <<"run.failed", p>> \in published'
            => phase'[p] = "finished"
    BY <1>1, <1>2, <1>5 DEF PhasesAreTold
  <2> QED
    BY <2>1, <2>2, <2>3, <2>4 DEF PhasesAreTold
<1>13. EndIsPublishedOnceRecorded'
  <2>1. /\ <<"run.completed", q>> \notin published'
        /\ <<"run.failed", q>> \notin published'
    BY <1>1, <1>2 DEF PhasesAreTold
  <2> SUFFICES ASSUME NEW p \in Requests, NEW r \in runs', r.by = p
               PROVE  /\ <<"run.completed", p>> \in published' <=>
                           r.status = "completed" /\ <<"run.started", p>> \in published'
                      /\ <<"run.failed", p>> \in published' <=>
                           r.status = "failed" /\ <<"run.started", p>> \in published'
    BY DEF EndIsPublishedOnceRecorded
  <2>2. CASE r = row
    BY <1>3, <2>1, <2>2
  <2>3. CASE r \in runs
    BY <1>2, <1>7, <2>3 DEF StoriesAgree, EndIsPublishedOnceRecorded
  <2> QED
    BY <1>6, <2>2, <2>3
<1>14. TrackerAgreesWithReplay'
  <2> SUFFICES ASSUME NEW i \in 1 .. Len(tracked'), NEW r \in runs', r.id = tracked'[i].id
               PROVE  /\ r.by = tracked'[i].by
                      /\ IF phase'[r.by] = "unrecorded" THEN r.status = "running"
                                                        ELSE r.status = tracked'[i].status
    BY DEF TrackerAgreesWithReplay
  <2>1. CASE tracked'[i] = row
    BY <1>3, <1>5, <1>6, <2>1
  <2>2. CASE tracked'[i] # row
    <3>1. \E j \in 1 .. Len(tracked) : tracked'[i] = tracked[j] /\ tracked[j].id # row.id
      BY <1>4, <2>2 DEF Renewed
    <3>2. r \in runs /\ phase'[r.by] = phase[r.by]
      BY <1>5, <1>6, <1>7, <3>1
    <3> QED
      BY <3>1, <3>2 DEF StoriesAgree, TrackerAgreesWithReplay
  <2> QED
    BY <2>1, <2>2
<1>15. FloorIsCommitted'
  BY <1>1, <1>2, NoReadNoFloor
<1> QED
  BY <1>8, <1>9, <1>10, <1>11, <1>12, <1>13, <1>14, <1>15 DEF StoriesAgree

LEMMA BeginFailsTellsTheStory ==
  ASSUME IdsAreDistinct, BatchInv, StoryInv, NEW q \in Requests, BeginFails(q)
  PROVE  StoryInv'
<1> DEFINE row == [id |-> RunIdOf[q], by |-> q, status |-> "running"]
<1> USE DEF StoryInv
<1>1. /\ TypeOK /\ LoopFree
      /\ phase[q] = "new" /\ phase' = [phase EXCEPT ![q] = "refused"]
      /\ UNCHANGED <<emitted, inThread, dropped, runs, old, steps, diskSteps, reader, published>>
  BY DEF BeginFails, BatchInv, store
<1>2. row \in RunRows /\ row.id = RunIdOf[q] /\ row.by = q
  BY RunIdsGiven DEF RunRows, RunStatus
<1>3. Renewed(row.id, row)
  BY <1>1, <1>2, TrackIsRenewed DEF BeginFails, TypeOK, Rows
<1> HIDE DEF row
<1>4. phase'[q] = "refused" /\ \A p \in Requests : p # q => phase'[p] = phase[p]
  BY <1>1 DEF TypeOK
<1>5. \A r \in runs : r.by \in Requests /\ r.by # q /\ r.id = RunIdOf[r.by]
  BY <1>1 DEF PhasesAreTold, TypeOK, RunRows, RowsBearTheirId
<1>6. RowsBearTheirId'
  <2>1. \A i \in 1 .. Len(tracked') : tracked'[i].id = RunIdOf[tracked'[i].by]
    BY <1>2, <1>3, RenewedBearTheirId
  <2> QED
    BY <1>1, <2>1 DEF RowsBearTheirId
<1>7. TrackedOnce' /\ EndedIsOnRecord'
  BY <1>1, <1>3 DEF Renewed, EndedIsOnRecord, Row
<1>8. \A p \in Requests : InFlight(p)' => InFlight(p)
  BY <1>1, <1>4 DEF InFlight
<1>9. InFlightIsOnRecord'
  BY <1>1, <1>8 DEF InFlightIsOnRecord, Row
<1>10. PhasesAreTold'
  <2>1. \A p \in Requests : /\ phase'[p] = "new" => phase[p] = "new"
                            /\ phase[p] = "finished" => phase'[p] = "finished"
    BY <1>1, <1>4
  <2>2. \A r \in runs : phase'[r.by] = phase[r.by]
    BY <1>4, <1>5
  <2> QED
    BY <1>1, <1>8, <2>1, <2>2 DEF PhasesAreTold
<1>11. EndIsPublishedOnceRecorded'
  BY <1>1 DEF StoriesAgree, EndIsPublishedOnceRecorded
<1>12. TrackerAgreesWithReplay'
  <2> SUFFICES ASSUME NEW i \in 1 .. Len(tracked'), NEW r \in runs, r.id = tracked'[i].id
               PROVE  /\ r.by = tracked'[i].by
                      /\ IF phase'[r.by] = "unrecorded" THEN r.status = "running"
                                                        ELSE r.status = tracked'[i].status
    BY <1>1 DEF TrackerAgreesWithReplay
  <2>1. r.id # row.id /\ phase'[r.by] = phase[r.by]
    BY <1>2, <1>4, <1>5 DEF IdsAreDistinct
  <2>2. \E j \in 1 .. Len(tracked) : tracked'[i] = tracked[j]
    BY <1>3, <2>1 DEF Renewed
  <2> QED
    BY <2>1, <2>2 DEF StoriesAgree, TrackerAgreesWithReplay
<1>13. FloorIsCommitted'
  BY <1>1, NoReadNoFloor
<1> QED
  BY <1>6, <1>7, <1>9, <1>10, <1>11, <1>12, <1>13 DEF StoriesAgree

LEMMA ThreadFailsTellsTheStory ==
  ASSUME BatchInv, StoryInv, NEW q \in Requests, ThreadFails(q)
  PROVE  StoryInv'
<1> USE DEF StoryInv
<1>1. /\ TypeOK /\ q \in inThread /\ inThread' = inThread \ {q} /\ dropped' = dropped \union {q}
      /\ phase' = IF phase[q] = "recording" THEN [phase EXCEPT ![q] = "failing"] ELSE phase
      /\ UNCHANGED <<emitted, tracked, runs, old, steps, diskSteps, reader, published>>
  BY DEF ThreadFails, BatchInv, store
<1>2. /\ phase[q] \in {"recording", "cancelled"}
      /\ phase'[q] = IF phase[q] = "recording" THEN "failing" ELSE phase[q]
      /\ \A p \in Requests : p # q => phase'[p] = phase[p]
  BY <1>1 DEF TypeOK
<1>3. \A p \in Requests : /\ InFlight(p)' <=> InFlight(p)
                          /\ phase'[p] = "new" <=> phase[p] = "new"
                          /\ phase'[p] = "finished" <=> phase[p] = "finished"
                          /\ phase'[p] = "unrecorded" <=> phase[p] = "unrecorded"
  BY <1>2 DEF InFlight
<1>4. \A r \in runs : r.by \in Requests
  BY <1>1 DEF TypeOK, RunRows
<1>5. RowsBearTheirId' /\ TrackedOnce'
  BY <1>1 DEF RowsBearTheirId, TrackedOnce
<1>6. InFlightIsOnRecord'
  <2>1. inThread' \union dropped' = inThread \union dropped
    BY <1>1
  <2> QED
    BY <1>1, <1>3, <2>1 DEF InFlightIsOnRecord, Row
<1>7. EndedIsOnRecord'
  <2>1. \A r \in runs : r.status # "running" => r.by # q
    BY <1>2 DEF PhasesAreTold
  <2> QED
    BY <1>1, <2>1 DEF EndedIsOnRecord, Row
<1>8. PhasesAreTold'
  BY <1>1, <1>3, <1>4 DEF PhasesAreTold
<1>9. StoriesAgree'
  BY <1>1, <1>3, <1>4 DEF StoriesAgree, TrackerAgreesWithReplay, EndIsPublishedOnceRecorded
<1>10. FloorIsCommitted'
  BY <1>1, FloorStays
<1> QED
  BY <1>5, <1>6, <1>7, <1>8, <1>9, <1>10

LEMMA ProgressTellsTheStory ==
  ASSUME IdsAreDistinct, BatchInv, StoryInv, NEW q \in Requests, Progress(q)
  PROVE  StoryInv'
<1> DEFINE id     == RunIdOf[q]
           status == IF IsTracked(id) THEN TrackedRow(id).status ELSE "running"
           row    == TrackedRow(id)
<1> USE DEF StoryInv
<1>1. /\ TypeOK /\ LoopFree
      /\ phase[q] = "running" /\ phase' = [phase EXCEPT ![q] = "recording"]
      /\ emitted' = [emitted EXCEPT ![q] = @ + 1] /\ inThread' = inThread \union {q}
      /\ Retrack(id, status)
      /\ UNCHANGED <<dropped, runs, old, steps, diskSteps, reader, published, crashes>>
  BY DEF Progress, BatchInv, store
<1>2. IsTracked(id) => /\ row \in RunRows /\ [row EXCEPT !.status = status] = row
                       /\ \E k \in 1 .. Len(tracked) : row = tracked[k]
  <2>1. IsTracked(id) => \E k \in 1 .. Len(tracked) : row = tracked[k] /\ tracked[k] \in RunRows
    BY <1>1, PlaceIsThere, ElementOfSeq DEF TrackedRow, TypeOK
  <2>2. row \in RunRows => [row EXCEPT !.status = row.status] = row
    BY DEF RunRows
  <2> QED
    BY <2>1, <2>2
<1>3. status \in RunStatus
  BY <1>2 DEF RunRows, RunStatus
<1>4. IF IsTracked(id) THEN Renewed(id, row) ELSE tracked' = tracked
  <2> HIDE DEF status
  <2>1. /\ IsTracked(id) => Renewed(id, [TrackedRow(id) EXCEPT !.status = status])
        /\ ~IsTracked(id) => tracked' = tracked
    BY <1>1, <1>3, RetrackIsRenewed DEF TypeOK, Rows
  <2> QED
    BY <1>2, <2>1
<1> HIDE DEF status, row, id
<1>5. /\ \A i \in 1 .. Len(tracked') : \E j \in 1 .. Len(tracked) : tracked'[i] = tracked[j]
      /\ TrackedOnce'
  <2>1. CASE IsTracked(id)
    BY <1>2, <1>4, <2>1 DEF Renewed
  <2>2. CASE ~IsTracked(id)
    BY <1>4, <2>2 DEF TrackedOnce
  <2> QED
    BY <2>1, <2>2
<1>6. /\ phase'[q] = "recording"
      /\ \A p \in Requests : p # q => phase'[p] = phase[p] /\ emitted'[p] = emitted[p]
      /\ emitted'[q] = emitted[q] + 1 /\ emitted[q] \in Nat
      /\ q \notin inThread /\ q \notin dropped
  <2>1. q \notin inThread /\ q \notin dropped
    BY <1>1 DEF TypeOK
  <2> QED
    BY <1>1, <2>1, Bounds DEF TypeOK
<1>7. RowsBearTheirId'
  BY <1>1, <1>5 DEF RowsBearTheirId
<1>8. InFlightIsOnRecord'
  <2> SUFFICES ASSUME NEW p \in Requests, InFlight(p)'
               PROVE  /\ RunIdOf[p] \notin old'
                      /\ \A i \in 1 .. emitted'[p] :
                           i < emitted'[p] \/ p \notin inThread' \union dropped' => Row(p, i) \in steps'
    BY DEF InFlightIsOnRecord, Row
  <2>1. InFlight(p)
    BY <1>1, <1>6 DEF InFlight
  <2>2. /\ RunIdOf[p] \notin old
        /\ \A i \in 1 .. emitted[p] : i < emitted[p] \/ p \notin inThread \union dropped => Row(p, i) \in steps
    BY <2>1 DEF InFlightIsOnRecord
  <2>3. CASE p = q
    <3>1. ASSUME NEW i \in 1 .. emitted'[p], i < emitted'[p] PROVE i \in 1 .. emitted[p]
      BY <1>6, <2>3, <3>1
    <3> QED
      BY <1>1, <1>6, <2>2, <2>3, <3>1
  <2>4. CASE p # q
    BY <1>1, <1>6, <2>2, <2>4
  <2> QED
    BY <2>3, <2>4
<1>9. EndedIsOnRecord'
  <2>1. ASSUME NEW r \in runs, r.status # "running"
        PROVE  emitted'[r.by] = emitted[r.by]
    BY <1>1, <1>6, <2>1 DEF PhasesAreTold, TypeOK, RunRows
  <2> QED
    BY <1>1, <2>1 DEF EndedIsOnRecord, Row
<1>10. PhasesAreTold'
  <2>1. \A p \in Requests : phase'[p] = "new" => phase[p] = "new" /\ emitted'[p] = emitted[p]
    BY <1>6
  <2>2. \A p \in Requests : InFlight(p)' => InFlight(p)
    BY <1>1, <1>6 DEF InFlight
  <2>3. \A p \in Requests : phase[p] = "finished" => phase'[p] = "finished"
    BY <1>1, <1>6
  <2>4. \A r \in runs : r.by \in Requests
    BY <1>1 DEF TypeOK, RunRows
  <2> QED
    BY <1>1, <2>1, <2>2, <2>3, <2>4 DEF PhasesAreTold
<1>11. EndIsPublishedOnceRecorded'
  BY <1>1 DEF StoriesAgree, EndIsPublishedOnceRecorded
<1>12. TrackerAgreesWithReplay'
  <2>1. \A r \in runs : /\ r.by \in Requests
                        /\ phase'[r.by] = "unrecorded" <=> phase[r.by] = "unrecorded"
    BY <1>1, <1>6 DEF TypeOK, RunRows
  <2> QED
    BY <1>1, <1>5, <2>1 DEF StoriesAgree, TrackerAgreesWithReplay
<1>13. FloorIsCommitted'
  BY <1>1, NoReadNoFloor
<1> QED
  BY <1>5, <1>7, <1>8, <1>9, <1>10, <1>11, <1>12, <1>13 DEF StoriesAgree

LEMMA ThreadTellsTheStory ==
  ASSUME IdsAreDistinct, BatchInv, StoryInv, NEW q \in Requests, ThreadAddsStep(q)
  PROVE  StoryInv'
<1> DEFINE new == Row(q, emitted[q])
<1> USE DEF StoryInv
<1>1. /\ TypeOK /\ q \in inThread /\ inThread' = inThread \ {q} /\ AddStep(q, emitted[q])
      /\ UNCHANGED <<phase, emitted, dropped, tracked, reader, published, crashes>>
  BY DEF ThreadAddsStep, BatchInv
<1>2. runs' = runs /\ old' = old
  BY <1>1 DEF AddStep
<1>3. /\ steps' = steps \union {new}
      /\ diskSteps' = diskSteps \/ diskSteps' = steps'
  BY <1>1, AddedStepIsNew
<1>4. new.id = RunIdOf[q] /\ new.by = q
  BY DEF Row
<1> HIDE DEF new
<1>5. steps \subseteq steps' /\ steps \intersect diskSteps \subseteq diskSteps'
  BY <1>3
<1>6. RowsBearTheirId'
  <2>1. \A s \in steps' \union diskSteps' : s = new \/ s \in steps \union diskSteps
    BY <1>3
  <2> QED
    BY <1>1, <1>2, <1>4, <2>1 DEF RowsBearTheirId
<1>7. TrackedOnce'
  BY <1>1 DEF TrackedOnce
<1>8. InFlightIsOnRecord'
  <2> SUFFICES ASSUME NEW p \in Requests, InFlight(p)'
               PROVE  /\ RunIdOf[p] \notin old'
                      /\ \A i \in 1 .. emitted'[p] :
                           i < emitted'[p] \/ p \notin inThread' \union dropped' => Row(p, i) \in steps'
    BY DEF InFlightIsOnRecord, Row
  <2>1. /\ RunIdOf[p] \notin old
        /\ \A i \in 1 .. emitted[p] : i < emitted[p] \/ p \notin inThread \union dropped => Row(p, i) \in steps
    BY <1>1 DEF InFlightIsOnRecord, InFlight
  <2>2. CASE p = q
    <3>1. ASSUME NEW i \in 1 .. emitted[p] PROVE Row(p, i) \in steps'
      <4>1. CASE i = emitted[p]
        BY <1>3, <2>2, <4>1 DEF new
      <4>2. CASE i # emitted[p]
        <5>1. emitted[p] \in Nat
          BY <1>1, Bounds DEF TypeOK
        <5>2. i < emitted[p]
          BY <4>2, <5>1
        <5> QED
          BY <1>5, <2>1, <5>2
      <4> QED
        BY <4>1, <4>2
    <3> QED
      BY <1>1, <1>2, <2>1, <3>1
  <2>3. CASE p # q
    BY <1>1, <1>2, <1>5, <2>1, <2>3
  <2> QED
    BY <2>2, <2>3
<1>9. EndedIsOnRecord'
  <2>1. steps \intersect diskSteps \subseteq steps' \intersect diskSteps'
    BY <1>5
  <2> QED
    BY <1>1, <1>2, <2>1 DEF EndedIsOnRecord, Row
<1>10. PhasesAreTold'
  BY <1>1, <1>2 DEF PhasesAreTold, InFlight
<1>11. StoriesAgree'
  BY <1>1, <1>2 DEF StoriesAgree, TrackerAgreesWithReplay, EndIsPublishedOnceRecorded
<1>12. FloorIsCommitted'
  BY <1>1, <1>5, FloorStays
<1> QED
  BY <1>6, <1>7, <1>8, <1>9, <1>10, <1>11, <1>12

LEMMA ReturnTellsTheStory ==
  ASSUME BatchInv, StoryInv, NEW q \in Requests, ProgressReturns(q)
  PROVE  StoryInv'
<1> USE DEF StoryInv
<1>1. /\ TypeOK /\ LoopFree
      /\ phase[q] = "recording" /\ q \notin inThread /\ phase' = [phase EXCEPT ![q] = "running"]
      /\ UNCHANGED <<emitted, inThread, dropped, tracked, runs, old, steps, diskSteps, reader>>
  BY DEF ProgressReturns, BatchInv, store
<1>2. published' = published \union {<<"run.step", q>>} \/ published' = published
  BY DEF ProgressReturns, Publish
<1>3. phase'[q] = "running" /\ \A p \in Requests : p # q => phase'[p] = phase[p]
  BY <1>1 DEF TypeOK
<1>4. \A p \in Requests : /\ InFlight(p)' <=> InFlight(p)
                          /\ phase'[p] = "new" <=> phase[p] = "new"
                          /\ phase'[p] = "finished" <=> phase[p] = "finished"
                          /\ phase'[p] = "unrecorded" <=> phase[p] = "unrecorded"
  BY <1>1, <1>3 DEF InFlight
<1>5. \A p \in Requests :
        \A type \in {"run.started", "run.completed", "run.failed"} :
          <<type, p>> \in published' <=> <<type, p>> \in published
  BY <1>2
<1>6. RowsBearTheirId' /\ TrackedOnce' /\ EndedIsOnRecord'
  BY <1>1 DEF RowsBearTheirId, TrackedOnce, EndedIsOnRecord, Row
<1>7. InFlightIsOnRecord'
  BY <1>1, <1>4 DEF InFlightIsOnRecord, Row
<1>8. PhasesAreTold'
  <2>1. \A r \in runs : r.by \in Requests
    BY <1>1 DEF TypeOK, RunRows
  <2>2. \A p \in Requests : InFlight(p)' => <<"run.started", p>> \in published'
    BY <1>4, <1>5 DEF PhasesAreTold
  <2> QED
    BY <1>1, <1>4, <1>5, <2>1, <2>2 DEF PhasesAreTold
<1>9. TrackerAgreesWithReplay'
  <2>1. \A r \in runs : r.by \in Requests
    BY <1>1 DEF TypeOK, RunRows
  <2> QED
    BY <1>1, <1>4, <2>1 DEF StoriesAgree, TrackerAgreesWithReplay
<1>10. EndIsPublishedOnceRecorded'
  BY <1>1, <1>5 DEF StoriesAgree, EndIsPublishedOnceRecorded
<1>11. FloorIsCommitted'
  BY <1>1, NoReadNoFloor
<1> QED
  BY <1>6, <1>7, <1>8, <1>9, <1>10, <1>11 DEF StoriesAgree

LEMMA CancellationTellsTheStory ==
  ASSUME BatchInv, StoryInv, NEW q \in Requests, Cancelled(q)
  PROVE  StoryInv'
<1> USE DEF StoryInv
<1>1. /\ TypeOK /\ LoopFree
      /\ InFlight(q) /\ phase' = [phase EXCEPT ![q] = "cancelled"]
      /\ UNCHANGED <<emitted, inThread, dropped, tracked, runs, old, steps, diskSteps, reader, published>>
  BY DEF Cancelled, BatchInv, store
<1>2. phase'[q] = "cancelled" /\ \A p \in Requests : p # q => phase'[p] = phase[p]
  BY <1>1 DEF TypeOK
<1>3. \A p \in Requests : /\ InFlight(p)' => InFlight(p)
                          /\ phase'[p] = "new" <=> phase[p] = "new"
                          /\ phase'[p] = "finished" <=> phase[p] = "finished"
                          /\ phase'[p] = "unrecorded" <=> phase[p] = "unrecorded"
  BY <1>1, <1>2 DEF InFlight
<1>4. RowsBearTheirId' /\ TrackedOnce' /\ EndedIsOnRecord'
  BY <1>1 DEF RowsBearTheirId, TrackedOnce, EndedIsOnRecord, Row
<1>5. InFlightIsOnRecord'
  BY <1>1, <1>3 DEF InFlightIsOnRecord, Row
<1>6. PhasesAreTold'
  <2>1. \A r \in runs : r.by \in Requests
    BY <1>1 DEF TypeOK, RunRows
  <2> QED
    BY <1>1, <1>3, <2>1 DEF PhasesAreTold
<1>7. StoriesAgree'
  <2>1. \A r \in runs : r.by \in Requests
    BY <1>1 DEF TypeOK, RunRows
  <2> QED
    BY <1>1, <1>3, <2>1 DEF StoriesAgree, TrackerAgreesWithReplay, EndIsPublishedOnceRecorded
<1>8. FloorIsCommitted'
  BY <1>1, NoReadNoFloor
<1> QED
  BY <1>4, <1>5, <1>6, <1>7, <1>8

LEMMA FinishTellsTheStory ==
  ASSUME IdsAreDistinct, BatchInv, StoryInv, NEW q \in Requests,
         NEW status \in {"completed", "failed"}, Finish(q, status)
  PROVE  StoryInv'
<1> DEFINE id    == RunIdOf[q]
           event == IF status = "completed" THEN "run.completed" ELSE "run.failed"
           row   == [TrackedRow(id) EXCEPT !.status = status]
<1> USE DEF StoryInv
<1>1. /\ TypeOK /\ LoopFree
      /\ InFlight(q) /\ q \notin inThread
      /\ q \in dropped => status = "failed"
      /\ phase' = [phase EXCEPT ![q] = "finished"]
      /\ Retrack(id, status)
      /\ runs' = {IF r.id = id THEN [r EXCEPT !.status = status] ELSE r : r \in runs}
      /\ steps' = steps /\ old' = old /\ diskSteps' = steps
      /\ published' = published \union {<<event, q>>}
      /\ UNCHANGED <<emitted, inThread, dropped, reader>>
  BY DEF Finish, MayEndAs, InFlight, TypeOK, FinishRun, Commit, Publish, BatchInv
<1>2. status \in RunStatus
  BY DEF RunStatus
<1>3. IF IsTracked(id) THEN Renewed(id, row) ELSE tracked' = tracked
  BY <1>1, <1>2, RetrackIsRenewed DEF TypeOK, Rows
<1>4. IsTracked(id) => row.id = id /\ row.by = q /\ row.status = status
  <2> SUFFICES ASSUME IsTracked(id) PROVE row.id = id /\ row.by = q /\ row.status = status
    OBVIOUS
  <2>1. /\ TrackedRow(id) \in RunRows /\ TrackedRow(id).id = id
        /\ RunIdOf[TrackedRow(id).by] = TrackedRow(id).id
    BY <1>1, PlaceIsThere, ElementOfSeq DEF TrackedRow, TypeOK, RowsBearTheirId
  <2>2. TrackedRow(id).by = q
    BY <2>1 DEF IdsAreDistinct, RunRows
  <2> QED
    BY <2>1, <2>2 DEF RunRows
<1>5. ASSUME NEW r \in runs'
      PROVE  \/ r \in runs /\ r.id # id /\ r.by # q
             \/ /\ r.id = id /\ r.by = q /\ r.status = status
                /\ \E o \in runs : o.by = q
  <2> PICK o \in runs : r = IF o.id = id THEN [o EXCEPT !.status = status] ELSE o
    BY <1>1
  <2>1. o \in RunRows /\ o.id = RunIdOf[o.by]
    BY <1>1 DEF TypeOK, RowsBearTheirId
  <2>2. CASE o.id = id
    BY <2>1, <2>2 DEF IdsAreDistinct, RunRows
  <2>3. CASE o.id # id
    BY <2>1, <2>3
  <2> QED
    BY <2>2, <2>3
<1>6. event \in {"run.completed", "run.failed"} /\ event = "run.completed" <=> status = "completed"
  OBVIOUS
<1> HIDE DEF id, event, row
<1>7. phase'[q] = "finished" /\ \A p \in Requests : p # q => phase'[p] = phase[p]
  BY <1>1 DEF TypeOK
<1>8. \A r \in runs : r.by \in Requests
  BY <1>1 DEF TypeOK, RunRows
<1>9. RowsBearTheirId'
  <2>1. \A i \in 1 .. Len(tracked') : tracked'[i].id = RunIdOf[tracked'[i].by]
    <3>1. CASE IsTracked(id)
      BY <1>3, <1>4, <3>1, RenewedBearTheirId DEF id
    <3>2. CASE ~IsTracked(id)
      BY <1>3, <3>2 DEF RowsBearTheirId
    <3> QED
      BY <3>1, <3>2
  <2>2. \A r \in runs' : r.id = RunIdOf[r.by]
    BY <1>5 DEF RowsBearTheirId, id
  <2> QED
    BY <1>1, <2>1, <2>2 DEF RowsBearTheirId
<1>10. TrackedOnce'
  BY <1>3 DEF Renewed, TrackedOnce
<1>11. InFlightIsOnRecord'
  <2>1. \A p \in Requests : InFlight(p)' => InFlight(p)
    BY <1>1, <1>7 DEF InFlight
  <2> QED
    BY <1>1, <2>1 DEF InFlightIsOnRecord, Row
<1>12. EndedIsOnRecord'
  <2> SUFFICES ASSUME NEW r \in runs', r.status # "running"
               PROVE  /\ r.by \in dropped => r.status = "failed"
                      /\ \A i \in 1 .. emitted[r.by] :
                           i < emitted[r.by] \/ r.by \notin dropped => Row(r.by, i) \in steps
    BY <1>1 DEF EndedIsOnRecord, Row
  <2>1. CASE r \in runs /\ r.id # id
    BY <2>1 DEF EndedIsOnRecord
  <2>2. CASE r.by = q /\ r.status = status
    BY <1>1, <2>2 DEF InFlightIsOnRecord
  <2> QED
    BY <1>5, <2>1, <2>2
<1>13. PhasesAreTold'
  <2>1. \A p \in Requests : phase'[p] = "new" => emitted'[p] = 0
    BY <1>1, <1>7 DEF PhasesAreTold
  <2>2. \A r \in runs' : /\ phase'[r.by] # "new"
                         /\ r.status # "running" => phase'[r.by] = "finished"
    BY <1>5, <1>7, <1>8 DEF PhasesAreTold
  <2>3. \A p \in Requests : InFlight(p)' => <<"run.started", p>> \in published'
    BY <1>1, <1>7 DEF PhasesAreTold, InFlight
  <2>4. \A p \in Requests :
          <<"run.completed", p>> \in published' \/ <<"run.failed", p>> \in published'
            => phase'[p] = "finished"
    BY <1>1, <1>7 DEF PhasesAreTold
  <2> QED
    BY <2>1, <2>2, <2>3, <2>4 DEF PhasesAreTold
<1>14. EndIsPublishedOnceRecorded'
  <2>1. /\ <<"run.completed", q>> \notin published /\ <<"run.failed", q>> \notin published
        /\ <<"run.started", q>> \in published
    BY <1>1 DEF PhasesAreTold, InFlight
  <2>2. /\ <<"run.completed", q>> \in published' <=> status = "completed"
        /\ <<"run.failed", q>> \in published' <=> status = "failed"
        /\ <<"run.started", q>> \in published'
    BY <1>1, <2>1 DEF event
  <2> SUFFICES ASSUME NEW p \in Requests, NEW r \in runs', r.by = p
               PROVE  /\ <<"run.completed", p>> \in published' <=>
                           r.status = "completed" /\ <<"run.started", p>> \in published'
                      /\ <<"run.failed", p>> \in published' <=>
                           r.status = "failed" /\ <<"run.started", p>> \in published'
    BY DEF EndIsPublishedOnceRecorded
  <2>3. CASE r \in runs /\ r.by # q
    BY <1>1, <2>3 DEF StoriesAgree, EndIsPublishedOnceRecorded
  <2>4. CASE r.by = q /\ r.status = status
    BY <2>2, <2>4
  <2> QED
    BY <1>5, <2>3, <2>4
<1>15. TrackerAgreesWithReplay'
  <2> SUFFICES ASSUME NEW i \in 1 .. Len(tracked'), NEW r \in runs', r.id = tracked'[i].id
               PROVE  /\ r.by = tracked'[i].by
                      /\ IF phase'[r.by] = "unrecorded" THEN r.status = "running"
                                                        ELSE r.status = tracked'[i].status
    BY DEF TrackerAgreesWithReplay
  <2>1. \/ tracked'[i] = row /\ row.id = id /\ row.by = q /\ row.status = status
        \/ \E j \in 1 .. Len(tracked) : tracked'[i] = tracked[j] /\ tracked[j].id # id
    <3>1. CASE IsTracked(id)
      BY <1>3, <1>4, <3>1 DEF Renewed
    <3>2. CASE ~IsTracked(id)
      BY <1>3, <3>2 DEF IsTracked
    <3> QED
      BY <3>1, <3>2
  <2>2. CASE r \in runs /\ r.id # id /\ r.by # q
    <3>1. phase'[r.by] = phase[r.by]
      BY <1>7, <1>8, <2>2
    <3> QED
      BY <2>1, <2>2, <3>1 DEF StoriesAgree, TrackerAgreesWithReplay
  <2>3. CASE r.id = id /\ r.by = q /\ r.status = status
    BY <1>7, <2>1, <2>3
  <2> QED
    BY <1>5, <2>2, <2>3
<1>16. FloorIsCommitted'
  BY <1>1, NoReadNoFloor
<1> QED
  BY <1>9, <1>10, <1>11, <1>12, <1>13, <1>14, <1>15, <1>16 DEF StoriesAgree

\* The tracker ends or stays as it was, and the row goes on running: the one case in which they differ.
LEMMA UnrecordedTellsTheStory ==
  ASSUME IdsAreDistinct, BatchInv, StoryInv, NEW q \in Requests,
         NEW status \in {"completed", "failed"}, FinishUnrecorded(q, status)
  PROVE  StoryInv'
<1> DEFINE id  == RunIdOf[q]
           row == [TrackedRow(id) EXCEPT !.status = status]
<1> USE DEF StoryInv
<1>1. /\ TypeOK /\ LoopFree
      /\ InFlight(q) /\ phase' = [phase EXCEPT ![q] = "unrecorded"]
      /\ Retrack(id, status) \/ tracked' = tracked
      /\ UNCHANGED <<emitted, inThread, dropped, runs, old, steps, diskSteps, reader, published>>
  BY DEF FinishUnrecorded, MayEndAs, InFlight, BatchInv, store
<1>2. status \in RunStatus
  BY DEF RunStatus
<1>3. (IsTracked(id) /\ Renewed(id, row)) \/ tracked' = tracked
  BY <1>1, <1>2, RetrackIsRenewed DEF TypeOK, Rows
<1>4. IsTracked(id) => row.id = id /\ row.by = q
  <2> SUFFICES ASSUME IsTracked(id) PROVE row.id = id /\ row.by = q
    OBVIOUS
  <2>1. /\ TrackedRow(id) \in RunRows /\ TrackedRow(id).id = id
        /\ RunIdOf[TrackedRow(id).by] = TrackedRow(id).id
    BY <1>1, PlaceIsThere, ElementOfSeq DEF TrackedRow, TypeOK, RowsBearTheirId
  <2>2. TrackedRow(id).by = q
    BY <2>1 DEF IdsAreDistinct, RunRows
  <2> QED
    BY <2>1, <2>2 DEF RunRows
<1> HIDE DEF id, row
<1>5. phase'[q] = "unrecorded" /\ \A p \in Requests : p # q => phase'[p] = phase[p]
  BY <1>1 DEF TypeOK
<1>6. \A r \in runs : /\ r.by \in Requests /\ r.id = RunIdOf[r.by]
                      /\ r.by = q => r.status = "running"
  BY <1>1 DEF TypeOK, RunRows, RowsBearTheirId, PhasesAreTold, InFlight
<1>7. RowsBearTheirId'
  <2>1. \A i \in 1 .. Len(tracked') : tracked'[i].id = RunIdOf[tracked'[i].by]
    <3>1. CASE IsTracked(id) /\ Renewed(id, row)
      BY <1>4, <3>1, RenewedBearTheirId DEF id
    <3>2. CASE tracked' = tracked
      BY <3>2 DEF RowsBearTheirId
    <3> QED
      BY <1>3, <3>1, <3>2
  <2> QED
    BY <1>1, <2>1 DEF RowsBearTheirId
<1>8. TrackedOnce' /\ EndedIsOnRecord'
  BY <1>1, <1>3 DEF Renewed, TrackedOnce, EndedIsOnRecord, Row
<1>9. \A p \in Requests : InFlight(p)' => InFlight(p)
  BY <1>1, <1>5 DEF InFlight
<1>10. InFlightIsOnRecord'
  BY <1>1, <1>9 DEF InFlightIsOnRecord, Row
<1>11. PhasesAreTold'
  <2>1. \A p \in Requests : /\ phase'[p] = "new" => phase[p] = "new"
                            /\ phase[p] = "finished" => phase'[p] = "finished"
    BY <1>1, <1>5 DEF InFlight
  <2>2. \A r \in runs : phase'[r.by] # "new"
    BY <1>6, <2>1 DEF PhasesAreTold
  <2> QED
    BY <1>1, <1>6, <1>9, <2>1, <2>2 DEF PhasesAreTold
<1>12. EndIsPublishedOnceRecorded'
  BY <1>1 DEF StoriesAgree, EndIsPublishedOnceRecorded
<1>13. TrackerAgreesWithReplay'
  <2> SUFFICES ASSUME NEW i \in 1 .. Len(tracked'), NEW r \in runs, r.id = tracked'[i].id
               PROVE  /\ r.by = tracked'[i].by
                      /\ IF phase'[r.by] = "unrecorded" THEN r.status = "running"
                                                        ELSE r.status = tracked'[i].status
    BY <1>1 DEF TrackerAgreesWithReplay
  <2>1. \/ tracked'[i] = row /\ row.id = id /\ row.by = q
        \/ \E j \in 1 .. Len(tracked) : tracked'[i] = tracked[j]
    BY <1>3, <1>4 DEF Renewed
  <2>2. CASE r.by = q
    BY <1>5, <1>6, <2>1, <2>2 DEF StoriesAgree, TrackerAgreesWithReplay
  <2>3. CASE r.by # q
    <3>1. r.id # id /\ phase'[r.by] = phase[r.by]
      BY <1>5, <1>6, <2>3 DEF IdsAreDistinct, id
    <3> QED
      BY <2>1, <3>1 DEF StoriesAgree, TrackerAgreesWithReplay
  <2> QED
    BY <2>2, <2>3
<1>14. FloorIsCommitted'
  BY <1>1, NoReadNoFloor
<1> QED
  BY <1>7, <1>8, <1>10, <1>11, <1>12, <1>13, <1>14 DEF StoriesAgree

LEMMA ReadTellsTheStory ==
  ASSUME BatchInv, StoryInv, (\E id \in RunIds : ReadFlush(id)) \/ ReadRow \/ ReadSteps
  PROVE  StoryInv'
<1> USE DEF StoryInv
<1>1. /\ UNCHANGED <<phase, emitted, inThread, dropped, tracked, runs, old, steps, published>>
      /\ diskSteps' = diskSteps \/ diskSteps' = steps
  BY DEF ReadFlush, FlushForReader, Commit, ReadRow, ReadSteps, handler, store
<1>2. RowsBearTheirId' /\ TrackedOnce' /\ InFlightIsOnRecord' /\ PhasesAreTold' /\ StoriesAgree'
  BY <1>1 DEF RowsBearTheirId, TrackedOnce, InFlightIsOnRecord, InFlight, Row, PhasesAreTold,
              StoriesAgree, TrackerAgreesWithReplay, EndIsPublishedOnceRecorded
<1>3. EndedIsOnRecord'
  <2>1. steps \intersect diskSteps \subseteq steps' \intersect diskSteps'
    BY <1>1
  <2> QED
    BY <1>1, <2>1 DEF EndedIsOnRecord, Row
<1>4. FloorIsCommitted'
  <2>1. ASSUME NEW id \in RunIds, ReadFlush(id) PROVE FloorIsCommitted'
    <3>1. steps' = steps /\ reader'.at = "flushed" /\ reader'.id = id /\ reader'.floor = StepsOf(id)
      BY <2>1 DEF ReadFlush, FlushForReader, NotReading
    <3>2. steps \subseteq diskSteps'
      <4>1. CASE pendingStepWrites > 0
        BY <2>1, <4>1 DEF ReadFlush, FlushForReader, Commit
      <4>2. CASE ~(pendingStepWrites > 0)
        BY <2>1, <4>2, NothingPendingIsCommitted DEF ReadFlush, FlushForReader
      <4> QED
        BY <4>1, <4>2
    <3> QED
      BY <3>1, <3>2 DEF FloorIsCommitted, LiveTailIsCurrent, StepsOf
  <2>2. CASE ReadRow
    <3>1. steps' = steps /\ diskSteps' = diskSteps
      BY <2>2 DEF ReadRow, store
    <3>2. \/ reader'.at = "idle"
          \/ /\ reader.at = "flushed" /\ reader'.at = "row"
             /\ reader'.id = reader.id /\ reader'.floor = reader.floor
      BY <2>2 DEF ReadRow, NotReading, BatchInv, TypeOK
    <3> QED
      BY <3>1, <3>2 DEF FloorIsCommitted, LiveTailIsCurrent
  <2>3. CASE ReadSteps
    <3>1. /\ reader.at = "row" /\ reader'.at = "done" /\ reader'.floor = reader.floor
          /\ reader'.steps = {s \in diskSteps : s.id = reader.id}
      BY <2>3 DEF ReadSteps, BatchInv, TypeOK
    <3> QED
      BY <3>1 DEF FloorIsCommitted, LiveTailIsCurrent
  <2> QED
    BY <2>1, <2>2, <2>3
<1> QED
  BY <1>2, <1>3, <1>4

LEMMA RetentionTellsTheStory ==
  ASSUME BatchInv, StoryInv, (\E id \in RunIds : Ages(id)) \/ Prune
  PROVE  StoryInv'
<1> USE DEF StoryInv
<1>1. TypeOK /\ UNCHANGED <<phase, emitted, inThread, dropped, tracked, reader, published>>
  BY DEF BatchInv, Ages, Prune, handler
<1>2. /\ runs' \subseteq runs /\ steps' \subseteq steps
      /\ steps' \union diskSteps' \subseteq steps \union diskSteps
  BY DEF Ages, Prune
<1>3. RowsBearTheirId' /\ TrackedOnce' /\ PhasesAreTold' /\ StoriesAgree'
  BY <1>1, <1>2 DEF RowsBearTheirId, TrackedOnce, PhasesAreTold, InFlight,
              StoriesAgree, TrackerAgreesWithReplay, EndIsPublishedOnceRecorded
<1>4. ASSUME NEW id \in RunIds, Ages(id) PROVE InFlightIsOnRecord' /\ EndedIsOnRecord'
  <2>1. /\ UNCHANGED <<runs, steps, diskSteps>> /\ old' = old \union {id}
        /\ \A q \in Requests : RunIdOf[q] = id => ~InFlight(q)
    BY <1>4 DEF Ages
  <2> QED
    BY <1>1, <2>1 DEF InFlightIsOnRecord, EndedIsOnRecord, InFlight, Row
<1>5. ASSUME Prune PROVE InFlightIsOnRecord' /\ EndedIsOnRecord'
  <2>1. /\ runs' = {r \in runs : r.id \notin old} /\ old' = {}
        /\ steps' = {s \in steps : s.id \notin old} /\ diskSteps' = steps'
    BY <1>5 DEF Prune
  <2>2. \A p \in Requests, i \in Nat : Row(p, i).id = RunIdOf[p]
    BY DEF Row
  <2>3. \A p \in Requests : emitted[p] \in Nat
    BY <1>1, Bounds DEF TypeOK
  <2>4. InFlightIsOnRecord'
    <3> SUFFICES ASSUME NEW p \in Requests, InFlight(p), NEW i \in 1 .. emitted[p],
                        i < emitted[p] \/ p \notin inThread \union dropped
                 PROVE  Row(p, i) \in steps'
      BY <1>1, <2>1 DEF InFlightIsOnRecord, InFlight, Row
    <3>1. Row(p, i) \in steps /\ RunIdOf[p] \notin old
      BY DEF InFlightIsOnRecord
    <3> QED
      BY <2>1, <2>2, <2>3, <3>1
  <2>5. EndedIsOnRecord'
    <3> SUFFICES ASSUME NEW r \in runs', r.status # "running", NEW i \in 1 .. emitted[r.by],
                        i < emitted[r.by] \/ r.by \notin dropped
                 PROVE  Row(r.by, i) \in steps'
      BY <1>1, <2>1 DEF EndedIsOnRecord, Row
    <3>1. r \in runs /\ r.id \notin old /\ r.by \in Requests /\ r.id = RunIdOf[r.by]
      BY <1>1, <2>1 DEF TypeOK, RunRows, RowsBearTheirId
    <3>2. Row(r.by, i) \in steps
      BY <3>1 DEF EndedIsOnRecord
    <3> QED
      BY <2>1, <2>2, <2>3, <3>1, <3>2
  <2> QED
    BY <2>4, <2>5
<1>6. FloorIsCommitted'
  <2>1. CASE \E id \in RunIds : Ages(id)
    BY <1>1, <2>1, FloorStays DEF Ages
  <2>2. CASE Prune
    BY <1>1, <2>2, NoReadNoFloor DEF Prune
  <2> QED
    BY <2>1, <2>2
<1> QED
  BY <1>3, <1>4, <1>5, <1>6

LEMMA CrashTellsTheStory ==
  ASSUME BatchInv, StoryInv, Crash
  PROVE  StoryInv'
<1> USE DEF StoryInv
<1>1. /\ phase' = [q \in Requests |-> IF InFlight(q) THEN "lost" ELSE phase[q]]
      /\ tracked' = << >> /\ Len(tracked') = 0
      /\ steps' = diskSteps /\ diskSteps' = diskSteps
      /\ reader' = NotReading /\ published' = {}
      /\ UNCHANGED <<emitted, dropped, runs, old>>
  BY EmptySeq DEF Crash
<1>2. RowsBearTheirId' /\ TrackedOnce' /\ StoriesAgree'
  BY <1>1 DEF RowsBearTheirId, TrackedOnce, StoriesAgree,
              TrackerAgreesWithReplay, EndIsPublishedOnceRecorded
<1>3. \A q \in Requests : /\ ~InFlight(q)'
                          /\ phase'[q] = "new" <=> phase[q] = "new"
                          /\ phase'[q] = "finished" <=> phase[q] = "finished"
  BY <1>1 DEF InFlight
<1>4. InFlightIsOnRecord'
  BY <1>3 DEF InFlightIsOnRecord
<1>5. EndedIsOnRecord'
  BY <1>1 DEF EndedIsOnRecord, Row
<1>6. PhasesAreTold'
  <2>1. \A r \in runs : r.by \in Requests
    BY DEF BatchInv, TypeOK, RunRows
  <2> QED
    BY <1>1, <1>3, <2>1 DEF PhasesAreTold
<1>7. FloorIsCommitted'
  BY <1>1 DEF NotReading, FloorIsCommitted, LiveTailIsCurrent
<1> QED
  BY <1>2, <1>4, <1>5, <1>6, <1>7

\* Both invariants together, for a store whose run ids are distinct.
RecordInv == BatchInv /\ StoryInv

LEMMA RecordInvNext == IdsAreDistinct /\ RecordInv /\ [Next]_vars => RecordInv'
<1> SUFFICES ASSUME IdsAreDistinct, BatchInv, StoryInv, [Next]_vars PROVE StoryInv'
  BY BatchInvNext DEF RecordInv
<1>1. CASE UNCHANGED vars
  <2>1. UNCHANGED <<phase, emitted, inThread, dropped, tracked, runs, old, steps, diskSteps, reader, published>>
    BY <1>1 DEF vars, handler, store
  <2> QED
    BY <2>1 DEF StoryInv, RowsBearTheirId, TrackedOnce, InFlightIsOnRecord, EndedIsOnRecord,
                PhasesAreTold, InFlight, Row, StoriesAgree, TrackerAgreesWithReplay,
                EndIsPublishedOnceRecorded, FloorIsCommitted, LiveTailIsCurrent
<1>2. CASE Next
  BY <1>2, BeginTellsTheStory, ProgressTellsTheStory, ThreadTellsTheStory, ReturnTellsTheStory,
     BeginFailsTellsTheStory, ThreadFailsTellsTheStory, UnrecordedTellsTheStory,
     FinishTellsTheStory, CancellationTellsTheStory, ReadTellsTheStory,
     RetentionTellsTheStory, CrashTellsTheStory DEF Next
<1> QED
  BY <1>1, <1>2

LEMMA RecordInvHolds ==
  ASSUME IdsAreDistinct
  PROVE  Spec => []RecordInv
<1>1. Init => RecordInv
  BY BatchInvInit, StoryInvInit DEF RecordInv
<1>2. RecordInv /\ [Next]_vars => RecordInv'
  BY RecordInvNext
<1> QED
  BY <1>1, <1>2, PTL DEF Spec

THEOREM FinishedRunsAreComplete ==
  ASSUME IdsAreDistinct
  PROVE  Spec => []FinishedRunIsComplete
<1>1. RecordInv => FinishedRunIsComplete
  <2> SUFFICES ASSUME RecordInv, NEW r \in runs, r.status # "running"
               PROVE  /\ r.by \in dropped => r.status = "failed"
                      /\ \A i \in 1 .. emitted[r.by] :
                           \/ [id |-> r.id, index |-> i, by |-> r.by] \in diskSteps
                           \/ i = emitted[r.by] /\ r.by \in dropped
    BY DEF FinishedRunIsComplete
  <2>1. r.by \in dropped => r.status = "failed"
    BY DEF RecordInv, StoryInv, EndedIsOnRecord
  <2>2. ASSUME NEW i \in 1 .. emitted[r.by], i # emitted[r.by] \/ r.by \notin dropped
        PROVE  [id |-> r.id, index |-> i, by |-> r.by] \in diskSteps
    <3>1. emitted[r.by] \in Nat
      BY Bounds DEF RecordInv, BatchInv, TypeOK, RunRows
    <3>2. i < emitted[r.by] \/ r.by \notin dropped
      BY <2>2, <3>1
    <3>3. Row(r.by, i) \in diskSteps /\ r.id = RunIdOf[r.by]
      BY <3>2 DEF RecordInv, StoryInv, EndedIsOnRecord, RowsBearTheirId
    <3> QED
      BY <3>3 DEF Row
  <2> QED
    BY <2>1, <2>2
<1> QED
  BY RecordInvHolds, <1>1, PTL

THEOREM RecordsTellOneStory ==
  ASSUME IdsAreDistinct
  PROVE  Spec => []StoriesAgree
<1>1. RecordInv => StoriesAgree
  BY DEF RecordInv, StoryInv
<1> QED
  BY RecordInvHolds, <1>1, PTL

THEOREM LiveTailsAreCurrent ==
  ASSUME IdsAreDistinct
  PROVE  Spec => []LiveTailIsCurrent
<1>1. RecordInv => LiveTailIsCurrent
  BY DEF RecordInv, StoryInv, FloorIsCommitted
<1> QED
  BY RecordInvHolds, <1>1, PTL
==============================================================================
