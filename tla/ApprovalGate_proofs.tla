------------------------ MODULE ApprovalGate_proofs -------------------------
(***************************************************************************)
(* Proofs about ApprovalGate, for any requests, listeners and sizes:       *)
(* type correctness, the safety invariants, the finality of decisions, and *)
(* that every step of the gate is a step of ApprovalContract or a stutter. *)
(*                                                                         *)
(* The inductive invariant says what each phase of a caller knows of its   *)
(* request.  Without it PendingIsUndecided is not inductive: a submit()    *)
(* could meet a request that is already decided, and a woken caller could  *)
(* return while its request is pending.                                    *)
(***************************************************************************)
EXTENDS ApprovalGate, FiniteSetTheorems, SequenceTheorems, TLAPS

\* What the phase of a caller tells about its request.
PhaseAgreesWithStatus ==
  \A r \in Requests :
    /\ phase[r] = "idle" <=> status[r] = "none"
    /\ phase[r] = "waiting" => status[r] = "pending"
    /\ phase[r] = "woken" => status[r] \in Verdicts
    /\ phase[r] = "returned" => status[r] \in Decided
    /\ status[r] = "timed_out" => phase[r] = "returned"

\* What an operator has been told is what stands, and nobody else approves or denies.
ToldAgreesWithStatus ==
  \A r \in Requests : /\ told[r] # "none" => status[r] = told[r]
                      /\ status[r] \in Verdicts => told[r] = status[r]

DecisionInv == /\ TypeOK
               /\ PhaseAgreesWithStatus
               /\ ToldAgreesWithStatus
               /\ PendingIsUndecided
-----------------------------------------------------------------------------
(* Lemmas about the operators of the module. *)

\* A bounded history keeps its most recent entries, and all of them while it is
\* not full.
LEMMA LastEntriesKept ==
  ASSUME NEW h \in Seq(Requests)
  PROVE  /\ LastEntries(h) \in Seq(Requests)
         /\ Len(LastEntries(h)) <= HistorySize
         /\ Len(h) <= HistorySize => LastEntries(h) = h
         /\ Len(h) > HistorySize => Len(LastEntries(h)) = HistorySize
         /\ \A i \in 1 .. Len(LastEntries(h)) :
              \E j \in 1 .. Len(h) : LastEntries(h)[i] = h[j]
<1>1. HistorySize \in Nat \ {0}
  BY SizesAreUsable
<1>2. Len(h) \in Nat
  BY LenProperties
<1>3. CASE Len(h) <= HistorySize
  BY <1>1, <1>2, <1>3 DEF LastEntries
<1>4. CASE Len(h) > HistorySize
  <2> DEFINE m == Len(h) - HistorySize + 1
  <2>1. m \in 1 .. Len(h) + 1 /\ Len(h) \in m - 1 .. Len(h)
    BY <1>1, <1>2, <1>4
  <2>2. LastEntries(h) = SubSeq(h, m, Len(h))
    BY <1>4 DEF LastEntries
  <2>3. /\ SubSeq(h, m, Len(h)) \in Seq(Requests)
        /\ Len(SubSeq(h, m, Len(h))) = HistorySize
        /\ \A i \in 1 .. HistorySize : SubSeq(h, m, Len(h))[i] = h[m + i - 1]
    BY <1>1, <1>2, <1>4, SubSeqProperties
  <2>4. \A i \in 1 .. HistorySize : m + i - 1 \in 1 .. Len(h)
    BY <1>1, <1>2, <1>4
  <2> QED
    BY <1>1, <1>2, <1>4, <2>2, <2>3, <2>4
<1> QED
  BY <1>1, <1>2, <1>3, <1>4

\* Broadcasting an event leaves the feed well-typed.
LEMMA BroadcastType ==
  ASSUME TypeOK, NEW e \in Events, Broadcast(e)
  PROVE  /\ listeners' \subseteq Listeners
         /\ queue' \in [Listeners -> Seq(Events)]
         /\ log' \in Seq(Events)
<1>1. \A l \in Listeners : Append(queue[l], e) \in Seq(Events)
  BY AppendProperties DEF TypeOK
<1>2. log' \in Seq(Events)
  BY AppendProperties DEF TypeOK, Broadcast
<1> QED
  BY <1>1, <1>2 DEF TypeOK, Broadcast

\* Moving a request to the history leaves both collections well-typed.
LEMMA MoveToHistoryType ==
  ASSUME TypeOK, NEW r \in Requests, MoveToHistory(r)
  PROVE  pending' \subseteq Requests /\ history' \in Seq(Requests)
<1>1. Append(history, r) \in Seq(Requests)
  BY AppendProperties DEF TypeOK
<1> QED
  BY <1>1, LastEntriesKept DEF TypeOK, MoveToHistory
-----------------------------------------------------------------------------
(* The inductive invariant: one lemma per kind of step. *)

LEMMA InitDecisionInv == Init => DecisionInv
BY EmptySeq DEF Init, DecisionInv, TypeOK, PhaseAgreesWithStatus, ToldAgreesWithStatus,
                PendingIsUndecided, Statuses, Phases, Decided, Verdicts

LEMMA SubmitKeepsDecisionInv ==
  ASSUME DecisionInv, NEW r \in Requests, Submit(r)
  PROVE  DecisionInv'
<1>1. Event("approval.pending", r, "pending") \in Events
  BY DEF Event, Events, Statuses
<1>2. TypeOK'
  <2>1. /\ listeners' \subseteq Listeners
        /\ queue' \in [Listeners -> Seq(Events)]
        /\ log' \in Seq(Events)
    BY <1>1, BroadcastType DEF DecisionInv, Submit
  <2> QED
    BY <2>1 DEF DecisionInv, TypeOK, Submit, Statuses, Phases
<1>3. PhaseAgreesWithStatus' /\ ToldAgreesWithStatus' /\ PendingIsUndecided'
  BY DEF DecisionInv, TypeOK, PhaseAgreesWithStatus, ToldAgreesWithStatus,
         PendingIsUndecided, Submit, Verdicts, Decided
<1> QED
  BY <1>2, <1>3 DEF DecisionInv

LEMMA ResolveKeepsDecisionInv ==
  ASSUME DecisionInv, NEW r \in Requests, NEW verdict \in Verdicts, Resolve(r, verdict)
  PROVE  DecisionInv'
<1>1. Event("approval.resolved", r, verdict) \in Events
  BY DEF Event, Events, Statuses, Decided
<1>2. TypeOK'
  <2>1. /\ listeners' \subseteq Listeners
        /\ queue' \in [Listeners -> Seq(Events)]
        /\ log' \in Seq(Events)
    BY <1>1, BroadcastType DEF DecisionInv, Resolve
  <2>2. pending' \subseteq Requests /\ history' \in Seq(Requests)
    BY MoveToHistoryType DEF DecisionInv, Resolve
  <2> QED
    BY <2>1, <2>2 DEF DecisionInv, TypeOK, Resolve, Statuses, Phases, Decided
<1>3. PhaseAgreesWithStatus' /\ ToldAgreesWithStatus' /\ PendingIsUndecided'
  BY DEF DecisionInv, TypeOK, PhaseAgreesWithStatus, ToldAgreesWithStatus,
         PendingIsUndecided, Resolve, MoveToHistory, Verdicts, Decided
<1> QED
  BY <1>2, <1>3 DEF DecisionInv

LEMMA TimeoutPathKeepsDecisionInv ==
  ASSUME DecisionInv, NEW r \in Requests, TimeoutPath(r)
  PROVE  DecisionInv'
<1>1. StatusAfterTimeout(r) \in Decided
  BY DEF DecisionInv, TypeOK, PhaseAgreesWithStatus, TimeoutPath, StatusAfterTimeout,
         Statuses, Decided
<1>2. TypeOK'
  <2>1. Event("approval.resolved", r, StatusAfterTimeout(r)) \in Events
    BY <1>1 DEF Event, Events, Statuses
  <2>2. /\ listeners' \subseteq Listeners
        /\ queue' \in [Listeners -> Seq(Events)]
        /\ log' \in Seq(Events)
    BY <2>1, BroadcastType DEF DecisionInv, TimeoutPath
  <2>3. pending' \subseteq Requests /\ history' \in Seq(Requests)
    BY MoveToHistoryType DEF DecisionInv, TimeoutPath
  <2> QED
    BY <1>1, <2>2, <2>3 DEF DecisionInv, TypeOK, TimeoutPath, Statuses, Phases
<1>3. PhaseAgreesWithStatus' /\ ToldAgreesWithStatus' /\ PendingIsUndecided'
  BY <1>1 DEF DecisionInv, TypeOK, PhaseAgreesWithStatus, ToldAgreesWithStatus,
         PendingIsUndecided, TimeoutPath, StatusAfterTimeout, MoveToHistory,
         Verdicts, Decided
<1> QED
  BY <1>2, <1>3 DEF DecisionInv

\* The steps that move only a caller: its timer, its wake-up, its cancellation.
LEMMA CallerStepsKeepDecisionInv ==
  ASSUME DecisionInv, NEW r \in Requests,
         TimerFires(r) \/ WaiterReturns(r) \/ CallerCancelled(r)
  PROVE  DecisionInv'
<1>1. TypeOK'
  BY DEF DecisionInv, TypeOK, TimerFires, WaiterReturns, CallerCancelled, feed, Phases
<1>2. PhaseAgreesWithStatus' /\ ToldAgreesWithStatus' /\ PendingIsUndecided'
  BY DEF DecisionInv, TypeOK, PhaseAgreesWithStatus, ToldAgreesWithStatus,
         PendingIsUndecided, TimerFires, WaiterReturns, CallerCancelled, Parked,
         Verdicts, Decided
<1> QED
  BY <1>1, <1>2 DEF DecisionInv

LEMMA FeedStepsKeepDecisionInv ==
  ASSUME DecisionInv, NEW l \in Listeners, Subscribe(l) \/ Unsubscribe(l) \/ Consume(l)
  PROVE  DecisionInv'
<1>1. TypeOK'
  <2>1. CASE Subscribe(l) \/ Unsubscribe(l)
    BY <2>1 DEF DecisionInv, TypeOK, Subscribe, Unsubscribe, waiters
  <2>2. CASE Consume(l)
    <3>1. Tail(queue[l]) \in Seq(Events)
      BY <2>2, HeadTailProperties DEF DecisionInv, TypeOK, Consume
    <3> QED
      BY <2>2, <3>1 DEF DecisionInv, TypeOK, Consume, waiters
  <2> QED
    BY <2>1, <2>2
<1>2. PhaseAgreesWithStatus' /\ ToldAgreesWithStatus' /\ PendingIsUndecided'
  BY DEF DecisionInv, PhaseAgreesWithStatus, ToldAgreesWithStatus, PendingIsUndecided,
         Subscribe, Unsubscribe, Consume, waiters
<1> QED
  BY <1>1, <1>2 DEF DecisionInv

LEMMA NextKeepsDecisionInv == DecisionInv /\ [Next]_vars => DecisionInv'
<1> SUFFICES ASSUME DecisionInv, [Next]_vars
             PROVE  DecisionInv'
  OBVIOUS
<1>1. ASSUME NEW r \in Requests, Submit(r) PROVE DecisionInv'
  BY <1>1, SubmitKeepsDecisionInv
<1>2. ASSUME NEW r \in Requests, NEW verdict \in Verdicts, Resolve(r, verdict)
      PROVE  DecisionInv'
  BY <1>2, ResolveKeepsDecisionInv
<1>3. ASSUME NEW r \in Requests, TimerFires(r) \/ WaiterReturns(r) \/ CallerCancelled(r)
      PROVE  DecisionInv'
  BY <1>3, CallerStepsKeepDecisionInv
<1>4. ASSUME NEW r \in Requests, TimeoutPath(r) PROVE DecisionInv'
  BY <1>4, TimeoutPathKeepsDecisionInv
<1>5. ASSUME NEW l \in Listeners, Subscribe(l) \/ Unsubscribe(l) \/ Consume(l)
      PROVE  DecisionInv'
  BY <1>5, FeedStepsKeepDecisionInv
<1>6. CASE UNCHANGED vars
  BY <1>6 DEF vars, DecisionInv, TypeOK, PhaseAgreesWithStatus, ToldAgreesWithStatus,
              PendingIsUndecided
<1> QED
  BY <1>1, <1>2, <1>3, <1>4, <1>5, <1>6 DEF Next
-----------------------------------------------------------------------------
(***************************************************************************)
(* The history.  It is disturbed only by the two steps that move a request *)
(* there; both leave the request decided and announce it.                  *)
(***************************************************************************)

\* Positions of the log are finite in number.
LEMMA LaterIsFinite ==
  ASSUME TypeOK, NEW i
  PROVE  /\ IsFiniteSet({j \in Resolutions : j > i})
         /\ Later(i) \in Nat
<1>1. Len(log) \in Nat
  BY LenProperties DEF TypeOK
<1>2. IsFiniteSet(1 .. Len(log))
  BY <1>1, FS_Interval
<1>3. {j \in Resolutions : j > i} \subseteq 1 .. Len(log)
  BY DEF Resolutions
<1>4. IsFiniteSet({j \in Resolutions : j > i})
  BY <1>2, <1>3, FS_Subset
<1> QED
  BY <1>4, FS_CardinalityType DEF Later

\* One event more: the positions before it stay, and it is a resolution by its type.
LEMMA ResolutionsGrow ==
  ASSUME TypeOK, NEW e, log' = Append(log, e), Len(log) \in Nat
  PROVE  /\ Len(log') = Len(log) + 1
         /\ \A i \in 1 .. Len(log) : log'[i] = log[i]
         /\ log'[Len(log) + 1] = e
         /\ Resolutions' = IF e.type = "approval.resolved"
                           THEN Resolutions \union {Len(log) + 1} ELSE Resolutions
<1>1. /\ Len(log') = Len(log) + 1
      /\ \A i \in 1 .. Len(log) : log'[i] = log[i]
      /\ log'[Len(log) + 1] = e
  BY DEF TypeOK
<1>2. \A i : i \in 1 .. Len(log') <=> i \in 1 .. Len(log) \/ i = Len(log) + 1
  BY <1>1
<1> QED
  BY <1>1, <1>2 DEF Resolutions

LEMMA MoveKeepsEveryDecisionRecorded ==
  ASSUME TypeOK, EveryDecisionRecorded, NEW r \in Requests, MoveToHistory(r),
         status'[r] \in Decided,
         \A q \in Requests : q # r => status'[q] = status[q],
         NEW st, log' = Append(log, Event("approval.resolved", r, st))
  PROVE  EveryDecisionRecorded'
<1> DEFINE h == Append(history, r)
<1>1. /\ h \in Seq(Requests)
      /\ Len(history) \in Nat /\ Len(h) = Len(history) + 1
      /\ \A j \in 1 .. Len(history) : h[j] = history[j]
      /\ h[Len(history) + 1] = r
  BY AppendProperties, LenProperties DEF TypeOK
<1>2. history' = LastEntries(h)
  BY DEF MoveToHistory
<1>3. HistorySize \in Nat \ {0}
  BY SizesAreUsable
<1>4. \A j \in 1 .. Len(h) : status'[h[j]] \in Decided
  <2> TAKE j \in 1 .. Len(h)
  <2>1. CASE j \in 1 .. Len(history)
    <3>1. h[j] = history[j] /\ history[j] \in Requests
      BY <1>1, <2>1, ElementOfSeq DEF TypeOK
    <3>2. status[history[j]] \in Decided
      BY <2>1 DEF EveryDecisionRecorded
    <3> QED
      BY <3>1, <3>2
  <2>2. CASE j = Len(history) + 1
    BY <1>1, <2>2
  <2> QED
    BY <1>1, <2>1, <2>2
<1> HIDE DEF h
<1>5. Len(history') <= HistorySize
  BY <1>1, <1>2, LastEntriesKept
<1>6. \A i \in 1 .. Len(history') : status'[history'[i]] \in Decided
  <2> TAKE i \in 1 .. Len(history')
  <2>1. PICK j \in 1 .. Len(h) : LastEntries(h)[i] = h[j]
    BY <1>1, <1>2, LastEntriesKept
  <2> QED
    BY <1>2, <1>4, <2>1
<1>7. Len(log) \in Nat
  BY LenProperties DEF TypeOK
<1>n. PICK n \in Nat : n = Len(log) + 1
  BY <1>7
<1>8. /\ \A i \in 1 .. Len(log) : log'[i] = log[i]
      /\ log'[n].id = r
      /\ Resolutions' = Resolutions \union {n}
  BY <1>7, <1>n, ResolutionsGrow DEF Event
<1>9. n \notin Resolutions /\ \A i \in Resolutions : i \in 1 .. Len(log) /\ i < n
  BY <1>7, <1>n DEF Resolutions
<1>10. ASSUME NEW q \in Requests, status'[q] \in Decided
       PROVE  \E i \in Resolutions' : log'[i].id = q
  <2>1. CASE q = r
    BY <1>8, <2>1
  <2>2. CASE q # r
    BY <1>8, <1>9, <1>10, <2>2 DEF EveryDecisionRecorded
  <2> QED
    BY <2>1, <2>2
\* The history ends with what it ended with before, one place further back, and r.
<1>11. /\ Len(history') \in Nat \ {0} /\ history'[Len(history')] = r
       /\ \A k \in Nat : k < Len(history) /\ k + 1 < HistorySize =>
            /\ k + 1 < Len(history')
            /\ history'[Len(history') - (k + 1)] = history[Len(history) - k]
  <2>1. CASE Len(h) <= HistorySize
    <3>1. history' = h
      BY <1>1, <1>2, <2>1, LastEntriesKept
    <3> QED
      BY <1>1, <3>1
  <2>2. CASE Len(h) > HistorySize
    <3> DEFINE m == Len(h) - HistorySize + 1
    <3>1. history' = SubSeq(h, m, Len(h))
      BY <1>2, <2>2 DEF LastEntries
    <3>2. m \in 1 .. Len(h) + 1 /\ Len(h) \in m - 1 .. Len(h)
      BY <1>1, <1>3, <2>2
    <3>3. /\ Len(SubSeq(h, m, Len(h))) = HistorySize
          /\ \A i \in 1 .. HistorySize : SubSeq(h, m, Len(h))[i] = h[m + i - 1]
      BY <1>1, <1>3, <2>2, SubSeqProperties
    <3>4. Len(history') = HistorySize /\ history'[HistorySize] = h[Len(h)]
      <4>1. m + HistorySize - 1 = Len(h) /\ HistorySize \in 1 .. HistorySize
        BY <1>1, <1>3
      <4> QED
        BY <3>1, <3>3, <4>1
    <3>5. ASSUME NEW k \in Nat, k < Len(history), k + 1 < HistorySize
          PROVE  history'[HistorySize - (k + 1)] = history[Len(history) - k]
      <4>1. /\ HistorySize - (k + 1) \in 1 .. HistorySize
            /\ m + (HistorySize - (k + 1)) - 1 = Len(history) - k
            /\ Len(history) - k \in 1 .. Len(history)
        BY <1>1, <1>3, <3>5
      <4>2. history'[HistorySize - (k + 1)] = h[m + (HistorySize - (k + 1)) - 1]
        BY <3>1, <3>3, <4>1
      <4> HIDE DEF m
      <4> QED
        BY <1>1, <4>1, <4>2
    <3> QED
      BY <1>1, <1>3, <3>4, <3>5
  <2>3. Len(h) <= HistorySize \/ Len(h) > HistorySize
    BY <1>1, <1>3
  <2> QED
    BY <2>1, <2>2, <2>3
<1>12. Later(n)' = 0
  <2>1. {j \in Resolutions' : j > n} = {}
    BY <1>8, <1>9
  <2> QED
    BY <2>1, FS_EmptySet DEF Later
<1>13. \A i \in Resolutions : Later(i) \in Nat /\ Later(i)' = Later(i) + 1
  <2> TAKE i \in Resolutions
  <2>1. {j \in Resolutions' : j > i} = {j \in Resolutions : j > i} \union {n}
    BY <1>8, <1>9
  <2>2. n \notin {j \in Resolutions : j > i}
    BY <1>9
  <2>3. IsFiniteSet({j \in Resolutions : j > i}) /\ Later(i) \in Nat
    BY LaterIsFinite
  <2>4. Cardinality({j \in Resolutions : j > i} \union {n}) = Later(i) + 1
    BY <2>2, <2>3, FS_AddElement DEF Later
  <2> QED
    BY <2>1, <2>3, <2>4 DEF Later
<1>14. ASSUME NEW i \in Resolutions', Later(i)' < HistorySize
       PROVE  /\ Later(i)' < Len(history')
              /\ history'[Len(history') - Later(i)'] = log'[i].id
  <2>1. CASE i = n
    <3>1. Later(i)' = 0
      BY <1>12, <2>1
    <3>2. history'[Len(history')] = r /\ log'[i].id = r /\ Len(history') \in Nat \ {0}
      BY <1>8, <1>11, <2>1
    <3>3. Len(history') - Later(i)' = Len(history') /\ Later(i)' < Len(history')
      BY <3>1, <3>2
    <3> QED
      BY <3>2, <3>3
  <2>2. CASE i \in Resolutions
    <3>1. Later(i) \in Nat /\ Later(i)' = Later(i) + 1
      BY <1>13, <2>2
    <3>2. Later(i) < HistorySize /\ Later(i) + 1 < HistorySize
      BY <1>3, <1>14, <3>1
    <3>3. Later(i) < Len(history) /\ history[Len(history) - Later(i)] = log[i].id
      BY <2>2, <3>2 DEF EveryDecisionRecorded
    <3>4. log'[i] = log[i]
      BY <1>8, <1>9, <2>2
    <3> QED
      BY <1>11, <3>1, <3>2, <3>3, <3>4
  <2> QED
    BY <1>8, <2>1, <2>2
<1> QED
  BY <1>5, <1>6, <1>10, <1>14 DEF EveryDecisionRecorded

LEMMA NextKeepsEveryDecisionRecorded ==
  DecisionInv /\ EveryDecisionRecorded /\ [Next]_vars => EveryDecisionRecorded'
<1> SUFFICES ASSUME DecisionInv, EveryDecisionRecorded, [Next]_vars
             PROVE  EveryDecisionRecorded'
  OBVIOUS
<1>1. ASSUME NEW r \in Requests, Submit(r) PROVE EveryDecisionRecorded'
  <2>1. \A q \in Requests : status'[q] \in Decided <=> status[q] \in Decided
    BY <1>1 DEF Submit, DecisionInv, TypeOK, PhaseAgreesWithStatus, Decided, Verdicts
  <2>2. \A i \in 1 .. Len(history) : history[i] \in Requests
    BY ElementOfSeq DEF DecisionInv, TypeOK
  <2>3. Len(log) \in Nat
    BY LenProperties DEF DecisionInv, TypeOK
  <2>4. /\ Resolutions' = Resolutions
        /\ \A i \in Resolutions : log'[i] = log[i]
    <3>1. log' = Append(log, Event("approval.pending", r, "pending"))
      BY <1>1 DEF Submit, Broadcast
    <3>2. Resolutions \subseteq 1 .. Len(log)
      BY DEF Resolutions
    <3> QED
      BY <2>3, <3>1, <3>2, ResolutionsGrow DEF DecisionInv, Event
  <2>5. \A i \in Resolutions : Later(i)' = Later(i)
    BY <2>4 DEF Later
  <2>6. history' = history
    BY <1>1 DEF Submit
  <2> QED
    BY <2>1, <2>2, <2>4, <2>5, <2>6 DEF EveryDecisionRecorded
<1>2. ASSUME NEW r \in Requests, NEW verdict \in Verdicts, Resolve(r, verdict)
      PROVE  EveryDecisionRecorded'
  <2>1. /\ status'[r] \in Decided
        /\ \A q \in Requests : q # r => status'[q] = status[q]
        /\ log' = Append(log, Event("approval.resolved", r, verdict))
    BY <1>2 DEF Resolve, DecisionInv, TypeOK, Decided, Broadcast
  <2> QED
    BY <1>2, <2>1, MoveKeepsEveryDecisionRecorded DEF Resolve, DecisionInv
<1>3. ASSUME NEW r \in Requests, TimeoutPath(r) PROVE EveryDecisionRecorded'
  <2>1. /\ status'[r] \in Decided
        /\ \A q \in Requests : q # r => status'[q] = status[q]
    BY <1>3 DEF TimeoutPath, StatusAfterTimeout, DecisionInv, TypeOK,
                PhaseAgreesWithStatus, Statuses, Decided
  <2>2. log' = Append(log, Event("approval.resolved", r, StatusAfterTimeout(r)))
    BY <1>3 DEF TimeoutPath, Broadcast
  <2> QED
    BY <1>3, <2>1, <2>2, MoveKeepsEveryDecisionRecorded DEF TimeoutPath, DecisionInv
<1>4. ASSUME UNCHANGED <<status, history, log>> PROVE EveryDecisionRecorded'
  BY <1>4 DEF EveryDecisionRecorded, Resolutions, Later
<1> QED
  BY <1>1, <1>2, <1>3, <1>4 DEF Next, TimerFires, WaiterReturns, CallerCancelled,
     Subscribe, Unsubscribe, Consume, waiters, feed, vars
-----------------------------------------------------------------------------
(***************************************************************************)
(* The listener feed.  It is disturbed only by the three steps that        *)
(* broadcast, and by what listeners do to their own queues.                *)
(***************************************************************************)

\* The queue of a listener holds the last broadcasts, in order.
EndsTheLog(l) ==
  /\ Len(queue[l]) <= Len(log)
  /\ \A j \in 1 .. Len(queue[l]) : queue[l][j] = log[Len(log) - Len(queue[l]) + j]

QueuesEndTheLog == \A l \in listeners : EndsTheLog(l)

Announced(r) == {k \in 1 .. Len(log) : log[k].type = "approval.pending" /\ log[k].id = r}

\* A request is announced once, when it is submitted; what is said of its end is final.
LogTellsTheDecision ==
  /\ \A r \in Requests : IF status[r] = "none"
                         THEN \A i \in 1 .. Len(log) : log[i].id # r
                         ELSE \E k : Announced(r) = {k}
  /\ \A r \in Requests : \A k \in Announced(r), i \in 1 .. Len(log) : log[i].id = r => k <= i
  /\ \A i \in 1 .. Len(log) : log[i].type = "approval.resolved" =>
       log[i].status = status[log[i].id] /\ status[log[i].id] \in Decided

FeedInv == QueuesEndTheLog /\ LogTellsTheDecision

\* One event more in the log.
LEMMA LogGrows ==
  ASSUME TypeOK, NEW e \in Events, Broadcast(e)
  PROVE  /\ Len(log) \in Nat /\ Len(log') = Len(log) + 1 /\ log'[Len(log) + 1] = e
         /\ \A i \in 1 .. Len(log) : log'[i] = log[i] /\ log[i] \in Events
         /\ \A i \in 1 .. Len(log') : i \in 1 .. Len(log) \/ i = Len(log) + 1
<1>1. log \in Seq(Events) /\ log' = Append(log, e)
  BY DEF TypeOK, Broadcast
<1>2. /\ Len(log) \in Nat /\ Len(log') = Len(log) + 1 /\ log'[Len(log) + 1] = e
      /\ \A i \in 1 .. Len(log) : log'[i] = log[i] /\ log[i] \in Events
  BY <1>1, AppendProperties, LenProperties, ElementOfSeq
<1> QED
  BY <1>2

\* A listener with room gets the event, so that its queue still ends the log.
LEMMA BroadcastKeepsQueues ==
  ASSUME TypeOK, QueuesEndTheLog, NEW e \in Events, Broadcast(e)
  PROVE  QueuesEndTheLog'
<1> SUFFICES ASSUME NEW l \in listeners' PROVE EndsTheLog(l)'
  BY DEF QueuesEndTheLog
<1>1. l \in listeners /\ l \in Listeners /\ queue'[l] = Append(queue[l], e) /\ queue[l] \in Seq(Events)
  BY DEF Broadcast, TypeOK
<1>2. /\ Len(queue[l]) \in Nat /\ Len(queue'[l]) = Len(queue[l]) + 1
      /\ queue'[l][Len(queue[l]) + 1] = e
      /\ \A j \in 1 .. Len(queue[l]) : queue'[l][j] = queue[l][j]
  BY <1>1, AppendProperties, LenProperties
<1>3. EndsTheLog(l)
  BY <1>1 DEF QueuesEndTheLog
<1>4. /\ Len(log) \in Nat /\ Len(log') = Len(log) + 1 /\ log'[Len(log) + 1] = e
      /\ \A i \in 1 .. Len(log) : log'[i] = log[i]
  BY LogGrows
<1>5. ASSUME NEW j \in 1 .. Len(queue'[l])
      PROVE  queue'[l][j] = log'[Len(log') - Len(queue'[l]) + j]
  <2> DEFINE n == Len(log) - Len(queue[l]) + j
  <2>1. Len(log') - Len(queue'[l]) + j = n
    BY <1>2, <1>4
  <2>2. CASE j \in 1 .. Len(queue[l])
    <3>1. n \in 1 .. Len(log)
      BY <1>2, <1>3, <1>4, <2>2 DEF EndsTheLog
    <3>2. queue'[l][j] = log[n]
      BY <1>2, <1>3, <2>2 DEF EndsTheLog
    <3> HIDE DEF n
    <3> QED
      BY <1>4, <2>1, <3>1, <3>2
  <2>3. CASE j = Len(queue[l]) + 1
    <3>1. Len(log) - Len(queue[l]) + (Len(queue[l]) + 1) = Len(log) + 1
      <4>1. \A a, b \in Nat : a - b + (b + 1) = a + 1
        OBVIOUS
      <4>2. Len(log) \in Nat /\ Len(queue[l]) \in Nat
        BY <1>2, <1>4
      <4> QED
        BY <4>1, <4>2
    <3>2. n = Len(log) + 1
      BY <2>3, <3>1
    <3> HIDE DEF n
    <3> QED
      BY <1>2, <1>4, <2>1, <2>3, <3>2
  <2>4. j \in 1 .. Len(queue[l]) \/ j = Len(queue[l]) + 1
    BY <1>2
  <2> QED
    BY <2>2, <2>3, <2>4
<1>6. Len(queue'[l]) <= Len(log')
  BY <1>2, <1>3, <1>4 DEF EndsTheLog
<1> QED
  BY <1>5, <1>6 DEF EndsTheLog

LEMMA SubmitKeepsLog ==
  ASSUME DecisionInv, LogTellsTheDecision, NEW r \in Requests, Submit(r)
  PROVE  LogTellsTheDecision'
<1> DEFINE e == Event("approval.pending", r, "pending")
<1>1. e \in Events /\ e.type = "approval.pending" /\ e.id = r
  BY DEF Event, Events, Statuses
<1>2. TypeOK /\ Broadcast(e)
  BY DEF Submit, DecisionInv
<1>3. status[r] = "none" /\ status'[r] = "pending" /\ \A q \in Requests : q # r => status'[q] = status[q]
  BY DEF Submit, DecisionInv, TypeOK, PhaseAgreesWithStatus
<1> HIDE DEF e
<1>4. /\ Len(log) \in Nat /\ Len(log') = Len(log) + 1 /\ log'[Len(log) + 1] = e
      /\ \A i \in 1 .. Len(log) : log'[i] = log[i] /\ log[i] \in Events
      /\ \A i \in 1 .. Len(log') : i \in 1 .. Len(log) \/ i = Len(log) + 1
      /\ 1 .. Len(log) \subseteq 1 .. Len(log') /\ Len(log) + 1 \in 1 .. Len(log')
  BY <1>1, <1>2, LogGrows
<1>5. \A i \in 1 .. Len(log) : log[i].id # r /\ log[i].id \in Requests
  BY <1>3, <1>4 DEF LogTellsTheDecision, Events
<1>6. Announced(r)' = {Len(log) + 1}
  BY <1>1, <1>4, <1>5 DEF Announced
<1>7. \A q \in Requests : q # r => Announced(q)' = Announced(q)
  BY <1>1, <1>4 DEF Announced
<1>8. ASSUME NEW q \in Requests
      PROVE  IF status'[q] = "none" THEN \A i \in 1 .. Len(log') : log'[i].id # q
                                    ELSE \E k : Announced(q)' = {k}
  <2>1. CASE q = r
    BY <1>3, <1>6, <2>1
  <2>2. CASE q # r
    BY <1>1, <1>3, <1>4, <1>7, <2>2 DEF LogTellsTheDecision
  <2> QED
    BY <2>1, <2>2
<1>9. ASSUME NEW q \in Requests, NEW k \in Announced(q)', NEW i \in 1 .. Len(log'), log'[i].id = q
      PROVE  k <= i
  <2>1. CASE q = r
    <3>1. i = Len(log) + 1
      BY <1>4, <1>5, <1>9, <2>1
    <3> QED
      BY <1>4, <1>6, <2>1, <3>1
  <2>2. CASE q # r
    <3>1. k \in Announced(q) /\ i \in 1 .. Len(log) /\ log[i].id = q
      BY <1>1, <1>4, <1>7, <1>9, <2>2
    <3> QED
      BY <3>1 DEF LogTellsTheDecision
  <2> QED
    BY <2>1, <2>2
<1>10. ASSUME NEW i \in 1 .. Len(log'), log'[i].type = "approval.resolved"
       PROVE  log'[i].status = status'[log'[i].id] /\ status'[log'[i].id] \in Decided
  <2>1. i \in 1 .. Len(log) /\ log'[i] = log[i] /\ log[i].id \in Requests /\ log[i].id # r
    BY <1>1, <1>4, <1>5, <1>10
  <2> QED
    BY <1>3, <1>10, <2>1 DEF LogTellsTheDecision
<1> QED
  BY <1>8, <1>9, <1>10 DEF LogTellsTheDecision

\* An end is told of a request that was announced, and tells how it stands from then on.
LEMMA EndKeepsLog ==
  ASSUME DecisionInv, LogTellsTheDecision, NEW r \in Requests, NEW st \in Decided,
         Broadcast(Event("approval.resolved", r, st)),
         status' = [status EXCEPT ![r] = st], status[r] \in {"pending", st}
  PROVE  LogTellsTheDecision'
<1> DEFINE e == Event("approval.resolved", r, st)
<1>1. e \in Events /\ e.type = "approval.resolved" /\ e.id = r /\ e.status = st
  BY DEF Event, Events, Statuses
<1>2. TypeOK /\ Broadcast(e) /\ status[r] # "none"
  BY DEF DecisionInv, Decided, Verdicts
<1>3. status'[r] = st /\ \A q \in Requests : q # r => status'[q] = status[q]
  BY <1>2 DEF TypeOK
<1> HIDE DEF e
<1>4. /\ Len(log) \in Nat /\ Len(log') = Len(log) + 1 /\ log'[Len(log) + 1] = e
      /\ \A i \in 1 .. Len(log) : log'[i] = log[i] /\ log[i] \in Events
      /\ \A i \in 1 .. Len(log') : i \in 1 .. Len(log) \/ i = Len(log) + 1
      /\ 1 .. Len(log) \subseteq 1 .. Len(log')
  BY <1>1, <1>2, LogGrows
<1>5. \A q \in Requests : Announced(q)' = Announced(q)
  BY <1>1, <1>4 DEF Announced
<1>6. \A i \in 1 .. Len(log) : log[i].id \in Requests
  BY <1>4 DEF Events
<1>7. ASSUME NEW q \in Requests
      PROVE  IF status'[q] = "none" THEN \A i \in 1 .. Len(log') : log'[i].id # q
                                    ELSE \E k : Announced(q)' = {k}
  <2>1. CASE q = r
    <3>1. status'[q] # "none"
      BY <1>3, <2>1 DEF Decided, Verdicts
    <3> QED
      BY <1>2, <1>5, <2>1, <3>1 DEF LogTellsTheDecision
  <2>2. CASE q # r
    <3>1. CASE status[q] = "none"
      <4>1. \A i \in 1 .. Len(log) : log[i].id # q
        BY <3>1 DEF LogTellsTheDecision
      <4>2. \A i \in 1 .. Len(log') : log'[i].id # q
        BY <1>1, <1>4, <2>2, <4>1
      <4> QED
        BY <1>3, <2>2, <3>1, <4>2
    <3>2. CASE status[q] # "none"
      BY <1>3, <1>5, <2>2, <3>2 DEF LogTellsTheDecision
    <3> QED
      BY <3>1, <3>2
  <2> QED
    BY <2>1, <2>2
<1>8. ASSUME NEW q \in Requests, NEW k \in Announced(q)', NEW i \in 1 .. Len(log'), log'[i].id = q
      PROVE  k <= i
  <2>1. k \in Announced(q) /\ k \in 1 .. Len(log)
    BY <1>5, <1>8 DEF Announced
  <2>2. CASE i \in 1 .. Len(log)
    BY <1>4, <1>8, <2>1, <2>2 DEF LogTellsTheDecision
  <2>3. CASE i = Len(log) + 1
    BY <1>4, <2>1, <2>3
  <2> QED
    BY <1>4, <2>2, <2>3
<1>9. ASSUME NEW i \in 1 .. Len(log'), log'[i].type = "approval.resolved"
      PROVE  log'[i].status = status'[log'[i].id] /\ status'[log'[i].id] \in Decided
  <2>1. CASE i = Len(log) + 1
    BY <1>1, <1>3, <1>4, <2>1
  <2>2. CASE i \in 1 .. Len(log)
    <3>1. /\ log'[i] = log[i] /\ log[i].id \in Requests
          /\ log[i].status = status[log[i].id] /\ status[log[i].id] \in Decided
      BY <1>4, <1>6, <1>9, <2>2 DEF LogTellsTheDecision
    <3>2. "pending" \notin Decided
      BY DEF Decided, Verdicts
    <3> QED
      BY <1>3, <3>1, <3>2
  <2> QED
    BY <1>4, <2>1, <2>2
<1> QED
  BY <1>7, <1>8, <1>9 DEF LogTellsTheDecision

LEMMA NextKeepsFeed == DecisionInv /\ FeedInv /\ [Next]_vars => FeedInv'
<1> SUFFICES ASSUME DecisionInv, FeedInv, [Next]_vars PROVE FeedInv'
  OBVIOUS
<1> USE DEF FeedInv
<1>0. TypeOK
  BY DEF DecisionInv
<1>1. ASSUME NEW r \in Requests, Submit(r) PROVE FeedInv'
  <2>1. Event("approval.pending", r, "pending") \in Events
    BY DEF Event, Events, Statuses
  <2>2. QueuesEndTheLog'
    BY <1>0, <1>1, <2>1, BroadcastKeepsQueues DEF Submit
  <2> QED
    BY <1>1, <2>2, SubmitKeepsLog
<1>2. ASSUME NEW r \in Requests, NEW verdict \in Verdicts, Resolve(r, verdict) PROVE FeedInv'
  <2>1. Event("approval.resolved", r, verdict) \in Events /\ verdict \in Decided
    BY DEF Event, Events, Statuses, Decided
  <2>2. QueuesEndTheLog'
    BY <1>0, <1>2, <2>1, BroadcastKeepsQueues DEF Resolve
  <2>3. LogTellsTheDecision'
    BY <1>2, <2>1, EndKeepsLog DEF Resolve
  <2> QED
    BY <2>2, <2>3
<1>3. ASSUME NEW r \in Requests, TimeoutPath(r) PROVE FeedInv'
  <2> DEFINE st == StatusAfterTimeout(r)
  <2>1. st \in Decided /\ status[r] \in {"pending", st}
    BY <1>0, <1>3 DEF DecisionInv, TypeOK, PhaseAgreesWithStatus, TimeoutPath, StatusAfterTimeout,
                      Statuses, Decided
  <2>2. /\ Broadcast(Event("approval.resolved", r, st))
        /\ status' = [status EXCEPT ![r] = st]
    BY <1>3 DEF TimeoutPath
  <2> HIDE DEF st
  <2>3. Event("approval.resolved", r, st) \in Events
    BY <2>1 DEF Event, Events, Statuses
  <2>4. QueuesEndTheLog'
    BY <1>0, <2>2, <2>3, BroadcastKeepsQueues
  <2>5. LogTellsTheDecision'
    BY <2>1, <2>2, EndKeepsLog
  <2> QED
    BY <2>4, <2>5
<1>4. ASSUME UNCHANGED <<status, listeners, queue, log>> PROVE FeedInv'
  <2>1. QueuesEndTheLog'
    BY <1>4 DEF QueuesEndTheLog, EndsTheLog
  <2>2. \A r \in Requests : Announced(r)' = Announced(r)
    BY <1>4 DEF Announced
  <2>3. LogTellsTheDecision'
    BY <1>4, <2>2 DEF LogTellsTheDecision
  <2> QED
    BY <2>1, <2>3
<1>5. ASSUME NEW l \in Listeners, Subscribe(l) \/ Unsubscribe(l) \/ Consume(l) PROVE FeedInv'
  <2>1. status' = status /\ log' = log
    BY <1>5 DEF Subscribe, Unsubscribe, Consume, waiters
  <2>2. LogTellsTheDecision'
    <3>1. \A r \in Requests : Announced(r)' = Announced(r)
      BY <2>1 DEF Announced
    <3> QED
      BY <2>1, <3>1 DEF LogTellsTheDecision
  <2>3. Len(log) \in Nat
    BY <1>0, LenProperties DEF TypeOK
  <2>4. CASE Subscribe(l)
    <3>1. Len(queue[l]) = 0 /\ queue' = queue /\ listeners' = listeners \union {l}
      BY <2>4, EmptySeq DEF Subscribe
    <3>2. EndsTheLog(l)
      BY <2>3, <3>1 DEF EndsTheLog
    <3>3. \A m \in listeners \union {l} : EndsTheLog(m)'
      BY <2>1, <3>1, <3>2 DEF QueuesEndTheLog, EndsTheLog
    <3> QED
      BY <2>2, <3>1, <3>3 DEF QueuesEndTheLog
  <2>5. CASE Unsubscribe(l)
    <3>1. queue' = queue /\ listeners' \subseteq listeners
      BY <2>5 DEF Unsubscribe
    <3>2. \A m \in listeners : EndsTheLog(m)'
      BY <2>1, <3>1 DEF QueuesEndTheLog, EndsTheLog
    <3> QED
      BY <2>2, <3>1, <3>2 DEF QueuesEndTheLog
  <2>6. CASE Consume(l)
    <3>1. /\ queue[l] # << >> /\ queue[l] \in Seq(Events)
          /\ listeners' = listeners /\ queue'[l] = Tail(queue[l])
          /\ \A m \in Listeners : m # l => queue'[m] = queue[m]
      BY <1>0, <2>6 DEF Consume, TypeOK
    <3>2. /\ Len(queue[l]) \in Nat /\ Len(queue'[l]) = Len(queue[l]) - 1 /\ Len(queue'[l]) \in Nat
          /\ \A i \in 1 .. Len(queue'[l]) : queue'[l][i] = queue[l][i + 1]
      BY <3>1, HeadTailProperties, LenProperties
    <3>3. EndsTheLog(l) => EndsTheLog(l)'
      <4> SUFFICES ASSUME EndsTheLog(l) PROVE EndsTheLog(l)'
        OBVIOUS
      <4>1. ASSUME NEW i \in 1 .. Len(queue'[l])
            PROVE  queue'[l][i] = log[Len(log) - Len(queue'[l]) + i]
        <5>1. i + 1 \in 1 .. Len(queue[l])
          BY <3>2
        <5>2. queue[l][i + 1] = log[Len(log) - Len(queue[l]) + (i + 1)]
          BY <5>1 DEF EndsTheLog
        <5>3. Len(log) - Len(queue[l]) + (i + 1) = Len(log) - Len(queue'[l]) + i
          BY <2>3, <3>2
        <5> QED
          BY <3>2, <5>2, <5>3
      <4>2. Len(queue'[l]) <= Len(log)
        BY <2>3, <3>2 DEF EndsTheLog
      <4> QED
        BY <2>1, <4>1, <4>2 DEF EndsTheLog
    <3>4. \A m \in listeners : m # l => EndsTheLog(m)'
      BY <1>0, <2>1, <3>1 DEF QueuesEndTheLog, EndsTheLog, TypeOK
    <3> QED
      BY <2>2, <3>1, <3>3, <3>4 DEF QueuesEndTheLog
  <2> QED
    BY <1>5, <2>4, <2>5, <2>6
<1> QED
  BY <1>1, <1>2, <1>3, <1>4, <1>5 DEF Next, TimerFires, WaiterReturns, CallerCancelled,
     feed, waiters, vars
-----------------------------------------------------------------------------
(***************************************************************************)
(* Steps of the gate as steps of the contract.                             *)
(***************************************************************************)
LEMMA InitRefines == Init => Contract!Init
BY DEF Init, Contract!Init

LEMMA StepRefines == DecisionInv /\ [Next]_vars => [Contract!Next]_Contract!vars
<1> SUFFICES ASSUME DecisionInv, [Next]_vars
             PROVE  [Contract!Next]_Contract!vars
  OBVIOUS
<1> USE DEF DecisionInv, PhaseAgreesWithStatus
<1>1. ASSUME NEW r \in Requests, Submit(r) PROVE Contract!Ask(r)
  BY <1>1 DEF Submit, Contract!Ask, TypeOK
<1>2. ASSUME NEW r \in Requests, NEW verdict \in Verdicts, Resolve(r, verdict)
      PROVE  Contract!Decide(r, verdict)
  BY <1>2 DEF Resolve, Contract!Decide, TypeOK, Decided, Verdicts
<1>3. ASSUME NEW r \in Requests, WaiterReturns(r) PROVE Contract!Answer(r)
  BY <1>3 DEF WaiterReturns, Contract!Answer, TypeOK, Verdicts
<1>4. ASSUME NEW r \in Requests, TimeoutPath(r) PROVE Contract!Answer(r) \/ Contract!Expire(r)
  <2>1. CASE status[r] = "pending"
    BY <1>4, <2>1 DEF TimeoutPath, StatusAfterTimeout, Contract!Expire, TypeOK
  <2>2. CASE status[r] # "pending"
    <3>1. status[r] \in Verdicts /\ status' = status
      BY <1>4, <2>2 DEF TimeoutPath, StatusAfterTimeout, TypeOK, Statuses, Decided
    <3> QED
      BY <1>4, <3>1 DEF TimeoutPath, Contract!Answer, TypeOK, Verdicts
  <2> QED
    BY <2>1, <2>2
<1>5. ASSUME NEW r \in Requests, CallerCancelled(r) PROVE Contract!GiveUp(r)
  BY <1>5 DEF CallerCancelled, Parked, Contract!GiveUp, TypeOK
<1>6. ASSUME NEW r \in Requests, TimerFires(r) PROVE UNCHANGED Contract!vars
  BY <1>6 DEF TimerFires, Contract!vars, TypeOK
<1>7. ASSUME UNCHANGED <<status, phase>> PROVE UNCHANGED Contract!vars
  BY <1>7 DEF Contract!vars
<1> QED
  BY <1>1, <1>2, <1>3, <1>4, <1>5, <1>6, <1>7
  DEF Next, Contract!Next, Subscribe, Unsubscribe, Consume, waiters, vars, Verdicts
-----------------------------------------------------------------------------
(* The results. *)

\* The gate's state is well-formed, and every phase knows its request's status.
THEOREM DecisionInvariance == Spec => []DecisionInv
<1>1. Init => DecisionInv
  BY InitDecisionInv
<1>2. DecisionInv /\ [Next]_vars => DecisionInv'
  BY NextKeepsDecisionInv
<1> QED
  BY <1>1, <1>2, PTL DEF Spec

\* The variables of the gate keep their types, whatever its parameters.
THEOREM TypeCorrectness == Spec => []TypeOK
<1>1. DecisionInv => TypeOK
  BY DEF DecisionInv
<1> QED
  BY <1>1, DecisionInvariance, PTL

\* Whatever race the timer and an operator run, submit() returns a decision, and an
\* acknowledged approve()/deny() is the decision that stands.
THEOREM AcknowledgedDecisionsHold == Spec => []AcknowledgedDecisionHolds
<1>1. DecisionInv => AcknowledgedDecisionHolds
  BY DEF DecisionInv, PhaseAgreesWithStatus, ToldAgreesWithStatus, AcknowledgedDecisionHolds
<1> QED
  BY <1>1, DecisionInvariance, PTL

\* self._pending holds the undecided requests and nothing else.
THEOREM PendingListIsExact == Spec => []PendingIsUndecided
<1>1. DecisionInv => PendingIsUndecided
  BY DEF DecisionInv
<1> QED
  BY <1>1, DecisionInvariance, PTL

\* No step of the gate changes a decision that has been taken.
THEOREM DecisionsAreFinal == Spec => DecisionIsFinal
<1>1. DecisionInv /\ [Next]_vars =>
        [\A r \in Requests : status[r] \in Decided => status'[r] = status[r]]_vars
  BY DEF DecisionInv, TypeOK, PhaseAgreesWithStatus, Next, Submit, Resolve, TimerFires,
         WaiterReturns, TimeoutPath, StatusAfterTimeout, CallerCancelled, Subscribe,
         Unsubscribe, Consume, waiters, vars, Decided, Verdicts
<1> QED
  BY <1>1, DecisionInvariance, PTL DEF Spec, DecisionIsFinal

\* Every decision is announced and in the bounded history until HistorySize later entries
\* have pushed it out.
THEOREM HistoryRecordsDecisions == Spec => []EveryDecisionRecorded
<1>1. Init => EveryDecisionRecorded
  BY SizesAreUsable DEF Init, EveryDecisionRecorded, Resolutions, Decided, Verdicts
<1>2. DecisionInv /\ EveryDecisionRecorded /\ [Next]_vars => EveryDecisionRecorded'
  BY NextKeepsEveryDecisionRecorded
<1> QED
  BY <1>1, <1>2, DecisionInvariance, PTL DEF Spec

\* The gate implements the safety part of the one-shot decision contract.
THEOREM GateImplementsContract == Spec => Contract!Spec
<1>1. Init => Contract!Init
  BY InitRefines
<1>2. DecisionInv /\ [Next]_vars => [Contract!Next]_Contract!vars
  BY StepRefines
<1> QED
  BY <1>1, <1>2, DecisionInvariance, PTL DEF Spec, Contract!Spec

\* A listener that is still subscribed has the end of the feed without a gap, and the feed
\* announces each request once, before its end, which it tells as it stands (_broadcast).
THEOREM FeedsAreFaithful == Spec => []FeedIsFaithful
<1>1. Init => FeedInv
  <2> SUFFICES ASSUME Init PROVE FeedInv
    OBVIOUS
  <2>1. listeners = {} /\ Len(log) = 0 /\ \A r \in Requests : status[r] = "none"
    BY EmptySeq DEF Init
  <2> QED
    BY <2>1 DEF FeedInv, QueuesEndTheLog, LogTellsTheDecision
<1>2. DecisionInv /\ FeedInv /\ [Next]_vars => FeedInv'
  BY NextKeepsFeed
<1>3. DecisionInv /\ FeedInv => FeedIsFaithful
  <2> SUFFICES ASSUME TypeOK, FeedInv PROVE SubscribedFeedHasNoGap /\ FeedTellsTheDecision
    BY DEF DecisionInv, FeedIsFaithful
  <2>1. log \in Seq(Events) /\ Len(log) \in Nat /\ \A i \in 1 .. Len(log) : log[i] \in Events
    BY LenProperties, ElementOfSeq DEF TypeOK
  <2>2. ASSUME NEW l \in listeners
        PROVE  queue[l] = SubSeq(log, Len(log) - Len(queue[l]) + 1, Len(log))
    <3> DEFINE m == Len(log) - Len(queue[l]) + 1
               end == SubSeq(log, m, Len(log))
    <3>1. queue[l] \in Seq(Events) /\ Len(queue[l]) \in Nat
      BY LenProperties DEF TypeOK
    <3>2. EndsTheLog(l)
      BY DEF FeedInv, QueuesEndTheLog
    <3>3. m \in Int /\ 1 <= m /\ Len(log) - m + 1 = Len(queue[l])
      BY <2>1, <3>1, <3>2 DEF EndsTheLog
    <3>4. \A j \in 1 .. Len(queue[l]) : queue[l][j] = log[m + j - 1]
      <4>1. \A j \in 1 .. Len(queue[l]) : m + j - 1 = Len(log) - Len(queue[l]) + j
        BY <2>1, <3>1
      <4> HIDE DEF m
      <4> QED
        BY <3>2, <4>1 DEF EndsTheLog
    <3> HIDE DEF m
    <3>5. \A i \in m .. Len(log) : log[i] \in Events
      BY <2>1, <3>3
    <3>6. /\ end \in Seq(Events) /\ Len(end) = Len(queue[l])
          /\ \A j \in 1 .. Len(queue[l]) : end[j] = log[m + j - 1]
      <4>1. /\ end \in Seq(Events) /\ Len(end) = IF m <= Len(log) THEN Len(log) - m + 1 ELSE 0
            /\ \A j \in 1 .. Len(log) - m + 1 : end[j] = log[m + j - 1]
        BY <2>1, <3>3, <3>5, SubSeqProperties
      <4> HIDE DEF end
      <4> QED
        BY <2>1, <3>1, <3>3, <4>1
    <3> HIDE DEF end
    <3>7. queue[l] = end
      BY <3>1, <3>4, <3>6, SeqEqual
    <3> QED
      BY <3>7 DEF end, m
  <2>3. ASSUME NEW i \in 1 .. Len(log)
        PROVE  /\ Cardinality(Announced(log[i].id)) = 1
               /\ \A k \in Announced(log[i].id) : k <= i
               /\ log[i].type = "approval.resolved" => log[i].status = status[log[i].id]
    <3>1. log[i].id \in Requests /\ status[log[i].id] # "none"
      BY <2>1 DEF FeedInv, LogTellsTheDecision, Events
    <3>2. \E k : Announced(log[i].id) = {k}
      BY <3>1 DEF FeedInv, LogTellsTheDecision
    <3>3. Cardinality(Announced(log[i].id)) = 1
      BY <3>2, FS_Singleton
    <3> QED
      BY <3>1, <3>3 DEF FeedInv, LogTellsTheDecision
  <2>4. FeedTellsTheDecision
    BY <2>3 DEF FeedTellsTheDecision, Announced
  <2> QED
    BY <2>2, <2>4 DEF SubscribedFeedHasNoGap
<1> QED
  BY <1>1, <1>2, <1>3, DecisionInvariance, PTL DEF Spec
=============================================================================
