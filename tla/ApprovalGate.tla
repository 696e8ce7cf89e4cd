---------------------------- MODULE ApprovalGate ----------------------------
(***************************************************************************)
(* The human-in-the-loop gate of control/approvals.py.                     *)
(*                                                                         *)
(* submit() registers a request, parks its caller on an asyncio.Event      *)
(* under asyncio.wait_for and returns the request once an operator has     *)
(* resolved it or the timer has fired.  approve()/deny() come from the     *)
(* dashboard routes.                                                       *)
(*                                                                         *)
(* Atomicity.  Everything runs on one event loop, and no body guarded by   *)
(* self._lock awaits anything, so the lock is never contended and a        *)
(* method runs without interruption between two of its suspension points.  *)
(* The only suspension point of submit() is the wait_for; what happens     *)
(* around it takes three steps:                                            *)
(*   - the timer callback cancels the waiting task (TimerFires);           *)
(*   - an operator's call sets the event (Resolve);                        *)
(*   - the task itself resumes (WaiterReturns or TimeoutPath).             *)
(* wait_for turns a cancellation by its own timer into TimeoutError even   *)
(* when the event has been set in the meantime, and the event may be set   *)
(* after the timer callback and before the task resumes.  Hence TimerFires *)
(* is possible from "woken", and Resolve from "expiring".                  *)
(***************************************************************************)
EXTENDS Integers, Sequences, FiniteSets

CONSTANTS
  Requests,      \* the requests submitted in a behaviour (uuid4 ids: all distinct)
  Listeners,     \* the queues handed out by subscribe()
  HistorySize,   \* history_size, after the clamp of __init__
  QueueMax       \* maxsize of a listener's queue (64 in the code)

ASSUME SizesAreUsable == /\ HistorySize \in Nat \ {0}
                         /\ QueueMax \in Nat \ {0}

VARIABLES
  status,     \* req.status; "none" before submit() creates the request
  phase,      \* where the task that called submit() is
  pending,    \* the keys of self._pending
  history,    \* self._history; entries are references to the request objects
  told,       \* what approve()/deny() == True last told the operator
  listeners,  \* self._listeners
  queue,      \* what each listener has not consumed yet
  log         \* every event broadcast so far (a history variable)

waiters == <<status, phase, pending, history, told>>
feed    == <<listeners, queue, log>>
vars    == <<status, phase, pending, history, told, listeners, queue, log>>

Verdicts == {"approved", "denied"}
Decided  == Verdicts \union {"timed_out"}
Statuses == Decided \union {"none", "pending"}
Phases   == {"idle", "waiting", "woken", "expiring", "returned", "cancelled"}

\* The task sits inside submit().
Parked(r) == phase[r] \in {"waiting", "woken", "expiring"}

Event(type, r, st) == [type |-> type, id |-> r, status |-> st]
Events == [type : {"approval.pending", "approval.resolved"},
           id : Requests, status : Statuses]

Init ==
  /\ status  = [r \in Requests |-> "none"]
  /\ phase   = [r \in Requests |-> "idle"]
  /\ pending = {}
  /\ history = << >>
  /\ told    = [r \in Requests |-> "none"]
  /\ listeners = {}
  /\ queue   = [l \in Listeners |-> << >>]
  /\ log     = << >>
-----------------------------------------------------------------------------
\* Seeded fault: a full listener misses the event and stays subscribed.
BroadcastSkipping(e) ==
  /\ queue' = [l \in Listeners |->
                 IF l \in listeners /\ Len(queue[l]) < QueueMax
                 THEN Append(queue[l], e) ELSE queue[l]]
  /\ log' = Append(log, e)
  /\ UNCHANGED listeners

(***************************************************************************)
(* _broadcast: every listener with room gets the event, a full one is      *)
(* unsubscribed.                                                           *)
(***************************************************************************)
Broadcast(e) ==
  LET full == {l \in listeners : Len(queue[l]) >= QueueMax}
  IN  /\ listeners' = listeners \ full
      /\ queue' = [l \in Listeners |->
                     IF l \in listeners \ full THEN Append(queue[l], e) ELSE queue[l]]
      /\ log' = Append(log, e)

\* Seeded fault: the history is trimmed when it is full, before it overflows.
LastEntriesTooFew(h) == IF Len(h) >= HistorySize THEN Tail(h) ELSE h

(***************************************************************************)
(* _move_to_history_locked: pop, append, keep the last HistorySize.        *)
(***************************************************************************)
LastEntries(h) ==
  IF Len(h) > HistorySize THEN SubSeq(h, Len(h) - HistorySize + 1, Len(h)) ELSE h

MoveToHistory(r) ==
  /\ pending' = pending \ {r}
  /\ history' = LastEntries(Append(history, r))

(***************************************************************************)
(* submit() up to its suspension point.                                    *)
(***************************************************************************)
Submit(r) ==
  /\ phase[r] = "idle"
  /\ status'  = [status EXCEPT ![r] = "pending"]
  /\ phase'   = [phase EXCEPT ![r] = "waiting"]
  /\ pending' = pending \union {r}
  /\ Broadcast(Event("approval.pending", r, "pending"))
  /\ UNCHANGED <<history, told>>

(***************************************************************************)
(* approve()/deny() reached through their route.  A call on a request that *)
(* is not pending returns False, is answered 404 and changes nothing.      *)
(* event.set() wakes the task only if its future is not done: a task whose *)
(* timer has fired stays "expiring", and nobody is woken in a cancelled    *)
(* one.  The route publishes on the event bus too, which is abstracted.     *)
(***************************************************************************)
Resolve(r, verdict) ==
  /\ r \in pending
  /\ status[r] = "pending"
  /\ status' = [status EXCEPT ![r] = verdict]
  /\ phase'  = IF phase[r] = "waiting" THEN [phase EXCEPT ![r] = "woken"] ELSE phase
  /\ MoveToHistory(r)
  /\ told'   = [told EXCEPT ![r] = verdict]
  /\ Broadcast(Event("approval.resolved", r, verdict))

\* Seeded fault: the wait has no timeout.
TimerNeverFires(r) == FALSE

(***************************************************************************)
(* The timer of wait_for: task.cancel(), whether or not the event is set.  *)
(***************************************************************************)
TimerFires(r) ==
  /\ phase[r] \in {"waiting", "woken"}
  /\ phase' = [phase EXCEPT ![r] = "expiring"]
  /\ UNCHANGED <<status, pending, history, told, feed>>

(***************************************************************************)
(* The task resumes.  Either wait_for returns, and so does submit() ...    *)
(***************************************************************************)
WaiterReturns(r) ==
  /\ phase[r] = "woken"
  /\ phase' = [phase EXCEPT ![r] = "returned"]
  /\ UNCHANGED <<status, pending, history, told, feed>>

\* Seeded fault: the timeout path does not look whether the request was resolved meanwhile.
TimeoutAlways(r) == "timed_out"

(***************************************************************************)
(* ... or it raises TimeoutError: the request times out only if nobody has *)
(* resolved it, and is moved to the history and broadcast in any case.     *)
(***************************************************************************)
StatusAfterTimeout(r) == IF status[r] = "pending" THEN "timed_out" ELSE status[r]

TimeoutPath(r) ==
  /\ phase[r] = "expiring"
  /\ status' = [status EXCEPT ![r] = StatusAfterTimeout(r)]
  /\ MoveToHistory(r)
  /\ Broadcast(Event("approval.resolved", r, StatusAfterTimeout(r)))
  /\ phase' = [phase EXCEPT ![r] = "returned"]
  /\ UNCHANGED told

(***************************************************************************)
(* The environment cancels the task that called submit(): CancelledError   *)
(* is not caught, so the request stays where it is.                        *)
(***************************************************************************)
CallerCancelled(r) ==
  /\ Parked(r)
  /\ phase' = [phase EXCEPT ![r] = "cancelled"]
  /\ UNCHANGED <<status, pending, history, told, feed>>

Subscribe(l) ==
  /\ l \notin listeners
  /\ queue[l] = << >>
  /\ listeners' = listeners \union {l}
  /\ UNCHANGED <<waiters, queue, log>>

Unsubscribe(l) ==
  /\ l \in listeners
  /\ listeners' = listeners \ {l}
  /\ UNCHANGED <<waiters, queue, log>>

\* The holder of a queue takes its oldest event, subscribed or not.
Consume(l) ==
  /\ queue[l] # << >>
  /\ queue' = [queue EXCEPT ![l] = Tail(@)]
  /\ UNCHANGED <<waiters, listeners, log>>

Next ==
  \/ \E r \in Requests :
       \/ Submit(r)
       \/ \E verdict \in Verdicts : Resolve(r, verdict)
       \/ TimerFires(r)
       \/ WaiterReturns(r)
       \/ TimeoutPath(r)
       \/ CallerCancelled(r)
  \/ \E l \in Listeners : Subscribe(l) \/ Unsubscribe(l) \/ Consume(l)

(***************************************************************************)
(* Fairness: the loop runs timers that are due and tasks that are ready.   *)
(* Nothing obliges an operator to answer or a client to submit.            *)
(***************************************************************************)
LoopFairness ==
  \A r \in Requests : /\ WF_vars(TimerFires(r))
                      /\ WF_vars(WaiterReturns(r))
                      /\ WF_vars(TimeoutPath(r))

Spec     == Init /\ [][Next]_vars
FairSpec == Spec /\ LoopFairness
-----------------------------------------------------------------------------
(* Properties. *)

\* The shape of the state.
TypeOK ==
  /\ status \in [Requests -> Statuses]
  /\ phase  \in [Requests -> Phases]
  /\ pending \subseteq Requests
  /\ history \in Seq(Requests)
  /\ told \in [Requests -> Verdicts \union {"none"}]
  /\ listeners \subseteq Listeners
  /\ queue \in [Listeners -> Seq(Events)]
  /\ log \in Seq(Events)

\* Whatever the race between an operator, the timer and the wake-up, the caller
\* of submit() comes back with a decision, and with the operator's one whenever
\* approve()/deny() told the operator it was taken: an acknowledged approval is
\* never turned into a timeout, nor a timeout into an approval.
AcknowledgedDecisionHolds ==
  \A r \in Requests :
    /\ phase[r] = "returned" => status[r] \in Decided
    /\ told[r] # "none" => status[r] = told[r]
    /\ status[r] \in Verdicts => told[r] = status[r]

\* The list the dashboard shows as pending is exactly the set of undecided
\* requests: none is lost before its decision, none lingers after it.
PendingIsUndecided ==
  \A r \in Requests : r \in pending <=> status[r] = "pending"

\* What the gate has announced as decided, and how often it did so after the i-th event.
Resolutions == {i \in 1 .. Len(log) : log[i].type = "approval.resolved"}
Later(i)    == Cardinality({j \in Resolutions : j > i})

\* Every decision is on record: it was announced, and the request announced at any moment is
\* in the history, where its turn puts it, until HistorySize later entries have pushed it
\* out, at the history's limit as well as below it.  Nothing undecided is ever in there.
EveryDecisionRecorded ==
  /\ Len(history) <= HistorySize
  /\ \A i \in 1 .. Len(history) : status[history[i]] \in Decided
  /\ \A r \in Requests : status[r] \in Decided => \E i \in Resolutions : log[i].id = r
  /\ \A i \in Resolutions : Later(i) < HistorySize =>
       /\ Later(i) < Len(history)
       /\ history[Len(history) - Later(i)] = log[i].id

\* A listener that is still subscribed has a gapless feed: its queue is the end
\* of the log of all broadcasts.  A slow listener is cut off, never skipped.
SubscribedFeedHasNoGap ==
  \A l \in listeners :
    queue[l] = SubSeq(log, Len(log) - Len(queue[l]) + 1, Len(log))

\* On the feed a request is announced once, before anything is said of its end,
\* and what is said of its end agrees with the decision that stands.
FeedTellsTheDecision ==
  \A i \in 1 .. Len(log) :
    LET r == log[i].id
        announced == {k \in 1 .. Len(log) : /\ log[k].type = "approval.pending"
                                            /\ log[k].id = r}
    IN  /\ Cardinality(announced) = 1
        /\ \A k \in announced : k <= i
        /\ log[i].type = "approval.resolved" => log[i].status = status[r]

\* A listener that is still subscribed has the whole feed, and what it is told is true.
FeedIsFaithful == SubscribedFeedHasNoGap /\ FeedTellsTheDecision

\* A decision, once taken, never changes: no later operator call and no timer
\* overturns it.
DecisionIsFinal ==
  [][\A r \in Requests : status[r] \in Decided => status'[r] = status[r]]_vars

\* No caller is parked for ever: the timer or an operator releases it, unless it
\* is itself cancelled.
CallerIsReleased ==
  \A r \in Requests : (phase[r] = "waiting") ~> (phase[r] \in {"returned", "cancelled"})

(***************************************************************************)
(* A claim of docs/approvals.md that the code does not keep.               *)
(***************************************************************************)

\* docs/approvals.md:113 has the history panel show "the last 50 resolutions":
\* one entry for one resolution.
HistoryNamesARequestOnce ==
  \A i, j \in 1 .. Len(history) : history[i] = history[j] => i = j

(***************************************************************************)
(* The gate implements the one-shot decision of ApprovalContract: the      *)
(* caller's answer is the status it reads when submit() returns.           *)
(***************************************************************************)
Contract == INSTANCE ApprovalContract WITH
  decision <- status,
  answer   <- [r \in Requests |->
                 IF phase[r] = "returned" THEN status[r]
                 ELSE IF phase[r] = "cancelled" THEN "abandoned" ELSE "none"]

\* Safety and liveness of the contract, for the refinement run.
ImplementsContract == Contract!FairSpec
=============================================================================
