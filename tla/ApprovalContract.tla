-------------------------- MODULE ApprovalContract --------------------------
(***************************************************************************)
(* What the approval gate promises its two parties, without queues, timers *)
(* or a history: a request is decided once, and its caller is answered     *)
(* once, with that decision.  The caller may give up at any time, which    *)
(* does not withdraw the request.                                          *)
(***************************************************************************)
CONSTANT Requests

VARIABLES
  decision,  \* of each request: "none" (not asked), "pending", or a decision
  answer     \* what its caller has been told: "none", "abandoned", or a decision

vars == <<decision, answer>>

Init == /\ decision = [r \in Requests |-> "none"]
        /\ answer   = [r \in Requests |-> "none"]

Ask(r) ==
  /\ decision[r] = "none"
  /\ decision' = [decision EXCEPT ![r] = "pending"]
  /\ UNCHANGED answer

\* An operator decides; the caller need not have noticed yet.
Decide(r, verdict) ==
  /\ decision[r] = "pending"
  /\ decision' = [decision EXCEPT ![r] = verdict]
  /\ UNCHANGED answer

Answer(r) ==
  /\ decision[r] \in {"approved", "denied"}
  /\ answer[r] = "none"
  /\ answer' = [answer EXCEPT ![r] = decision[r]]
  /\ UNCHANGED decision

\* Nobody decided in time: the caller's own task decides and leaves.
Expire(r) ==
  /\ decision[r] = "pending"
  /\ answer[r] = "none"
  /\ decision' = [decision EXCEPT ![r] = "timed_out"]
  /\ answer'   = [answer EXCEPT ![r] = "timed_out"]

GiveUp(r) ==
  /\ decision[r] # "none"
  /\ answer[r] = "none"
  /\ answer' = [answer EXCEPT ![r] = "abandoned"]
  /\ UNCHANGED decision

Next == \E r \in Requests :
          \/ Ask(r)
          \/ \E verdict \in {"approved", "denied"} : Decide(r, verdict)
          \/ Answer(r)
          \/ Expire(r)
          \/ GiveUp(r)

Spec == Init /\ [][Next]_vars

\* A caller that has asked is answered or gives up.
FairSpec == Spec /\ \A r \in Requests : WF_vars(Answer(r) \/ Expire(r))
=============================================================================
