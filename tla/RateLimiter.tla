---------------------------- MODULE RateLimiter ----------------------------
(***************************************************************************)
(* The sliding-window rate limiter (policies/rate_limit.py) behind the     *)
(* dashboard's write routes, /run, /ws/pair and the sender policies: one   *)
(* bucket of accepted times per key, pruned when the key is used again.    *)
(***************************************************************************)
EXTENDS Integers, Sequences

CONSTANTS Keys,        \* operation and client, e.g. session_send:10.0.0.7
          Window,      \* window_seconds
          MaxEvents,   \* max_events
          MaxTime      \* bound: the last reading of the clock

ASSUME LimiterAssumption == Window \in Nat /\ MaxEvents \in Nat \ {0} /\ MaxTime \in Nat

VARIABLES clock,      \* time.time(), in units coarse enough that several calls fall into one
          bucket,     \* the limiter's _buckets: per key the times it still remembers
          accepted    \* history: per key the times of all the calls it let through
limiterVars == <<clock, bucket, accepted>>

LimiterInit ==
  /\ clock = 0
  /\ bucket = [k \in Keys |-> <<>>]
  /\ accepted = [k \in Keys |-> <<>>]

\* An entry exactly as old as the window still counts.
\* Seeded fault: it does not.
TooOldOrEqual(t) == t <= clock - Window
TooOld(t) == t < clock - Window

\* popleft() as long as the oldest entry is too old: how many go, and what stays.
Expired(s) ==
  {n \in 0..Len(s) : /\ \A i \in 1..n : TooOld(s[i])
                     /\ n < Len(s) => ~TooOld(s[n + 1])}
Inside(s, n) == SubSeq(s, n + 1, Len(s))

Consume(k) ==
  /\ \E n \in Expired(bucket[k]) :
       /\ Len(bucket[k]) - n < MaxEvents
       /\ bucket' = [bucket EXCEPT ![k] = Append(Inside(@, n), clock)]
  /\ accepted' = [accepted EXCEPT ![k] = Append(@, clock)]
  /\ UNCHANGED clock

\* consume() returns False and the route answers 429: only the pruning remains.
Refuse(k) ==
  /\ \E n \in Expired(bucket[k]) :
       /\ Len(bucket[k]) - n >= MaxEvents
       /\ bucket' = [bucket EXCEPT ![k] = Inside(@, n)]
  /\ UNCHANGED <<clock, accepted>>

Tick == clock < MaxTime /\ clock' = clock + 1 /\ UNCHANGED <<bucket, accepted>>

LimiterNext == Tick \/ \E k \in Keys : Consume(k) \/ Refuse(k)
LimiterSpec == LimiterInit /\ [][LimiterNext]_limiterVars
-----------------------------------------------------------------------------
LimiterTypeOK ==
  /\ clock \in Nat
  /\ bucket \in [Keys -> Seq(Nat)]
  /\ accepted \in [Keys -> Seq(Nat)]

\* However its calls are spread over time, no key gets more than MaxEvents calls through in
\* any window: the call MaxEvents places after another came more than a window later.
WindowIsNeverOverfull ==
  \A k \in Keys : \A i \in 1..Len(accepted[k]) :
    i + MaxEvents <= Len(accepted[k]) => accepted[k][i + MaxEvents] - accepted[k][i] > Window
=============================================================================
