--------------------------- MODULE Sessions_proofs ---------------------------
(***************************************************************************)
(* What holds of sessions, of the runs launched from them and of the rate  *)
(* limiter in front of them, for any keys, window, limits, senders, runs   *)
(* and number of calls.                                                    *)
(*                                                                         *)
(* The limiter.  A bucket is the end of the history of its key, and what   *)
(* was pruned from it was too old, which it stays.  A call that is let     *)
(* through finds fewer than MaxEvents calls in the bucket, so the call     *)
(* MaxEvents places before it has been pruned.                             *)
(*                                                                         *)
(* The sessions.  An id is drawn once, so that a session that is gone      *)
(* stays gone; a bounded history forgets from its front, so that an        *)
(* acknowledgement never outlives the answer behind it.                    *)
(***************************************************************************)
EXTENDS Sessions, SequenceTheorems, TLAPS

\* The bucket b is what the history h has left of it, and the rest is too old.
EndOf(b, h, now) ==
  /\ Len(b) <= Len(h)
  /\ \A i \in 1..Len(b) : b[i] = h[Len(h) - Len(b) + i]
  /\ \A i \in 1..(Len(h) - Len(b)) : h[i] < now - Window

\* A call comes more than a window after the one MaxEvents places before it.
Spaced(h) ==
  \A i \in 1..Len(h) : i + MaxEvents <= Len(h) => h[i + MaxEvents] - h[i] > Window

BucketIsTheRest == \A k \in Keys : EndOf(bucket[k], accepted[k], clock)
HistoryIsSpaced == \A k \in Keys : Spaced(accepted[k])
LimiterInv == LimiterTypeOK /\ BucketIsTheRest /\ HistoryIsSpaced

LEMMA LimiterInitInv == LimiterInit => LimiterInv
<1> SUFFICES ASSUME LimiterInit PROVE LimiterInv
  OBVIOUS
<1>1. \A k \in Keys : bucket[k] = << >> /\ accepted[k] = << >>
  BY DEF LimiterInit
<1>2. LimiterTypeOK
  BY EmptySeq DEF LimiterInit, LimiterTypeOK
<1>3. EndOf(<< >>, << >>, clock) /\ Spaced(<< >>)
  <2>1. Len(<< >>) = 0
    BY EmptySeq
  <2> QED
    BY <2>1 DEF EndOf, Spaced
<1>4. BucketIsTheRest /\ HistoryIsSpaced
  BY <1>1, <1>3 DEF BucketIsTheRest, HistoryIsSpaced
<1> QED
  BY <1>2, <1>4 DEF LimiterInv
-----------------------------------------------------------------------------
(* Histories and buckets as sequences. *)

LEMMA InsideProperties ==
  ASSUME NEW s \in Seq(Nat), NEW n \in 0..Len(s)
  PROVE  /\ Inside(s, n) \in Seq(Nat)
         /\ Len(Inside(s, n)) = Len(s) - n
         /\ \A i \in 1..(Len(s) - n) : Inside(s, n)[i] = s[n + i]
<1>1. Len(s) \in Nat /\ n \in Nat
  BY LenProperties
<1>2. n + 1 \in Int /\ Len(s) \in Int /\ \A i \in (n + 1)..Len(s) : s[i] \in Nat
  BY <1>1, ElementOfSeq
<1> DEFINE rest == SubSeq(s, n + 1, Len(s))
<1>3. /\ rest \in Seq(Nat)
      /\ Len(rest) = IF n + 1 <= Len(s) THEN Len(s) - (n + 1) + 1 ELSE 0
      /\ \A i \in 1..(Len(s) - (n + 1) + 1) : rest[i] = s[(n + 1) + i - 1]
  BY <1>2, SubSeqProperties
<1>4. Len(rest) = Len(s) - n
  BY <1>1, <1>3
<1>5. ASSUME NEW i \in 1..(Len(s) - n) PROVE rest[i] = s[n + i]
  <2>1. i \in Int /\ i \in 1..(Len(s) - (n + 1) + 1) /\ (n + 1) + i - 1 = n + i
    BY <1>1
  <2> QED
    BY <2>1, <1>3
<1> QED
  BY <1>3, <1>4, <1>5 DEF Inside

\* What is pruned was too old.
LEMMA PruningKeepsTheEnd ==
  ASSUME NEW b \in Seq(Nat), NEW h \in Seq(Nat), NEW now \in Nat, EndOf(b, h, now),
         NEW n \in 0..Len(b), \A i \in 1..n : b[i] < now - Window
  PROVE  EndOf(Inside(b, n), h, now)
<1>1. Len(b) \in Nat /\ Len(h) \in Nat /\ n \in Nat /\ n <= Len(b) /\ Len(b) <= Len(h)
  BY LenProperties DEF EndOf
<1>2. Len(Inside(b, n)) = Len(b) - n /\ \A i \in 1..(Len(b) - n) : Inside(b, n)[i] = b[n + i]
  BY InsideProperties
<1>3. ASSUME NEW i \in 1..(Len(b) - n) PROVE Inside(b, n)[i] = h[Len(h) - (Len(b) - n) + i]
  <2>1. n + i \in 1..Len(b) /\ Len(h) - Len(b) + (n + i) = Len(h) - (Len(b) - n) + i
    BY <1>1
  <2>2. b[n + i] = h[Len(h) - Len(b) + (n + i)]
    BY <2>1 DEF EndOf
  <2> QED
    BY <1>2, <2>1, <2>2
<1>4. ASSUME NEW i \in 1..(Len(h) - (Len(b) - n)) PROVE h[i] < now - Window
  <2>1. CASE i \in 1..(Len(h) - Len(b))
    BY <2>1 DEF EndOf
  <2>2. CASE i \notin 1..(Len(h) - Len(b))
    <3>1. i - (Len(h) - Len(b)) \in 1..n /\ i - (Len(h) - Len(b)) \in 1..Len(b)
          /\ Len(h) - Len(b) + (i - (Len(h) - Len(b))) = i
      BY <2>2, <1>1
    <3>2. b[i - (Len(h) - Len(b))] = h[Len(h) - Len(b) + (i - (Len(h) - Len(b)))]
      BY <3>1 DEF EndOf
    <3> QED
      BY <3>1, <3>2
  <2> QED
    BY <2>1, <2>2
<1>5. Len(b) - n <= Len(h)
  BY <1>1
<1> QED
  BY <1>2, <1>3, <1>4, <1>5 DEF EndOf

LEMMA AppendKeepsTheEnd ==
  ASSUME NEW b \in Seq(Nat), NEW h \in Seq(Nat), NEW now \in Nat, EndOf(b, h, now)
  PROVE  EndOf(Append(b, now), Append(h, now), now)
<1>1. Len(b) \in Nat /\ Len(h) \in Nat /\ Len(b) <= Len(h)
  BY LenProperties DEF EndOf
<1>2. /\ Len(Append(b, now)) = Len(b) + 1 /\ Len(Append(h, now)) = Len(h) + 1
      /\ \A i \in 1..Len(b) : Append(b, now)[i] = b[i]
      /\ \A i \in 1..Len(h) : Append(h, now)[i] = h[i]
      /\ Append(b, now)[Len(b) + 1] = now /\ Append(h, now)[Len(h) + 1] = now
  BY AppendProperties
<1>3. ASSUME NEW i \in 1..(Len(b) + 1)
      PROVE  Append(b, now)[i] = Append(h, now)[(Len(h) + 1) - (Len(b) + 1) + i]
  <2>1. CASE i = Len(b) + 1
    <3>1. (Len(h) + 1) - (Len(b) + 1) + i = Len(h) + 1
      BY <2>1, <1>1
    <3> QED
      BY <3>1, <2>1, <1>2
  <2>2. CASE i \in 1..Len(b)
    <3>1. (Len(h) + 1) - (Len(b) + 1) + i = Len(h) - Len(b) + i /\ Len(h) - Len(b) + i \in 1..Len(h)
      BY <2>2, <1>1
    <3>2. b[i] = h[Len(h) - Len(b) + i]
      BY <2>2 DEF EndOf
    <3> QED
      BY <3>1, <3>2, <2>2, <1>2
  <2> QED
    BY <2>1, <2>2, <1>1
<1>4. ASSUME NEW i \in 1..((Len(h) + 1) - (Len(b) + 1)) PROVE Append(h, now)[i] < now - Window
  <2>1. i \in 1..(Len(h) - Len(b)) /\ i \in 1..Len(h)
    BY <1>1
  <2> QED
    BY <2>1, <1>2 DEF EndOf
<1>5. Len(b) + 1 <= Len(h) + 1
  BY <1>1
<1> QED
  BY <1>2, <1>3, <1>4, <1>5 DEF EndOf

\* What is too old stays so.
LEMMA TimeKeepsTheEnd ==
  ASSUME NEW b \in Seq(Nat), NEW h \in Seq(Nat), NEW now \in Nat, EndOf(b, h, now)
  PROVE  EndOf(b, h, now + 1)
<1>1. Len(b) \in Nat /\ Len(h) \in Nat /\ Window \in Nat
  BY LenProperties, LimiterAssumption
<1>2. ASSUME NEW i \in 1..(Len(h) - Len(b)) PROVE h[i] < (now + 1) - Window
  <2>1. i \in 1..Len(h)
    BY <1>1
  <2>2. h[i] \in Nat /\ h[i] < now - Window
    BY <2>1, ElementOfSeq DEF EndOf
  <2> QED
    BY <2>2, <1>1
<1> QED
  BY <1>2 DEF EndOf

\* With room in the bucket, the call MaxEvents places before this one has been pruned.
LEMMA AppendKeepsSpaced ==
  ASSUME NEW b \in Seq(Nat), NEW h \in Seq(Nat), NEW now \in Nat, EndOf(b, h, now),
         Len(b) < MaxEvents, Spaced(h)
  PROVE  Spaced(Append(h, now))
<1>1. /\ Len(b) \in Nat /\ Len(h) \in Nat /\ Len(b) <= Len(h)
      /\ MaxEvents \in Nat \ {0} /\ Window \in Nat
  BY LenProperties, LimiterAssumption DEF EndOf
<1>2. /\ Len(Append(h, now)) = Len(h) + 1
      /\ \A i \in 1..Len(h) : Append(h, now)[i] = h[i]
      /\ Append(h, now)[Len(h) + 1] = now
  BY AppendProperties
<1>3. ASSUME NEW i \in 1..(Len(h) + 1), i + MaxEvents <= Len(h) + 1
      PROVE  Append(h, now)[i + MaxEvents] - Append(h, now)[i] > Window
  <2>1. i \in 1..Len(h)
    BY <1>1, <1>3
  <2>2. CASE i + MaxEvents = Len(h) + 1
    <3>1. i \in 1..(Len(h) - Len(b))
      BY <2>1, <2>2, <1>1
    <3>2. h[i] < now - Window /\ h[i] \in Nat
      BY <3>1, <2>1, ElementOfSeq DEF EndOf
    <3>3. now - h[i] > Window
      BY <3>2, <1>1
    <3> QED
      BY <3>3, <2>1, <2>2, <1>2
  <2>3. CASE i + MaxEvents # Len(h) + 1
    <3>1. i + MaxEvents \in 1..Len(h) /\ i + MaxEvents <= Len(h)
      BY <2>1, <2>3, <1>1, <1>3
    <3> QED
      BY <3>1, <2>1, <1>2 DEF Spaced
  <2> QED
    BY <2>2, <2>3
<1> QED
  BY <1>2, <1>3 DEF Spaced
-----------------------------------------------------------------------------
(* The steps of the limiter. *)

\* What one key has when n calls were pruned from its bucket.
LEMMA PrunedBucket ==
  ASSUME LimiterInv, NEW k \in Keys, NEW n \in Expired(bucket[k])
  PROVE  /\ bucket[k] \in Seq(Nat) /\ accepted[k] \in Seq(Nat) /\ clock \in Nat
         /\ n \in 0..Len(bucket[k])
         /\ Inside(bucket[k], n) \in Seq(Nat)
         /\ Len(Inside(bucket[k], n)) = Len(bucket[k]) - n
         /\ EndOf(Inside(bucket[k], n), accepted[k], clock)
<1>1. /\ bucket[k] \in Seq(Nat) /\ accepted[k] \in Seq(Nat) /\ clock \in Nat
      /\ n \in 0..Len(bucket[k]) /\ EndOf(bucket[k], accepted[k], clock)
  BY DEF LimiterInv, LimiterTypeOK, BucketIsTheRest, Expired
<1>2. \A i \in 1..n : bucket[k][i] < clock - Window
  BY DEF Expired, TooOld
<1> QED
  BY <1>1, <1>2, InsideProperties, PruningKeepsTheEnd

LEMMA ConsumeKeepsLimiterInv ==
  ASSUME LimiterInv, NEW k \in Keys, Consume(k) PROVE LimiterInv'
<1>1. PICK n \in Expired(bucket[k]) :
        /\ Len(bucket[k]) - n < MaxEvents
        /\ bucket' = [bucket EXCEPT ![k] = Append(Inside(bucket[k], n), clock)]
  BY DEF Consume, LimiterInv, LimiterTypeOK
<1> DEFINE b == Inside(bucket[k], n)
           h == accepted[k]
<1>2. /\ b \in Seq(Nat) /\ h \in Seq(Nat) /\ clock \in Nat
      /\ Len(b) < MaxEvents /\ EndOf(b, h, clock) /\ Spaced(h)
  BY <1>1, PrunedBucket DEF LimiterInv, HistoryIsSpaced
<1>3. /\ accepted' = [accepted EXCEPT ![k] = Append(h, clock)]
      /\ clock' = clock
  BY DEF Consume
<1>4. /\ bucket'[k] = Append(b, clock) /\ accepted'[k] = Append(h, clock)
      /\ \A j \in Keys \ {k} : bucket'[j] = bucket[j] /\ accepted'[j] = accepted[j]
  BY <1>1, <1>3 DEF LimiterInv, LimiterTypeOK
<1>5. EndOf(Append(b, clock), Append(h, clock), clock) /\ Spaced(Append(h, clock))
  BY <1>2, AppendKeepsTheEnd, AppendKeepsSpaced
<1>6. LimiterTypeOK'
  BY <1>1, <1>2, <1>3, AppendProperties DEF LimiterInv, LimiterTypeOK
<1>7. BucketIsTheRest' /\ HistoryIsSpaced'
  BY <1>3, <1>4, <1>5 DEF LimiterInv, BucketIsTheRest, HistoryIsSpaced
<1> QED
  BY <1>6, <1>7 DEF LimiterInv

LEMMA RefuseKeepsLimiterInv ==
  ASSUME LimiterInv, NEW k \in Keys, Refuse(k) PROVE LimiterInv'
<1>1. PICK n \in Expired(bucket[k]) : bucket' = [bucket EXCEPT ![k] = Inside(bucket[k], n)]
  BY DEF Refuse, LimiterInv, LimiterTypeOK
<1> DEFINE b == Inside(bucket[k], n)
<1>2. b \in Seq(Nat) /\ EndOf(b, accepted[k], clock)
  BY PrunedBucket
<1>3. accepted' = accepted /\ clock' = clock
  BY DEF Refuse
<1>4. bucket'[k] = b /\ \A j \in Keys \ {k} : bucket'[j] = bucket[j]
  BY <1>1 DEF LimiterInv, LimiterTypeOK
<1>5. LimiterTypeOK'
  BY <1>1, <1>2, <1>3 DEF LimiterInv, LimiterTypeOK
<1>6. BucketIsTheRest' /\ HistoryIsSpaced'
  BY <1>2, <1>3, <1>4 DEF LimiterInv, BucketIsTheRest, HistoryIsSpaced
<1> QED
  BY <1>5, <1>6 DEF LimiterInv

LEMMA TickKeepsLimiterInv ==
  ASSUME LimiterInv, Tick PROVE LimiterInv'
<1>1. clock \in Nat /\ clock' = clock + 1 /\ bucket' = bucket /\ accepted' = accepted
  BY DEF LimiterInv, LimiterTypeOK, Tick
<1>2. LimiterTypeOK' /\ HistoryIsSpaced'
  BY <1>1 DEF LimiterInv, LimiterTypeOK, HistoryIsSpaced
<1>3. ASSUME NEW k \in Keys PROVE EndOf(bucket[k], accepted[k], clock + 1)
  BY <1>1, TimeKeepsTheEnd DEF LimiterInv, LimiterTypeOK, BucketIsTheRest
<1>4. BucketIsTheRest'
  BY <1>1, <1>3 DEF BucketIsTheRest
<1> QED
  BY <1>2, <1>4 DEF LimiterInv

LEMMA LimiterStepKeepsInv ==
  ASSUME LimiterInv, LimiterNext \/ UNCHANGED limiterVars PROVE LimiterInv'
<1>1. CASE LimiterNext
  BY <1>1, ConsumeKeepsLimiterInv, RefuseKeepsLimiterInv, TickKeepsLimiterInv DEF LimiterNext
<1>2. CASE UNCHANGED limiterVars
  BY <1>2 DEF limiterVars, LimiterInv, LimiterTypeOK, BucketIsTheRest, HistoryIsSpaced
<1> QED
  BY <1>1, <1>2
-----------------------------------------------------------------------------
(* The sessions use the limiter as it is: every step of theirs is one of its own or leaves it *)
(* alone.                                                                                     *)

LEMMA SlashIsLimited ==
  ASSUME NEW s \in Ids, SlashOther(s) \/ SlashNew(s) \/ \E t \in Ids : SlashReset(s, t)
  PROVE  Consume("session_send")
BY DEF SlashOther, SlashNew, SlashReset, Slash

LEMMA SessionsUseTheLimiter ==
  ASSUME [Next]_vars PROVE LimiterNext \/ UNCHANGED limiterVars
<1>1. "session_send" \in Keys
  BY KeysAssumption
<1>2. CASE Operate
  <2>1. CASE \E primary \in BOOLEAN : Create(primary)
    BY <2>1 DEF Create
  <2>2. ASSUME NEW s \in Ids, SendByTool(s) \/ Reset(s) \/ Delete(s) PROVE UNCHANGED limiterVars
    BY <2>2 DEF SendByTool, Reset, Delete
  <2>3. ASSUME NEW s \in Ids, SendNote(s) PROVE LimiterNext
    BY <2>3, <1>1 DEF SendNote, LimiterNext
  <2>4. ASSUME NEW s \in Ids, SlashOther(s) \/ SlashNew(s) \/ \E t \in Ids : SlashReset(s, t)
        PROVE  LimiterNext
    BY <2>4, <1>1, SlashIsLimited DEF LimiterNext
  <2>5. CASE PruneInactive
    BY <2>5 DEF PruneInactive
  <2>6. CASE SendNowhere
    BY <2>6, <1>1 DEF SendNowhere, LimiterNext
  <2> QED
    BY <1>2, <2>1, <2>2, <2>3, <2>4, <2>5, <2>6 DEF Operate
<1>3. ASSUME NEW r \in Runs, NEW s \in Ids, SendTask(s, r) PROVE LimiterNext
  BY <1>3, <1>1 DEF SendTask, LimiterNext
<1>4. ASSUME NEW r \in Runs, Progress(r) \/ TaskSteps(r) PROVE UNCHANGED limiterVars
  BY <1>4 DEF Progress, TaskSteps, AgentReady, TaskRaises, Execute
<1>5. CASE (\E e \in Senders : Deliver(e)) \/ Handle
  BY <1>5 DEF Deliver, Handle
<1>6. CASE (\E k \in Keys : LimitHit(k)) \/ TimePasses
  BY <1>6 DEF LimitHit, TimePasses, LimiterNext
<1>7. CASE UNCHANGED vars
  BY <1>7 DEF vars
<1> QED
  BY <1>2, <1>3, <1>4, <1>5, <1>6, <1>7 DEF Next
-----------------------------------------------------------------------------
(* The history of a session: what is in it of one run. *)

\* Whatever acknowledges the run is followed by its answer.
Answered(log, r) ==
  \A i \in 1..Len(log) : log[i] = Message("ack", r) =>
    \E j \in (i + 1)..Len(log) : log[j] = Message("result", r)

\* Forgetting from the front leaves what is behind an acknowledgement.
LEMMA ForgettingKeepsAnswers ==
  ASSUME NEW log \in Seq(Messages), NEW rest \in Seq(Messages), NEW k \in {0, 1}, NEW r,
         Len(rest) = Len(log) - k, \A i \in 1..Len(rest) : rest[i] = log[i + k],
         Answered(log, r)
  PROVE  Answered(rest, r)
<1> SUFFICES ASSUME NEW i \in 1..Len(rest), rest[i] = Message("ack", r)
             PROVE  \E j \in (i + 1)..Len(rest) : rest[j] = Message("result", r)
  BY DEF Answered
<1>1. Len(log) \in Nat /\ Len(rest) \in Nat
  BY LenProperties
<1>2. i + k \in 1..Len(log) /\ log[i + k] = Message("ack", r)
  BY <1>1
<1>3. PICK j \in (i + k + 1)..Len(log) : log[j] = Message("result", r)
  BY <1>2 DEF Answered
<1>4. j - k \in (i + 1)..Len(rest) /\ j - k \in 1..Len(rest) /\ (j - k) + k = j
  BY <1>1, <1>3
<1>5. rest[j - k] = Message("result", r)
  BY <1>3, <1>4
<1> QED
  BY <1>4, <1>5

\* A history after one message more: the front of the whole may be forgotten.
LEMMA RememberedProperties ==
  ASSUME NEW log \in Seq(Messages), NEW m \in Messages
  PROVE  /\ Append(log, m) \in Seq(Messages) /\ Remembered(log, m) \in Seq(Messages)
         /\ \E k \in {0, 1} :
              /\ Len(Remembered(log, m)) = Len(Append(log, m)) - k
              /\ \A i \in 1..Len(Remembered(log, m)) : Remembered(log, m)[i] = Append(log, m)[i + k]
<1> DEFINE all == Append(log, m)
<1>1. all \in Seq(Messages) /\ Len(all) \in Nat /\ all # << >>
  BY AppendProperties, LenProperties
<1>2. Remembered(log, m) = IF Len(all) > HistoryLimit THEN Tail(all) ELSE all
  BY DEF Remembered
<1> HIDE DEF all
<1>3. CASE Len(all) > HistoryLimit
  <2>1. /\ Tail(all) \in Seq(Messages) /\ Len(Tail(all)) = Len(all) - 1
        /\ \A i \in 1..Len(Tail(all)) : Tail(all)[i] = all[i + 1]
    BY <1>1, HeadTailProperties
  <2> QED
    BY <1>1, <1>2, <1>3, <2>1 DEF all
<1>4. CASE ~(Len(all) > HistoryLimit)
  <2>1. \A i \in 1..Len(all) : i + 0 = i
    OBVIOUS
  <2>2. Len(all) = Len(all) - 0
    BY <1>1
  <2> QED
    BY <1>1, <1>2, <1>4, <2>1, <2>2 DEF all
<1> QED
  BY <1>3, <1>4

\* A message that does not acknowledge the run leaves it answered; its answer makes it so.
LEMMA RememberedKeepsAnswers ==
  ASSUME NEW log \in Seq(Messages), NEW m \in Messages, NEW r,
         Answered(log, r) \/ m = Message("result", r), m # Message("ack", r)
  PROVE  Answered(Remembered(log, m), r)
<1>1. /\ Len(log) \in Nat /\ Len(Append(log, m)) = Len(log) + 1 /\ Append(log, m)[Len(log) + 1] = m
      /\ \A i \in 1..Len(log) : Append(log, m)[i] = log[i]
  BY AppendProperties, LenProperties
<1>2. Answered(Append(log, m), r)
  <2> SUFFICES ASSUME NEW i \in 1..Len(Append(log, m)), Append(log, m)[i] = Message("ack", r)
               PROVE  \E j \in (i + 1)..Len(Append(log, m)) : Append(log, m)[j] = Message("result", r)
    BY DEF Answered
  <2>1. i \in 1..Len(log) /\ log[i] = Message("ack", r)
    <3>1. i \in 1..Len(log) \/ i = Len(log) + 1
      BY <1>1
    <3> QED
      BY <1>1, <3>1
  <2>2. CASE m = Message("result", r)
    <3>1. Len(log) + 1 \in (i + 1)..Len(Append(log, m))
      BY <1>1, <2>1
    <3> QED
      BY <1>1, <2>2, <3>1
  <2>3. CASE Answered(log, r)
    <3>1. PICK j \in (i + 1)..Len(log) : log[j] = Message("result", r)
      BY <2>1, <2>3 DEF Answered
    <3>2. j \in 1..Len(log) /\ j \in (i + 1)..Len(Append(log, m))
      BY <1>1, <2>1, <3>1
    <3> QED
      BY <1>1, <3>1, <3>2
  <2> QED
    BY <2>2, <2>3
<1>3. PICK k \in {0, 1} :
        /\ Len(Remembered(log, m)) = Len(Append(log, m)) - k
        /\ \A i \in 1..Len(Remembered(log, m)) : Remembered(log, m)[i] = Append(log, m)[i + k]
  BY RememberedProperties
<1>4. Append(log, m) \in Seq(Messages) /\ Remembered(log, m) \in Seq(Messages)
  BY RememberedProperties
<1> QED
  BY <1>2, <1>3, <1>4, ForgettingKeepsAnswers
-----------------------------------------------------------------------------
(* The manager as a value. *)

\* A sender has one session at most.
OneEach(c) ==
  \A s, t \in c.live : c.info[s].title \in Senders /\ c.info[s].title = c.info[t].title => s = t

\* What becomes of the manager c when n is the next id: no session but n is new, and in every
\* older one that is left the runs of R are as answered as they were.
Kept(c, d, n, R) ==
  /\ d \in Managers
  /\ d.live \subseteq c.live \cup {n}
  /\ \A s \in d.live, r \in R : s # n /\ Answered(c.log[s], r) => Answered(d.log[s], r)

LEMMA KeptIsTransitive ==
  ASSUME NEW c, NEW d, NEW e, NEW n, NEW R, Kept(c, d, n, R), Kept(d, e, n, R)
  PROVE  Kept(c, e, n, R)
<1>1. ASSUME NEW s \in e.live, NEW r \in R, s # n, Answered(c.log[s], r)
      PROVE  Answered(e.log[s], r)
  <2>1. s \in d.live
    BY <1>1 DEF Kept
  <2>2. Answered(d.log[s], r)
    BY <1>1, <2>1 DEF Kept
  <2> QED
    BY <1>1, <2>2 DEF Kept
<1> QED
  BY <1>1 DEF Kept

LEMMA SentFields ==
  ASSUME NEW c \in Managers, NEW s \in Ids, NEW m \in Messages, clock \in Nat
  PROVE  /\ Sent(c, s, m) \in Managers
         /\ Sent(c, s, m).live = c.live
         /\ Sent(c, s, m).log[s] = Remembered(c.log[s], m)
         /\ \A t \in Ids : t # s => Sent(c, s, m).log[t] = c.log[t]
         /\ \A t \in Ids : Sent(c, s, m).info[t].title = c.info[t].title
<1> DEFINE log == [c.log EXCEPT ![s] = Remembered(c.log[s], m)]
           info == [c.info EXCEPT ![s] = [c.info[s] EXCEPT !.active = clock]]
<1>2. Sent(c, s, m) = [live |-> c.live, info |-> info, log |-> log]
  BY DEF Sent
<1>3. c.live \in SUBSET Ids /\ c.log \in [Ids -> Seq(Messages)]
      /\ c.info \in [Ids -> [title : Titles, primary : BOOLEAN, active : Nat]]
  BY DEF Managers
<1>4. Remembered(c.log[s], m) \in Seq(Messages)
  BY <1>3, RememberedProperties
<1>5. /\ log \in [Ids -> Seq(Messages)] /\ log[s] = Remembered(c.log[s], m)
      /\ \A t \in Ids : t # s => log[t] = c.log[t]
  BY <1>3, <1>4
<1>6. [c.info[s] EXCEPT !.active = clock] \in [title : Titles, primary : BOOLEAN, active : Nat]
      /\ [c.info[s] EXCEPT !.active = clock].title = c.info[s].title
  BY <1>3
<1>7. info \in [Ids -> [title : Titles, primary : BOOLEAN, active : Nat]]
      /\ \A t \in Ids : info[t].title = c.info[t].title
  BY <1>3, <1>6
<1> HIDE DEF log, info
<1> QED
  BY <1>2, <1>3, <1>5, <1>7 DEF Managers

LEMMA SentIsKept ==
  ASSUME NEW c \in Managers, NEW s \in Ids, NEW m \in Messages, clock \in Nat, NEW n, NEW R,
         \A r \in R : m # Message("ack", r)
  PROVE  /\ Kept(c, Sent(c, s, m), n, R) /\ Sent(c, s, m).live = c.live
         /\ OneEach(c) => OneEach(Sent(c, s, m))
<1>1. c.log \in [Ids -> Seq(Messages)] /\ c.live \subseteq Ids
  BY DEF Managers
<1>2. ASSUME NEW t \in c.live, NEW r \in R, Answered(c.log[t], r)
      PROVE  Answered(Sent(c, s, m).log[t], r)
  <2>1. CASE t = s
    <3>1. Answered(Remembered(c.log[s], m), r)
      BY <1>1, <1>2, <2>1, RememberedKeepsAnswers
    <3> QED
      BY <2>1, <3>1, SentFields
  <2>2. CASE t # s
    BY <1>1, <1>2, <2>2, SentFields
  <2> QED
    BY <2>1, <2>2
<1>3. Sent(c, s, m) \in Managers /\ Sent(c, s, m).live = c.live
  BY SentFields
<1>4. OneEach(c) => OneEach(Sent(c, s, m))
  <2>1. \A t \in Ids : Sent(c, s, m).info[t].title = c.info[t].title
    BY SentFields
  <2> QED
    BY <1>1, <1>3, <2>1 DEF OneEach
<1> QED
  BY <1>2, <1>3, <1>4 DEF Kept

LEMMA DroppedIsKept ==
  ASSUME NEW c \in Managers, NEW gone, NEW n, NEW R
  PROVE  /\ Kept(c, Dropped(c, gone), n, R) /\ Dropped(c, gone).live \subseteq c.live
         /\ OneEach(c) => OneEach(Dropped(c, gone))
<1>1. /\ c.live \subseteq Ids /\ c.log \in [Ids -> Seq(Messages)]
      /\ c.info \in [Ids -> [title : Titles, primary : BOOLEAN, active : Nat]]
  BY DEF Managers
<1>2. NoInfo \in [title : Titles, primary : BOOLEAN, active : Nat] /\ << >> \in Seq(Messages)
  BY EmptySeq DEF NoInfo, Titles
<1>3. Dropped(c, gone) \in Managers
  BY <1>1, <1>2 DEF Dropped, Managers
<1>4. /\ Dropped(c, gone).live = c.live \ gone
      /\ \A t \in Dropped(c, gone).live : /\ Dropped(c, gone).log[t] = c.log[t]
                                          /\ Dropped(c, gone).info[t] = c.info[t]
  BY <1>1 DEF Dropped
<1> QED
  BY <1>3, <1>4 DEF Kept, OneEach

\* reset(): the history of one session is cleared.
LEMMA ClearedIsKept ==
  ASSUME NEW c \in Managers, NEW t \in Ids, NEW n, NEW R
  PROVE  /\ Kept(c, Cleared(c, t), n, R) /\ Cleared(c, t).live = c.live
         /\ OneEach(c) => OneEach(Cleared(c, t))
<1> DEFINE d == Cleared(c, t)
<1>1. /\ c.live \in SUBSET Ids /\ c.log \in [Ids -> Seq(Messages)]
      /\ c.info \in [Ids -> [title : Titles, primary : BOOLEAN, active : Nat]]
  BY DEF Managers
<1>2. d = [live |-> c.live, info |-> c.info, log |-> [c.log EXCEPT ![t] = << >>]]
  BY DEF Cleared
<1>3. [c.log EXCEPT ![t] = << >>] \in [Ids -> Seq(Messages)]
  BY <1>1, EmptySeq
<1>4. d \in Managers /\ d.live = c.live /\ d.info = c.info
  BY <1>1, <1>2, <1>3 DEF Managers
<1>5. d.log[t] = << >> /\ \A s \in Ids : s # t => d.log[s] = c.log[s]
  BY <1>1, <1>2
<1> HIDE DEF d
<1>6. \A r : Answered(<< >>, r)
  BY EmptySeq DEF Answered
<1>7. Kept(c, d, n, R)
  BY <1>1, <1>4, <1>5, <1>6 DEF Kept
<1>8. OneEach(c) => OneEach(d)
  BY <1>4 DEF OneEach
<1> QED
  BY <1>4, <1>7, <1>8 DEF d

LEMMA CreatedIsKept ==
  ASSUME NEW c \in Managers, NEW n \in Ids, NEW title \in Titles, NEW primary \in BOOLEAN,
         clock \in Nat, NEW R
  PROVE  /\ Kept(c, Created(c, n, title, primary), n, R)
         /\ OneEach(c) /\ (title \in Senders => \A s \in c.live : c.info[s].title # title)
              => OneEach(Created(c, n, title, primary))
<1> DEFINE new == [title |-> title, primary |-> primary, active |-> clock]
           all == [live |-> c.live \cup {n}, info |-> [c.info EXCEPT ![n] = new], log |-> c.log]
<1>1. /\ c.live \in SUBSET Ids /\ c.log \in [Ids -> Seq(Messages)]
      /\ c.info \in [Ids -> [title : Titles, primary : BOOLEAN, active : Nat]]
  BY DEF Managers
<1>3. new \in [title : Titles, primary : BOOLEAN, active : Nat] /\ new.title = title
  OBVIOUS
<1>4. Created(c, n, title, primary)
        = IF Cardinality(all.live) > MaxSessions THEN Dropped(all, {Oldest(all.live)}) ELSE all
  BY DEF Created
<1> HIDE DEF new
<1>5. all \in Managers /\ all.live = c.live \cup {n} /\ all.log = c.log
  BY <1>1, <1>3 DEF Managers
<1>6. all.info[n].title = title /\ \A s \in Ids : s # n => all.info[s] = c.info[s]
  BY <1>1, <1>3
<1> HIDE DEF all
<1>7. Kept(c, all, n, R)
  BY <1>5 DEF Kept
<1>8. OneEach(c) /\ (title \in Senders => \A s \in c.live : c.info[s].title # title) => OneEach(all)
  BY <1>1, <1>5, <1>6 DEF OneEach
<1>9. /\ Kept(all, Dropped(all, {Oldest(all.live)}), n, R)
      /\ OneEach(all) => OneEach(Dropped(all, {Oldest(all.live)}))
  BY <1>5, DroppedIsKept
<1>10. Kept(c, Dropped(all, {Oldest(all.live)}), n, R)
  BY <1>7, <1>9, KeptIsTransitive
<1> QED
  BY <1>4, <1>7, <1>8, <1>9, <1>10
-----------------------------------------------------------------------------
(* The tracker: what it holds of other runs is not more than before. *)

LEMMA TrackedAreFew ==
  ASSUME tracked \in Seq(Runs), NEW r \in Runs
  PROVE  /\ Touched(r) \in Seq(Runs) /\ Tracking(r) \in Seq(Runs)
         /\ \A q : Contains(Touched(r), q) => Contains(tracked, q)
         /\ \A q : q # r /\ Contains(Tracking(r), q) => Contains(tracked, q)
<1>1. Len(tracked) \in Nat /\ \A i \in 1..Len(tracked) : tracked[i] \in Runs
  BY LenProperties, ElementOfSeq
<1>2. Touched(r) \in Seq(Runs) /\ \A q : Contains(Touched(r), q) => Contains(tracked, q)
  <2>1. CASE ~Contains(tracked, r)
    BY <2>1 DEF Touched
  <2>2. CASE Contains(tracked, r)
    <3> DEFINE k == Place(r)
               front == SubSeq(tracked, 1, k - 1)
               back == SubSeq(tracked, k + 1, Len(tracked))
    <3>1. k \in 1..Len(tracked) /\ tracked[k] = r
      BY <2>2 DEF Contains, Place
    <3>2. Touched(r) = Append(front \o back, r)
      BY <2>2 DEF Touched, RemoveAt
    <3> HIDE DEF k
    <3>3. k \in Int /\ 1 <= k /\ k <= Len(tracked)
      BY <1>1, <3>1
    <3>4. /\ front \in Seq(Runs) /\ Len(front) = k - 1
          /\ \A i \in 1..(k - 1) : front[i] = tracked[i]
      <4>1. \A i \in 1..(k - 1) : tracked[i] \in Runs
        BY <1>1, <3>3
      <4> QED
        BY <1>1, <3>3, <4>1, SubSeqProperties, Z3
    <3>5. /\ back \in Seq(Runs) /\ Len(back) = Len(tracked) - k
          /\ \A i \in 1..(Len(tracked) - k) : back[i] = tracked[k + i]
      <4>1. \A i \in (k + 1)..Len(tracked) : tracked[i] \in Runs
        BY <1>1, <3>3
      <4> QED
        BY <1>1, <3>3, <4>1, SubSeqProperties, Z3
    <3> HIDE DEF front, back
    <3>6. /\ front \o back \in Seq(Runs) /\ Len(front \o back) = Len(front) + Len(back)
          /\ \A i \in 1..(Len(front) + Len(back)) :
               (front \o back)[i] = IF i <= Len(front) THEN front[i] ELSE back[i - Len(front)]
      BY <3>4, <3>5, ConcatProperties
    <3>7. ASSUME NEW i \in 1..(Len(front) + Len(back))
          PROVE  \E j \in 1..Len(tracked) : (front \o back)[i] = tracked[j]
      <4>1. CASE i <= Len(front)
        BY <1>1, <3>3, <3>4, <3>5, <3>6, <4>1
      <4>2. CASE ~(i <= Len(front))
        <5>1. i - (k - 1) \in 1..(Len(tracked) - k) /\ k + (i - (k - 1)) \in 1..Len(tracked)
          BY <1>1, <3>3, <3>4, <3>5, <4>2
        <5>2. (front \o back)[i] = back[i - (k - 1)]
          BY <3>4, <3>6, <4>2
        <5> QED
          BY <3>5, <5>1, <5>2
      <4> QED
        BY <4>1, <4>2
    <3> DEFINE rest == front \o back
    <3>8. /\ rest \in Seq(Runs) /\ Len(rest) \in Nat
          /\ \A i \in 1..Len(rest) : \E j \in 1..Len(tracked) : rest[i] = tracked[j]
      BY <3>6, <3>7, LenProperties
    <3> HIDE DEF rest
    <3>9. /\ Append(rest, r) \in Seq(Runs) /\ Len(Append(rest, r)) = Len(rest) + 1
          /\ Append(rest, r)[Len(rest) + 1] = r
          /\ \A i \in 1..Len(rest) : Append(rest, r)[i] = rest[i]
      BY <3>8, AppendProperties
    <3>10. \A i \in 1..Len(Append(rest, r)) : \E j \in 1..Len(tracked) : Append(rest, r)[i] = tracked[j]
      <4>1. \A i \in 1..Len(Append(rest, r)) : i \in 1..Len(rest) \/ i = Len(rest) + 1
        BY <3>8, <3>9
      <4> QED
        BY <3>1, <3>8, <3>9, <4>1
    <3>11. Touched(r) = Append(rest, r)
      BY <3>2 DEF rest
    <3> QED
      BY <3>9, <3>10, <3>11 DEF Contains
  <2> QED
    BY <2>1, <2>2
<1>3. Tracking(r) \in Seq(Runs) /\ \A q : q # r /\ Contains(Tracking(r), q) => Contains(tracked, q)
  <2> DEFINE all == Append(tracked, r)
  <2>1. /\ all \in Seq(Runs) /\ all # << >> /\ Len(all) \in Nat /\ Len(all) = Len(tracked) + 1
        /\ all[Len(tracked) + 1] = r /\ \A i \in 1..Len(tracked) : all[i] = tracked[i]
    BY AppendProperties, LenProperties
  <2>2. Tracking(r) = IF Len(all) > MaxTracked THEN Tail(all) ELSE all
    BY DEF Tracking
  <2> HIDE DEF all
  <2>3. \A i \in 1..Len(all) : all[i] # r => \E j \in 1..Len(tracked) : all[i] = tracked[j]
    <3>1. \A i \in 1..Len(all) : i \in 1..Len(tracked) \/ i = Len(tracked) + 1
      BY <1>1, <2>1
    <3> QED
      BY <2>1, <3>1
  <2>4. /\ Tail(all) \in Seq(Runs) /\ Len(Tail(all)) = Len(all) - 1
        /\ \A i \in 1..Len(Tail(all)) : Tail(all)[i] = all[i + 1]
    BY <2>1, HeadTailProperties
  <2>5. \A i \in 1..Len(Tail(all)) : \E j \in 1..Len(all) : Tail(all)[i] = all[j]
    <3>1. \A i \in 1..Len(Tail(all)) : i + 1 \in 1..Len(all)
      BY <2>1, <2>4
    <3> QED
      BY <2>4, <3>1
  <2>6. \A q : q # r /\ Contains(all, q) => Contains(tracked, q)
    BY <2>3 DEF Contains
  <2>7. \A q : Contains(Tail(all), q) => Contains(all, q)
    BY <2>5 DEF Contains
  <2> QED
    BY <2>1, <2>2, <2>4, <2>6, <2>7
<1> QED
  BY <1>2, <1>3
-----------------------------------------------------------------------------
(***************************************************************************)
(* The inductive invariant.  Sessions are older than the next id, so that  *)
(* a run whose session is gone is never given another of the same id; a    *)
(* run that has not ended has been charged nothing and has no outcome.     *)
(***************************************************************************)
RunIsReported(r) ==
  /\ task[r].pc \in {"starting", "executing"} => told[r] = "started"
  /\ task[r].pc = "ended" => told[r] \in {"completed", "failed"} /\ ledger[r] >= 1
  /\ told[r] = "completed" => task[r].success
  /\ Contains(tracked, r) => status[r] = IF told[r] = "started" THEN "running" ELSE told[r]

RunIsConsistent(r) ==
  /\ RunIsReported(r)
  /\ task[r].sid < nextId
  /\ task[r].pc # "ended" => ledger[r] = 0 /\ task[r].success = FALSE
  /\ task[r].pc = "ended" /\ Live(task[r].sid) =>
       /\ ledger[r] = 1
       /\ told[r] = Verdict(task[r].success)
       /\ Answered(chat.log[task[r].sid], r)

SessionInv ==
  /\ TypeOK
  /\ OneEach(chat)
  /\ \A s \in chat.live : s < nextId
  /\ \A r \in Runs : RunIsConsistent(r)

Notes == Message("note", NoRun)

LEMMA MessagesAreTyped ==
  /\ Notes \in Messages
  /\ \A r \in Runs : /\ Message("ack", r) \in Messages /\ Message("result", r) \in Messages
                     /\ \A q : Message("ack", r) = Message("ack", q) => r = q
                     /\ \A q : Message("result", r) # Message("ack", q)
                     /\ Notes # Message("ack", r)
BY DEF Notes, Message, Messages

\* A step leaves the runs alone that it neither announces, nor moves, nor tracks anew.
LEMMA OtherRunsStayConsistent ==
  ASSUME SessionInv, NEW r \in Runs, NEW R, r \in R, Kept(chat, chat', nextId, R),
         nextId' \in {nextId, nextId + 1},
         task'[r] = task[r], ledger'[r] = ledger[r], told'[r] = told[r], status'[r] = status[r],
         Contains(tracked', r) => Contains(tracked, r)
  PROVE  RunIsConsistent(r)'
<1>1. RunIsConsistent(r) /\ nextId \in Nat /\ task[r].sid \in Int
  BY DEF SessionInv, TypeOK
<1>2. task[r].sid < nextId'
  BY <1>1 DEF RunIsConsistent
<1>3. Live(task[r].sid)' => Live(task[r].sid) /\ (Answered(chat.log[task[r].sid], r)
                                                    => Answered(chat'.log[task[r].sid], r))
  BY <1>1 DEF RunIsConsistent, Kept, Live
<1>4. RunIsReported(r)'
  BY <1>1 DEF RunIsConsistent, RunIsReported
<1> QED
  BY <1>1, <1>2, <1>3, <1>4 DEF RunIsConsistent, Live

\* A step of the sessions only: no run is announced, moved, charged or reported.
LEMMA SessionStepKeepsInv ==
  ASSUME SessionInv, LimiterTypeOK', UNCHANGED runVars, pending' \in Seq(Senders),
         Kept(chat, chat', nextId, Runs), OneEach(chat'),
         \/ nextId' = nextId /\ chat'.live \subseteq chat.live
         \/ nextId \in Ids /\ nextId' = nextId + 1
  PROVE  SessionInv'
<1>1. nextId \in Nat /\ nextId' \in 1..(MaxIds + 1) /\ nextId' \in {nextId, nextId + 1}
  BY SessionBounds DEF SessionInv, TypeOK, Ids
<1>2. TypeOK'
  BY <1>1 DEF SessionInv, TypeOK, runVars, Kept
<1>3. ASSUME NEW s \in chat'.live PROVE s < nextId'
  <2>1. s \in Int
    BY <1>3 DEF Kept, Managers, Ids
  <2>2. CASE s \in chat.live
    BY <1>1, <2>1, <2>2 DEF SessionInv
  <2>3. CASE s \notin chat.live
    BY <1>1, <1>3, <2>3 DEF Kept
  <2> QED
    BY <2>2, <2>3
<1>4. ASSUME NEW r \in Runs PROVE RunIsConsistent(r)'
  BY <1>1, OtherRunsStayConsistent DEF runVars
<1> QED
  BY <1>2, <1>3, <1>4 DEF SessionInv
-----------------------------------------------------------------------------
(* Steps of operators and of channel events. *)

\* What the session operations make of the manager, whatever is in it.
LEMMA ManagerSteps ==
  ASSUME SessionInv, NEW c \in Managers, OneEach(c)
  PROVE  /\ \A s \in Ids : /\ Sent(c, s, Notes) \in Managers /\ OneEach(Sent(c, s, Notes))
                           /\ Kept(c, Sent(c, s, Notes), nextId, Runs)
                           /\ Sent(c, s, Notes).live = c.live
         /\ \A s \in Ids : /\ Cleared(c, s) \in Managers /\ OneEach(Cleared(c, s))
                           /\ Kept(c, Cleared(c, s), nextId, Runs) /\ Cleared(c, s).live = c.live
         /\ \A gone : /\ OneEach(Dropped(c, gone)) /\ Kept(c, Dropped(c, gone), nextId, Runs)
                      /\ Dropped(c, gone).live \subseteq c.live
         /\ nextId \in Ids => \A primary \in BOOLEAN :
              /\ Created(c, nextId, Untitled, primary) \in Managers
              /\ OneEach(Created(c, nextId, Untitled, primary))
              /\ Kept(c, Created(c, nextId, Untitled, primary), nextId, Runs)
<1>1. clock \in Nat
  BY DEF SessionInv, TypeOK, LimiterTypeOK
<1>2. ASSUME NEW s \in Ids
      PROVE  /\ Sent(c, s, Notes) \in Managers /\ OneEach(Sent(c, s, Notes))
             /\ Kept(c, Sent(c, s, Notes), nextId, Runs) /\ Sent(c, s, Notes).live = c.live
  <2>1. Notes \in Messages /\ \A r \in Runs : Notes # Message("ack", r)
    BY MessagesAreTyped
  <2>2. /\ Kept(c, Sent(c, s, Notes), nextId, Runs) /\ Sent(c, s, Notes).live = c.live
        /\ OneEach(c) => OneEach(Sent(c, s, Notes))
    BY <1>1, <2>1, SentIsKept
  <2> QED
    BY <2>2 DEF Kept
<1>3. ASSUME NEW s \in Ids
      PROVE  /\ Cleared(c, s) \in Managers /\ OneEach(Cleared(c, s))
             /\ Kept(c, Cleared(c, s), nextId, Runs) /\ Cleared(c, s).live = c.live
  BY ClearedIsKept DEF Kept
<1>4. ASSUME NEW gone
      PROVE  /\ OneEach(Dropped(c, gone)) /\ Kept(c, Dropped(c, gone), nextId, Runs)
             /\ Dropped(c, gone).live \subseteq c.live
  BY DroppedIsKept
<1>5. ASSUME nextId \in Ids, NEW primary \in BOOLEAN
      PROVE  /\ Created(c, nextId, Untitled, primary) \in Managers
             /\ OneEach(Created(c, nextId, Untitled, primary))
             /\ Kept(c, Created(c, nextId, Untitled, primary), nextId, Runs)
  <2>1. Untitled \in Titles /\ Untitled \notin Senders
    BY TitlesAssumption DEF Titles
  <2> QED
    BY <1>1, <1>5, <2>1, CreatedIsKept DEF Kept
<1> QED
  BY <1>2, <1>3, <1>4, <1>5

LEMMA RepliedIsKept ==
  ASSUME SessionInv, NEW c \in Managers, OneEach(c), NEW s \in Ids
  PROVE  OneEach(Replied(c, s)) /\ Kept(c, Replied(c, s), nextId, Runs) /\ Replied(c, s).live = c.live
<1>1. CASE s \in c.live
  BY <1>1, ManagerSteps DEF Replied, Notes
<1>2. CASE s \notin c.live
  <2>1. Kept(c, c, nextId, Runs)
    BY DEF Kept
  <2> QED
    BY <1>2, <2>1 DEF Replied
<1> QED
  BY <1>1, <1>2

LEMMA OperateKeepsInv ==
  ASSUME SessionInv, LimiterTypeOK', Operate PROVE SessionInv'
<1>1. /\ chat \in Managers /\ OneEach(chat) /\ pending \in Seq(Senders)
      /\ chat.live \subseteq Ids
  BY DEF SessionInv, TypeOK, Managers
<1>2. UNCHANGED runVars /\ pending' \in Seq(Senders)
  BY <1>1 DEF Operate, Create, SendByTool, SendNote, SlashOther, SlashNew, SlashReset, Slash, Reset,
              Delete, PruneInactive, SendNowhere
<1>3. ASSUME NEW primary \in BOOLEAN, Create(primary) PROVE SessionInv'
  BY <1>1, <1>2, <1>3, ManagerSteps, SessionStepKeepsInv DEF Create
<1>4. ASSUME NEW s \in Ids, SendByTool(s) \/ SendNote(s) PROVE SessionInv'
  <2>1. chat' = Sent(chat, s, Notes) /\ nextId' = nextId
    BY <1>4 DEF SendByTool, SendNote, Notes
  <2> QED
    BY <1>1, <1>2, <2>1, ManagerSteps, SessionStepKeepsInv
<1>5. ASSUME NEW s \in Ids, SlashOther(s) PROVE SessionInv'
  <2>1. chat' = Replied(Typed(s), s) /\ nextId' = nextId /\ Typed(s) = Sent(chat, s, Notes)
    BY <1>5 DEF SlashOther, Typed, Notes
  <2>2. Typed(s) \in Managers /\ OneEach(Typed(s)) /\ Kept(chat, Typed(s), nextId, Runs)
        /\ Typed(s).live = chat.live
    BY <1>1, <2>1, ManagerSteps
  <2>3. OneEach(chat') /\ Kept(Typed(s), chat', nextId, Runs) /\ chat'.live = chat.live
    BY <2>1, <2>2, RepliedIsKept
  <2>4. Kept(chat, chat', nextId, Runs)
    BY <2>2, <2>3, KeptIsTransitive
  <2> QED
    BY <1>2, <2>1, <2>3, <2>4, SessionStepKeepsInv
<1>6. ASSUME NEW s \in Ids, NEW t \in Ids, SlashReset(s, t) PROVE SessionInv'
  <2> DEFINE c == Cleared(Typed(s), t)
  <2>1. chat' = Replied(c, s) /\ nextId' = nextId /\ Typed(s) = Sent(chat, s, Notes)
    BY <1>6 DEF SlashReset, Typed, Notes
  <2>2. Typed(s) \in Managers /\ OneEach(Typed(s)) /\ Kept(chat, Typed(s), nextId, Runs)
        /\ Typed(s).live = chat.live
    BY <1>1, <2>1, ManagerSteps
  <2>3. c \in Managers /\ OneEach(c) /\ Kept(Typed(s), c, nextId, Runs) /\ c.live = chat.live
    BY <2>2, ManagerSteps
  <2> HIDE DEF c
  <2>4. OneEach(chat') /\ Kept(c, chat', nextId, Runs) /\ chat'.live = chat.live
    BY <2>1, <2>3, RepliedIsKept
  <2>5. Kept(chat, chat', nextId, Runs)
    BY <2>2, <2>3, <2>4, KeptIsTransitive
  <2> QED
    BY <1>2, <2>1, <2>4, <2>5, SessionStepKeepsInv
<1>7. ASSUME NEW s \in Ids, SlashNew(s) PROVE SessionInv'
  <2> DEFINE c == Created(Typed(s), nextId, Untitled, FALSE)
  <2>1. /\ chat' = Replied(c, s) /\ nextId \in Ids /\ nextId' = nextId + 1
        /\ Typed(s) = Sent(chat, s, Notes)
    BY <1>7 DEF SlashNew, Typed, Notes
  <2>2. Typed(s) \in Managers /\ OneEach(Typed(s)) /\ Kept(chat, Typed(s), nextId, Runs)
    BY <1>1, <2>1, ManagerSteps
  <2>3. c \in Managers /\ OneEach(c) /\ Kept(Typed(s), c, nextId, Runs)
    BY <2>1, <2>2, ManagerSteps
  <2> HIDE DEF c
  <2>4. OneEach(chat') /\ Kept(c, chat', nextId, Runs)
    BY <2>1, <2>3, RepliedIsKept
  <2>5. Kept(chat, chat', nextId, Runs)
    BY <2>2, <2>3, <2>4, KeptIsTransitive
  <2> QED
    BY <1>2, <2>1, <2>4, <2>5, SessionStepKeepsInv
<1>8. ASSUME NEW s \in Ids, Reset(s) PROVE SessionInv'
  BY <1>1, <1>2, <1>8, ManagerSteps, SessionStepKeepsInv DEF Reset
<1>9. ASSUME NEW gone, chat' = Dropped(chat, gone), nextId' = nextId PROVE SessionInv'
  BY <1>1, <1>2, <1>9, ManagerSteps, SessionStepKeepsInv
<1>10. CASE SendNowhere
  <2>1. Kept(chat, chat', nextId, Runs) /\ chat' = chat /\ nextId' = nextId
    BY <1>1, <1>10 DEF SendNowhere, Kept
  <2> QED
    BY <1>1, <1>2, <2>1, SessionStepKeepsInv
<1>11. ASSUME NEW s \in Ids, Delete(s) PROVE SessionInv'
  BY <1>9, <1>11 DEF Delete
<1>12. CASE PruneInactive
  BY <1>9, <1>12 DEF PruneInactive
<1> QED
  BY <1>3, <1>4, <1>5, <1>6, <1>7, <1>8, <1>10, <1>11, <1>12 DEF Operate

LEMMA DeliverKeepsInv ==
  ASSUME SessionInv, LimiterTypeOK', NEW e \in Senders, Deliver(e) PROVE SessionInv'
<1>1. chat \in Managers /\ OneEach(chat) /\ pending \in Seq(Senders)
  BY DEF SessionInv, TypeOK
<1>2. pending' \in Seq(Senders)
  BY <1>1, AppendProperties DEF Deliver
<1>3. chat' = chat /\ nextId' = nextId /\ UNCHANGED runVars
  BY DEF Deliver
<1>4. Kept(chat, chat', nextId, Runs)
  BY <1>1, <1>3 DEF Kept
<1> QED
  BY <1>1, <1>2, <1>3, <1>4, SessionStepKeepsInv

\* A sender's event goes to the one session of that title, or a session is made for it.
LEMMA HandleKeepsInv ==
  ASSUME SessionInv, LimiterTypeOK', Handle PROVE SessionInv'
<1> DEFINE e == Head(pending)
<1>1. /\ chat \in Managers /\ OneEach(chat) /\ pending \in Seq(Senders) /\ chat.live \subseteq Ids
      /\ clock \in Nat /\ nextId \in Nat
  BY SessionBounds DEF SessionInv, TypeOK, Managers, LimiterTypeOK
<1>2. e \in Senders /\ pending' \in Seq(Senders)
  BY <1>1, HeadTailProperties DEF Handle
<1>3. UNCHANGED runVars
  BY DEF Handle
<1>4. \/ /\ Owned(e) # {} /\ nextId' = nextId
         /\ chat' = Sent(chat, Oldest(Owned(e)), Notes)
      \/ /\ Owned(e) = {} /\ nextId \in Ids /\ nextId' = nextId + 1
         /\ chat' = Sent(Created(chat, nextId, e, FALSE), nextId, Notes)
  BY DEF Handle, Notes
<1> HIDE DEF e
<1>5. CASE Owned(e) # {}
  <2>1. PICK s \in chat.live : Owned(e) = {s} /\ s \in Int
    <3>1. PICK s \in chat.live : chat.info[s].title = e
      BY <1>5 DEF Owned
    <3>2. \A t \in Owned(e) : t = s
      BY <1>1, <1>2, <3>1 DEF OneEach, Owned
    <3> QED
      BY <1>1, <3>1, <3>2 DEF Owned, Ids
  <2>2. Oldest(Owned(e)) = s
    BY <2>1 DEF Oldest
  <2>3. chat' = Sent(chat, s, Notes) /\ nextId' = nextId /\ s \in Ids
    BY <1>1, <1>4, <1>5, <2>2
  <2> QED
    BY <1>1, <1>2, <1>3, <2>3, ManagerSteps, SessionStepKeepsInv
<1>6. CASE Owned(e) = {}
  <2> DEFINE c == Created(chat, nextId, e, FALSE)
  <2>1. chat' = Sent(c, nextId, Notes) /\ nextId \in Ids /\ nextId' = nextId + 1
    BY <1>4, <1>6
  <2>2. e \in Titles /\ \A s \in chat.live : chat.info[s].title # e
    BY <1>2, <1>6 DEF Titles, Owned
  <2>3. Kept(chat, c, nextId, Runs) /\ OneEach(c)
    BY <1>1, <2>1, <2>2, CreatedIsKept
  <2> HIDE DEF c
  <2>4. Kept(c, chat', nextId, Runs) /\ OneEach(chat')
    <3>1. c \in Managers
      BY <2>3 DEF Kept
    <3> QED
      BY <2>1, <2>3, <3>1, ManagerSteps
  <2>5. Kept(chat, chat', nextId, Runs)
    BY <2>3, <2>4, KeptIsTransitive
  <2> QED
    BY <1>2, <1>3, <2>1, <2>4, <2>5, SessionStepKeepsInv
<1> QED
  BY <1>5, <1>6
-----------------------------------------------------------------------------
(* Steps of a run. *)

\* Who else is where, charged, reported and told as before.
OthersAsBefore(r) ==
  \A q \in Runs \ {r} : /\ task'[q] = task[q] /\ ledger'[q] = ledger[q]
                        /\ status'[q] = status[q] /\ told'[q] = told[q]
                        /\ Contains(tracked', q) => Contains(tracked, q)

RunsTyped ==
  /\ task \in [Runs -> [pc : {"idle", "starting", "executing", "ended"}, sid : 0..MaxIds, success : BOOLEAN]]
  /\ ledger \in [Runs -> 0..2]
  /\ status \in [Runs -> {"unknown", "running", "completed", "failed"}]
  /\ told \in [Runs -> {"nothing", "started", "completed", "failed"}]
  /\ tracked \in Seq(Runs)

\* What is left to show when a run steps.
LEMMA RunStepKeepsInv ==
  ASSUME SessionInv, LimiterTypeOK', NEW r \in Runs, UNCHANGED <<nextId, pending>>,
         Kept(chat, chat', nextId, Runs \ {r}), OneEach(chat'), chat'.live = chat.live,
         RunsTyped', OthersAsBefore(r), RunIsConsistent(r)'
  PROVE  SessionInv'
<1>1. TypeOK'
  BY DEF SessionInv, TypeOK, Kept, RunsTyped
<1>2. \A s \in chat'.live : s < nextId'
  BY DEF SessionInv
<1>3. ASSUME NEW q \in Runs PROVE RunIsConsistent(q)'
  <2>1. CASE q = r
    BY <2>1
  <2>2. CASE q # r
    BY <2>2, OtherRunsStayConsistent DEF OthersAsBefore
  <2> QED
    BY <2>1, <2>2
<1> QED
  BY <1>1, <1>2, <1>3 DEF SessionInv

\* A message of the run's session, and none of the others' acknowledgements.
LEMMA RunMessageIsKept ==
  ASSUME SessionInv, NEW c \in Managers, OneEach(c), NEW s \in Ids, NEW r \in Runs,
         NEW m \in {Notes, Message("ack", r), Message("result", r)}
  PROVE  /\ Kept(c, Sent(c, s, m), nextId, Runs \ {r}) /\ OneEach(Sent(c, s, m))
         /\ Sent(c, s, m).live = c.live /\ Sent(c, s, m) \in Managers
         /\ m = Message("result", r) => Answered(Sent(c, s, m).log[s], r)
<1>1. clock \in Nat /\ c.log \in [Ids -> Seq(Messages)]
  BY DEF SessionInv, TypeOK, LimiterTypeOK, Managers
<1>2. m \in Messages /\ \A q \in Runs \ {r} : m # Message("ack", q)
  BY MessagesAreTyped
<1>3. /\ Kept(c, Sent(c, s, m), nextId, Runs \ {r}) /\ Sent(c, s, m).live = c.live
      /\ OneEach(c) => OneEach(Sent(c, s, m))
  BY <1>1, <1>2, SentIsKept
<1>4. Sent(c, s, m).log[s] = Remembered(c.log[s], m)
  BY <1>1, <1>2, SentFields
<1>5. m = Message("result", r) => Answered(Remembered(c.log[s], m), r)
  <2> SUFFICES ASSUME m = Message("result", r) PROVE Answered(Remembered(c.log[s], m), r)
    OBVIOUS
  <2>1. m # Message("ack", r)
    BY MessagesAreTyped
  <2> QED
    BY <1>1, <1>2, <2>1, RememberedKeepsAnswers
<1> QED
  BY <1>3, <1>4, <1>5 DEF Kept

LEMMA SendTaskKeepsInv ==
  ASSUME SessionInv, LimiterTypeOK', NEW s \in Ids, NEW r \in Runs, SendTask(s, r)
  PROVE  SessionInv'
<1>1. /\ chat \in Managers /\ OneEach(chat) /\ RunsTyped /\ tracked \in Seq(Runs)
      /\ s < nextId /\ RunIsConsistent(r)
  BY DEF SessionInv, TypeOK, RunsTyped, SendTask, Live
<1>2. s \in 0..MaxIds
  BY SessionBounds DEF Ids
<1> DEFINE c == Sent(chat, s, Notes)
<1>3. /\ chat' = Sent(c, s, Message("ack", r)) /\ UNCHANGED <<nextId, pending>>
      /\ task' = [task EXCEPT ![r].pc = "starting", ![r].sid = s]
      /\ tracked' = Tracking(r) /\ status' = [status EXCEPT ![r] = "running"]
      /\ told' = [told EXCEPT ![r] = "started"] /\ ledger' = ledger
      /\ task[r].pc = "idle"
  BY DEF SendTask, Notes
<1>4. /\ Kept(chat, c, nextId, Runs \ {r}) /\ OneEach(c) /\ c.live = chat.live /\ c \in Managers
  BY <1>1, RunMessageIsKept
<1> HIDE DEF c
<1>5. Kept(c, chat', nextId, Runs \ {r}) /\ OneEach(chat') /\ chat'.live = chat.live
  BY <1>3, <1>4, RunMessageIsKept
<1>6. Kept(chat, chat', nextId, Runs \ {r})
  BY <1>4, <1>5, KeptIsTransitive
<1>7. tracked' \in Seq(Runs) /\ \A q \in Runs \ {r} : Contains(tracked', q) => Contains(tracked, q)
  BY <1>1, <1>3, TrackedAreFew
<1>8. task' \in [Runs -> [pc : {"idle", "starting", "executing", "ended"}, sid : 0..MaxIds, success : BOOLEAN]]
      /\ task'[r].pc = "starting" /\ task'[r].sid = s /\ task'[r].success = task[r].success
      /\ \A q \in Runs \ {r} : task'[q] = task[q]
  BY <1>1, <1>2, <1>3 DEF RunsTyped
<1>9. RunsTyped' /\ OthersAsBefore(r)
  BY <1>1, <1>3, <1>7, <1>8 DEF RunsTyped, OthersAsBefore
<1>10. told'[r] = "started" /\ status'[r] = "running"
  BY <1>1, <1>3 DEF RunsTyped
<1>11. RunIsConsistent(r)'
  BY <1>1, <1>3, <1>8, <1>10 DEF RunIsConsistent, RunIsReported
<1> QED
  BY <1>3, <1>5, <1>6, <1>9, <1>11, RunStepKeepsInv

\* A step that only says where the run is.
LEMMA RunMovesKeepInv ==
  ASSUME SessionInv, LimiterTypeOK', NEW r \in Runs, AgentReady(r) \/ Progress(r)
  PROVE  SessionInv'
<1>1. /\ chat \in Managers /\ OneEach(chat) /\ RunsTyped /\ tracked \in Seq(Runs) /\ RunIsConsistent(r)
  BY DEF SessionInv, TypeOK, RunsTyped
<1>2. UNCHANGED <<chat, nextId, pending, status, ledger, told>>
  BY DEF AgentReady, Progress
<1>3. Kept(chat, chat', nextId, Runs \ {r}) /\ OneEach(chat') /\ chat'.live = chat.live
  BY <1>1, <1>2 DEF Kept
<1>4. CASE AgentReady(r)
  <2>1. task' \in [Runs -> [pc : {"idle", "starting", "executing", "ended"}, sid : 0..MaxIds, success : BOOLEAN]]
        /\ task'[r].pc = "executing" /\ task'[r].sid = task[r].sid /\ task'[r].success = task[r].success
        /\ task[r].pc = "starting" /\ tracked' = tracked
        /\ \A q \in Runs \ {r} : task'[q] = task[q]
    BY <1>1, <1>4 DEF RunsTyped, AgentReady
  <2>2. RunsTyped' /\ OthersAsBefore(r)
    BY <1>1, <1>2, <2>1 DEF RunsTyped, OthersAsBefore
  <2>3. RunIsConsistent(r)'
    BY <1>1, <1>2, <2>1 DEF RunIsConsistent, RunIsReported
  <2> QED
    BY <1>2, <1>3, <2>2, <2>3, RunStepKeepsInv
<1>5. CASE Progress(r)
  <2>1. task' = task /\ task[r].pc = "executing" /\ tracked' = Touched(r)
    BY <1>5 DEF Progress
  <2>2. tracked' \in Seq(Runs) /\ \A q : Contains(tracked', q) => Contains(tracked, q)
    BY <1>1, <2>1, TrackedAreFew
  <2>3. RunsTyped' /\ OthersAsBefore(r)
    BY <1>1, <1>2, <2>1, <2>2 DEF RunsTyped, OthersAsBefore
  <2>4. RunIsConsistent(r)'
    BY <1>1, <1>2, <2>1, <2>2 DEF RunIsConsistent, RunIsReported
  <2> QED
    BY <1>2, <1>3, <2>3, <2>4, RunStepKeepsInv
<1> QED
  BY <1>4, <1>5

\* A run ends, in a session that has its result or is gone.
LEMMA EndKeepsInv ==
  ASSUME SessionInv, LimiterTypeOK', NEW r \in Runs, NEW success \in BOOLEAN, NEW n \in {1, 2},
         task[r].pc # "ended", UNCHANGED <<nextId, pending>>,
         task' \in [Runs -> [pc : {"idle", "starting", "executing", "ended"}, sid : 0..MaxIds, success : BOOLEAN]],
         task'[r].pc = "ended", task'[r].sid = task[r].sid, \A q \in Runs \ {r} : task'[q] = task[q],
         Finish(r, success), Charge(r, n), success => task'[r].success,
         IF Live(task[r].sid)
         THEN /\ chat' = Sent(chat, task[r].sid, Message("result", r))
              /\ n = 1 /\ task'[r].success = success
         ELSE UNCHANGED chat
  PROVE  SessionInv'
<1> DEFINE s == task[r].sid
<1>1. /\ chat \in Managers /\ OneEach(chat) /\ RunsTyped /\ tracked \in Seq(Runs)
      /\ chat.live \subseteq Ids /\ RunIsConsistent(r)
  BY DEF SessionInv, TypeOK, RunsTyped, Managers
<1>2. tracked' \in Seq(Runs) /\ \A q : Contains(tracked', q) => Contains(tracked, q)
  BY <1>1, TrackedAreFew DEF Finish
<1>3. /\ ledger[r] = 0 /\ ledger' \in [Runs -> 0..2] /\ ledger'[r] = n
      /\ \A q \in Runs \ {r} : ledger'[q] = ledger[q]
  BY <1>1 DEF RunIsConsistent, RunsTyped, Charge
<1>4. Verdict(success) \in {"completed", "failed"}
  BY DEF Verdict
<1>5. /\ status' \in [Runs -> {"unknown", "running", "completed", "failed"}]
      /\ Contains(tracked, r) => status'[r] = Verdict(success)
      /\ \A q \in Runs \ {r} : status'[q] = status[q]
  BY <1>1, <1>4 DEF RunsTyped, Finish
<1>6. /\ told' \in [Runs -> {"nothing", "started", "completed", "failed"}]
      /\ told'[r] = Verdict(success) /\ \A q \in Runs \ {r} : told'[q] = told[q]
  BY <1>1, <1>4 DEF RunsTyped, Finish
<1>7. RunsTyped' /\ OthersAsBefore(r)
  BY <1>2, <1>3, <1>5, <1>6 DEF RunsTyped, OthersAsBefore
<1>r. RunIsReported(r)'
  BY <1>2, <1>3, <1>4, <1>5, <1>6 DEF RunIsReported, Verdict
<1>8. CASE Live(s)
  <2>1. s \in Ids /\ chat' = Sent(chat, s, Message("result", r)) /\ n = 1 /\ task'[r].success = success
    BY <1>1, <1>8 DEF Live
  <2> HIDE DEF s
  <2>2. /\ Kept(chat, chat', nextId, Runs \ {r}) /\ OneEach(chat') /\ chat'.live = chat.live
        /\ Answered(chat'.log[s], r)
    BY <1>1, <2>1, RunMessageIsKept
  <2>3. RunIsConsistent(r)'
    BY <1>1, <1>2, <1>3, <1>5, <1>6, <1>r, <2>1, <2>2 DEF RunIsConsistent, s
  <2> QED
    BY <1>7, <2>2, <2>3, RunStepKeepsInv
<1>9. CASE ~Live(s)
  <2>1. chat' = chat
    BY <1>9
  <2>2. Kept(chat, chat', nextId, Runs \ {r}) /\ OneEach(chat') /\ chat'.live = chat.live
    BY <1>1, <2>1 DEF Kept
  <2>3. RunIsConsistent(r)'
    BY <1>1, <1>9, <1>r, <2>1 DEF RunIsConsistent, Live
  <2> QED
    BY <1>7, <2>2, <2>3, RunStepKeepsInv
<1> QED
  BY <1>8, <1>9

LEMMA TaskStepsKeepInv ==
  ASSUME SessionInv, LimiterTypeOK', NEW r \in Runs, TaskSteps(r) PROVE SessionInv'
<1>1. RunsTyped /\ RunIsConsistent(r)
  BY DEF SessionInv, TypeOK, RunsTyped
<1>2. ASSUME NEW success \in BOOLEAN, Execute(r, success) PROVE SessionInv'
  <2>1. /\ task[r].pc # "ended" /\ UNCHANGED <<nextId, pending>>
        /\ task' \in [Runs -> [pc : {"idle", "starting", "executing", "ended"}, sid : 0..MaxIds, success : BOOLEAN]]
        /\ task'[r].pc = "ended" /\ task'[r].sid = task[r].sid /\ task'[r].success = success
        /\ \A q \in Runs \ {r} : task'[q] = task[q]
    BY <1>1, <1>2 DEF Execute, RunsTyped
  <2>2. CASE Live(task[r].sid)
    <3>1. chat' = Sent(chat, task[r].sid, Message("result", r)) /\ Finish(r, success) /\ Charge(r, 1)
      BY <1>2, <2>2 DEF Execute
    <3> QED
      BY <2>1, <2>2, <3>1, EndKeepsInv
  <2>3. CASE ~Live(task[r].sid)
    <3>1. UNCHANGED chat /\ Finish(r, FALSE) /\ Charge(r, 2)
      BY <1>2, <2>3 DEF Execute
    <3> QED
      BY <2>1, <2>3, <3>1, EndKeepsInv
  <2> QED
    BY <2>2, <2>3
<1>3. CASE TaskRaises(r)
  <2>1. /\ task[r].pc # "ended" /\ UNCHANGED <<nextId, pending>>
        /\ task' \in [Runs -> [pc : {"idle", "starting", "executing", "ended"}, sid : 0..MaxIds, success : BOOLEAN]]
        /\ task'[r].pc = "ended" /\ task'[r].sid = task[r].sid /\ task'[r].success = task[r].success
        /\ \A q \in Runs \ {r} : task'[q] = task[q]
    BY <1>1, <1>3 DEF TaskRaises, RunsTyped
  <2>2. task'[r].success = FALSE
    BY <1>1, <2>1 DEF RunIsConsistent
  <2>3. /\ chat' = IF Live(task[r].sid) THEN Sent(chat, task[r].sid, Message("result", r)) ELSE chat
        /\ Finish(r, FALSE) /\ Charge(r, 1)
    BY <1>3 DEF TaskRaises
  <2> QED
    BY <2>1, <2>2, <2>3, EndKeepsInv
<1> QED
  BY <1>2, <1>3, RunMovesKeepInv DEF TaskSteps

LEMMA SessionInitInv == Init => SessionInv
<1> SUFFICES ASSUME Init PROVE SessionInv
  OBVIOUS
<1>1. LimiterTypeOK
  BY LimiterInitInv DEF Init, LimiterInv
<1>2. << >> \in Seq(Senders) /\ << >> \in Seq(Runs) /\ << >> \in Seq(Messages)
  BY EmptySeq
<1>3. NoSessions \in Managers /\ NoSessions.live = {}
  BY <1>2 DEF NoSessions, NoInfo, Titles, Managers
<1>4. TypeOK
  BY <1>1, <1>2, <1>3, SessionBounds DEF Init, TypeOK
<1>5. \A r \in Runs : RunIsConsistent(r)
  <2>1. \A r : ~Contains(<< >>, r)
    BY DEF Contains
  <2> QED
    BY <2>1 DEF Init, RunIsConsistent, RunIsReported
<1> QED
  BY <1>3, <1>4, <1>5 DEF SessionInv, OneEach, Init

LEMMA SessionNextKeepsInv == SessionInv /\ LimiterTypeOK' /\ [Next]_vars => SessionInv'
<1> SUFFICES ASSUME SessionInv, LimiterTypeOK', [Next]_vars PROVE SessionInv'
  OBVIOUS
<1>1. ASSUME UNCHANGED <<chat, nextId, pending, runVars>> PROVE SessionInv'
  <2>1. Kept(chat, chat', nextId, Runs) /\ OneEach(chat') /\ pending' \in Seq(Senders)
    BY <1>1 DEF SessionInv, TypeOK, Kept
  <2> QED
    BY <1>1, <2>1, SessionStepKeepsInv
<1>2. ASSUME NEW r \in Runs, (\E s \in Ids : SendTask(s, r)) \/ Progress(r) \/ TaskSteps(r)
      PROVE  SessionInv'
  BY <1>2, SendTaskKeepsInv, RunMovesKeepInv, TaskStepsKeepInv
<1>3. CASE (\E e \in Senders : Deliver(e)) \/ Handle
  BY <1>3, DeliverKeepsInv, HandleKeepsInv
<1> QED
  BY <1>1, <1>2, <1>3, OperateKeepsInv DEF Next, LimitHit, TimePasses, vars, runVars
-----------------------------------------------------------------------------
(* The results. *)

\* However the calls of a client are spread over time, no window of the limiter lets more
\* than max_events of them through (policies/rate_limit.py, consume).
THEOREM WindowHolds == LimiterSpec => []WindowIsNeverOverfull
<1>1. LimiterInv /\ [LimiterNext]_limiterVars => LimiterInv'
  BY LimiterStepKeepsInv
<1>2. LimiterInv => WindowIsNeverOverfull
  BY DEF LimiterInv, HistoryIsSpaced, Spaced, WindowIsNeverOverfull
<1> QED
  BY <1>1, <1>2, LimiterInitInv, PTL DEF LimiterSpec

\* The same in front of the session routes, where slash commands, plain messages and pruning
\* share one bucket (dashboard/routes/sessions.py).
THEOREM SessionWindowHolds == Spec => []WindowIsNeverOverfull
<1>1. Init => LimiterInv
  BY LimiterInitInv DEF Init
<1>2. LimiterInv /\ [Next]_vars => LimiterInv'
  BY LimiterStepKeepsInv, SessionsUseTheLimiter
<1>3. LimiterInv => WindowIsNeverOverfull
  BY DEF LimiterInv, HistoryIsSpaced, Spaced, WindowIsNeverOverfull
<1> QED
  BY <1>1, <1>2, <1>3, PTL DEF Spec

LEMMA SessionInvariance == Spec => [](LimiterInv /\ SessionInv)
<1>1. Init => LimiterInv /\ SessionInv
  BY LimiterInitInv, SessionInitInv DEF Init
<1>2. LimiterInv /\ SessionInv /\ [Next]_vars => (LimiterInv /\ SessionInv)'
  <2> SUFFICES ASSUME LimiterInv, SessionInv, [Next]_vars PROVE LimiterInv' /\ SessionInv'
    OBVIOUS
  <2>1. LimiterInv'
    BY LimiterStepKeepsInv, SessionsUseTheLimiter
  <2>2. LimiterTypeOK'
    BY <2>1 DEF LimiterInv
  <2> QED
    BY <2>1, <2>2, SessionNextKeepsInv
<1> QED
  BY <1>1, <1>2, PTL DEF Spec

\* The variables of the sessions keep their types, whatever the limits.
THEOREM SessionTypeCorrectness == Spec => []TypeOK
<1>1. LimiterInv /\ SessionInv => TypeOK
  BY DEF SessionInv
<1> QED
  BY <1>1, SessionInvariance, PTL

\* However many events of a sender are on their way, and whatever operators create, evict,
\* delete and prune meanwhile, the sender has one session at most (default_handler.py,
\* _session_for).
THEOREM SendersHaveOneSession == Spec => []SenderHasOneSession
<1>1. LimiterInv /\ SessionInv => SenderHasOneSession
  BY DEF SessionInv, OneEach, SenderHasOneSession, Live
<1> QED
  BY <1>1, SessionInvariance, PTL

\* Tracker and dashboard agree on every run while it works and once it has ended, in a session
\* or in none, and tell a completion only if its agent did; one that ended in a session that is
\* still there was charged once, and the session's history has its result (session_driver.py).
THEOREM RunsEndAsTheyWere == Spec => []RunEndsAsItWas
<1>1. ASSUME SessionInv PROVE RunEndsAsItWas
  <2>0. \A r \in Runs : RunIsReported(r)
    BY <1>1 DEF SessionInv, RunIsConsistent
  <2> SUFFICES ASSUME NEW r \in Runs, task[r].pc = "ended", Live(task[r].sid)
               PROVE  /\ ledger[r] = 1
                      /\ told[r] = Verdict(task[r].success)
                      /\ \A i \in DOMAIN chat.log[task[r].sid] :
                           chat.log[task[r].sid][i] = Message("ack", r)
                             => Message("result", r) \in {chat.log[task[r].sid][j] :
                                                j \in (i + 1)..Len(chat.log[task[r].sid])}
    BY <2>0 DEF RunEndsAsItWas, RunIsReported
  <2>1. RunIsConsistent(r)
    BY <1>1 DEF SessionInv
  <2>2. task[r].sid \in Ids /\ chat.log[task[r].sid] \in Seq(Messages)
    BY <1>1 DEF SessionInv, TypeOK, Managers, Live
  <2>3. DOMAIN chat.log[task[r].sid] = 1..Len(chat.log[task[r].sid])
    BY <2>2, LenProperties
  <2> QED
    BY <2>1, <2>3 DEF RunIsConsistent, Answered
<1>2. LimiterInv /\ SessionInv => RunEndsAsItWas
  BY <1>1
<1> QED
  BY <1>2, SessionInvariance, PTL
=============================================================================
