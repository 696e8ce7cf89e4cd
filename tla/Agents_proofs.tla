---------------------------- MODULE Agents_proofs ----------------------------
(***************************************************************************)
(* Proofs about the two agents of the plugin: what the desktop agent       *)
(* decides from (DesktopDecisions, VisionFailover) and how browser agents  *)
(* live (AgentLifecycle), for any preferences, services, tools, policies,  *)
(* callers, saves and bounds.                                              *)
(*                                                                         *)
(* The three invariants of the decisions do not depend on one another, and *)
(* each becomes inductive with a little of what the run remembers: the     *)
(* snapshots of the services for the table, the last step of the history   *)
(* for the image, and that history counts every call of the last row for   *)
(* the repetitions.                                                        *)
(*                                                                         *)
(* Those of the life cycle need one another.  LifeInv adds to them what a  *)
(* run has spent against what its agent gained (Accounts), how far an      *)
(* agent is whom somebody holds, starts or stops (Phases), that two starts *)
(* at a time know of each other (Overlaps), and that every save answered   *)
(* or on its way has met the agent before it was asked for, or while it    *)
(* started (Freshness).                                                    *)
(***************************************************************************)
EXTENDS DesktopDecisions, AgentLifecycle, SequenceTheorems, WellFoundedInduction, TLAPS
-----------------------------------------------------------------------------
(* The desktop agent's decisions. *)

\* Only a service that was built asks, and the run's own only while the run decides.
CallsAreOwned ==
  /\ \A s \in Services : Busy(s) => Built(s)
  /\ Busy(Desktop) => pc = "deciding"
  /\ pc # "new" => Built(Desktop)

\* A step is taken by a run that has one left.
StepsFitThePhase ==
  /\ pc \in {"deciding", "acting"} => step < MaxSteps
  /\ ran.times <= step

TypeInv == TypeOK /\ CallsAreOwned /\ StepsFitThePhase

\* A snapshot holds what the table is put back to, whoever took it.
SnapshotsAreClean ==
  \A s \in Services : Built(s) => svc[s].prefs = 1 /\ Pinned(svc[s].original, 1) = Pinned(Stock, 1)

\* What the table holds outside an attempt.
TableIsAsExpected ==
  Trying = {} => table = IF \E s \in Services : Built(s) THEN Pinned(Stock, 1) ELSE Stock

TableInv == prefs = 1 /\ ~disturbed => SnapshotsAreClean /\ TableIsAsExpected

\* Why the next observation may show an old screen, or that it cannot.
ViewInv ==
  /\ pc = "new" \/ Screenshot \notin allowed => view = "none"
  /\ pc = "acting" => asked[1] \in allowed
  /\ view = "stale" => cause # {} \/ (pc = "top" /\ last.times > 0 /\ last.tool \notin Skipping)
  /\ StaleViewHasACause

\* The calls counted are the last steps of the history.
RepeatInv ==
  odd \/ /\ ran.times <= Threshold(ran.tool)
         /\ ran.times > 0 => /\ last.tool = ran.tool /\ last.args = ran.args
                             /\ ran.times <= last.times
         /\ pc = "acting" => ~Repeats(asked[1], asked[2])
-----------------------------------------------------------------------------
(* The table and the calls of the services. *)

Tables == [Providers -> Models]

LEMMA PrefsAreTyped ==
  /\ DOMAIN PrefSeq = 1 .. Len(PrefSeq) /\ Len(PrefSeq) \in Nat \ {0}
  /\ \A i \in DOMAIN PrefSeq : PrefSeq[i].provider \in Providers
  /\ \A i \in DOMAIN PrefSeq : PrefSeq[i].chain \in Seq(Entry)
<1>1. PrefSeq \in Seq([provider : Providers, model : STRING, chain : Seq(Entry)])
      /\ PrefSeq # << >>
  BY PrefsAssumption
<1>2. Len(PrefSeq) \in Nat /\ DOMAIN PrefSeq = 1 .. Len(PrefSeq)
  BY <1>1
<1>3. Len(PrefSeq) # 0
  BY <1>1, EmptySeq
<1>4. ASSUME NEW i \in DOMAIN PrefSeq
      PROVE  PrefSeq[i] \in [provider : Providers, model : STRING, chain : Seq(Entry)]
  BY <1>1, <1>2, ElementOfSeq
<1> QED
  BY <1>2, <1>3, <1>4

LEMMA ModelsAreTyped ==
  /\ Stock \in Tables
  /\ \A i \in DOMAIN PrefSeq : PrefSeq[i].model \in Models
  /\ \A i \in DOMAIN PrefSeq, j \in Entries :
       j \in DOMAIN PrefSeq[i].chain => PrefSeq[i].chain[j].model \in Models
<1> DEFINE Own(i) == {PrefSeq[i].model} \cup {PrefSeq[i].chain[j].model : j \in DOMAIN PrefSeq[i].chain}
<1>1. \A i \in DOMAIN PrefSeq : Own(i) \subseteq Models
  BY DEF Models
<1>2. \A p \in Providers : Stock[p] \in Models
  <2>1. {Stock[p] : p \in Providers} \subseteq Models
    BY DEF Models
  <2> QED
    BY <2>1
<1>3. Stock \in Tables
  BY <1>2, StockAssumption DEF Tables
<1> QED
  BY <1>1, <1>3

LEMMA EntriesAreTyped ==
  ASSUME NEW i \in DOMAIN PrefSeq
  PROVE  DOMAIN PrefSeq[i].chain \subseteq Entries
BY DEF Entries

LEMMA PinnedIsATable ==
  ASSUME NEW t \in Tables, NEW i \in DOMAIN PrefSeq
  PROVE  Pinned(t, i) \in Tables
BY ModelsAreTyped DEF Pinned, Tables

LEMMA PinnedTwice ==
  ASSUME NEW t \in Tables, NEW i \in DOMAIN PrefSeq
  PROVE  Pinned(Pinned(t, i), i) = Pinned(t, i)
BY PrefsAreTyped DEF Pinned, Tables

\* What a service restores the table to.
LEMMA RestoredIsATable ==
  ASSUME VisionTypeOK, NEW s \in Services, Built(s)
  PROVE  Restored(s) \in Tables /\ svc[s].prefs \in DOMAIN PrefSeq
<1>1. svc[s].prefs \in DOMAIN PrefSeq /\ svc[s].original \in Tables
  BY DEF VisionTypeOK, Built, Tables
<1> QED
  BY <1>1, PinnedIsATable DEF Restored

LEMMA BuildIsTyped ==
  ASSUME VisionTypeOK, NEW s \in Services, NEW t \in Tables, BuildService(s, t)
  PROVE  /\ VisionTypeOK'
         /\ Built(s)' /\ ~Busy(s)'
         /\ \A r \in Services \ {s} : (Built(r)' <=> Built(r)) /\ (Busy(r)' <=> Busy(r))
<1>1. prefs \in DOMAIN PrefSeq /\ prefs' = prefs /\ prefs # 0
  BY PrefsAreTyped DEF VisionTypeOK, BuildService
<1>2. table' \in Tables
  BY <1>1, PinnedIsATable DEF BuildService, VisionTypeOK, Tables
<1>3. [prefs |-> prefs, original |-> t, cool |-> {}]
        \in [prefs : {0} \cup DOMAIN PrefSeq, original : [Providers -> Models], cool : SUBSET Entries]
  BY <1>1 DEF Tables
<1>4. svc' \in [Services -> [prefs : {0} \cup DOMAIN PrefSeq, original : [Providers -> Models],
                             cool : SUBSET Entries]]
  BY <1>3 DEF BuildService, VisionTypeOK
<1>5. call' \in [Services -> [pc : {"none", "primary", "entry", "answered", "raised", "timeout"},
                              idx : {0} \cup Entries, skip : SUBSET Entries,
                              model : Models \cup {NoModel}]]
  BY DEF BuildService, VisionTypeOK, NoCall
<1>6. \A r \in Trying' : call'[r].idx # 0
  BY DEF BuildService, VisionTypeOK, NoCall, Trying
<1>7. VisionTypeOK'
  BY <1>1, <1>2, <1>4, <1>5, <1>6 DEF VisionTypeOK, Tables
<1> QED
  BY <1>1, <1>7 DEF BuildService, VisionTypeOK, Built, Busy, NoCall

LEMMA StartIsTyped ==
  ASSUME VisionTypeOK, NEW s \in Services, Built(s), StartCall(s), UNCHANGED <<prefs, table, svc>>
  PROVE  VisionTypeOK' /\ \A r \in Services \ {s} : Busy(r)' <=> Busy(r)
<1>1. svc[s].prefs \in DOMAIN PrefSeq
  BY DEF VisionTypeOK, Built
<1>2. table[Primary(s).provider] \in Models
  BY <1>1, PrefsAreTyped DEF VisionTypeOK, Primary
<1> QED
  BY <1>2 DEF StartCall, VisionTypeOK, Busy, Trying

\* The operator's save.
LEMMA SaveIsTyped ==
  ASSUME VisionTypeOK, SavePrefs
  PROVE  VisionTypeOK'
<1>1. prefs' \in DOMAIN PrefSeq
  BY PrefsAreTyped DEF VisionTypeOK, SavePrefs
<1>2. table' \in Tables
  BY <1>1, PinnedIsATable DEF SavePrefs, VisionTypeOK, Tables
<1> QED
  BY <1>1, <1>2 DEF SavePrefs, VisionTypeOK, Tables, Trying

LEMMA TriedIsTyped ==
  ASSUME VisionTypeOK, NEW s \in Services, Built(s), NEW t \in Tables, NEW skip \in SUBSET Entries,
         NEW i \in Usable(s, skip), Tried(s, i, skip, t)
  PROVE  /\ table' \in Tables
         /\ call' = [call EXCEPT ![s] = [pc |-> "entry", idx |-> i, skip |-> skip,
                                         model |-> Chain(s)[i].model]]
         /\ i \in Entries /\ i # 0 /\ Chain(s)[i].model \in Models
<1>1. svc[s].prefs \in DOMAIN PrefSeq
  BY DEF VisionTypeOK, Built
<1>2. i \in Entries /\ Chain(s)[i].model \in Models /\ Chain(s)[i].provider \in Providers
  BY <1>1, EntriesAreTyped, ModelsAreTyped DEF Usable, Chain, Primary
<1>3. i # 0
  <2>1. Chain(s) \in Seq(Entry) /\ i \in DOMAIN Chain(s)
    BY <1>1, PrefsAreTyped DEF Usable, Chain, Primary
  <2> QED
    BY <2>1
<1> QED
  BY <1>2, <1>3 DEF Tried, Tables

\* A step of a call, or its end, of a service that was built.
CallMoves(s) == CallStep(s) \/ CutShort(s)

LEMMA CallMovesAreTyped ==
  ASSUME VisionTypeOK, NEW s \in Services, Built(s), CallMoves(s)
  PROVE  /\ VisionTypeOK' /\ Busy(s)
         /\ \A r \in Services : Built(r)' <=> Built(r)
         /\ \A r \in Services \ {s} : Busy(r)' <=> Busy(r)
<1> DEFINE Calls == [pc : {"none", "primary", "entry", "answered", "raised", "timeout"},
                     idx : {0} \cup Entries, skip : SUBSET Entries, model : Models \cup {NoModel}]
<1>1. /\ call \in [Services -> Calls] /\ table \in Tables
      /\ svc[s].cool \in SUBSET Entries /\ call[s].skip \in SUBSET Entries
      /\ call[s].idx \in {0} \cup Entries
  BY DEF VisionTypeOK, Tables
<1>2. Restored(s) \in Tables
  BY RestoredIsATable
<1>3. ASSUME NEW how \in {"answered", "raised", "timeout"}, NEW t \in Tables, Ends(s, how, t)
      PROVE  /\ table' \in Tables /\ call' \in [Services -> Calls]
             /\ \A r \in Services \ {s} : call'[r] = call[r]
             /\ call'[s].pc = how
  <2>1. [call[s] EXCEPT !.pc = how] \in Calls
    BY <1>1
  <2> QED
    BY <2>1, <1>1, <1>3 DEF Ends
<1>4. ASSUME NEW t \in Tables, NEW skip \in SUBSET Entries, NEW i \in Usable(s, skip),
             Tried(s, i, skip, t)
      PROVE  /\ table' \in Tables /\ call' \in [Services -> Calls]
             /\ \A r \in Services \ {s} : call'[r] = call[r]
             /\ call'[s].idx # 0
  BY <1>1, <1>4, TriedIsTyped
<1> DEFINE Moved == /\ table' \in Tables /\ call' \in [Services -> Calls]
                    /\ \A r \in Services \ {s} : call'[r] = call[r]
                    /\ call'[s].pc # "entry" \/ call'[s].idx # 0
<1>5. Busy(s) /\ prefs' = prefs
  BY DEF CallMoves, CallStep, Answers, PrimaryFails, EntryFails, CutShort, Busy
<1>6. \A from, skip : NextEntry(s, from, skip) \subseteq Usable(s, skip)
  BY DEF NextEntry
<1>7. Moved
  <2>1. CASE Answers(s)
    BY <2>1, <1>1, <1>2, <1>3 DEF Answers
  <2>2. CASE CutShort(s)
    BY <2>2, <1>1, <1>2, <1>3 DEF CutShort
  <2>3. CASE PrimaryFails(s)
    BY <2>3, <1>1, <1>3, <1>4, <1>6 DEF PrimaryFails
  <2>4. CASE EntryFails(s)
    BY <2>4, <1>1, <1>2, <1>3, <1>4, <1>6 DEF EntryFails
  <2> QED
    BY <2>1, <2>2, <2>3, <2>4 DEF CallMoves, CallStep
<1>8. /\ svc' \in [Services -> [prefs : {0} \cup DOMAIN PrefSeq, original : [Providers -> Models],
                                cool : SUBSET Entries]]
      /\ \A r \in Services : svc'[r].prefs = svc[r].prefs /\ svc'[r].original = svc[r].original
  <2>1. CASE UNCHANGED svc
    BY <2>1 DEF VisionTypeOK
  <2>2. CASE EntryFails(s)
    <3>1. call[s].idx \in Entries
      BY <1>1, <2>2 DEF EntryFails, Trying, VisionTypeOK
    <3> QED
      BY <2>2, <3>1, <1>1 DEF EntryFails, VisionTypeOK
  <2> QED
    BY <2>1, <2>2 DEF CallMoves, CallStep, Answers, PrimaryFails, CutShort
<1>9. \A r \in Trying' : call'[r].idx # 0
  BY <1>7 DEF VisionTypeOK, Trying
<1> QED
  BY <1>5, <1>7, <1>8, <1>9 DEF VisionTypeOK, Built, Busy, Tables
-----------------------------------------------------------------------------
(* Types, and who may ask when. *)

LastSteps == [tool : Tools \cup {""}, args : Args, status : {"", "success", "denied"}, times : 0..3]
Calls == [tool : Tools \cup {""}, args : Args, times : 0..MaxSteps]

LEMMA MaxStepsGiven == MaxSteps \in Nat /\ MaxSteps > 0
BY StepsAssumption

LEMMA NothingYet ==
  /\ NoStep \in LastSteps /\ NoRan \in Calls /\ NoRan.times = 0
  /\ NoCallMade \in (Tools \cup {""}) \X Args
<1>1. "empty" \in Args
  BY ObjectsAssumption DEF Args
<1>2. 0 \in 0 .. MaxSteps /\ 0 \in 0 .. 3
  BY MaxStepsGiven
<1> QED
  BY <1>1, <1>2 DEF NoStep, NoRan, NoCallMade, LastSteps, Calls

LEMMA RunFacts ==
  ASSUME RunTypeOK
  PROVE  /\ last \in LastSteps /\ last.times \in 0 .. 3
         /\ ran \in Calls /\ ran.times \in Nat
         /\ step \in 0 .. MaxSteps /\ step \in Nat
<1>1. last \in LastSteps /\ ran \in Calls /\ step \in 0 .. MaxSteps
  BY DEF RunTypeOK, LastSteps, Calls
<1>2. last.times \in 0 .. 3
  BY <1>1 DEF LastSteps
<1>3. ran.times \in 0 .. MaxSteps
  BY <1>1 DEF Calls
<1> QED
  BY <1>1, <1>2, <1>3, MaxStepsGiven

\* One more step, or one more call, of a run that has one left.
LEMMA OneMore ==
  ASSUME NEW n \in 0 .. MaxSteps, n < MaxSteps
  PROVE  n + 1 \in 0 .. MaxSteps /\ 1 \in 0 .. MaxSteps
BY MaxStepsGiven

LEMMA DesktopIsAService == Desktop \in Services /\ Browser \in Services /\ Desktop # Browser
BY ServicesAssumption DEF Desktop, Browser

LEMMA EndIsTyped ==
  ASSUME RunTypeOK, End
  PROVE  RunTypeOK' /\ StepsFitThePhase' /\ pc' = "ended"
<1>1. step' \in 0 .. MaxSteps
  BY MaxStepsGiven DEF End
<1>2. last' \in LastSteps /\ ran' \in Calls /\ ran'.times = 0 /\ asked' \in (Tools \cup {""}) \X Args
  BY NothingYet DEF End
<1>3. RunTypeOK'
  BY <1>1, <1>2 DEF RunTypeOK, End, Sights, LastSteps, Calls
<1>4. step' = 0 /\ pc' = "ended"
  BY DEF End
<1>5. StepsFitThePhase'
  <2>1. ran'.times = 0 /\ step' = 0
    BY <1>2, <1>4
  <2>2. (ran.times <= step)'
    BY <2>1
  <2> QED
    BY <1>4, <2>2 DEF StepsFitThePhase
<1> QED
  BY <1>3, <1>4, <1>5

\* The call is taken, and belongs to nobody.
LEMMA HeardIsTyped ==
  ASSUME VisionTypeOK, CallsAreOwned, Heard, pc # "new"
  PROVE  /\ VisionTypeOK' /\ ~Busy(Desktop)' /\ Built(Desktop)'
         /\ \A s \in Services : Busy(s)' => Built(s)'
BY DesktopIsAService DEF VisionTypeOK, CallsAreOwned, Heard, NoCall, Busy, Built, Trying

LEMMA DecideIsTyped ==
  ASSUME TypeInv, Decide, pc = "top", step < MaxSteps,
         view' \in Sights, shown' \in Sights, cause' \in SUBSET {"failed", "skipped"}
  PROVE  TypeInv'
<1>1. Built(Desktop) /\ VisionTypeOK /\ RunTypeOK
  BY DEF TypeInv, TypeOK, CallsAreOwned
<1>2. VisionTypeOK' /\ \A r \in Services \ {Desktop} : Busy(r)' <=> Busy(r)
  BY <1>1, DesktopIsAService, StartIsTyped DEF Decide
<1>3. RunTypeOK' /\ StepsFitThePhase'
  BY <1>1 DEF TypeInv, Decide, RunTypeOK, StepsFitThePhase
<1>4. CallsAreOwned'
  BY <1>1, <1>2 DEF TypeInv, Decide, CallsAreOwned, Built
<1> QED
  BY <1>2, <1>3, <1>4 DEF TypeInv, TypeOK

LEMMA RecordIsTyped ==
  ASSUME RunTypeOK, NEW t \in Tools, NEW a \in Args, NEW status \in {"success", "denied"},
         Record(t, a, status)
  PROVE  last' \in LastSteps
<1>1. CASE last.tool = t /\ last.args = a
  <2> DEFINE more == IF last.times < 3 THEN last.times + 1 ELSE last.times
  <2>1. last \in LastSteps /\ more \in 0 .. 3
    BY RunFacts
  <2>2. last' = [last EXCEPT !.status = status, !.times = more]
    BY <1>1 DEF Record
  <2> QED
    BY <2>1, <2>2 DEF LastSteps
<1>2. CASE ~(last.tool = t /\ last.args = a)
  <2>1. 1 \in 0 .. 3
    OBVIOUS
  <2> QED
    BY <1>2, <2>1 DEF Record, LastSteps
<1> QED
  BY <1>1, <1>2

LEMMA NamesIsTyped ==
  ASSUME TypeInv, NEW t \in Tools, NEW a \in Args, Names(t, a)
  PROVE  TypeInv'
<1>1. VisionTypeOK /\ RunTypeOK /\ pc = "deciding"
  BY DEF TypeInv, TypeOK, Names
<1>2. VisionTypeOK' /\ CallsAreOwned'
  BY <1>1, HeardIsTyped DEF TypeInv, Names, CallsAreOwned
<1>3. RunTypeOK' /\ StepsFitThePhase'
  <2>1. CASE End
    BY <2>1, <1>1, EndIsTyped
  <2>2. CASE pc' = "top" /\ step' = step + 1 /\ Record(t, a, "denied") /\ ran' = NoRan
             /\ shown' = "none" /\ UNCHANGED <<allowed, view, cause, asked, odd>>
    <3>1. step' \in 0 .. MaxSteps
      BY <2>2, <1>1, RunFacts, OneMore DEF TypeInv, StepsFitThePhase
    <3>2. ran' \in Calls /\ ran'.times <= step'
      <4>1. ran' \in Calls /\ ran'.times = 0
        BY <2>2, NothingYet
      <4> QED
        BY <4>1, <3>1
    <3>3. last' \in LastSteps
      BY <2>2, <1>1, RecordIsTyped
    <3> QED
      BY <2>2, <3>1, <3>2, <3>3, <1>1 DEF RunTypeOK, StepsFitThePhase, Sights, LastSteps, Calls
  <2>3. CASE pc' = "acting" /\ asked' = <<t, Recorded(a)>> /\ odd' = (odd \/ a = "odd")
             /\ shown' = "none" /\ UNCHANGED <<step, allowed, last, view, ran, cause>>
    <3>1. Recorded(a) \in Args
      BY ObjectsAssumption DEF Recorded, Args
    <3> QED
      BY <2>3, <3>1, <1>1 DEF TypeInv, RunTypeOK, StepsFitThePhase, Sights
  <2> QED
    BY <2>1, <2>2, <2>3 DEF Names
<1> QED
  BY <1>2, <1>3 DEF TypeInv, TypeOK

LEMMA ActIsTyped ==
  ASSUME TypeInv, NEW status \in {"success", "denied"}, Act(status), asked[1] \in Tools
  PROVE  TypeInv'
<1>1. VisionTypeOK /\ RunTypeOK /\ pc = "acting" /\ asked[2] \in Args
  BY DEF TypeInv, TypeOK, Act, RunTypeOK
<1>2. VisionTypeOK' /\ CallsAreOwned'
  BY <1>1 DEF TypeInv, Act, CallsAreOwned, VisionTypeOK, visionVars, Busy, Built, Trying
<1>3. step' = step + 1 /\ step' \in 0 .. MaxSteps
  BY <1>1, RunFacts, OneMore DEF Act, TypeInv, StepsFitThePhase
<1>4. ran' \in Calls /\ ran'.times <= step'
  <2>1. ran \in Calls /\ ran.times \in Nat /\ ran.times <= step /\ step \in Nat
    BY <1>1, RunFacts DEF TypeInv, StepsFitThePhase
  <2>2. ran.times + 1 \in 0 .. MaxSteps /\ 1 \in 0 .. MaxSteps /\ ran.times + 1 <= step'
    BY <1>3, <2>1, MaxStepsGiven
  <2>5. 1 <= step'
    BY <1>3, <2>1
  <2>3. CASE ran.tool = asked[1] /\ ran.args = asked[2]
    <3>1. ran' = [ran EXCEPT !.times = ran.times + 1]
      BY <2>3 DEF Act, Ran
    <3> QED
      BY <3>1, <2>1, <2>2 DEF Calls
  <2>4. CASE ~(ran.tool = asked[1] /\ ran.args = asked[2])
    <3>1. ran' = [tool |-> asked[1], args |-> asked[2], times |-> 1]
      BY <2>4 DEF Act, Ran
    <3> QED
      BY <3>1, <1>1, <2>2, <2>5 DEF Calls
  <2> QED
    BY <2>3, <2>4
<1>5. last' \in LastSteps
  BY <1>1, RecordIsTyped DEF Act
<1>6. view' \in Sights /\ cause' \in SUBSET {"failed", "skipped"}
  BY <1>1 DEF Act, RunTypeOK, Sights
<1>7. asked' \in (Tools \cup {""}) \X Args
  BY NothingYet DEF Act
<1>8. RunTypeOK' /\ StepsFitThePhase'
  BY <1>1, <1>3, <1>4, <1>5, <1>6, <1>7 DEF Act, RunTypeOK, StepsFitThePhase, LastSteps, Calls
<1> QED
  BY <1>2, <1>8 DEF TypeInv, TypeOK

\* The run ends, with or without a call of its own that was under way.
LEMMA EndKeepsTypes ==
  ASSUME TypeInv, End, pc # "new",
         (UNCHANGED visionVars /\ pc # "deciding") \/ Heard
  PROVE  TypeInv'
<1>1. VisionTypeOK /\ RunTypeOK
  BY DEF TypeInv, TypeOK
<1>2. RunTypeOK' /\ StepsFitThePhase' /\ pc' = "ended"
  BY <1>1, EndIsTyped
<1>3. VisionTypeOK' /\ CallsAreOwned'
  <2>1. CASE Heard
    BY <2>1, <1>1, <1>2, HeardIsTyped DEF TypeInv, CallsAreOwned
  <2>2. CASE UNCHANGED visionVars /\ pc # "deciding"
    BY <2>2, <1>1, <1>2 DEF TypeInv, CallsAreOwned, visionVars, VisionTypeOK, Busy, Built, Trying
  <2> QED
    BY <2>1, <2>2
<1> QED
  BY <1>2, <1>3 DEF TypeInv, TypeOK

\* What the run did not do left its own variables alone.
LEMMA OthersKeepRunTypes ==
  ASSUME RunTypeOK, StepsFitThePhase, UNCHANGED deskVars
  PROVE  RunTypeOK' /\ StepsFitThePhase' /\ pc' = pc
BY DEF RunTypeOK, StepsFitThePhase, deskVars

\* A named call is made with one of the tools.
CallIsNamed == pc = "acting" => asked[1] \in Tools

LEMMA BeginKeepsTypes ==
  ASSUME TypeInv, Begin
  PROVE  TypeInv'
<1>1. VisionTypeOK /\ RunTypeOK /\ table \in Tables
  BY DEF TypeInv, TypeOK, VisionTypeOK, Tables
<1>2. /\ VisionTypeOK' /\ Built(Desktop)' /\ ~Busy(Desktop)'
      /\ \A r \in Services \ {Desktop} : (Built(r)' <=> Built(r)) /\ (Busy(r)' <=> Busy(r))
  BY <1>1, DesktopIsAService, BuildIsTyped DEF Begin
<1>3. CallsAreOwned'
  BY <1>2 DEF TypeInv, CallsAreOwned, Begin
<1>4. RunTypeOK' /\ StepsFitThePhase'
  BY <1>1, PoliciesAssumption DEF TypeInv, Begin, RunTypeOK, StepsFitThePhase
<1> QED
  BY <1>2, <1>3, <1>4 DEF TypeInv, TypeOK

LEMMA TypeStep ==
  ASSUME TypeInv, CallIsNamed, [Next]_vars
  PROVE  TypeInv' /\ CallIsNamed'
<1>1. VisionTypeOK /\ RunTypeOK /\ StepsFitThePhase /\ CallsAreOwned
  BY DEF TypeInv, TypeOK
<1>2. view \in Sights /\ shown \in Sights /\ cause \in SUBSET {"failed", "skipped"}
  BY <1>1 DEF RunTypeOK
<1>3. CASE UNCHANGED vars
  BY <1>3, <1>1 DEF TypeInv, TypeOK, vars, visionVars, deskVars, CallIsNamed, VisionTypeOK, RunTypeOK,
                    StepsFitThePhase, CallsAreOwned, Busy, Built, Trying
<1>4. CASE Begin
  BY <1>4, BeginKeepsTypes DEF Begin, CallIsNamed
<1>5. CASE Cancelled \/ OutOfSteps \/ DecisionEnds \/ ActFails
  <2>1. End /\ pc # "new" /\ ((UNCHANGED visionVars /\ pc # "deciding") \/ Heard)
    BY <1>5 DEF Cancelled, OutOfSteps, DecisionEnds, ActFails
  <2>2. pc' = "ended"
    BY <2>1 DEF End
  <2> QED
    BY <2>1, <2>2, EndKeepsTypes DEF CallIsNamed
<1>6. CASE DecideOnOldView \/ DecideOnNewView \/ DecideBlind
  <2>1. /\ Decide /\ pc = "top" /\ step < MaxSteps
        /\ view' \in Sights /\ shown' \in Sights /\ cause' \in SUBSET {"failed", "skipped"}
    BY <1>6, <1>2 DEF DecideOnOldView, DecideOnNewView, DecideBlind, Sights
  <2> QED
    BY <2>1, DecideIsTyped DEF Decide, CallIsNamed
<1>7. ASSUME NEW t \in Tools, NEW a \in Args, Names(t, a)
      PROVE  TypeInv' /\ CallIsNamed'
  <2>1. pc' = "acting" => asked' = <<t, Recorded(a)>>
    BY <1>7 DEF Names, End
  <2> QED
    BY <1>7, <2>1, NamesIsTyped DEF CallIsNamed
<1>8. ASSUME NEW status \in {"success", "denied"}, Act(status)
      PROVE  TypeInv' /\ CallIsNamed'
  BY <1>8, ActIsTyped DEF Act, CallIsNamed
<1>9. ASSUME UNCHANGED deskVars, VisionTypeOK', CallsAreOwned'
      PROVE  TypeInv' /\ CallIsNamed'
  BY <1>9, <1>1, OthersKeepRunTypes DEF TypeInv, TypeOK, CallIsNamed, deskVars
<1>10. CASE Vision
  <2>1. PICK s \in Services : CallMoves(s) \/ CoolsOff(s)
    BY <1>10 DEF Vision, CallMoves
  <2>2. UNCHANGED deskVars /\ pc' = pc
    BY <1>10 DEF Vision, deskVars
  <2>3. CASE CallMoves(s)
    <3>1. Built(s) /\ Busy(s)
      BY <2>3, <1>1 DEF CallsAreOwned, CallMoves, CallStep, Answers, PrimaryFails, EntryFails, CutShort, Busy
    <3>2. /\ VisionTypeOK' /\ \A r \in Services : Built(r)' <=> Built(r)
          /\ \A r \in Services \ {s} : Busy(r)' <=> Busy(r)
      BY <2>3, <3>1, <1>1, CallMovesAreTyped
    <3>3. CallsAreOwned'
      BY <2>2, <3>1, <3>2, <1>1, DesktopIsAService DEF CallsAreOwned
    <3> QED
      BY <2>2, <3>2, <3>3, <1>9
  <2>4. CASE CoolsOff(s)
    <3>1. VisionTypeOK' /\ CallsAreOwned'
      BY <2>2, <2>4, <1>1, DesktopIsAService DEF CoolsOff, VisionTypeOK, CallsAreOwned, Busy, Built, Trying
    <3> QED
      BY <2>2, <3>1, <1>9
  <2> QED
    BY <2>1, <2>3, <2>4
<1>11. CASE BrowserStarts
  <2>1. Pinned(table, prefs) \in Tables /\ UNCHANGED deskVars /\ pc' = pc
    BY <1>1, <1>11, PinnedIsATable DEF VisionTypeOK, Tables, BrowserStarts, deskVars
  <2>2. /\ VisionTypeOK' /\ Built(Browser)' /\ ~Busy(Browser)'
        /\ \A r \in Services \ {Browser} : (Built(r)' <=> Built(r)) /\ (Busy(r)' <=> Busy(r))
    BY <1>1, <1>11, <2>1, DesktopIsAService, BuildIsTyped DEF BrowserStarts
  <2>3. CallsAreOwned'
    BY <1>1, <2>1, <2>2, DesktopIsAService DEF CallsAreOwned
  <2> QED
    BY <2>1, <2>2, <2>3, <1>9
<1>12. CASE BrowserAsks
  <2>1. UNCHANGED deskVars /\ pc' = pc /\ svc' = svc /\ Built(Browser)
    BY <1>12 DEF BrowserAsks, deskVars
  <2>2. VisionTypeOK' /\ \A r \in Services \ {Browser} : Busy(r)' <=> Busy(r)
    BY <1>1, <1>12, DesktopIsAService, StartIsTyped DEF BrowserAsks
  <2>3. CallsAreOwned'
    BY <1>1, <2>1, <2>2, DesktopIsAService DEF CallsAreOwned, Built
  <2> QED
    BY <2>1, <2>2, <2>3, <1>9
<1>13. CASE SavePrefs /\ UNCHANGED deskVars
  <2>1. VisionTypeOK' /\ CallsAreOwned'
    BY <1>1, <1>13, SaveIsTyped DEF SavePrefs, CallsAreOwned, Busy, Built, deskVars
  <2> QED
    BY <1>13, <2>1, <1>9
<1> QED
  BY <1>3, <1>4, <1>5, <1>6, <1>7, <1>8, <1>10, <1>11, <1>12, <1>13 DEF Next, Run

LEMMA InitIsTyped == Init => TypeInv /\ CallIsNamed
<1> SUFFICES ASSUME Init PROVE TypeInv /\ CallIsNamed
  OBVIOUS
<1>1. VisionTypeOK
  <2>1. 1 \in DOMAIN PrefSeq /\ Stock \in [Providers -> Models]
    BY PrefsAreTyped, ModelsAreTyped DEF Tables
  <2>2. /\ prefs = 1 /\ table = Stock /\ svc = [s \in Services |-> Unbuilt]
        /\ call = [s \in Services |-> NoCall]
    BY DEF Init, VisionInit
  <2>3. Trying = {}
    BY <2>2 DEF Trying, NoCall
  <2> QED
    BY <2>1, <2>2, <2>3 DEF VisionTypeOK, Unbuilt, NoCall
<1>2. RunTypeOK
  <2>1. step \in 0 .. MaxSteps
    BY MaxStepsGiven DEF Init
  <2> QED
    BY <2>1, NothingYet DEF Init, RunTypeOK, LastSteps, Calls, Sights
<1>3. CallsAreOwned
  BY DesktopIsAService DEF Init, VisionInit, CallsAreOwned, Busy, NoCall
<1>4. StepsFitThePhase
  <2>1. step = 0 /\ ran.times = 0 /\ pc = "new"
    BY NothingYet DEF Init
  <2> QED
    BY <2>1, MaxStepsGiven DEF StepsFitThePhase
<1>5. CallIsNamed
  BY DEF Init, CallIsNamed
<1> QED
  BY <1>1, <1>2, <1>3, <1>4, <1>5 DEF TypeInv, TypeOK

\* The run, its services and the table keep their types, for any preferences and policies
\* (desktop_agent/agent.py and browser/vision_failover.py, whatever they store).
THEOREM DecisionsTypeCorrectness == Spec => []TypeOK
<1>1. TypeInv /\ CallIsNamed /\ [Next]_vars => (TypeInv /\ CallIsNamed)'
  BY TypeStep
<1>2. TypeInv => TypeOK
  BY DEF TypeInv
<1> QED
  BY InitIsTyped, <1>1, <1>2, PTL DEF Spec

LEMMA TypesHold == Spec => [](TypeInv /\ CallIsNamed)
<1>1. TypeInv /\ CallIsNamed /\ [Next]_vars => (TypeInv /\ CallIsNamed)'
  BY TypeStep
<1> QED
  BY InitIsTyped, <1>1, PTL DEF Spec
-----------------------------------------------------------------------------
(* The image a decision is made on. *)

\* The run as it ended sees nothing.
LEMMA EndKeepsView ==
  ASSUME End
  PROVE  ViewInv'
BY DEF End, ViewInv, StaleViewHasACause

LEMMA ActKeepsView ==
  ASSUME ViewInv, RunTypeOK, NEW status \in {"success", "denied"}, Act(status)
  PROVE  ViewInv'
<1> DEFINE t == asked[1]
<1>1. /\ pc = "acting" /\ pc' = "top" /\ allowed' = allowed /\ t \in allowed
      /\ view = "stale" => cause # {}
  BY DEF Act, ViewInv
<1>2. last'.times > 0 /\ last'.tool = t
  <2>1. last.times \in 0 .. 3 /\ last \in LastSteps
    BY RunFacts
  <2>2. CASE last.tool = t /\ last.args = asked[2]
    <3> DEFINE more == IF last.times < 3 THEN last.times + 1 ELSE last.times
    <3>1. last' = [last EXCEPT !.status = status, !.times = more]
      BY <2>2 DEF Act, Record
    <3>2. more > 0
      BY <2>1
    <3> QED
      BY <3>1, <3>2, <2>1, <2>2 DEF LastSteps
  <2>3. CASE ~(last.tool = t /\ last.args = asked[2])
    <3>1. last' = [tool |-> t, args |-> asked[2], status |-> status, times |-> 1]
      BY <2>3 DEF Act, Record
    <3> QED
      BY <3>1
  <2> QED
    BY <2>2, <2>3
<1>3. Screenshot \notin allowed => view' = "none"
  <2>1. Screenshot \notin allowed => view = "none" /\ t # Screenshot
    BY <1>1 DEF ViewInv
  <2> QED
    BY <2>1 DEF Act
<1>4. view' = "stale" => cause' # {} \/ last'.tool \notin Skipping
  <2>1. SUFFICES ASSUME view' = "stale", t \in Skipping PROVE cause' # {}
    BY <1>2
  <2>2. ~(status = "success" /\ t = Screenshot)
    BY <2>1 DEF Act
  <2>3. CASE view = "stale"
    BY <1>1, <2>2, <2>3 DEF Act
  <2>4. CASE view # "stale"
    BY <2>1, <2>2, <2>4 DEF Act
  <2> QED
    BY <2>3, <2>4
<1> QED
  BY <1>1, <1>2, <1>3, <1>4 DEF ViewInv, StaleViewHasACause

LEMMA NamesKeepsView ==
  ASSUME ViewInv, NEW t \in Tools, NEW a \in Args, Names(t, a)
  PROVE  ViewInv'
<1>1. CASE End
  BY <1>1, EndKeepsView
<1>2. CASE pc' \in {"top", "acting"} /\ UNCHANGED <<allowed, view, cause>>
           /\ (pc' = "acting" => asked' = <<t, Recorded(a)>> /\ t \in allowed)
  BY <1>2 DEF Names, ViewInv, StaleViewHasACause
<1> QED
  BY <1>1, <1>2 DEF Names

LEMMA ViewStep ==
  ASSUME ViewInv, TypeInv, [Next]_vars
  PROVE  ViewInv'
<1>1. CASE UNCHANGED deskVars
  BY <1>1 DEF ViewInv, StaleViewHasACause, deskVars
<1>2. CASE Begin
  <2>1. pc = "new" /\ pc' \in {"ended", "top"} /\ UNCHANGED <<view, last, cause>>
    BY <1>2 DEF Begin
  <2> QED
    BY <2>1, <1>2 DEF ViewInv, StaleViewHasACause
<1>3. CASE Cancelled \/ OutOfSteps \/ DecisionEnds \/ ActFails
  BY <1>3, EndKeepsView DEF Cancelled, OutOfSteps, DecisionEnds, ActFails
<1>4. CASE DecideOnOldView
  BY <1>4 DEF DecideOnOldView, Decide, SkipObserve, ViewInv, StaleViewHasACause
<1>5. CASE DecideOnNewView
  BY <1>5 DEF DecideOnNewView, Decide, ViewInv, StaleViewHasACause
<1>6. CASE DecideBlind
  BY <1>6 DEF DecideBlind, Decide, ViewInv, StaleViewHasACause
<1>7. ASSUME NEW t \in Tools, NEW a \in Args, Names(t, a)
      PROVE  ViewInv'
  BY <1>7, NamesKeepsView
<1>8. ASSUME NEW status \in {"success", "denied"}, Act(status)
      PROVE  ViewInv'
  BY <1>8, ActKeepsView DEF TypeInv, TypeOK
<1>9. CASE Vision \/ BrowserStarts \/ BrowserAsks \/ (SavePrefs /\ UNCHANGED deskVars) \/ UNCHANGED vars
  BY <1>1, <1>9 DEF Vision, BrowserStarts, BrowserAsks, vars
<1> QED
  BY <1>2, <1>3, <1>4, <1>5, <1>6, <1>7, <1>8, <1>9 DEF Next, Run

\* A run decides on an image that no longer shows the screen only after a screenshot failed,
\* or after a tool that skips the observation changed the screen (_should_skip_observe).
THEOREM StaleViewsAreExplained == Spec => []StaleViewHasACause
<1>1. Init => ViewInv
  BY DEF Init, ViewInv, StaleViewHasACause
<1>2. TypeInv /\ CallIsNamed /\ ViewInv /\ [Next]_vars => ViewInv'
  BY ViewStep
<1>3. ViewInv => StaleViewHasACause
  BY DEF ViewInv
<1> QED
  BY <1>1, <1>2, <1>3, TypesHold, PTL DEF Spec
-----------------------------------------------------------------------------
(* The loop guard. *)

LEMMA EndKeepsRepeats ==
  ASSUME End
  PROVE  RepeatInv'
<1>1. ran'.times = 0 /\ pc' = "ended"
  BY NothingYet DEF End
<1>2. (ran.times > 0)' = FALSE /\ (ran.times <= Threshold(ran.tool))'
  BY <1>1 DEF Threshold
<1> QED
  BY <1>1, <1>2 DEF RepeatInv

LEMMA NamesKeepsRepeats ==
  ASSUME RepeatInv, NEW t \in Tools, NEW a \in Args, Names(t, a)
  PROVE  RepeatInv'
<1>1. CASE End
  BY <1>1, EndKeepsRepeats
<1>2. CASE pc' = "top" /\ ran' = NoRan
  <2>1. ran'.times = 0
    BY <1>2, NothingYet
  <2>2. (ran.times > 0)' = FALSE /\ (ran.times <= Threshold(ran.tool))'
    BY <2>1 DEF Threshold
  <2> QED
    BY <1>2, <2>2 DEF RepeatInv
<1>3. CASE /\ ~Repeats(t, a) /\ asked' = <<t, Recorded(a)>> /\ odd' = (odd \/ a = "odd")
           /\ UNCHANGED <<last, ran>>
  <2>1. ~odd' => /\ ~Repeats(asked'[1], asked'[2])
                 /\ ~odd /\ UNCHANGED <<last, ran>>
    BY <1>3 DEF Recorded, Repeats
  <2> QED
    BY <2>1 DEF RepeatInv, Repeats
<1> QED
  BY <1>1, <1>2, <1>3 DEF Names

\* The call made is the last step now, and was not one too many.
LEMMA ActKeepsRepeats ==
  ASSUME RepeatInv, RunTypeOK, CallIsNamed, NEW status \in {"success", "denied"}, Act(status)
  PROVE  RepeatInv'
<1> DEFINE t == asked[1]
           a == asked[2]
<1>1. SUFFICES ASSUME ~odd PROVE RepeatInv'
  BY DEF Act, RepeatInv
<1>2. /\ last.times \in 0 .. 3 /\ last \in LastSteps /\ ran.times \in Nat /\ ran \in Calls
      /\ t \in Tools /\ a \in Args /\ pc = "acting"
  BY RunFacts DEF Act, CallIsNamed, RunTypeOK
<1>3. /\ ~Repeats(t, a) /\ ran.times <= Threshold(ran.tool)
      /\ ran.times > 0 => last.tool = ran.tool /\ last.args = ran.args /\ ran.times <= last.times
  BY <1>1, <1>2 DEF RepeatInv
<1>4. Threshold(t) \in {2, 3}
  BY DEF Threshold
<1>5. CASE last.tool = t /\ last.args = a
  <2>1. last.times < Threshold(t)
    BY <1>2, <1>3, <1>4, <1>5 DEF Repeats
  <2>2. last' = [last EXCEPT !.status = status, !.times = last.times + 1]
    <3>1. last.times < 3
      BY <1>2, <1>4, <2>1
    <3> QED
      BY <1>5, <3>1 DEF Act, Record
  <2>3. last'.tool = t /\ last'.args = a /\ last'.times = last.times + 1
    BY <1>2, <1>5, <2>2 DEF LastSteps
  <2>4. ran'.tool = t /\ ran'.args = a /\ ran'.times \in 1 .. last.times + 1
    <3>1. CASE ran.tool = t /\ ran.args = a
      <4>1. ran' = [ran EXCEPT !.times = ran.times + 1]
        BY <3>1 DEF Act, Ran
      <4>2. ran'.tool = t /\ ran'.args = a /\ ran'.times = ran.times + 1
        BY <1>2, <3>1, <4>1 DEF Calls
      <4>3. ran.times <= last.times
        BY <1>2, <1>3
      <4> QED
        BY <1>2, <4>2, <4>3
    <3>2. CASE ~(ran.tool = t /\ ran.args = a)
      <4>1. ran' = [tool |-> t, args |-> a, times |-> 1]
        BY <3>2 DEF Act, Ran
      <4>2. ran'.times = 1
        BY <4>1
      <4> QED
        BY <1>2, <4>1, <4>2
    <3> QED
      BY <3>1, <3>2
  <2> QED
    BY <1>2, <1>4, <2>1, <2>3, <2>4 DEF RepeatInv, Act, Threshold
<1>6. CASE ~(last.tool = t /\ last.args = a)
  <2>1. last' = [tool |-> t, args |-> a, status |-> status, times |-> 1]
    BY <1>6 DEF Act, Record
  <2>2. ran'.tool = t /\ ran'.args = a /\ ran'.times = 1
    <3>1. CASE ran.tool = t /\ ran.args = a
      <4>1. ran.times = 0
        BY <1>2, <1>3, <1>6, <3>1
      <4>2. ran' = [ran EXCEPT !.times = ran.times + 1]
        BY <3>1 DEF Act, Ran
      <4>3. ran'.tool = t /\ ran'.args = a /\ ran'.times = ran.times + 1
        BY <1>2, <3>1, <4>2 DEF Calls
      <4> QED
        BY <4>1, <4>3
    <3>2. CASE ~(ran.tool = t /\ ran.args = a)
      BY <3>2 DEF Act, Ran
    <3> QED
      BY <3>1, <3>2
  <2> QED
    BY <1>4, <2>1, <2>2 DEF RepeatInv, Act, Threshold
<1> QED
  BY <1>5, <1>6

LEMMA RepeatStep ==
  ASSUME RepeatInv, TypeInv, CallIsNamed, [Next]_vars
  PROVE  RepeatInv'
<1>1. CASE UNCHANGED deskVars
  BY <1>1 DEF RepeatInv, Repeats, Threshold, deskVars
<1>2. CASE Begin
  <2>1. pc' # "acting" /\ UNCHANGED <<ran, last, odd>>
    BY <1>2 DEF Begin
  <2> QED
    BY <2>1 DEF RepeatInv, Threshold
<1>3. CASE Cancelled \/ OutOfSteps \/ DecisionEnds \/ ActFails
  BY <1>3, EndKeepsRepeats DEF Cancelled, OutOfSteps, DecisionEnds, ActFails
<1>4. CASE DecideOnOldView \/ DecideOnNewView \/ DecideBlind
  <2>1. pc' = "deciding" /\ UNCHANGED <<ran, last, odd>>
    BY <1>4 DEF DecideOnOldView, DecideOnNewView, DecideBlind, Decide
  <2> QED
    BY <2>1 DEF RepeatInv, Threshold
<1>5. ASSUME NEW t \in Tools, NEW a \in Args, Names(t, a)
      PROVE  RepeatInv'
  BY <1>5, NamesKeepsRepeats
<1>6. ASSUME NEW status \in {"success", "denied"}, Act(status)
      PROVE  RepeatInv'
  BY <1>6, ActKeepsRepeats DEF TypeInv, TypeOK
<1>7. CASE Vision \/ BrowserStarts \/ BrowserAsks \/ (SavePrefs /\ UNCHANGED deskVars) \/ UNCHANGED vars
  BY <1>1, <1>7 DEF Vision, BrowserStarts, BrowserAsks, vars
<1> QED
  BY <1>2, <1>3, <1>4, <1>5, <1>6, <1>7 DEF Next, Run

\* While the model sends objects for arguments, no call is made more often in a row than the
\* loop guard's threshold, whatever is refused in between (desktop_agent/agent.py).
THEOREM RepetitionsAreStopped == Spec => []RepeatsAreStopped
<1>1. Init => RepeatInv
  <2>1. SUFFICES ASSUME Init PROVE RepeatInv
    OBVIOUS
  <2>2. ran.times = 0 /\ pc = "new"
    BY <2>1, NothingYet DEF Init
  <2> QED
    BY <2>2 DEF RepeatInv, Threshold
<1>2. TypeInv /\ CallIsNamed /\ RepeatInv /\ [Next]_vars => RepeatInv'
  BY RepeatStep
<1>3. RepeatInv => RepeatsAreStopped
  BY DEF RepeatInv, RepeatsAreStopped, Threshold
<1> QED
  BY <1>1, <1>2, <1>3, TypesHold, PTL DEF Spec
-----------------------------------------------------------------------------
(* The table of models. *)

Home == Pinned(Stock, 1)
Owned == \E s \in Services : Built(s)

LEMMA HomeIsPinned ==
  /\ Home \in Tables /\ Pinned(Home, 1) = Home
  /\ Pinned(Stock, 1) = Home
<1>1. 1 \in DOMAIN PrefSeq /\ Stock \in Tables
  BY PrefsAreTyped, ModelsAreTyped
<1> QED
  BY <1>1, PinnedIsATable, PinnedTwice DEF Home

\* What TableInv says while it says something.
Settled == /\ \A s \in Services : Built(s) => svc[s].prefs = 1 /\ Pinned(svc[s].original, 1) = Home
           /\ Trying = {} => table = IF Owned THEN Home ELSE Stock

LEMMA TableInvIs == TableInv <=> (prefs = 1 /\ ~disturbed => Settled)
BY DEF TableInv, Settled, SnapshotsAreClean, TableIsAsExpected, Home, Owned

LEMMA BuildKeepsTable ==
  ASSUME Settled, prefs = 1, NEW s \in Services, NEW t \in {table, Pinned(table, 1)},
         BuildService(s, t), VisionTypeOK, ~disturbed'
  PROVE  Settled'
<1>1. Trying = {}
  BY DEF BuildService
<1>2. table \in {Home, Stock}
  BY <1>1 DEF Settled
<1>3. Pinned(table, 1) = Home /\ Pinned(t, 1) = Home
  BY <1>2, HomeIsPinned
<1>4. /\ svc'[s].prefs = 1 /\ svc'[s].original = t
      /\ \A r \in Services \ {s} : svc'[r] = svc[r]
  BY DEF BuildService, VisionTypeOK
<1>5. table' = Home /\ Built(s)' /\ Owned'
  BY <1>3, <1>4 DEF BuildService, Built, Owned
<1>6. \A r \in Services : Built(r)' => svc'[r].prefs = 1 /\ Pinned(svc'[r].original, 1) = Home
  BY <1>3, <1>4 DEF Settled, Built
<1> QED
  BY <1>5, <1>6 DEF Settled, Pinned, Home

\* A request that starts, or is taken, does not come from an entry.
LEMMA OutsideAttemptsKeepsTable ==
  ASSUME Settled, NEW s \in Services, ~(call[s].pc = "entry"), call'[s].pc # "entry",
         \A r \in Services \ {s} : call'[r] = call[r], UNCHANGED <<table, svc>>
  PROVE  Settled'
<1>1. Trying' = Trying
  BY DEF Trying
<1>2. Owned' <=> Owned
  BY DEF Owned, Built
<1> QED
  BY <1>1, <1>2 DEF Settled, Built, Pinned, Home

LEMMA CallMovesKeepTable ==
  ASSUME Settled, NEW s \in Services, Built(s), CallMoves(s), VisionTypeOK
  PROVE  Settled'
<1>1. Restored(s) = Home
  BY DEF Settled, Restored
<1>2. /\ \A r \in Services : svc'[r].prefs = svc[r].prefs /\ svc'[r].original = svc[r].original
      /\ \A r \in Services : Built(r)' <=> Built(r)
  <2>1. CASE UNCHANGED svc
    BY <2>1 DEF Built
  <2>2. CASE EntryFails(s)
    BY <2>2 DEF EntryFails, VisionTypeOK, Built
  <2> QED
    BY <2>1, <2>2 DEF CallMoves, CallStep, Answers, PrimaryFails, CutShort
<1>3. Owned' /\ Owned
  BY <1>2 DEF Owned
<1>a. \A r \in Services : Built(r)' => svc'[r].prefs = 1 /\ Pinned(svc'[r].original, 1) = Home
  <2>1. \A r \in Services : Built(r) => svc[r].prefs = 1 /\ Pinned(svc[r].original, 1) = Home
    BY DEF Settled
  <2> QED
    BY <1>2, <2>1
<1>b. Home' = Home /\ \A t : Pinned(t, 1)' = Pinned(t, 1)
  BY DEF Home, Pinned
<1>4. CASE Trying' = {}
  <2>1. table' = Home \/ (table' = table /\ call[s].pc # "entry")
    <3>1. CASE Answers(s) \/ CutShort(s)
      BY <3>1, <1>1 DEF Answers, CutShort, Ends
    <3>2. ASSUME NEW i, NEW skip, NEW t, Tried(s, i, skip, t)
          PROVE  FALSE
      <4>1. call'[s].pc = "entry"
        BY <3>2 DEF Tried, VisionTypeOK
      <4> QED
        BY <4>1, <1>4 DEF Trying
    <3>3. CASE PrimaryFails(s)
      BY <3>2, <3>3 DEF PrimaryFails, Ends
    <3>4. CASE EntryFails(s)
      BY <3>2, <3>4, <1>1 DEF EntryFails, Ends
    <3> QED
      BY <3>1, <3>3, <3>4 DEF CallMoves, CallStep
  <2>2. ASSUME table' = table, call[s].pc # "entry" PROVE table' = Home
    <3>1. \A r \in Services \ {s} : call'[r].pc = call[r].pc
      BY DEF CallMoves, CallStep, Answers, PrimaryFails, EntryFails, CutShort, Ends, Tried, VisionTypeOK
    <3>2. Trying = {}
      BY <1>4, <2>2, <3>1 DEF Trying
    <3> QED
      BY <2>2, <3>2, <1>3 DEF Settled
  <2>3. table' = Home
    BY <2>1, <2>2
  <2> QED
    BY <1>a, <1>b, <1>3, <2>3 DEF Settled
<1>5. CASE Trying' # {}
  BY <1>5, <1>a, <1>b DEF Settled
<1> QED
  BY <1>4, <1>5

\* A step keeps the first preferences, unless they are saved, and adds to what disturbed.
LEMMA TableStep ==
  ASSUME TableInv, TypeInv, [Next]_vars
  PROVE  TableInv'
<1>1. VisionTypeOK /\ CallsAreOwned
  BY DEF TypeInv, TypeOK
<1>2. CASE prefs' # 1 \/ disturbed'
  BY <1>2 DEF TableInv
<1>3. CASE prefs' = 1 /\ ~disturbed'
  <2>1. ~SavePrefs
    BY <1>1, <1>3, PrefsAreTyped DEF SavePrefs, VisionTypeOK
  <2>2. prefs = 1 /\ ~disturbed
    <3>1. UNCHANGED <<prefs, disturbed>> \/ \E s, t : BuildService(s, t)
      BY <2>1 DEF Next, Run, Begin, Cancelled, OutOfSteps, DecideOnOldView, DecideOnNewView, DecideBlind,
                  Decide, DecisionEnds, Names, Act, ActFails, Heard, Vision, CallStep, Answers,
                  PrimaryFails, EntryFails, CutShort, CoolsOff, BrowserStarts, BrowserAsks, vars, visionVars
    <3>2. ASSUME NEW s, NEW t, BuildService(s, t) PROVE prefs' = prefs /\ (disturbed => disturbed')
      BY <3>2 DEF BuildService
    <3> QED
      BY <1>3, <3>1, <3>2
  <2>3. Settled
    BY <2>2, TableInvIs
  <2>4. Settled'
    <3>1. CASE UNCHANGED visionVars
      <4>1. UNCHANGED <<table, svc, call>>
        BY <3>1 DEF visionVars
      <4> QED
        BY <4>1, <2>3 DEF Settled, Built, Owned, Trying, Pinned, Home
    <3>2. CASE Begin
      BY <3>2, <1>1, <1>3, <2>2, <2>3, DesktopIsAService, BuildKeepsTable DEF Begin
    <3>3. CASE BrowserStarts
      BY <3>3, <1>1, <1>3, <2>2, <2>3, DesktopIsAService, BuildKeepsTable DEF BrowserStarts
    <3>4. CASE Heard /\ call[Desktop].pc # "entry"
      <4>1. /\ call'[Desktop].pc # "entry" /\ \A r \in Services \ {Desktop} : call'[r] = call[r]
            /\ UNCHANGED <<table, svc>>
        BY <3>4, <1>1, DesktopIsAService DEF Heard, NoCall, VisionTypeOK
      <4> QED
        BY <3>4, <4>1, <2>3, DesktopIsAService, OutsideAttemptsKeepsTable
    <3>5. ASSUME NEW s \in Services, StartCall(s), ~Busy(s), UNCHANGED <<table, svc>>
          PROVE  Settled'
      <4>1. call'[s].pc # "entry" /\ \A r \in Services \ {s} : call'[r] = call[r]
        BY <3>5, <1>1 DEF StartCall, VisionTypeOK
      <4> QED
        BY <3>5, <4>1, <2>3, OutsideAttemptsKeepsTable DEF Busy
    <3>6. CASE DecideOnOldView \/ DecideOnNewView \/ DecideBlind
      <4>1. ~Busy(Desktop) /\ StartCall(Desktop) /\ UNCHANGED <<table, svc>>
        BY <3>6, <1>1 DEF DecideOnOldView, DecideOnNewView, DecideBlind, Decide, CallsAreOwned
      <4> QED
        BY <4>1, <3>5, DesktopIsAService
    <3>7. CASE BrowserAsks
      BY <3>7, <3>5, DesktopIsAService DEF BrowserAsks
    <3>8. CASE Vision
      <4>1. PICK s \in Services : CallMoves(s) \/ CoolsOff(s)
        BY <3>8 DEF Vision, CallMoves
      <4>2. CASE CallMoves(s)
        <5>1. Built(s)
          BY <4>2, <1>1 DEF CallsAreOwned, CallMoves, CallStep, Answers, PrimaryFails, EntryFails,
                            CutShort, Busy
        <5> QED
          BY <4>2, <5>1, <1>1, <2>3, CallMovesKeepTable
      <4>3. CASE CoolsOff(s)
        <5>1. /\ \A r \in Services : svc'[r].prefs = svc[r].prefs /\ svc'[r].original = svc[r].original
              /\ table' = table /\ call' = call
          BY <4>3, <1>1 DEF CoolsOff, VisionTypeOK
        <5>2. (Owned' <=> Owned) /\ Trying' = Trying
          BY <5>1 DEF Owned, Built, Trying
        <5>3. \A r \in Services : Built(r)' => svc'[r].prefs = 1 /\ Pinned(svc'[r].original, 1) = Home
          BY <5>1, <2>3 DEF Settled, Built
        <5>4. Trying' = {} => table' = IF Owned' THEN Home ELSE Stock
          BY <5>1, <5>2, <2>3 DEF Settled
        <5> QED
          BY <5>3, <5>4 DEF Settled, Pinned, Home
      <4> QED
        BY <4>1, <4>2, <4>3
    <3>9. CASE OutOfSteps \/ ActFails \/ \E status \in {"success", "denied"} : Act(status)
      BY <3>9, <3>1 DEF OutOfSteps, ActFails, Act
    <3>10. CASE Cancelled \/ DecisionEnds \/ \E t \in Tools, a \in Args : Names(t, a)
      BY <3>10, <3>1, <3>4 DEF Cancelled, DecisionEnds, Names
    <3> QED
      BY <2>1, <3>1, <3>2, <3>3, <3>6, <3>7, <3>8, <3>9, <3>10 DEF Next, Run, vars
  <2> QED
    BY <2>2, <2>4, TableInvIs DEF TableInv, Settled, SnapshotsAreClean, TableIsAsExpected, Home, Owned
<1> QED
  BY <1>2, <1>3

\* Outside failover attempts the table holds the stock models with the primary one pinned,
\* however attempts end, unless preferences were saved or a service was built during one
\* (browser/vision_failover.py, _restore_defaults).
THEOREM AttemptsRestoreTheTable == Spec => []TableIsRestored
<1>1. Init => TableInv
  <2>1. SUFFICES ASSUME Init PROVE TableInv
    OBVIOUS
  <2>2. table = Stock /\ \A s \in Services : ~Built(s)
    BY <2>1 DEF Init, VisionInit, Built, Unbuilt
  <2> QED
    BY <2>2 DEF TableInv, SnapshotsAreClean, TableIsAsExpected
<1>2. TypeInv /\ CallIsNamed /\ TableInv /\ [Next]_vars => TableInv'
  BY TableStep
<1>3. TableInv => TableIsRestored
  BY DEF TableInv, TableIsAsExpected, TableIsRestored
<1> QED
  BY <1>1, <1>2, <1>3, TypesHold, PTL DEF Spec
-----------------------------------------------------------------------------
(* The life of browser agents. *)

AgentRecords == [status : {"unused", "starting", "ready", "error", "stopping", "stopped"},
                 browser : BOOLEAN, attached : BOOLEAN, config : Nat, tokens : Nat]
RunRecords == [pc : {"idle"} \cup Starting \cup InTask \cup Ended, kind : Kinds,
               holder : Holders, agent : Agents \cup {None}, steps : 0..MaxRounds,
               asked : Nat, before : Nat, own : Nat, alone : BOOLEAN,
               tokens : Nat, counted : BOOLEAN]
PutRecords == [pc : {"idle", "stopping", "acked", "failed"}, agent : Agents \cup {None}, version : Nat]
PlugRecords == [pc : {"up", "stopping", "failed", "down"}, agent : Agents \cup {None}]
StatusOf(a) == agent[a].status

LifeTyped ==
  /\ held \in [Holders -> Agents \cup {None}]
  /\ agent \in [Agents -> AgentRecords]
  /\ saved \in Nat /\ acked \in 0..saved
  /\ put \in [Puts -> PutRecords]
  /\ plug \in PlugRecords
  /\ run \in [Runs -> RunRecords]
  /\ rivals \in [Agents -> SUBSET Agents]

\* What a run has spent is part of what its agent gained since the run began, and all of it
\* if nobody else used the agent; a run that has not begun has spent nothing.
Balanced(rec, st) ==
  /\ rec.pc \in {"idle"} \cup Starting => rec.own = 0 /\ rec.tokens = 0 /\ rec.steps = 0
  /\ rec.pc \in {"navigate", "observe"} => rec.steps < MaxRounds
  /\ rec.pc \in InTask => /\ rec.before + rec.own <= st.tokens
                          /\ rec.alone => rec.before + rec.own = st.tokens
  /\ rec.pc \in {"success", "failed"} /\ rec.counted =>
       /\ rec.tokens >= rec.own
       /\ rec.alone => rec.tokens = rec.own

\* Of several tasks on one agent each knows that it is not alone.
Shared(q, r) == q # r /\ run[q].pc \in InTask /\ run[r].pc \in InTask /\ run[q].agent = run[r].agent

Accounts ==
  /\ \A r \in Runs : run[r].pc # "idle" => run[r].agent \in Agents /\ StatusOf(run[r].agent) # "unused"
  /\ \A r \in Runs : Balanced(run[r], agent[run[r].agent])
  /\ \A q, r \in Runs : Shared(q, r) => ~run[r].alone

\* Who knows an agent knows how far it is.
Gone == {"stopping", "stopped", "error"}
Phases ==
  /\ \A h \in Holders : held[h] # None => StatusOf(held[h]) \notin {"unused", "starting"}
  /\ held["plugin"] = held["mcp"] => held["plugin"] = None
  /\ \A r \in Runs : run[r].pc \in Starting => StatusOf(run[r].agent) = "starting"
  /\ \A r \in Runs : run[r].pc = "stealth" => agent[run[r].agent].browser
  /\ \A q, r \in Runs : q # r /\ run[q].pc \in Starting /\ run[r].pc \in Starting => run[q].agent # run[r].agent
  /\ \A p \in Puts : put[p].pc = "stopping" => put[p].agent \in Agents /\ StatusOf(put[p].agent) \in Gone
  /\ plug.pc = "stopping" => plug.agent \in Agents /\ StatusOf(plug.agent) \in Gone

\* Two starts of one holder know of each other, and one that was overtaken of the agent installed.
Overlaps ==
  /\ \A q, r \in Runs :
       q # r /\ run[q].pc \in Starting /\ run[r].pc \in Starting /\ run[q].holder = run[r].holder
         => rivals[run[r].agent] # {}
  /\ \A r \in Runs : run[r].pc \in Starting /\ held[run[r].holder] # None
         => rivals[held[run[r].holder]] # {}

\* A save that was or will be acknowledged has met the agent before it was asked for, or while it started.
Fresh(a) ==
  \/ a \in overtaken
  \/ /\ acked <= agent[a].config
     /\ \A p \in Puts : put[p].pc = "stopping" => put[p].version <= agent[a].config
Freshness ==
  /\ \A p \in Puts : put[p].version <= saved
  /\ held["plugin"] # None => Fresh(held["plugin"])
  /\ \A r \in Runs : run[r].pc \in Starting =>
       Fresh(run[r].agent) /\ run[r].asked <= agent[run[r].agent].config
  /\ StaleOnlyIfOvertaken

LifeInv == LifeTyped /\ Accounts /\ Phases /\ Overlaps /\ Freshness /\ BrowsersFollowAgents
-----------------------------------------------------------------------------
(* Numbers and records. *)

LEMMA LeastAgent ==
  ASSUME NEW S \in SUBSET Nat, S # {}
  PROVE  Min(S) \in S
<1> DEFINE Less == {p \in Nat \X Nat : p[1] < p[2]}
<1>1. IsWellFoundedOn(Less, Nat)
  BY NatLessThanWellFounded, Zenon DEF OpToRel
<1>2. PICK x \in S : \A y \in S : ~(<<y, x>> \in Less)
  BY <1>1, WFMin
<1>3. ASSUME NEW y \in S PROVE x <= y
  <2>1. x \in Nat /\ y \in Nat
    OBVIOUS
  <2>2. y < x => <<y, x>> \in Less
    BY <2>1
  <2>3. ~(y < x)
    BY <1>2, <2>2
  <2> QED
    BY <2>1, <2>3
<1> QED
  BY <1>3 DEF Min

LEMMA LaterOfTwo ==
  ASSUME NEW m \in Nat, NEW n \in Nat
  PROVE  Max({m, n}) = IF m >= n THEN m ELSE n
<1> DEFINE top == IF m >= n THEN m ELSE n
<1>1. top \in {m, n} /\ \A y \in {m, n} : top >= y
  OBVIOUS
<1>2. \A x \in {m, n} : (\A y \in {m, n} : x >= y) => x = top
  OBVIOUS
<1> HIDE DEF top
<1>3. Max({m, n}) = top
  BY <1>1, <1>2 DEF Max
<1> QED
  BY <1>3 DEF top

LEMMA AgentNumbers ==
  /\ None \notin Agents /\ Agents \subseteq Nat
  /\ "plugin" \in Holders /\ "mcp" \in Holders
  /\ \A h \in Holders : h = "plugin" \/ h = "mcp"
BY BoundsAssumption DEF None, Agents, Holders

LEMMA Phrases ==
  /\ \A x : x \in Starting => x \notin InTask /\ x \notin Ended /\ x # "idle"
  /\ \A x : x \in InTask => x \notin Ended /\ x # "idle"
  /\ \A x : x \in Ended => x # "idle"
  /\ "navigate" \in InTask /\ "observe" \in InTask /\ "decide" \in InTask /\ "act" \in InTask
  /\ "launch" \in Starting /\ "stealth" \in Starting
  /\ "success" \in Ended /\ "failed" \in Ended /\ "raised" \in Ended
BY DEF Starting, InTask, Ended

LEMMA TypesAgree == LifeTyped => LifeTypeOK
BY DEF LifeTyped, LifeTypeOK, AgentRecords, RunRecords, PutRecords, PlugRecords
-----------------------------------------------------------------------------
(* What a task gets at its entry. *)

\* Two records of a run that differ at most in that it is not alone any more.
AsBefore(x, y) ==
  /\ x.pc = y.pc /\ x.agent = y.agent /\ x.holder = y.holder /\ x.steps = y.steps
  /\ x.asked = y.asked /\ x.before = y.before /\ x.own = y.own /\ x.tokens = y.tokens
  /\ x.counted = y.counted /\ (x.alone => y.alone)

LEMMA EntryOfATask ==
  ASSUME NEW R \in [Runs -> RunRecords], NEW r \in Runs, NEW a \in Agents, NEW st \in AgentRecords,
         NEW S \in Entered(R, r, a, st)
  PROVE  /\ S \in [Runs -> RunRecords]
         /\ S[r].agent = a /\ S[r].holder = R[r].holder /\ S[r].asked = R[r].asked
         /\ S[r].own = R[r].own /\ S[r].tokens = R[r].tokens /\ S[r].steps = R[r].steps
         /\ S[r].pc \in {"navigate", "observe", "act", "failed"}
         /\ S[r].pc # "failed" =>
              /\ S[r].before = st.tokens
              /\ \A q \in Runs \ {r} : R[q].agent = a /\ R[q].pc \in InTask => ~S[r].alone /\ ~S[q].alone
         /\ \A q \in Runs \ {r} : AsBefore(S[q], R[q])
<1> DEFINE others == {q \in Runs \ {r} : R[q].agent = a /\ R[q].pc \in InTask}
           first == IF R[r].kind = "tool" THEN {"act"} ELSE {"navigate", "observe"}
           refused == [R[r] EXCEPT !.agent = a, !.pc = "failed", !.counted = st.attached]
<1>0. \A q \in Runs : R[q] \in RunRecords
  OBVIOUS
<1>1. CASE S = [R EXCEPT ![r] = refused]
  <2>1. /\ refused \in RunRecords
        /\ refused.agent = a /\ refused.pc = "failed" /\ refused.holder = R[r].holder
        /\ refused.asked = R[r].asked /\ refused.own = R[r].own /\ refused.tokens = R[r].tokens
        /\ refused.steps = R[r].steps
    BY <1>0 DEF RunRecords, AgentRecords, Ended
  <2> HIDE DEF refused
  <2>2. S \in [Runs -> RunRecords] /\ S[r] = refused /\ \A q \in Runs \ {r} : S[q] = R[q]
    BY <1>1, <2>1
  <2>3. \A q \in Runs \ {r} : AsBefore(S[q], R[q])
    BY <2>2 DEF AsBefore
  <2> QED
    BY <2>1, <2>2, <2>3
<1>2. ASSUME NEW phase \in first,
             S = [q \in Runs |->
                    IF q = r THEN [R[r] EXCEPT !.agent = a, !.pc = phase, !.alone = others = {}, !.before = st.tokens]
                    ELSE IF q \in others THEN [R[q] EXCEPT !.alone = FALSE] ELSE R[q]]
      PROVE  /\ S \in [Runs -> RunRecords]
             /\ S[r].agent = a /\ S[r].holder = R[r].holder /\ S[r].asked = R[r].asked
             /\ S[r].own = R[r].own /\ S[r].tokens = R[r].tokens /\ S[r].steps = R[r].steps
             /\ S[r].pc \in {"navigate", "observe", "act"}
             /\ S[r].before = st.tokens
             /\ \A q \in others : ~S[r].alone /\ ~S[q].alone
             /\ \A q \in Runs \ {r} : AsBefore(S[q], R[q])
  <2> DEFINE mine == [R[r] EXCEPT !.agent = a, !.pc = phase, !.alone = others = {}, !.before = st.tokens]
  <2>0. phase \in {"navigate", "observe", "act"}
    OBVIOUS
  <2>a. (others = {}) \in BOOLEAN
    OBVIOUS
  <2> HIDE DEF others, first
  <2> DEFINE single == others = {}
  <2>b. /\ R[r] \in RunRecords /\ phase \in InTask /\ a \in Agents /\ st.tokens \in Nat /\ single \in BOOLEAN
    BY <1>0, <2>0, <2>a DEF InTask, AgentRecords
  <2> HIDE DEF single
  <2>c. [R[r] EXCEPT !.agent = a, !.pc = phase, !.alone = single, !.before = st.tokens] \in RunRecords
    BY <2>b DEF RunRecords
  <2>d. LET m == [R[r] EXCEPT !.agent = a, !.pc = phase, !.alone = single, !.before = st.tokens]
        IN  /\ m.agent = a /\ m.pc = phase /\ m.holder = R[r].holder
            /\ m.asked = R[r].asked /\ m.own = R[r].own /\ m.tokens = R[r].tokens
            /\ m.steps = R[r].steps /\ m.before = st.tokens /\ m.alone = single
    BY <2>b DEF RunRecords
  <2>1. /\ mine \in RunRecords
        /\ mine.agent = a /\ mine.pc = phase /\ mine.holder = R[r].holder
        /\ mine.asked = R[r].asked /\ mine.own = R[r].own /\ mine.tokens = R[r].tokens
        /\ mine.steps = R[r].steps /\ mine.before = st.tokens /\ mine.alone = (others = {})
    BY <2>c, <2>d DEF single
  <2>2. S[r] = mine
    BY <1>2
  <2> HIDE DEF mine
  <2>3. ASSUME NEW q \in Runs \ {r}
        PROVE  /\ S[q] \in RunRecords /\ AsBefore(S[q], R[q])
               /\ q \in others => ~S[q].alone
    <3>1. S[q] = IF q \in others THEN [R[q] EXCEPT !.alone = FALSE] ELSE R[q]
      BY <1>2
    <3>2. /\ [R[q] EXCEPT !.alone = FALSE] \in RunRecords
          /\ AsBefore([R[q] EXCEPT !.alone = FALSE], R[q]) /\ ~[R[q] EXCEPT !.alone = FALSE].alone
      BY <1>0 DEF RunRecords, AsBefore
    <3>3. R[q] \in RunRecords /\ AsBefore(R[q], R[q])
      BY <1>0 DEF AsBefore
    <3> QED
      BY <3>1, <3>2, <3>3
  <2>4. S = [q \in Runs |-> S[q]]
    BY <1>2
  <2>5. S \in [Runs -> RunRecords]
    BY <2>1, <2>2, <2>3, <2>4
  <2>6. \A q \in others : q \in Runs \ {r} /\ others # {}
    BY DEF others
  <2> QED
    BY <2>0, <2>1, <2>2, <2>3, <2>5, <2>6
<1>3. \/ S = [R EXCEPT ![r] = refused]
      \/ \E phase \in first :
           S = [q \in Runs |->
                  IF q = r THEN [R[r] EXCEPT !.agent = a, !.pc = phase, !.alone = others = {}, !.before = st.tokens]
                  ELSE IF q \in others THEN [R[q] EXCEPT !.alone = FALSE] ELSE R[q]]
  BY DEF Entered
<1>4. CASE S # [R EXCEPT ![r] = refused]
  <2>1. \A q \in Runs \ {r} : R[q].agent = a /\ R[q].pc \in InTask => q \in others
    OBVIOUS
  <2> HIDE DEF others, first, refused
  <2> QED
    BY <1>2, <1>3, <1>4, <2>1
<1> QED
  BY <1>1, <1>4
-----------------------------------------------------------------------------
(* Accounts. *)

LEMMA AccountsStay ==
  ASSUME Accounts, UNCHANGED run,
         \A a \in Agents : /\ agent'[a].tokens = agent[a].tokens
                           /\ agent[a].status # "unused" => agent'[a].status # "unused"
  PROVE  Accounts'
<1>1. ASSUME NEW r \in Runs PROVE Balanced(run[r], agent[run[r].agent])'
  <2>1. Balanced(run[r], agent[run[r].agent])
    BY DEF Accounts
  <2>2. run[r].pc \in InTask => run[r].agent \in Agents
    BY Phrases DEF Accounts
  <2> QED
    BY <2>1, <2>2 DEF Balanced
<1>2. \A r \in Runs : run'[r].pc # "idle" =>
        run'[r].agent \in Agents /\ agent'[run'[r].agent].status # "unused"
  BY DEF Accounts, StatusOf
<1>3. \A q, r \in Runs : Shared(q, r)' => ~run'[r].alone
  BY DEF Accounts, Shared
<1> QED
  BY <1>1, <1>2, <1>3 DEF Accounts, StatusOf

\* A step of one task: the others on its agent know that they are not alone.
LEMMA AccountsOfALoop ==
  ASSUME LifeTyped, Accounts, NEW r \in Runs, run[r].pc \in InTask,
         NEW new \in RunRecords, new.agent = run[r].agent, new.alone = run[r].alone,
         new.pc \in InTask \cup Ended,
         run' = [run EXCEPT ![r] = new],
         \A a \in Agents : /\ agent'[a].status = agent[a].status /\ agent'[a].tokens \in Nat
                           /\ agent'[a].tokens >= agent[a].tokens
                           /\ a # run[r].agent => agent'[a].tokens = agent[a].tokens,
         Balanced(new, agent'[run[r].agent])
  PROVE  Accounts'
<1>1. /\ run'[r] = new /\ \A q \in Runs : q # r => run'[q] = run[q]
      /\ \A q \in Runs : run[q] \in RunRecords
  BY DEF LifeTyped
<1>2. ASSUME NEW q \in Runs, q # r PROVE Balanced(run'[q], agent'[run'[q].agent])
  <2>1. Balanced(run[q], agent[run[q].agent]) /\ run'[q] = run[q]
    BY <1>1, <1>2 DEF Accounts
  <2>2. run[q].pc \in InTask => run[q].agent \in Agents
    BY Phrases DEF Accounts
  <2>3. CASE run[q].pc \in InTask /\ run[q].agent = run[r].agent
    <3>1. ~run[q].alone
      BY <1>2, <2>3 DEF Accounts, Shared
    <3>2. run[q].before \in Nat /\ run[q].own \in Nat
      BY <1>1 DEF RunRecords
    <3>3. agent[run[q].agent].tokens \in Nat /\ agent'[run[q].agent].tokens \in Nat
          /\ agent'[run[q].agent].tokens >= agent[run[q].agent].tokens
      BY <2>2, <2>3 DEF LifeTyped, AgentRecords
    <3>4. run[q].before + run[q].own <= agent'[run[q].agent].tokens
      BY <2>1, <2>3, <3>2, <3>3 DEF Balanced
    <3> QED
      BY <2>1, <2>3, <3>1, <3>4, Phrases DEF Balanced
  <2>4. CASE run[q].pc \in InTask /\ run[q].agent # run[r].agent
    BY <2>1, <2>2, <2>4 DEF Balanced
  <2>5. CASE run[q].pc \notin InTask
    BY <2>1, <2>5 DEF Balanced
  <2> QED
    BY <2>3, <2>4, <2>5
<1>3. \A q \in Runs : Balanced(run'[q], agent'[run'[q].agent])
  BY <1>1, <1>2
<1>4. ASSUME NEW q \in Runs, run'[q].pc # "idle"
      PROVE  run'[q].agent \in Agents /\ agent'[run'[q].agent].status # "unused"
  <2>1. run'[q].agent = run[q].agent /\ run[q].pc # "idle"
    BY <1>1, <1>4, Phrases
  <2>2. run[q].agent \in Agents /\ agent[run[q].agent].status # "unused"
    BY <2>1 DEF Accounts, StatusOf
  <2> QED
    BY <2>1, <2>2
<1>5. ASSUME NEW p \in Runs, NEW q \in Runs, Shared(p, q)' PROVE ~run'[q].alone
  <2>1. Shared(p, q)
    BY <1>1, <1>5 DEF Shared
  <2>2. run'[q].alone = run[q].alone
    BY <1>1
  <2> QED
    BY <2>1, <2>2 DEF Accounts
<1> QED
  BY <1>3, <1>4, <1>5 DEF Accounts, StatusOf

\* A task begins: it notes what its agent has gained so far, and whoever is there.
LEMMA AccountsOfAnEntry ==
  ASSUME LifeTyped, Accounts, NEW r \in Runs,
         NEW R \in [Runs -> RunRecords], \A q \in Runs : q # r => R[q] = run[q],
         R[r].own = 0, R[r].tokens = 0, R[r].steps = 0,
         NEW a \in Agents, agent'[a] \in AgentRecords, agent'[a].status # "unused",
         \A b \in Agents : /\ agent'[b].tokens = agent[b].tokens
                           /\ agent[b].status # "unused" => agent'[b].status # "unused",
         run' \in Entered(R, r, a, agent'[a])
  PROVE  Accounts'
<1>1. /\ run' \in [Runs -> RunRecords]
      /\ run'[r].agent = a /\ run'[r].own = 0 /\ run'[r].tokens = 0 /\ run'[r].steps = 0
      /\ run'[r].pc \in {"navigate", "observe", "act", "failed"}
      /\ run'[r].pc # "failed" =>
           /\ run'[r].before = agent'[a].tokens
           /\ \A q \in Runs \ {r} : R[q].agent = a /\ R[q].pc \in InTask => ~run'[r].alone /\ ~run'[q].alone
      /\ \A q \in Runs \ {r} : AsBefore(run'[q], R[q])
  BY EntryOfATask
<1>2. \A q \in Runs \ {r} : AsBefore(run'[q], run[q])
  BY <1>1
<1>3. MaxRounds > 0 /\ MaxRounds \in Nat
  BY BoundsAssumption
<1>4. Balanced(run'[r], agent'[run'[r].agent])
  <2>1. run'[r].pc \notin {"idle"} \cup Starting /\ run'[r].pc # "success"
    BY <1>1, Phrases
  <2>2. run'[r].pc \in InTask => run'[r].pc # "failed"
    BY Phrases
  <2>3. agent'[a].tokens \in Nat
    BY DEF AgentRecords
  <2> QED
    BY <1>1, <1>3, <2>1, <2>2, <2>3 DEF Balanced
<1>5. ASSUME NEW q \in Runs, q # r PROVE Balanced(run'[q], agent'[run'[q].agent])
  <2>1. Balanced(run[q], agent[run[q].agent]) /\ AsBefore(run'[q], run[q])
    BY <1>2, <1>5 DEF Accounts
  <2>2. run[q].pc \in InTask => run[q].agent \in Agents
    BY Phrases DEF Accounts
  <2>3. run[q].pc \in InTask => agent'[run[q].agent].tokens = agent[run[q].agent].tokens
    BY <2>2
  <2> QED
    BY <2>1, <2>3 DEF Balanced, AsBefore
<1>6. ASSUME NEW q \in Runs, run'[q].pc # "idle"
      PROVE  run'[q].agent \in Agents /\ agent'[run'[q].agent].status # "unused"
  <2>1. CASE q = r
    BY <1>1, <2>1
  <2>2. CASE q # r
    <3>1. run'[q].pc = run[q].pc /\ run'[q].agent = run[q].agent
      BY <1>2, <2>2 DEF AsBefore
    <3>2. run[q].agent \in Agents /\ agent[run[q].agent].status # "unused"
      BY <1>6, <3>1 DEF Accounts, StatusOf
    <3> QED
      BY <3>1, <3>2
  <2> QED
    BY <2>1, <2>2
<1>7. ASSUME NEW p \in Runs, NEW q \in Runs, Shared(p, q)' PROVE ~run'[q].alone
  <2>1. CASE p # r /\ q # r
    <3>1. AsBefore(run'[p], run[p]) /\ AsBefore(run'[q], run[q])
      BY <1>2, <2>1
    <3>2. Shared(p, q)
      BY <1>7, <3>1 DEF Shared, AsBefore
    <3>3. ~run[q].alone
      BY <3>2 DEF Accounts
    <3> QED
      BY <3>1, <3>3 DEF AsBefore
  <2>2. CASE p = r \/ q = r
    <3>1. PICK o \in Runs \ {r} : (p = r /\ q = o) \/ (p = o /\ q = r)
      BY <1>7, <2>2 DEF Shared
    <3>2. AsBefore(run'[o], R[o])
      BY <1>1
    <3>3. run'[o].pc \in InTask /\ run'[r].pc \in InTask /\ run'[o].agent = a
      BY <1>1, <1>7, <3>1 DEF Shared
    <3>4. R[o].pc \in InTask /\ R[o].agent = a /\ run'[r].pc # "failed"
      BY <3>2, <3>3, Phrases DEF AsBefore
    <3>5. ~run'[r].alone /\ ~run'[o].alone
      BY <1>1, <3>4
    <3> QED
      BY <3>1, <3>5
  <2> QED
    BY <2>1, <2>2
<1>8. \A q \in Runs : Balanced(run'[q], agent'[run'[q].agent])
  BY <1>4, <1>5
<1> QED
  BY <1>6, <1>7, <1>8 DEF Accounts, StatusOf

\* A caller is in between: it has spent nothing, whatever becomes of its agent.
LEMMA AccountsOfAStart ==
  ASSUME LifeTyped, Accounts, NEW r \in Runs, run[r].pc \in {"idle"} \cup Starting,
         NEW new \in RunRecords, new.own = 0, new.tokens = 0, new.steps = 0,
         new.pc \in Starting \cup {"raised"}, new.agent \in Agents,
         run' = [run EXCEPT ![r] = new],
         \A a \in Agents : /\ agent[a].status # "unused" =>
                                agent'[a].tokens = agent[a].tokens /\ agent'[a].status # "unused"
                           /\ a = new.agent => agent'[a].status # "unused"
  PROVE  Accounts'
<1>1. run'[r] = new /\ \A q \in Runs : q # r => run'[q] = run[q]
  BY DEF LifeTyped
<1>2. new.pc \notin InTask /\ new.pc \notin {"success", "failed", "navigate", "observe"}
  BY Phrases
<1>3. Balanced(run'[r], agent'[run'[r].agent])
  BY <1>1, <1>2 DEF Balanced
<1>4. ASSUME NEW q \in Runs, q # r PROVE Balanced(run'[q], agent'[run'[q].agent])
  <2>1. Balanced(run[q], agent[run[q].agent]) /\ run'[q] = run[q]
    BY <1>1, <1>4 DEF Accounts
  <2>2. run[q].pc \in InTask => agent'[run[q].agent].tokens = agent[run[q].agent].tokens
    BY Phrases DEF Accounts, StatusOf
  <2> QED
    BY <2>1, <2>2 DEF Balanced
<1>5. \A q \in Runs : Balanced(run'[q], agent'[run'[q].agent])
  BY <1>3, <1>4
<1>6. \A q \in Runs : run'[q].pc # "idle" =>
        run'[q].agent \in Agents /\ agent'[run'[q].agent].status # "unused"
  BY <1>1 DEF Accounts, StatusOf
<1>7. ASSUME NEW p \in Runs, NEW q \in Runs, Shared(p, q)' PROVE ~run'[q].alone
  <2>1. p # r /\ q # r
    BY <1>1, <1>2, <1>7 DEF Shared
  <2>2. Shared(p, q) /\ run'[q] = run[q]
    BY <1>1, <1>7, <2>1 DEF Shared
  <2> QED
    BY <2>2 DEF Accounts
<1> QED
  BY <1>5, <1>6, <1>7 DEF Accounts, StatusOf
-----------------------------------------------------------------------------
(* The steps of a task and of a tool call. *)

LEMMA StartedAgents ==
  \A a : a \in BeingStarted <=> \E r \in Runs : run[r].pc \in Starting /\ run[r].agent = a
BY DEF BeingStarted

LEMMA StoppedAgents ==
  \A a : BeingStopped(a) <=> \/ \E p \in Puts : put[p].pc = "stopping" /\ put[p].agent = a
                             \/ plug.pc = "stopping" /\ plug.agent = a
BY DEF BeingStopped, Stoppers

\* A task, or a tool call, goes on or ends; its agent has gained n tokens.
LEMMA LoopHolds ==
  ASSUME LifeInv, NEW r \in Runs, run[r].pc \in InTask, NEW n \in {0, 1},
         NEW new \in RunRecords, new.agent = run[r].agent, new.holder = run[r].holder,
         new.alone = run[r].alone, new.pc \in InTask \cup Ended,
         new.pc \in InTask => new.asked = run[r].asked,
         Balanced(new, [agent[run[r].agent] EXCEPT !.tokens = @ + n]),
         run' = [run EXCEPT ![r] = new],
         agent' = [agent EXCEPT ![run[r].agent] = [agent[run[r].agent] EXCEPT !.tokens = @ + n]],
         UNCHANGED Others
  PROVE  LifeInv'
<1> DEFINE a == run[r].agent
           st == [agent[a] EXCEPT !.tokens = @ + n]
<1>1. LifeTyped /\ Accounts /\ Phases /\ Overlaps /\ Freshness /\ BrowsersFollowAgents
  BY DEF LifeInv
<1>2. UNCHANGED <<held, saved, acked, put, plug, overtaken, rivals, lost>>
  BY DEF Others
<1>3. a \in Agents /\ agent[a] \in AgentRecords
  BY <1>1, Phrases DEF Accounts, LifeTyped
<1>4. /\ st \in AgentRecords /\ st.tokens = agent[a].tokens + n /\ agent[a].tokens \in Nat
      /\ st.status = agent[a].status /\ st.browser = agent[a].browser /\ st.config = agent[a].config
  BY <1>3 DEF AgentRecords
<1>5. agent' = [agent EXCEPT ![a] = st] /\ Balanced(new, st)
  OBVIOUS
<1> HIDE DEF st
<1>6. /\ agent'[a] = st /\ \A b \in Agents : b # a => agent'[b] = agent[b]
      /\ agent' \in [Agents -> AgentRecords]
  BY <1>1, <1>3, <1>4, <1>5 DEF LifeTyped
<1>7. \A b \in Agents : /\ agent'[b].status = agent[b].status /\ agent'[b].browser = agent[b].browser
                        /\ agent'[b].config = agent[b].config
                        /\ agent'[b].tokens \in Nat /\ agent'[b].tokens >= agent[b].tokens
                        /\ b # a => agent'[b].tokens = agent[b].tokens
  <2>1. \A b \in Agents : agent[b].tokens \in Nat
    BY <1>1 DEF LifeTyped, AgentRecords
  <2>2. \A i \in Nat : i >= i /\ i + n \in Nat /\ i + n >= i
    OBVIOUS
  <2> QED
    BY <1>4, <1>6, <2>1, <2>2
<1>8. /\ run'[r] = new /\ \A q \in Runs : q # r => run'[q] = run[q]
      /\ run' \in [Runs -> RunRecords]
  BY <1>1 DEF LifeTyped
<1>9. LifeTyped'
  BY <1>1, <1>2, <1>6, <1>8 DEF LifeTyped
<1>10. Accounts'
  BY <1>1, <1>5, <1>6, <1>7, AccountsOfALoop
<1>11. new.pc \notin Starting /\ run[r].pc \notin Starting /\ new.pc # "stealth"
  BY Phrases
<1>12. \A q \in Runs : run'[q].pc \in Starting => run'[q] = run[q] /\ q # r
  BY <1>8, <1>11
<1>13. Phases'
  <2>1. \A h \in Holders : held[h] # None => held[h] \in Agents
    BY <1>1 DEF LifeTyped
  <2>2. \A q \in Runs : run[q].pc \in Starting => run[q].agent \in Agents
    BY <1>1, Phrases DEF Accounts
  <2>3. \A q \in Runs : run'[q].pc = "stealth" => run'[q] = run[q] /\ run[q].pc \in Starting
    BY <1>8, <1>11, Phrases
  <2>4. /\ \A h \in Holders : held'[h] # None => agent'[held'[h]].status \notin {"unused", "starting"}
        /\ held'["plugin"] = held'["mcp"] => held'["plugin"] = None
    BY <1>1, <1>2, <1>7, <2>1 DEF Phases, StatusOf
  <2>5. \A q \in Runs : /\ run'[q].pc \in Starting => agent'[run'[q].agent].status = "starting"
                        /\ run'[q].pc = "stealth" => agent'[run'[q].agent].browser
    BY <1>1, <1>7, <1>12, <2>2, <2>3 DEF Phases, StatusOf
  <2>6. \A q, s \in Runs : q # s /\ run'[q].pc \in Starting /\ run'[s].pc \in Starting
                           => run'[q].agent # run'[s].agent
    BY <1>1, <1>12 DEF Phases
  <2>7. \A p \in Puts : put'[p].pc = "stopping" => put'[p].agent \in Agents /\ agent'[put'[p].agent].status \in Gone
    BY <1>1, <1>2, <1>7 DEF Phases, StatusOf
  <2>8. plug'.pc = "stopping" => plug'.agent \in Agents /\ agent'[plug'.agent].status \in Gone
    BY <1>1, <1>2, <1>7 DEF Phases, StatusOf
  <2> QED
    BY <2>4, <2>5, <2>6, <2>7, <2>8 DEF Phases, StatusOf
<1>14. Overlaps'
  <2>1. ASSUME NEW q \in Runs, NEW s \in Runs, q # s, run'[q].pc \in Starting, run'[s].pc \in Starting,
               run'[q].holder = run'[s].holder
        PROVE  rivals[run'[s].agent] # {}
    <3>1. run'[q] = run[q] /\ run'[s] = run[s]
      BY <1>12, <2>1
    <3> QED
      BY <1>1, <2>1, <3>1 DEF Overlaps
  <2>2. ASSUME NEW q \in Runs, run'[q].pc \in Starting, held[run'[q].holder] # None
        PROVE  rivals[held[run'[q].holder]] # {}
    <3>1. run'[q] = run[q]
      BY <1>12, <2>2
    <3> QED
      BY <1>1, <2>2, <3>1 DEF Overlaps
  <2>3. held' = held /\ rivals' = rivals
    BY <1>2
  <2> QED
    BY <2>1, <2>2, <2>3 DEF Overlaps
<1>15. \A b \in Agents : Fresh(b) => Fresh(b)'
  BY <1>2, <1>7 DEF Fresh
<1>16. StaleOnlyIfOvertaken'
  <2> SUFFICES ASSUME NEW q \in Runs, run'[q].holder = "plugin", run'[q].pc \in InTask,
                      agent'[run'[q].agent].config < run'[q].asked
               PROVE  run'[q].agent \in overtaken'
    BY DEF StaleOnlyIfOvertaken
  <2>1. /\ run[q].holder = "plugin" /\ run[q].pc \in InTask
        /\ run'[q].agent = run[q].agent /\ run'[q].asked = run[q].asked
    BY <1>8
  <2>2. run[q].agent \in Agents
    BY <1>1, <2>1, Phrases DEF Accounts
  <2> QED
    BY <1>1, <1>2, <1>7, <2>1, <2>2 DEF Freshness, StaleOnlyIfOvertaken
<1>17. Freshness'
  <2>1. held["plugin"] # None => held["plugin"] \in Agents
    BY <1>1, AgentNumbers DEF LifeTyped
  <2>2. \A q \in Runs : run[q].pc \in Starting => run[q].agent \in Agents
    BY <1>1, Phrases DEF Accounts
  <2> QED
    BY <1>1, <1>2, <1>7, <1>12, <1>15, <1>16, <2>1, <2>2 DEF Freshness
<1>18. BrowsersFollowAgents'
  <2>1. \A b : b \in BeingStarted => b \in BeingStarted'
    <3>1. \A q \in Runs : run[q].pc \in Starting => run'[q] = run[q]
      BY <1>8, <1>11
    <3> QED
      BY <3>1, StartedAgents DEF BeingStarted
  <2>2. \A b : BeingStopped(b) => BeingStopped(b)'
    BY <1>2 DEF BeingStopped, Stoppers
  <2>3. \A h \in Holders : held[h] # None => held[h] \in Agents
    BY <1>1 DEF LifeTyped
  <2>4. InstalledIsUsable'
    BY <1>1, <1>2, <1>7, <2>3 DEF BrowsersFollowAgents, InstalledIsUsable
  <2>5. BrowsersAreReachable'
    BY <1>1, <1>2, <1>7, <2>1, <2>2 DEF BrowsersFollowAgents, BrowsersAreReachable
  <2> QED
    BY <2>4, <2>5 DEF BrowsersFollowAgents
<1> QED
  BY <1>9, <1>10, <1>13, <1>14, <1>17, <1>18 DEF LifeInv

\* The same without new tokens.
LEMMA QuietLoopHolds ==
  ASSUME LifeInv, NEW r \in Runs, run[r].pc \in InTask,
         NEW new \in RunRecords, new.agent = run[r].agent, new.holder = run[r].holder,
         new.alone = run[r].alone, new.pc \in InTask \cup Ended,
         new.pc \in InTask => new.asked = run[r].asked,
         Balanced(new, agent[run[r].agent]),
         run' = [run EXCEPT ![r] = new],
         UNCHANGED <<agent, Others>>
  PROVE  LifeInv'
<1> DEFINE a == run[r].agent
<1>1. a \in Agents /\ agent[a] \in AgentRecords /\ agent \in [Agents -> AgentRecords]
  BY Phrases DEF LifeInv, Accounts, LifeTyped
<1>2. [agent[a] EXCEPT !.tokens = @ + 0] = agent[a]
  BY <1>1 DEF AgentRecords
<1>3. agent' = [agent EXCEPT ![a] = [agent[a] EXCEPT !.tokens = @ + 0]]
  BY <1>1, <1>2
<1>4. UNCHANGED Others
  OBVIOUS
<1>5. Balanced(new, [agent[a] EXCEPT !.tokens = @ + 0])
  BY <1>2
<1> HIDE DEF a
<1> QED
  BY <1>3, <1>4, <1>5, LoopHolds DEF a
\* What a finished run is charged.
ChargedEnd(rec, outcome, st) == Counted([rec EXCEPT !.pc = outcome], st)

LEMMA FinishedRecord ==
  ASSUME NEW rec \in RunRecords, NEW st \in AgentRecords, NEW outcome \in {"success", "failed"},
         rec.before + rec.own <= st.tokens, rec.alone => rec.before + rec.own = st.tokens
  PROVE  /\ ChargedEnd(rec, outcome, st) \in RunRecords
         /\ ChargedEnd(rec, outcome, st).agent = rec.agent
         /\ ChargedEnd(rec, outcome, st).holder = rec.holder
         /\ ChargedEnd(rec, outcome, st).alone = rec.alone
         /\ ChargedEnd(rec, outcome, st).pc = outcome
         /\ \A s : Balanced(ChargedEnd(rec, outcome, st), s)
<1> DEFINE new == ChargedEnd(rec, outcome, st)
<1>1. rec.before \in Nat /\ rec.own \in Nat /\ st.tokens \in Nat /\ MaxRounds \in Nat
  BY BoundsAssumption DEF RunRecords, AgentRecords
<1>2. /\ new.agent = rec.agent /\ new.holder = rec.holder /\ new.alone = rec.alone
      /\ new.pc = outcome /\ new.own = rec.own /\ new.counted = st.attached
      /\ new.tokens = (IF st.attached THEN st.tokens - rec.before ELSE 0)
  BY DEF ChargedEnd, Counted, RunRecords
<1>3. \A b, o, t \in Nat : b + o <= t => t - b \in Nat /\ t - b >= o /\ (b + o = t => t - b = o)
  OBVIOUS
<1>4. /\ st.tokens - rec.before \in Nat /\ st.tokens - rec.before >= rec.own
      /\ rec.alone => st.tokens - rec.before = rec.own
  BY <1>1, <1>3
<1>5. new \in RunRecords
  <2> DEFINE t == IF st.attached THEN st.tokens - rec.before ELSE 0
             mid == [rec EXCEPT !.pc = outcome]
  <2>3. mid.before = rec.before
    BY DEF RunRecords
  <2>4. new = [mid EXCEPT !.counted = st.attached, !.tokens = t, !.steps = 0, !.before = 0, !.asked = 0]
    BY <2>3 DEF ChargedEnd, Counted
  <2>5. t \in Nat /\ st.attached \in BOOLEAN /\ outcome \in Ended /\ 0 \in 0..MaxRounds /\ 0 \in Nat
    BY <1>1, <1>2, <1>4, Phrases DEF AgentRecords
  <2> HIDE DEF t
  <2>1. new = [pc |-> outcome, kind |-> rec.kind, holder |-> rec.holder, agent |-> rec.agent,
               steps |-> 0, asked |-> 0, before |-> 0, own |-> rec.own, alone |-> rec.alone,
               tokens |-> t, counted |-> st.attached]
    BY <2>4 DEF RunRecords
  <2>2. /\ rec.kind \in Kinds /\ rec.holder \in Holders /\ rec.agent \in Agents \cup {None}
        /\ rec.own \in Nat /\ rec.alone \in BOOLEAN
    BY DEF RunRecords
  <2> QED
    BY <2>1, <2>2, <2>5 DEF RunRecords
<1>6. new.pc \notin InTask /\ new.pc \notin {"idle"} \cup Starting /\ new.pc \notin {"navigate", "observe"}
  BY <1>2, Phrases
<1>7. \A s : Balanced(new, s)
  BY <1>2, <1>4, <1>6 DEF Balanced
<1> QED
  BY <1>2, <1>5, <1>7

LEMMA TaskFacts ==
  ASSUME LifeInv, NEW r \in Runs, run[r].pc \in InTask
  PROVE  /\ run[r] \in RunRecords /\ run[r].agent \in Agents /\ Here(r) = agent[run[r].agent]
         /\ Here(r) \in AgentRecords
         /\ run[r].before \in Nat /\ run[r].own \in Nat /\ Here(r).tokens \in Nat
         /\ run[r].before + run[r].own <= Here(r).tokens
         /\ run[r].alone => run[r].before + run[r].own = Here(r).tokens
         /\ run[r].pc \in {"navigate", "observe"} => run[r].steps < MaxRounds
         /\ run[r].steps \in Nat /\ MaxRounds \in Nat
<1>1. run[r] \in RunRecords /\ run[r].agent \in Agents
  BY Phrases DEF LifeInv, LifeTyped, Accounts
<1>2. Balanced(run[r], agent[run[r].agent]) /\ agent[run[r].agent] \in AgentRecords
  BY <1>1 DEF LifeInv, LifeTyped, Accounts
<1>3. run[r].before \in Nat /\ run[r].own \in Nat /\ run[r].steps \in Nat
  BY <1>1, BoundsAssumption DEF RunRecords
<1> QED
  BY <1>1, <1>2, <1>3, BoundsAssumption DEF Balanced, Here, AgentRecords

\* A task goes on, or raises before its loop.
LEMMA PassingHolds ==
  ASSUME LifeInv, NEW r \in Runs, NEW phase \in InTask \cup {"raised"}, NEW steps \in 0..MaxRounds,
         run[r].pc \in InTask, phase \in {"navigate", "observe"} => steps < MaxRounds,
         run' = [run EXCEPT ![r] = [run[r] EXCEPT !.pc = phase, !.steps = steps]],
         UNCHANGED <<agent, Others>>
  PROVE  LifeInv'
<1> DEFINE new == [run[r] EXCEPT !.pc = phase, !.steps = steps]
<1>1. run[r] \in RunRecords
  BY TaskFacts
<1>2. /\ new \in RunRecords /\ new.agent = run[r].agent /\ new.holder = run[r].holder
      /\ new.alone = run[r].alone /\ new.pc = phase /\ new.asked = run[r].asked
      /\ new.before = run[r].before /\ new.own = run[r].own /\ new.steps = steps
  BY <1>1 DEF RunRecords, Ended
<1>3. phase \in InTask \cup Ended /\ phase \notin {"idle"} \cup Starting /\ phase \notin {"success", "failed"}
  BY Phrases
<1> HIDE DEF new
<1>4. Balanced(new, agent[run[r].agent])
  BY <1>2, <1>3, TaskFacts DEF Balanced, Here
<1>5. run' = [run EXCEPT ![r] = new]
  BY DEF new
<1> QED
  BY <1>2, <1>3, <1>4, <1>5, QuietLoopHolds

\* A task, or a tool call, comes to its end.
LEMMA FinishingHolds ==
  ASSUME LifeInv, NEW r \in Runs, run[r].pc \in InTask, NEW outcome \in {"success", "failed"},
         Finish(r, run[r], outcome, Here(r)), UNCHANGED <<agent, Others>>
  PROVE  LifeInv'
<1> DEFINE new == ChargedEnd(run[r], outcome, Here(r))
<1>1. run' = [run EXCEPT ![r] = new]
  BY DEF Finish, ChargedEnd
<1>b. /\ run[r] \in RunRecords /\ Here(r) \in AgentRecords
      /\ run[r].before + run[r].own <= Here(r).tokens
      /\ run[r].alone => run[r].before + run[r].own = Here(r).tokens
  BY TaskFacts
<1>2. /\ new \in RunRecords /\ new.agent = run[r].agent /\ new.holder = run[r].holder
      /\ new.alone = run[r].alone /\ new.pc = outcome /\ \A s : Balanced(new, s)
  BY <1>b, FinishedRecord
<1>3. outcome \in Ended /\ outcome \notin InTask
  BY Phrases
<1> HIDE DEF new
<1> QED
  BY <1>1, <1>2, <1>3, QuietLoopHolds

LEMMA AnswerHolds ==
  ASSUME LifeInv, NEW r \in Runs, DecideToEnd(r) \/ DecideToAct(r)
  PROVE  LifeInv'
<1> DEFINE a == run[r].agent
           rec == Charged(r)
           st == Answered(r)
<1>1. /\ run[r].pc = "decide" /\ run[r].pc \in InTask
      /\ agent' = [agent EXCEPT ![a] = st]
      /\ UNCHANGED Others
  BY Phrases DEF DecideToEnd, DecideToAct
<1>2. st = [agent[a] EXCEPT !.tokens = @ + 1] /\ st \in AgentRecords /\ st.tokens = Here(r).tokens + 1
  BY <1>1, TaskFacts DEF Answered, Here, AgentRecords
<1>3. /\ rec \in RunRecords /\ rec.agent = a /\ rec.holder = run[r].holder /\ rec.alone = run[r].alone
      /\ rec.pc = "decide" /\ rec.asked = run[r].asked
      /\ rec.before = run[r].before /\ rec.own = run[r].own + 1
  BY <1>1, TaskFacts DEF Charged, RunRecords
<1>4. rec.before + rec.own <= st.tokens /\ (rec.alone => rec.before + rec.own = st.tokens)
  BY <1>1, <1>2, <1>3, TaskFacts
<1> HIDE DEF a, rec, st
<1>5. ASSUME NEW outcome \in {"success", "failed"}, Finish(r, rec, outcome, st)
      PROVE  LifeInv'
  <2> DEFINE new == ChargedEnd(rec, outcome, st)
  <2>1. run' = [run EXCEPT ![r] = new]
    BY <1>5 DEF Finish, ChargedEnd
  <2>a. /\ rec \in RunRecords /\ st \in AgentRecords /\ rec.before + rec.own <= st.tokens
        /\ rec.alone => rec.before + rec.own = st.tokens
    BY <1>2, <1>3, <1>4
  <2>b. /\ new \in RunRecords /\ new.agent = rec.agent /\ new.holder = rec.holder
        /\ new.alone = rec.alone /\ new.pc = outcome /\ \A s : Balanced(new, s)
    BY <2>a, FinishedRecord
  <2>2. /\ new \in RunRecords /\ new.agent = a /\ new.holder = run[r].holder
        /\ new.alone = run[r].alone /\ new.pc = outcome /\ \A s : Balanced(new, s)
    BY <2>b, <1>3
  <2>3. outcome \in Ended /\ outcome \notin InTask
    BY Phrases
  <2> HIDE DEF new
  <2>4. agent' = [agent EXCEPT ![a] = [agent[a] EXCEPT !.tokens = @ + 1]]
    BY <1>1, <1>2
  <2> QED
    BY <1>1, <2>1, <2>2, <2>3, <2>4, LoopHolds DEF a
<1>6. ASSUME Continue(r, [rec EXCEPT !.pc = "act"])
      PROVE  LifeInv'
  <2> DEFINE new == [rec EXCEPT !.pc = "act"]
  <2>1. run' = [run EXCEPT ![r] = new]
    BY <1>6 DEF Continue
  <2>2. /\ new \in RunRecords /\ new.agent = a /\ new.holder = run[r].holder
        /\ new.alone = run[r].alone /\ new.pc = "act" /\ new.asked = run[r].asked
        /\ new.before = rec.before /\ new.own = rec.own
    BY <1>3 DEF RunRecords, InTask
  <2>3. "act" \in InTask /\ "act" \notin {"idle"} \cup Starting
    BY Phrases
  <2> HIDE DEF new
  <2>4. Balanced(new, st)
    BY <1>4, <2>2, <2>3, <1>3 DEF Balanced
  <2>5. agent' = [agent EXCEPT ![a] = [agent[a] EXCEPT !.tokens = @ + 1]]
    BY <1>1, <1>2
  <2>6. Balanced(new, [agent[a] EXCEPT !.tokens = @ + 1])
    BY <1>2, <2>4
  <2> QED
    BY <1>1, <2>1, <2>2, <2>3, <2>5, <2>6, LoopHolds DEF a
<1>7. CASE DecideToEnd(r)
  BY <1>5, <1>7 DEF DecideToEnd, rec, st
<1>8. CASE DecideToAct(r)
  BY <1>6, <1>8 DEF DecideToAct, rec
<1> QED
  BY <1>7, <1>8

LEMMA LoopKeepsLife ==
  ASSUME LifeInv, NEW r \in Runs, Loop(r)
  PROVE  LifeInv'
<1>1. CASE Navigate(r) \/ NavigateRaises(r)
  <2>1. PICK phase \in {"observe", "raised"} : run' = [run EXCEPT ![r] = [run[r] EXCEPT !.pc = phase]]
    BY <1>1 DEF Navigate, NavigateRaises, Continue
  <2>2. run[r].pc = "navigate" /\ run[r].pc \in InTask /\ UNCHANGED <<agent, Others>> /\ phase \in InTask \cup {"raised"}
    BY <1>1, Phrases DEF Navigate, NavigateRaises
  <2>3. run[r].steps \in 0..MaxRounds /\ run[r].steps < MaxRounds /\ run[r] \in RunRecords
    BY <2>2, TaskFacts
  <2>4. [run[r] EXCEPT !.pc = phase] = [run[r] EXCEPT !.pc = phase, !.steps = run[r].steps]
    BY <2>3 DEF RunRecords
  <2> QED
    BY <2>1, <2>2, <2>3, <2>4, PassingHolds
<1>2. CASE Observe(r)
  <2>1. run[r].pc = "observe" /\ run[r].pc \in InTask /\ UNCHANGED <<agent, Others>>
    BY <1>2, Phrases DEF Observe
  <2>2. run[r].steps + 1 \in 0..MaxRounds /\ run[r] \in RunRecords
    BY <2>1, TaskFacts
  <2>3. run' = [run EXCEPT ![r] = [run[r] EXCEPT !.pc = "decide", !.steps = run[r].steps + 1]]
    BY <1>2 DEF Observe, Continue
  <2>4. "decide" \in InTask \cup {"raised"} /\ "decide" \notin {"navigate", "observe"}
    BY Phrases
  <2> QED
    BY <2>1, <2>2, <2>3, <2>4, PassingHolds
<1>3. CASE Raises(r)
  BY <1>3, FinishingHolds, Phrases DEF Raises
<1>4. CASE DecideToEnd(r) \/ DecideToAct(r)
  BY <1>4, AnswerHolds
<1>5. CASE ActOnPage(r)
  <2>1. run[r].pc \in InTask /\ UNCHANGED <<agent, Others>>
    BY <1>5, Phrases DEF ActOnPage
  <2>2. CASE run[r].steps < MaxRounds
    <3>1. run' = [run EXCEPT ![r] = [run[r] EXCEPT !.pc = "observe"]]
      BY <1>5, <2>2 DEF ActOnPage, Continue
    <3>2. run[r].steps \in 0..MaxRounds /\ run[r] \in RunRecords
      BY <2>1, <2>2, TaskFacts
    <3>3. [run[r] EXCEPT !.pc = "observe"] = [run[r] EXCEPT !.pc = "observe", !.steps = run[r].steps]
      BY <3>2 DEF RunRecords
    <3> QED
      BY <2>1, <2>2, <3>1, <3>2, <3>3, PassingHolds, Phrases
  <2>3. CASE ~(run[r].steps < MaxRounds)
    BY <1>5, <2>1, <2>3, FinishingHolds DEF ActOnPage
  <2> QED
    BY <2>2, <2>3
<1>6. CASE CallTool(r)
  BY <1>6, FinishingHolds, Phrases DEF CallTool
<1> QED
  BY <1>1, <1>2, <1>3, <1>4, <1>5, <1>6 DEF Loop
-----------------------------------------------------------------------------
(* Saves and shutdown: what is dropped was installed, what is stopped was dropped. *)

\* Whoever may still stop the browser of an agent, or why nobody can.
Reachable(a) ==
  \/ \E h \in Holders : held[h] = a
  \/ a \in BeingStarted \/ BeingStopped(a)
  \/ a \in lost \/ rivals[a] # {} \/ plug.pc # "up"

LEMMA StopHolds ==
  ASSUME LifeInv, LifeTyped', UNCHANGED <<run, rivals>>, overtaken \subseteq overtaken',
         \A a \in Agents :
           /\ agent'[a].config = agent[a].config /\ agent'[a].tokens = agent[a].tokens
           /\ agent'[a].browser => agent[a].browser
           /\ agent[a].status = "starting" => agent'[a] = agent[a]
           /\ \/ agent'[a].status = agent[a].status
              \/ agent[a].status \notin {"unused", "starting"} /\ agent'[a].status \in Gone,
         \A h \in Holders :
           /\ held'[h] = held[h] \/ held'[h] = None
           /\ held'[h] # None /\ plug'.pc = "up" => plug.pc = "up" /\ agent'[held[h]] = agent[held[h]],
         \A p \in Puts : /\ put'[p].version <= saved'
                         /\ put'[p].pc = "stopping" =>
                              put'[p].agent \in Agents /\ agent'[put'[p].agent].status \in Gone,
         plug'.pc = "stopping" => plug'.agent \in Agents /\ agent'[plug'.agent].status \in Gone,
         \A a \in Agents : (a \in BeingStarted \/ held'["plugin"] = a) /\ Fresh(a) => Fresh(a)',
         \A a \in Agents : agent'[a].browser /\ Reachable(a) => Reachable(a)'
  PROVE  LifeInv'
<1>1. LifeTyped /\ Accounts /\ Phases /\ Overlaps /\ Freshness /\ BrowsersFollowAgents
  BY DEF LifeInv
<1>2. \A a \in Agents : agent[a].status # "unused" => agent'[a].status # "unused"
  BY DEF Gone
<1>3. Accounts'
  BY <1>1, <1>2, AccountsStay
<1>4. \A h \in Holders : held[h] # None => held[h] \in Agents
  BY <1>1 DEF LifeTyped
<1>5. \A q \in Runs : run[q].pc \in Starting => run[q].agent \in Agents /\ agent'[run[q].agent] = agent[run[q].agent]
  BY <1>1, Phrases DEF Accounts, Phases, StatusOf
<1>6. Phases'
  <2>1. \A h \in Holders : held'[h] # None => agent'[held'[h]].status \notin {"unused", "starting"}
    BY <1>1, <1>4 DEF Phases, StatusOf, Gone
  <2>2. held'["plugin"] = held'["mcp"] => held'["plugin"] = None
    BY <1>1, AgentNumbers DEF Phases
  <2>3. \A r \in Runs : /\ run'[r].pc \in Starting => agent'[run'[r].agent].status = "starting"
                        /\ run'[r].pc = "stealth" => agent'[run'[r].agent].browser
    BY <1>1, <1>5, Phrases DEF Phases, StatusOf
  <2> QED
    BY <1>1, <2>1, <2>2, <2>3 DEF Phases, StatusOf
<1>7. Overlaps'
  <2>1. \A r \in Runs : run[r].holder \in Holders
    BY <1>1 DEF LifeTyped, RunRecords
  <2> QED
    BY <1>1, <2>1 DEF Overlaps
<1>8. StaleOnlyIfOvertaken'
  <2>1. \A r \in Runs : run[r].pc \in InTask => run[r].agent \in Agents
    BY <1>1, Phrases DEF Accounts
  <2> QED
    BY <1>1, <2>1 DEF Freshness, StaleOnlyIfOvertaken
<1>9. Freshness'
  <2>1. held'["plugin"] # None => held'["plugin"] = held["plugin"] /\ held["plugin"] \in Agents
    BY <1>4, AgentNumbers
  <2>2. held'["plugin"] # None => Fresh(held["plugin"])'
    BY <1>1, <2>1 DEF Freshness, Fresh
  <2>3. ASSUME NEW r \in Runs, run'[r].pc \in Starting
        PROVE  Fresh(run[r].agent)' /\ run'[r].asked <= agent'[run'[r].agent].config
    <3>1. Fresh(run[r].agent) /\ run[r].asked <= agent[run[r].agent].config /\ run[r].agent \in Agents
      BY <1>1, <1>5, <2>3 DEF Freshness
    <3>2. run[r].agent \in BeingStarted
      BY <2>3, StartedAgents
    <3>3. run'[r] = run[r]
      OBVIOUS
    <3>4. Fresh(run[r].agent)'
      BY <3>1, <3>2 DEF Fresh
    <3> QED
      BY <3>1, <3>3, <3>4
  <2> QED
    BY <1>8, <2>2, <2>3 DEF Freshness
<1>10. BrowsersFollowAgents'
  <2>1. InstalledIsUsable'
    BY <1>1, <1>4 DEF BrowsersFollowAgents, InstalledIsUsable
  <2>2. \A a \in Agents : agent[a].browser => Reachable(a)
    BY <1>1 DEF BrowsersFollowAgents, BrowsersAreReachable, Reachable
  <2>3. \A a \in Agents : agent'[a].browser => Reachable(a)'
    BY <2>2
  <2>4. BrowsersAreReachable'
    BY <2>3 DEF BrowsersAreReachable, Reachable
  <2> QED
    BY <2>1, <2>4 DEF BrowsersFollowAgents
<1> QED
  BY <1>3, <1>6, <1>7, <1>9, <1>10 DEF LifeInv

LEMMA ChangedStatus ==
  ASSUME LifeTyped, NEW a \in Agents,
         NEW s \in {"unused", "starting", "ready", "error", "stopping", "stopped"},
         agent' = [agent EXCEPT ![a].status = s]
  PROVE  /\ agent' \in [Agents -> AgentRecords]
         /\ agent'[a].status = s /\ agent'[a].browser = agent[a].browser
         /\ agent'[a].config = agent[a].config /\ agent'[a].tokens = agent[a].tokens
         /\ \A b \in Agents : b # a => agent'[b] = agent[b]
<1>1. agent[a] \in AgentRecords /\ agent \in [Agents -> AgentRecords]
  BY DEF LifeTyped
<1>2. [agent[a] EXCEPT !.status = s] \in AgentRecords
  BY <1>1 DEF AgentRecords
<1>3. agent' = [agent EXCEPT ![a] = [agent[a] EXCEPT !.status = s]]
  OBVIOUS
<1>4. agent'[a] = [agent[a] EXCEPT !.status = s]
  BY <1>1, <1>3
<1>5. agent' \in [Agents -> AgentRecords] /\ \A b \in Agents : b # a => agent'[b] = agent[b]
  BY <1>1, <1>2, <1>3
<1> QED
  BY <1>1, <1>4, <1>5 DEF AgentRecords

LEMMA StoppedAgent ==
  ASSUME LifeTyped, NEW a \in Agents, Stopped(a)
  PROVE  /\ agent' \in [Agents -> AgentRecords]
         /\ agent'[a].status = "stopped" /\ agent'[a].browser = agent[a].browser
         /\ agent'[a].config = agent[a].config /\ agent'[a].tokens = agent[a].tokens
         /\ \A b \in Agents : b # a => agent'[b] = agent[b]
<1>1. agent[a] \in AgentRecords /\ agent \in [Agents -> AgentRecords]
  BY DEF LifeTyped
<1> DEFINE st == [agent[a] EXCEPT !.status = "stopped", !.attached = FALSE]
<1>2. st \in AgentRecords
  BY <1>1 DEF AgentRecords
<1>3. /\ st.status = "stopped" /\ st.browser = agent[a].browser
      /\ st.config = agent[a].config /\ st.tokens = agent[a].tokens
  BY <1>1 DEF AgentRecords
<1>4. agent' = [agent EXCEPT ![a] = st]
  BY <1>1 DEF Stopped
<1> HIDE DEF st
<1>5. agent' \in [Agents -> AgentRecords] /\ agent'[a] = st /\ \A b \in Agents : b # a => agent'[b] = agent[b]
  BY <1>1, <1>2, <1>4
<1> QED
  BY <1>3, <1>5

\* A request that is stopping an agent, and the shutdown, stop one that was installed.
LEMMA StoppersKnow ==
  ASSUME LifeInv
  PROVE  /\ \A p \in Puts : put[p].pc = "stopping" => put[p].agent \in Agents /\ agent[put[p].agent].status \in Gone
         /\ plug.pc = "stopping" => plug.agent \in Agents /\ agent[plug.agent].status \in Gone
         /\ \A p \in Puts : put[p] \in PutRecords /\ put[p].version <= saved /\ put[p].version \in Nat
         /\ \A h \in Holders : held[h] # None =>
              /\ held[h] \in Agents /\ agent[held[h]].status \notin {"unused", "starting"}
              /\ plug.pc = "up" => agent[held[h]].status = "ready"
<1>1. \A p \in Puts : put[p] \in PutRecords
  BY DEF LifeInv, LifeTyped
<1>2. \A p \in Puts : put[p].version <= saved /\ put[p].version \in Nat
  BY <1>1 DEF LifeInv, Freshness, PutRecords
<1>3. \A h \in Holders : held[h] # None =>
              /\ held[h] \in Agents /\ agent[held[h]].status \notin {"unused", "starting"}
              /\ plug.pc = "up" => agent[held[h]].status = "ready"
  BY DEF LifeInv, LifeTyped, Phases, StatusOf, BrowsersFollowAgents, InstalledIsUsable
<1> QED
  BY <1>1, <1>2, <1>3 DEF LifeInv, Phases, StatusOf
LEMMA SaveHolds ==
  ASSUME LifeInv, NEW p \in Puts, Save(p)
  PROVE  LifeInv'
<1>1. LifeTyped /\ Phases /\ UNCHANGED <<run, plug, rivals, lost>> /\ saved' = saved + 1 /\ put[p].pc = "idle"
  BY DEF LifeInv, Save
<1>2. saved \in Nat /\ acked \in 0..saved /\ \A q \in Puts : put[q] \in PutRecords
  BY <1>1 DEF LifeTyped
<1>3. overtaken \subseteq overtaken' /\ BeingStarted \subseteq overtaken'
  BY DEF Save
<1>4. CASE held["plugin"] = None
  <2>1. /\ UNCHANGED <<held, agent>>
        /\ put' = [put EXCEPT ![p] = [pc |-> "acked", agent |-> None, version |-> saved + 1]]
        /\ acked' = saved + 1
    <3>1. acked' = Max({acked, saved + 1})
      BY <1>1, <1>4 DEF Save, Acknowledged
    <3>2. acked \in Nat /\ saved + 1 \in Nat /\ ~(acked >= saved + 1)
      BY <1>2
    <3> QED
      BY <1>1, <1>4, <3>1, <3>2, LaterOfTwo DEF Save
  <2>2. [pc |-> "acked", agent |-> None, version |-> saved + 1] \in PutRecords
    BY <1>2 DEF PutRecords
  <2>3. /\ put'[p].pc = "acked" /\ put'[p].version = saved'
        /\ \A q \in Puts : q # p => put'[q] = put[q]
        /\ put' \in [Puts -> PutRecords]
    BY <1>1, <2>1, <2>2 DEF LifeTyped
  <2>4. LifeTyped'
    BY <1>1, <1>2, <2>1, <2>3 DEF LifeTyped
  <2>5. \A q \in Puts : /\ put'[q].version <= saved'
                        /\ put'[q].pc = "stopping" =>
                             put'[q].agent \in Agents /\ agent'[put'[q].agent].status \in Gone
    BY <1>1, <1>2, <2>1, <2>3, StoppersKnow
  <2>6. plug'.pc = "stopping" => plug'.agent \in Agents /\ agent'[plug'.agent].status \in Gone
    BY <1>1, <2>1, StoppersKnow
  <2>7. \A a \in Agents : (a \in BeingStarted \/ held'["plugin"] = a) /\ Fresh(a) => Fresh(a)'
    BY <1>3, <1>4, <2>1, AgentNumbers DEF Fresh
  <2>8. \A a \in Agents : agent'[a].browser /\ Reachable(a) => Reachable(a)'
    <3>1. \A a : BeingStopped(a) => BeingStopped(a)'
      BY <1>1, <2>3 DEF BeingStopped, Stoppers
    <3> QED
      BY <1>1, <2>1, <3>1 DEF Reachable, BeingStarted
  <2> QED
    BY <1>1, <1>3, <2>1, <2>4, <2>5, <2>6, <2>7, <2>8, StopHolds
<1>5. CASE held["plugin"] # None
  <2>1. PICK a \in Agents : a = held["plugin"] /\ agent[a].status \notin {"unused", "starting"}
    BY <1>5, StoppersKnow, AgentNumbers
  <2>2. /\ agent' = [agent EXCEPT ![a].status = "stopping"]
        /\ put' = [put EXCEPT ![p] = [pc |-> "stopping", agent |-> a, version |-> saved + 1]]
        /\ held' = [held EXCEPT !["plugin"] = None] /\ acked' = acked
    BY <1>1, <1>5, <2>1 DEF Save
  <2>3. /\ agent' \in [Agents -> AgentRecords]
        /\ agent'[a].status = "stopping" /\ agent'[a].browser = agent[a].browser
        /\ agent'[a].config = agent[a].config /\ agent'[a].tokens = agent[a].tokens
        /\ \A b \in Agents : b # a => agent'[b] = agent[b]
    BY <1>1, <2>1, <2>2, ChangedStatus
  <2>4. [pc |-> "stopping", agent |-> a, version |-> saved + 1] \in PutRecords
    BY <1>2, <2>1 DEF PutRecords
  <2>5. /\ put'[p].pc = "stopping" /\ put'[p].version = saved' /\ put'[p].agent = a
        /\ \A q \in Puts : q # p => put'[q] = put[q]
        /\ put' \in [Puts -> PutRecords]
    BY <1>1, <2>2, <2>4 DEF LifeTyped
  <2>6. /\ held' \in [Holders -> Agents \cup {None}] /\ held'["plugin"] = None
        /\ \A h \in Holders : h # "plugin" => held'[h] = held[h]
    BY <1>1, <2>2, AgentNumbers DEF LifeTyped
  <2>7. LifeTyped'
    BY <1>1, <1>2, <2>2, <2>3, <2>5, <2>6 DEF LifeTyped
  <2>8. "stopping" \in Gone
    BY DEF Gone
  <2>9. \A b \in Agents :
           /\ agent'[b].config = agent[b].config /\ agent'[b].tokens = agent[b].tokens
           /\ agent'[b].browser => agent[b].browser
           /\ agent[b].status = "starting" => agent'[b] = agent[b]
           /\ \/ agent'[b].status = agent[b].status
              \/ agent[b].status \notin {"unused", "starting"} /\ agent'[b].status \in Gone
    BY <2>1, <2>3, <2>8
  <2>10. \A b \in Agents : agent[b].status \in Gone => agent'[b].status \in Gone
    BY <2>3, <2>8
  <2>11. \A q \in Puts : /\ put'[q].version <= saved'
                         /\ put'[q].pc = "stopping" =>
                              put'[q].agent \in Agents /\ agent'[put'[q].agent].status \in Gone
    BY <1>1, <1>2, <2>1, <2>3, <2>5, <2>8, <2>10, StoppersKnow
  <2>12. plug'.pc = "stopping" => plug'.agent \in Agents /\ agent'[plug'.agent].status \in Gone
    BY <1>1, <2>10, StoppersKnow
  <2>13. \A h \in Holders :
           /\ held'[h] = held[h] \/ held'[h] = None
           /\ held'[h] # None /\ plug'.pc = "up" => plug.pc = "up" /\ agent'[held[h]] = agent[held[h]]
    <3>1. held["mcp"] # None => held["mcp"] # a /\ held["mcp"] \in Agents
      BY <1>1, <1>5, <2>1, StoppersKnow, AgentNumbers DEF Phases
    <3>2. held["mcp"] # None => agent'[held["mcp"]] = agent[held["mcp"]]
      BY <2>3, <3>1
    <3>3. held'["mcp"] = held["mcp"] /\ held'["plugin"] = None /\ plug' = plug
      BY <1>1, <2>6, AgentNumbers
    <3> QED
      BY <3>2, <3>3, AgentNumbers
  <2>14. \A b \in Agents : (b \in BeingStarted \/ held'["plugin"] = b) /\ Fresh(b) => Fresh(b)'
    BY <1>3, <2>6, AgentNumbers DEF Fresh
  <2>15. \A b \in Agents : agent'[b].browser /\ Reachable(b) => Reachable(b)'
    <3>1. \A b : BeingStopped(b) => BeingStopped(b)'
      BY <1>1, <2>5 DEF BeingStopped, Stoppers
    <3>2. BeingStopped(a)'
      BY <2>5, StoppedAgents DEF BeingStopped, Stoppers
    <3>3. \A b : b \in BeingStarted => b \in BeingStarted'
      BY <1>1 DEF BeingStarted
    <3>4. \A b \in Agents, h \in Holders : held[h] = b => held'[h] = b \/ b = a
      BY <2>1, <2>6, AgentNumbers
    <3>5. ASSUME NEW b \in Agents, Reachable(b) PROVE Reachable(b)'
      <4>1. CASE b = a
        BY <3>2, <4>1 DEF Reachable, BeingStopped, Stoppers
      <4>2. CASE b # a
        BY <1>1, <3>1, <3>3, <3>4, <3>5, <4>2 DEF Reachable
      <4> QED
        BY <4>1, <4>2
    <3> QED
      BY <3>5
  <2> QED
    BY <1>1, <1>3, <2>7, <2>9, <2>11, <2>12, <2>13, <2>14, <2>15, StopHolds
<1> QED
  BY <1>4, <1>5

LEMMA SaveFailsHolds ==
  ASSUME LifeInv, NEW p \in Puts, SaveFails(p)
  PROVE  LifeInv'
<1>1. /\ LifeTyped /\ UNCHANGED <<held, agent, acked, run, plug, overtaken, rivals, lost>>
      /\ saved' = saved + 1 /\ put[p].pc = "idle"
      /\ put' = [put EXCEPT ![p] = [pc |-> "failed", agent |-> None, version |-> saved + 1]]
  BY DEF LifeInv, SaveFails
<1>2. saved \in Nat /\ acked \in 0..saved /\ \A q \in Puts : put[q] \in PutRecords
  BY <1>1 DEF LifeTyped
<1>3. [pc |-> "failed", agent |-> None, version |-> saved + 1] \in PutRecords
  BY <1>2 DEF PutRecords
<1>4. /\ put'[p].pc = "failed" /\ put'[p].version = saved'
      /\ \A q \in Puts : q # p => put'[q] = put[q]
      /\ put' \in [Puts -> PutRecords]
  BY <1>1, <1>3 DEF LifeTyped
<1>5. LifeTyped'
  BY <1>1, <1>2, <1>4 DEF LifeTyped
<1>6. \A q \in Puts : /\ put'[q].version <= saved'
                      /\ put'[q].pc = "stopping" =>
                           put'[q].agent \in Agents /\ agent'[put'[q].agent].status \in Gone
  BY <1>1, <1>2, <1>4, StoppersKnow
<1>7. plug'.pc = "stopping" => plug'.agent \in Agents /\ agent'[plug'.agent].status \in Gone
  BY <1>1, StoppersKnow
<1>8. \A a \in Agents : Fresh(a) => Fresh(a)'
  BY <1>1, <1>4 DEF Fresh
<1>9. \A a \in Agents : Reachable(a) => Reachable(a)'
  <2>1. \A a : BeingStopped(a) => BeingStopped(a)'
    BY <1>1, <1>4 DEF BeingStopped, Stoppers
  <2> QED
    BY <1>1, <2>1 DEF Reachable, BeingStarted
<1> QED
  BY <1>1, <1>5, <1>6, <1>7, <1>8, <1>9, StopHolds

LEMMA BrowserClosesHolds ==
  ASSUME LifeInv, NEW a \in Agents, BrowserCloses(a)
  PROVE  LifeInv'
<1>1. /\ LifeTyped /\ UNCHANGED <<held, saved, acked, put, run, plug, overtaken, rivals, lost>>
      /\ BeingStopped(a) /\ agent' = [agent EXCEPT ![a].browser = FALSE]
  BY DEF LifeInv, BrowserCloses
<1>2. agent[a].status \in Gone
  BY <1>1, StoppersKnow, StoppedAgents
<1>3. /\ agent' \in [Agents -> AgentRecords]
      /\ agent'[a].status = agent[a].status /\ ~agent'[a].browser
      /\ agent'[a].config = agent[a].config /\ agent'[a].tokens = agent[a].tokens
      /\ \A b \in Agents : b # a => agent'[b] = agent[b]
  <2> DEFINE st == [agent[a] EXCEPT !.browser = FALSE]
  <2>1. agent[a] \in AgentRecords /\ agent \in [Agents -> AgentRecords]
    BY <1>1 DEF LifeTyped
  <2>2. /\ st \in AgentRecords /\ st.status = agent[a].status /\ ~st.browser
        /\ st.config = agent[a].config /\ st.tokens = agent[a].tokens
    BY <2>1 DEF AgentRecords
  <2>3. agent' = [agent EXCEPT ![a] = st]
    BY <1>1
  <2> HIDE DEF st
  <2>4. agent' \in [Agents -> AgentRecords] /\ agent'[a] = st /\ \A b \in Agents : b # a => agent'[b] = agent[b]
    BY <2>1, <2>2, <2>3
  <2> QED
    BY <2>2, <2>4
<1>4. LifeTyped'
  BY <1>1, <1>3 DEF LifeTyped
<1>5. \A b \in Agents : agent'[b].status = agent[b].status
  BY <1>3
<1>6. \A q \in Puts : /\ put'[q].version <= saved'
                      /\ put'[q].pc = "stopping" =>
                           put'[q].agent \in Agents /\ agent'[put'[q].agent].status \in Gone
  BY <1>1, <1>5, StoppersKnow
<1>7. plug'.pc = "stopping" => plug'.agent \in Agents /\ agent'[plug'.agent].status \in Gone
  BY <1>1, <1>5, StoppersKnow
<1>8. \A h \in Holders : held'[h] # None /\ plug'.pc = "up" => agent'[held[h]] = agent[held[h]]
  <2>1. \A h \in Holders : held[h] # None /\ plug.pc = "up" => held[h] # a /\ held[h] \in Agents
    BY <1>2, StoppersKnow DEF Gone
  <2> QED
    BY <1>1, <1>3, <2>1
<1>9. \A b \in Agents : Fresh(b) => Fresh(b)'
  BY <1>1, <1>3 DEF Fresh
<1>10. \A b \in Agents : Reachable(b) => Reachable(b)'
  BY <1>1 DEF Reachable, BeingStarted, BeingStopped, Stoppers
<1>11. \A b \in Agents :
         /\ agent'[b].config = agent[b].config /\ agent'[b].tokens = agent[b].tokens
         /\ agent'[b].browser => agent[b].browser
         /\ agent[b].status = "starting" => agent'[b] = agent[b]
  BY <1>2, <1>3 DEF Gone
<1> QED
  BY <1>1, <1>4, <1>5, <1>6, <1>7, <1>8, <1>9, <1>10, <1>11, StopHolds

\* A stop has ended, or failed: the request that asked for it is answered.
LEMMA EndingHolds ==
  ASSUME LifeInv, NEW p \in Puts, put[p].pc = "stopping", NEW a \in Agents, a = put[p].agent,
         agent' \in [Agents -> AgentRecords], agent'[a].status \in Gone,
         agent'[a].browser = agent[a].browser, agent'[a].config = agent[a].config,
         agent'[a].tokens = agent[a].tokens, \A b \in Agents : b # a => agent'[b] = agent[b],
         put' = [put EXCEPT ![p].pc = "acked"], Acknowledged(put[p].version),
         UNCHANGED <<held, saved, run, plug, overtaken, rivals>>,
         lost \subseteq lost', ~agent[a].browser \/ a \in lost'
  PROVE  LifeInv'
<1>1. LifeTyped /\ saved \in Nat /\ acked \in 0..saved /\ acked \in Nat
  BY DEF LifeInv, LifeTyped
<1>2. /\ put'[p].pc = "acked" /\ put'[p].version = put[p].version
      /\ \A q \in Puts : q # p => put'[q] = put[q]
      /\ put' \in [Puts -> PutRecords]
  <2> DEFINE done == [put[p] EXCEPT !.pc = "acked"]
  <2>1. put[p] \in PutRecords /\ put \in [Puts -> PutRecords]
    BY <1>1 DEF LifeTyped
  <2>2. done \in PutRecords /\ done.pc = "acked" /\ done.version = put[p].version
    BY <2>1 DEF PutRecords
  <2>3. put' = [put EXCEPT ![p] = done]
    BY <2>1
  <2> HIDE DEF done
  <2> QED
    BY <2>1, <2>2, <2>3
<1>3. agent[a].status \in Gone /\ put[p].version \in Nat /\ put[p].version <= saved
  BY StoppersKnow
<1>4. /\ acked' = IF acked >= put[p].version THEN acked ELSE put[p].version
      /\ acked' \in 0..saved
  BY <1>1, <1>3, LaterOfTwo DEF Acknowledged
<1>5. LifeTyped'
  BY <1>1, <1>2, <1>4 DEF LifeTyped
<1>6. \A b \in Agents :
        /\ agent'[b].config = agent[b].config /\ agent'[b].tokens = agent[b].tokens
        /\ agent'[b].browser => agent[b].browser
        /\ agent[b].status = "starting" => agent'[b] = agent[b]
        /\ \/ agent'[b].status = agent[b].status
           \/ agent[b].status \notin {"unused", "starting"} /\ agent'[b].status \in Gone
  BY <1>3 DEF Gone
<1>7. \A b \in Agents : agent[b].status \in Gone => agent'[b].status \in Gone
  OBVIOUS
<1>8. \A q \in Puts : /\ put'[q].version <= saved'
                      /\ put'[q].pc = "stopping" =>
                           put'[q].agent \in Agents /\ agent'[put'[q].agent].status \in Gone
  BY <1>2, <1>7, StoppersKnow
<1>9. plug'.pc = "stopping" => plug'.agent \in Agents /\ agent'[plug'.agent].status \in Gone
  BY <1>7, StoppersKnow
<1>10. \A h \in Holders : held'[h] # None /\ plug'.pc = "up" => agent'[held[h]] = agent[held[h]]
  <2>1. \A h \in Holders : held[h] # None /\ plug.pc = "up" => held[h] # a /\ held[h] \in Agents
    BY <1>3, StoppersKnow DEF Gone
  <2> QED
    BY <2>1
<1>11. ASSUME NEW b \in Agents, Fresh(b) PROVE Fresh(b)'
  <2>1. CASE b \in overtaken
    BY <2>1 DEF Fresh
  <2>2. CASE b \notin overtaken
    <3>1. acked <= agent[b].config /\ put[p].version <= agent[b].config
      BY <1>11, <2>2 DEF Fresh
    <3>2. acked' <= agent'[b].config
      BY <1>4, <1>6, <3>1
    <3>3. \A q \in Puts : put'[q].pc = "stopping" => put'[q].version <= agent'[b].config
      BY <1>2, <1>6, <1>11, <2>2 DEF Fresh
    <3> QED
      BY <3>2, <3>3 DEF Fresh
  <2> QED
    BY <2>1, <2>2
<1>12. ASSUME NEW b \in Agents, agent'[b].browser, Reachable(b) PROVE Reachable(b)'
  <2>1. CASE b = a
    BY <1>12, <2>1 DEF Reachable
  <2>2. CASE b # a
    <3>1. BeingStopped(b) => BeingStopped(b)'
      BY <1>2, <2>2 DEF BeingStopped, Stoppers
    <3> QED
      BY <1>12, <3>1 DEF Reachable, BeingStarted
  <2> QED
    BY <2>1, <2>2
<1> QED
  BY <1>5, <1>6, <1>8, <1>9, <1>10, <1>11, <1>12, StopHolds

LEMMA PutStepsHold ==
  ASSUME LifeInv, NEW p \in Puts, PutSteps(p)
  PROVE  LifeInv'
<1>1. LifeTyped
  BY DEF LifeInv
<1>2. put[p].pc = "stopping" /\ put' = [put EXCEPT ![p].pc = "acked"] /\ Acknowledged(put[p].version)
      /\ UNCHANGED <<held, saved, run, plug, overtaken, rivals>>
  BY DEF PutSteps, EndSave, EndSaveFails
<1>3. PICK a \in Agents : a = put[p].agent
  BY <1>2, StoppersKnow
<1>4. "stopped" \in Gone /\ "error" \in Gone
  BY DEF Gone
<1>5. CASE EndSave(p)
  <2>1. Stopped(a) /\ ~agent[a].browser /\ lost' = lost
    BY <1>3, <1>5 DEF EndSave, Stopped
  <2>2. /\ agent' \in [Agents -> AgentRecords]
        /\ agent'[a].status = "stopped" /\ agent'[a].browser = agent[a].browser
        /\ agent'[a].config = agent[a].config /\ agent'[a].tokens = agent[a].tokens
        /\ \A b \in Agents : b # a => agent'[b] = agent[b]
    BY <1>1, <2>1, StoppedAgent
  <2> QED
    BY <1>2, <1>3, <1>4, <2>1, <2>2, EndingHolds
<1>6. CASE EndSaveFails(p)
  <2>1. agent' = [agent EXCEPT ![a].status = "error"] /\ lost' = lost \cup {a}
    BY <1>3, <1>6 DEF EndSaveFails
  <2>2. /\ agent' \in [Agents -> AgentRecords]
        /\ agent'[a].status = "error" /\ agent'[a].browser = agent[a].browser
        /\ agent'[a].config = agent[a].config /\ agent'[a].tokens = agent[a].tokens
        /\ \A b \in Agents : b # a => agent'[b] = agent[b]
    BY <1>1, <2>1, ChangedStatus
  <2>3. lost \subseteq lost' /\ a \in lost'
    BY <2>1
  <2> QED
    BY <1>2, <1>3, <1>4, <2>2, <2>3, EndingHolds
<1> QED
  BY <1>5, <1>6 DEF PutSteps

\* The plugin is being shut down: from here on a browser may be left to itself.
LEMMA DownHolds ==
  ASSUME LifeInv, NEW a \in Agents, agent[a].status \notin {"unused", "starting"},
         agent' \in [Agents -> AgentRecords], agent'[a].status \in Gone,
         agent'[a].browser = agent[a].browser, agent'[a].config = agent[a].config,
         agent'[a].tokens = agent[a].tokens, \A b \in Agents : b # a => agent'[b] = agent[b],
         plug' \in PlugRecords, plug'.pc # "up", plug'.pc = "stopping" => plug'.agent = a,
         held' \in [Holders -> Agents \cup {None}],
         \A h \in Holders : held'[h] = held[h] \/ held'[h] = None,
         UNCHANGED <<saved, acked, put, run, overtaken, rivals>>
  PROVE  LifeInv'
<1>1. LifeTyped
  BY DEF LifeInv
<1>2. LifeTyped'
  BY <1>1 DEF LifeTyped
<1>3. \A b \in Agents : agent[b].status \in Gone => agent'[b].status \in Gone
  OBVIOUS
<1>4. \A q \in Puts : /\ put'[q].version <= saved'
                      /\ put'[q].pc = "stopping" =>
                           put'[q].agent \in Agents /\ agent'[put'[q].agent].status \in Gone
  BY <1>3, StoppersKnow
<1>5. \A b \in Agents : Fresh(b) => Fresh(b)'
  BY DEF Fresh
<1>6. \A b \in Agents : Reachable(b)'
  BY DEF Reachable
<1>7. \A b \in Agents :
        /\ agent'[b].config = agent[b].config /\ agent'[b].tokens = agent[b].tokens
        /\ agent'[b].browser => agent[b].browser
        /\ agent[b].status = "starting" => agent'[b] = agent[b]
        /\ \/ agent'[b].status = agent[b].status
           \/ agent[b].status \notin {"unused", "starting"} /\ agent'[b].status \in Gone
  OBVIOUS
<1> QED
  BY <1>2, <1>4, <1>5, <1>6, <1>7, StopHolds

LEMMA ShutdownHolds ==
  ASSUME LifeInv, Shutdown
  PROVE  LifeInv'
<1>1. /\ LifeTyped /\ plug.pc = "up"
      /\ UNCHANGED <<held, saved, acked, put, run, overtaken, rivals, lost>>
  BY DEF LifeInv, Shutdown
<1>2. CASE held["plugin"] = None
  <2>1. plug' = [pc |-> "down", agent |-> None] /\ UNCHANGED agent
    BY <1>2 DEF Shutdown
  <2>2. plug' \in PlugRecords /\ plug'.pc = "down"
    BY <2>1 DEF PlugRecords
  <2>3. LifeTyped'
    BY <1>1, <2>1, <2>2 DEF LifeTyped
  <2>4. \A b \in Agents : Reachable(b)'
    BY <2>2 DEF Reachable
  <2>5. \A b \in Agents : Fresh(b) => Fresh(b)'
    BY <1>1, <2>1 DEF Fresh
  <2>6. \A q \in Puts : /\ put'[q].version <= saved'
                        /\ put'[q].pc = "stopping" =>
                             put'[q].agent \in Agents /\ agent'[put'[q].agent].status \in Gone
    BY <1>1, <2>1, StoppersKnow
  <2> QED
    BY <1>1, <2>1, <2>2, <2>3, <2>4, <2>5, <2>6, StopHolds
<1>3. CASE held["plugin"] # None
  <2>1. PICK a \in Agents : a = held["plugin"] /\ agent[a].status \notin {"unused", "starting"}
    BY <1>3, StoppersKnow, AgentNumbers
  <2>2. plug' = [pc |-> "stopping", agent |-> a] /\ agent' = [agent EXCEPT ![a].status = "stopping"]
    BY <1>3, <2>1 DEF Shutdown
  <2>3. plug' \in PlugRecords /\ plug'.pc = "stopping" /\ plug'.agent = a
    BY <2>2 DEF PlugRecords
  <2>4. /\ agent' \in [Agents -> AgentRecords]
        /\ agent'[a].status = "stopping" /\ agent'[a].browser = agent[a].browser
        /\ agent'[a].config = agent[a].config /\ agent'[a].tokens = agent[a].tokens
        /\ \A b \in Agents : b # a => agent'[b] = agent[b]
    BY <1>1, <2>2, ChangedStatus
  <2>5. "stopping" \in Gone /\ held' \in [Holders -> Agents \cup {None}]
    BY <1>1 DEF Gone, LifeTyped
  <2> QED
    BY <1>1, <2>1, <2>3, <2>4, <2>5, DownHolds
<1> QED
  BY <1>2, <1>3

LEMMA ShutdownEndsHolds ==
  ASSUME LifeInv, EndShutdown \/ ShutdownFails
  PROVE  LifeInv'
<1>1. /\ LifeTyped /\ plug.pc = "stopping" /\ plug \in PlugRecords
      /\ UNCHANGED <<saved, acked, put, run, overtaken, rivals>>
      /\ plug' = [plug EXCEPT !.pc = "down"] \/ plug' = [plug EXCEPT !.pc = "failed"]
  BY DEF LifeInv, LifeTyped, EndShutdown, ShutdownFails
<1>2. plug' \in PlugRecords /\ plug'.pc \in {"down", "failed"}
  BY <1>1 DEF PlugRecords
<1>3. PICK a \in Agents : a = plug.agent /\ agent[a].status \in Gone
  BY <1>1, StoppersKnow
<1>4. agent[a].status \notin {"unused", "starting"} /\ "stopped" \in Gone /\ "error" \in Gone
  BY <1>3 DEF Gone
<1>5. held' = [held EXCEPT !["plugin"] = None] \/ held' = held
  BY DEF EndShutdown, ShutdownFails
<1>6. /\ held' \in [Holders -> Agents \cup {None}]
      /\ \A h \in Holders : held'[h] = held[h] \/ held'[h] = None
  BY <1>1, <1>5, AgentNumbers DEF LifeTyped
<1>7. /\ agent' \in [Agents -> AgentRecords]
      /\ agent'[a].status \in Gone /\ agent'[a].browser = agent[a].browser
      /\ agent'[a].config = agent[a].config /\ agent'[a].tokens = agent[a].tokens
      /\ \A b \in Agents : b # a => agent'[b] = agent[b]
  <2>1. CASE EndShutdown
    <3>1. Stopped(a)
      BY <1>3, <2>1 DEF EndShutdown, Stopped
    <3> QED
      BY <1>1, <1>4, <3>1, StoppedAgent
  <2>2. CASE ShutdownFails
    <3>1. agent' = [agent EXCEPT ![a].status = "error"]
      BY <1>3, <2>2 DEF ShutdownFails
    <3> QED
      BY <1>1, <1>4, <3>1, ChangedStatus
  <2> QED
    BY <2>1, <2>2
<1> QED
  BY <1>1, <1>2, <1>4, <1>6, <1>7, DownHolds
-----------------------------------------------------------------------------
(* Starts. *)

\* A caller that is being served has spent nothing yet.
LEMMA StarterFacts ==
  ASSUME LifeInv, NEW r \in Runs, run[r].pc \in {"idle"} \cup Starting
  PROVE  /\ run[r] \in RunRecords
         /\ run[r].own = 0 /\ run[r].tokens = 0 /\ run[r].steps = 0
         /\ run[r].pc \in Starting => /\ run[r].agent \in Agents /\ agent[run[r].agent] \in AgentRecords
                                      /\ agent[run[r].agent].status = "starting"
                                      /\ Fresh(run[r].agent) /\ run[r].asked <= agent[run[r].agent].config
<1>1. run[r] \in RunRecords /\ Balanced(run[r], agent[run[r].agent])
  BY DEF LifeInv, LifeTyped, Accounts
<1>2. run[r].pc \in Starting => run[r].agent \in Agents
  BY Phrases DEF LifeInv, Accounts
<1>3. run[r].pc \in Starting => agent[run[r].agent].status = "starting"
  BY DEF LifeInv, Phases, StatusOf
<1>4. run[r].pc \in Starting => Fresh(run[r].agent) /\ run[r].asked <= agent[run[r].agent].config
  BY DEF LifeInv, Freshness
<1> QED
  BY <1>1, <1>2, <1>3, <1>4 DEF Balanced, LifeInv, LifeTyped

\* Agents that are installed, or are being stopped, are not being started.
LEMMA StrangersToStarts ==
  ASSUME LifeInv, NEW a \in Agents, agent[a].status \in {"unused", "starting"}
  PROVE  /\ \A h \in Holders : held[h] # a
         /\ \A p \in Puts : put[p].pc = "stopping" => put[p].agent # a
         /\ plug.pc = "stopping" => plug.agent # a
<1>1. agent[a].status \notin Gone
  BY DEF Gone
<1> QED
  BY <1>1, StoppersKnow, AgentNumbers

LEMMA LaunchHolds ==
  ASSUME LifeInv, NEW r \in Runs, Launch(r)
  PROVE  LifeInv'
<1>1. /\ LifeTyped /\ Accounts /\ Phases /\ Overlaps /\ Freshness /\ BrowsersFollowAgents
      /\ run[r].pc = "launch" /\ run[r].pc \in Starting /\ "stealth" \in Starting
      /\ UNCHANGED <<held, saved, acked, put, plug, overtaken, rivals, lost>>
  BY Phrases DEF LifeInv, Launch
<1>2. PICK a \in Agents : a = run[r].agent /\ agent[a] \in AgentRecords /\ agent[a].status = "starting"
  BY <1>1, StarterFacts
<1>3. /\ agent' \in [Agents -> AgentRecords] /\ \A b \in Agents : b # a => agent'[b] = agent[b]
      /\ agent'[a].status = "starting" /\ agent'[a].browser
      /\ agent'[a].config = agent[a].config /\ agent'[a].tokens = agent[a].tokens
  <2> DEFINE st == [agent[a] EXCEPT !.attached = TRUE, !.browser = TRUE]
  <2>1. /\ st \in AgentRecords /\ st.status = "starting" /\ st.browser
        /\ st.config = agent[a].config /\ st.tokens = agent[a].tokens
    BY <1>2 DEF AgentRecords
  <2>2. agent \in [Agents -> AgentRecords]
    BY <1>1 DEF LifeTyped
  <2>3. agent' = [agent EXCEPT ![a] = st]
    BY <1>2, <2>2 DEF Launch
  <2> HIDE DEF st
  <2>4. agent' \in [Agents -> AgentRecords] /\ agent'[a] = st /\ \A b \in Agents : b # a => agent'[b] = agent[b]
    BY <2>1, <2>2, <2>3
  <2> QED
    BY <2>1, <2>4
<1> DEFINE new == [run[r] EXCEPT !.pc = "stealth"]
<1>4. /\ new \in RunRecords /\ new.pc = "stealth" /\ new.agent = a /\ new.holder = run[r].holder
      /\ new.asked = run[r].asked /\ new.own = 0 /\ new.tokens = 0 /\ new.steps = 0
  BY <1>1, <1>2, StarterFacts DEF RunRecords
<1>5. run' = [run EXCEPT ![r] = new]
  BY DEF Launch
<1> HIDE DEF new
<1>6. /\ run' \in [Runs -> RunRecords] /\ run'[r] = new
      /\ \A q \in Runs : q # r => run'[q] = run[q]
  BY <1>1, <1>4, <1>5 DEF LifeTyped
<1>7. LifeTyped'
  BY <1>1, <1>3, <1>6 DEF LifeTyped
<1>8. Accounts'
  <2>1. \A b \in Agents : /\ agent[b].status # "unused" =>
                                agent'[b].tokens = agent[b].tokens /\ agent'[b].status # "unused"
                          /\ b = new.agent => agent'[b].status # "unused"
    BY <1>3, <1>4
  <2>2. new.pc \in Starting \cup {"raised"} /\ run[r].pc \in {"idle"} \cup Starting
    BY <1>1, <1>4
  <2> QED
    BY <1>1, <1>4, <1>5, <2>1, <2>2, AccountsOfAStart
<1>9. \A q \in Runs : /\ run'[q].pc \in Starting <=> run[q].pc \in Starting
                      /\ run'[q].agent = run[q].agent /\ run'[q].holder = run[q].holder
                      /\ run'[q].asked = run[q].asked
                      /\ run'[q].pc \in InTask => run[q].pc \in InTask
                      /\ run'[q].pc = "stealth" => q = r \/ run[q].pc = "stealth"
  BY <1>1, <1>2, <1>4, <1>6, Phrases
<1>10. \A b \in Agents : agent'[b].status = agent[b].status /\ agent'[b].config = agent[b].config
  BY <1>2, <1>3
<1>11. \A q \in Runs : run[q].pc # "idle" => run[q].agent \in Agents
  BY <1>1 DEF Accounts
<1>12. Phases'
  <2>1. \A h \in Holders : held[h] # None => held[h] \in Agents
    BY StoppersKnow
  <2>2. \A q \in Runs : run'[q].pc = "stealth" => agent'[run'[q].agent].browser
    <3>1. \A q \in Runs : q # r /\ run[q].pc = "stealth" => run[q].agent # a /\ run[q].agent \in Agents
      BY <1>1, <1>2, <1>11, Phrases DEF Phases
    <3> QED
      BY <1>1, <1>2, <1>3, <1>9, <3>1 DEF Phases
  <2> QED
    BY <1>1, <1>9, <1>10, <1>11, <2>1, <2>2, Phrases DEF Phases, StatusOf
<1>13. Overlaps'
  BY <1>1, <1>9 DEF Overlaps
<1>14. \A b \in Agents : Fresh(b) => Fresh(b)'
  BY <1>1, <1>10 DEF Fresh
<1>15. Freshness'
  <2>1. StaleOnlyIfOvertaken'
    <3>1. \A q \in Runs : run[q].pc \in InTask => run[q].agent \in Agents
      BY <1>11, Phrases
    <3> QED
      BY <1>1, <1>9, <1>10, <3>1 DEF Freshness, StaleOnlyIfOvertaken
  <2>2. held["plugin"] # None => held["plugin"] \in Agents
    BY StoppersKnow, AgentNumbers
  <2>3. held["plugin"] # None => Fresh(held["plugin"])'
    BY <1>1, <1>14, <2>2 DEF Freshness, Fresh
  <2>4. ASSUME NEW q \in Runs, run'[q].pc \in Starting
        PROVE  Fresh(run[q].agent)' /\ run'[q].asked <= agent'[run'[q].agent].config
    <3>1. run[q].agent \in Agents /\ Fresh(run[q].agent) /\ run[q].asked <= agent[run[q].agent].config
      BY <1>9, <2>4, StarterFacts
    <3>2. run'[q].agent = run[q].agent /\ run'[q].asked = run[q].asked
      BY <1>9
    <3>3. Fresh(run[q].agent)'
      BY <1>14, <3>1, <3>2 DEF Fresh
    <3> QED
      BY <1>10, <3>1, <3>2, <3>3
  <2> QED
    BY <1>1, <2>1, <2>3, <2>4 DEF Freshness
<1>16. BrowsersFollowAgents'
  <2>1. \A h \in Holders : held[h] # None => held[h] \in Agents \ {a}
    BY <1>2, StoppersKnow
  <2>2. InstalledIsUsable'
    BY <1>1, <1>3, <2>1 DEF BrowsersFollowAgents, InstalledIsUsable
  <2>3. \A b : b \in BeingStarted <=> b \in BeingStarted'
    BY <1>9 DEF BeingStarted
  <2>4. a \in BeingStarted
    BY <1>1, <1>2, StartedAgents
  <2>5. \A b : BeingStopped(b) <=> BeingStopped(b)'
    BY <1>1 DEF BeingStopped, Stoppers
  <2>6. BrowsersAreReachable'
    BY <1>1, <1>3, <2>3, <2>4, <2>5 DEF BrowsersFollowAgents, BrowsersAreReachable
  <2> QED
    BY <2>2, <2>6 DEF BrowsersFollowAgents
<1> QED
  BY <1>7, <1>8, <1>12, <1>13, <1>15, <1>16 DEF LifeInv

LEMMA StartFailsHolds ==
  ASSUME LifeInv, NEW r \in Runs, StartFails(r)
  PROVE  LifeInv'
<1>1. /\ LifeTyped /\ Accounts /\ Phases /\ Overlaps /\ Freshness /\ BrowsersFollowAgents
      /\ run[r].pc \in Starting
      /\ UNCHANGED <<held, saved, acked, put, plug, overtaken, rivals>>
  BY DEF LifeInv, StartFails
<1>2. PICK a \in Agents : a = run[r].agent /\ agent[a] \in AgentRecords /\ agent[a].status = "starting"
  BY <1>1, StarterFacts
<1>3. /\ agent' \in [Agents -> AgentRecords] /\ \A b \in Agents : b # a => agent'[b] = agent[b]
      /\ agent'[a].status = "error"
      /\ agent'[a].config = agent[a].config /\ agent'[a].tokens = agent[a].tokens
  <2>1. agent' = [agent EXCEPT ![a].status = "error"]
    BY <1>2 DEF StartFails
  <2> QED
    BY <1>1, <2>1, ChangedStatus
<1>4. lost' = lost \cup {a}
  BY <1>2 DEF StartFails
<1> DEFINE new == [run[r] EXCEPT !.pc = "raised"]
<1>5. /\ new \in RunRecords /\ new.pc = "raised" /\ new.agent = a /\ new.holder = run[r].holder
      /\ new.own = 0 /\ new.tokens = 0 /\ new.steps = 0
  BY <1>1, <1>2, StarterFacts, Phrases DEF RunRecords
<1>6. run' = [run EXCEPT ![r] = new]
  BY DEF StartFails
<1> HIDE DEF new
<1>7. /\ run' \in [Runs -> RunRecords] /\ run'[r] = new
      /\ \A q \in Runs : q # r => run'[q] = run[q]
  BY <1>1, <1>5, <1>6 DEF LifeTyped
<1>8. LifeTyped'
  BY <1>1, <1>3, <1>7 DEF LifeTyped
<1>9. Accounts'
  <2>1. \A b \in Agents : /\ agent[b].status # "unused" =>
                                agent'[b].tokens = agent[b].tokens /\ agent'[b].status # "unused"
                          /\ b = new.agent => agent'[b].status # "unused"
    BY <1>3, <1>5
  <2>2. new.pc \in Starting \cup {"raised"} /\ run[r].pc \in {"idle"} \cup Starting
    BY <1>1, <1>5
  <2> QED
    BY <1>1, <1>5, <1>6, <2>1, <2>2, AccountsOfAStart
<1>10. /\ "raised" \notin Starting /\ "raised" \notin InTask /\ "raised" # "stealth"
       /\ \A q \in Runs : run'[q].pc \in Starting \cup InTask => q # r /\ run'[q] = run[q]
  BY <1>5, <1>7, Phrases
<1>11. \A q \in Runs : q # r /\ run[q].pc \in Starting => run[q].agent \in Agents \ {a}
  BY <1>1, <1>2, StarterFacts DEF Phases
<1>12. \A h \in Holders : held[h] # None => held[h] \in Agents \ {a}
  BY <1>2, StoppersKnow, StrangersToStarts
<1>13. Phases'
  <2>1. \A h \in Holders : held[h] # None => agent'[held[h]] = agent[held[h]]
    BY <1>3, <1>12
  <2>2. \A p \in Puts : put[p].pc = "stopping" => put[p].agent \in Agents /\ agent'[put[p].agent].status \in Gone
    BY <1>2, <1>3, StoppersKnow, StrangersToStarts
  <2>3. plug.pc = "stopping" => plug.agent \in Agents /\ agent'[plug.agent].status \in Gone
    BY <1>2, <1>3, StoppersKnow, StrangersToStarts
  <2>4. \A q \in Runs : run'[q].pc \in Starting => run'[q] = run[q] /\ agent'[run[q].agent] = agent[run[q].agent]
    BY <1>3, <1>10, <1>11
  <2>5. \A q \in Runs : run'[q].pc = "stealth" => run'[q].pc \in Starting
    BY Phrases
  <2> QED
    BY <1>1, <1>10, <2>1, <2>2, <2>3, <2>4, <2>5 DEF Phases, StatusOf
<1>14. Overlaps'
  BY <1>1, <1>10 DEF Overlaps
<1>15. \A b \in Agents : Fresh(b) => Fresh(b)'
  BY <1>1, <1>3 DEF Fresh
<1>16. Freshness'
  <2>1. StaleOnlyIfOvertaken'
    <3>1. \A q \in Runs : run[q].pc \in InTask => run[q].agent \in Agents
      BY <1>1, Phrases DEF Accounts
    <3> QED
      BY <1>1, <1>3, <1>10, <3>1 DEF Freshness, StaleOnlyIfOvertaken
  <2>2. held["plugin"] # None => Fresh(held["plugin"])'
    BY <1>1, <1>12, <1>15, AgentNumbers DEF Freshness, Fresh
  <2>3. ASSUME NEW q \in Runs, run'[q].pc \in Starting
        PROVE  Fresh(run[q].agent)' /\ run'[q].asked <= agent'[run'[q].agent].config
    <3>1. run'[q] = run[q] /\ run[q].pc \in Starting /\ run[q].agent \in Agents \ {a}
      BY <1>10, <1>11, <2>3
    <3>2. Fresh(run[q].agent) /\ run[q].asked <= agent[run[q].agent].config
      BY <3>1, StarterFacts
    <3>3. Fresh(run[q].agent)'
      BY <1>15, <3>1, <3>2 DEF Fresh
    <3> QED
      BY <1>3, <3>1, <3>2, <3>3
  <2> QED
    BY <1>1, <2>1, <2>2, <2>3 DEF Freshness
<1>17. BrowsersFollowAgents'
  <2>1. InstalledIsUsable'
    BY <1>1, <1>3, <1>12 DEF BrowsersFollowAgents, InstalledIsUsable
  <2>2. \A b : b # a /\ b \in BeingStarted => b \in BeingStarted'
    <3>1. \A q \in Runs : run[q].pc \in Starting /\ run[q].agent # a => run'[q] = run[q]
      BY <1>2, <1>7
    <3> QED
      BY <3>1, StartedAgents DEF BeingStarted
  <2>3. \A b : BeingStopped(b) => BeingStopped(b)'
    BY <1>1 DEF BeingStopped, Stoppers
  <2>4. BrowsersAreReachable'
    BY <1>1, <1>3, <1>4, <2>2, <2>3 DEF BrowsersFollowAgents, BrowsersAreReachable
  <2> QED
    BY <2>1, <2>4 DEF BrowsersFollowAgents
<1> QED
  BY <1>8, <1>9, <1>13, <1>14, <1>16, <1>17 DEF LifeInv

\* What a caller meets when it has its agent: the one that was installed, or the one it
\* started, installed by now.  R are the callers with what this one asked for.
Enters(r, a, R) ==
  /\ run[r].pc \in {"idle"} \cup Starting
  /\ run[r].pc \in Starting => run[r].agent = a
  /\ \A q \in Runs : q # r /\ run[q].pc \in Starting => run[q].agent # a
  /\ \A q \in Runs : q # r => R[q] = run[q]
  /\ R[r].own = 0 /\ R[r].tokens = 0 /\ R[r].steps = 0
  /\ R[r].holder = "plugin" => Fresh(a) /\ (a \in overtaken \/ R[r].asked <= agent[a].config)
  /\ \A q \in Runs : q # r /\ run[q].pc \in Starting /\ run[q].holder = R[r].holder => rivals[a] # {}
  /\ held[R[r].holder] \notin {None, a} => rivals[held[R[r].holder]] # {}
  /\ \A h \in Holders : h # R[r].holder => held[h] # a

\* How its step leaves the agents.
EntersWith(r, a, R) ==
  /\ agent' \in [Agents -> AgentRecords] /\ \A b \in Agents : b # a => agent'[b] = agent[b]
  /\ agent'[a].tokens = agent[a].tokens /\ agent'[a].config = agent[a].config
  /\ agent'[a].browser = agent[a].browser /\ agent'[a].status \notin {"unused", "starting"}
  /\ agent[a].status \in Gone => agent'[a].status \in Gone
  /\ plug.pc = "up" => agent'[a].status = "ready" /\ agent'[a].browser
  /\ held' \in [Holders -> Agents \cup {None}] /\ held'[R[r].holder] = a
  /\ \A h \in Holders : h # R[r].holder => held'[h] = held[h]
  /\ run' \in Entered(R, r, a, agent'[a])
  /\ UNCHANGED <<saved, acked, put, plug, overtaken, rivals, lost>>

LEMMA EnteringHolds ==
  ASSUME LifeInv, NEW r \in Runs, NEW a \in Agents, NEW R \in [Runs -> RunRecords],
         Enters(r, a, R), EntersWith(r, a, R)
  PROVE  LifeInv'
<1> USE DEF Enters, EntersWith
<1> DEFINE g == R[r].holder
<1>1. /\ LifeTyped /\ Accounts /\ Phases /\ Overlaps /\ Freshness /\ BrowsersFollowAgents
      /\ a # None /\ agent'[a] \in AgentRecords
  BY AgentNumbers DEF LifeInv
<1>2. g \in Holders
  BY DEF RunRecords
<1>3. /\ run' \in [Runs -> RunRecords]
      /\ run'[r].agent = a /\ run'[r].holder = g /\ run'[r].asked = R[r].asked
      /\ run'[r].pc \in {"navigate", "observe", "act", "failed"}
      /\ \A q \in Runs \ {r} : AsBefore(run'[q], R[q])
  BY <1>1, EntryOfATask
<1>4. \A q \in Runs : q # r =>
        /\ run'[q].pc = run[q].pc /\ run'[q].agent = run[q].agent /\ run'[q].holder = run[q].holder
        /\ run'[q].asked = run[q].asked
  BY <1>3 DEF AsBefore
<1>5. run'[r].pc \notin Starting /\ run'[r].pc # "stealth"
  BY <1>3, Phrases
<1> HIDE DEF g
<1>6. LifeTyped'
  BY <1>1, <1>3 DEF LifeTyped
<1>7. Accounts'
  <2>1. \A b \in Agents : /\ agent'[b].tokens = agent[b].tokens
                          /\ agent[b].status # "unused" => agent'[b].status # "unused"
    OBVIOUS
  <2> QED
    BY <1>1, <2>1, AccountsOfAnEntry
<1>8. \A q \in Runs : run'[q].pc \in Starting =>
        /\ q # r /\ run[q].pc \in Starting /\ run[q].agent \in Agents \ {a}
        /\ agent'[run[q].agent] = agent[run[q].agent]
  BY <1>4, <1>5, StarterFacts
<1>9. \A h \in Holders : h # g /\ held[h] # None => held'[h] = held[h] /\ held[h] \in Agents /\ agent'[held[h]] = agent[held[h]]
  BY StoppersKnow DEF g
<1>10. Phases'
  <2>1. \A h \in Holders : held'[h] # None => agent'[held'[h]].status \notin {"unused", "starting"}
    <3>1. \A h \in Holders : h = g => held'[h] = a
      BY DEF g
    <3>2. \A h \in Holders : h # g => held'[h] = held[h]
      BY DEF g
    <3> QED
      BY <1>9, <3>1, <3>2, StoppersKnow
  <2>2. held'["plugin"] = held'["mcp"] => held'["plugin"] = None
    BY <1>2, AgentNumbers DEF g
  <2>3. \A q \in Runs : run'[q].pc = "stealth" => run'[q].pc \in Starting /\ agent'[run'[q].agent].browser
    BY <1>1, <1>4, <1>5, <1>8, Phrases DEF Phases
  <2>4. \A b \in Agents : agent[b].status \in Gone => agent'[b].status \in Gone
    OBVIOUS
  <2>5. \A q \in Runs : run'[q].pc \in Starting => agent'[run'[q].agent].status = "starting"
    BY <1>4, <1>8, StarterFacts
  <2>6. \A q, s \in Runs : q # s /\ run'[q].pc \in Starting /\ run'[s].pc \in Starting => run'[q].agent # run'[s].agent
    BY <1>1, <1>4, <1>8 DEF Phases
  <2> QED
    BY <2>1, <2>2, <2>3, <2>4, <2>5, <2>6, StoppersKnow DEF Phases, StatusOf
<1>11. Overlaps'
  <2>1. ASSUME NEW q \in Runs, NEW s \in Runs, q # s, run'[q].pc \in Starting, run'[s].pc \in Starting,
               run'[q].holder = run'[s].holder
        PROVE  rivals[run'[s].agent] # {}
    BY <1>1, <1>4, <1>8, <2>1 DEF Overlaps
  <2>2. ASSUME NEW q \in Runs, run'[q].pc \in Starting, held'[run'[q].holder] # None
        PROVE  rivals[held'[run'[q].holder]] # {}
    <3>1. q # r /\ run[q].pc \in Starting /\ run'[q].holder = run[q].holder /\ run[q].holder \in Holders
      BY <1>1, <1>4, <1>8, <2>2 DEF LifeTyped, RunRecords
    <3>2. CASE run[q].holder = g
      BY <3>1, <3>2 DEF g
    <3>3. CASE run[q].holder # g
      <4>1. held'[run[q].holder] = held[run[q].holder]
        BY <3>1, <3>3 DEF g
      <4> QED
        BY <1>1, <2>2, <3>1, <4>1 DEF Overlaps
    <3> QED
      BY <3>2, <3>3
  <2> QED
    BY <2>1, <2>2 DEF Overlaps
<1>12. \A b \in Agents : agent'[b].config = agent[b].config
  OBVIOUS
<1>13. \A b \in Agents : Fresh(b) => Fresh(b)'
  BY <1>12 DEF Fresh
<1>14. StaleOnlyIfOvertaken'
  <2> SUFFICES ASSUME NEW q \in Runs, run'[q].holder = "plugin", run'[q].pc \in InTask,
                      agent'[run'[q].agent].config < run'[q].asked
               PROVE  run'[q].agent \in overtaken
    BY DEF StaleOnlyIfOvertaken
  <2>1. CASE q = r
    <3>1. run'[q].asked = R[r].asked /\ run'[q].agent = a /\ g = "plugin"
      BY <1>3, <2>1
    <3>2. R[r].asked \in Nat /\ agent[a].config \in Nat
      BY <1>1 DEF LifeTyped, AgentRecords, RunRecords
    <3>3. ~(R[r].asked <= agent[a].config)
      BY <1>12, <3>1, <3>2
    <3> QED
      BY <3>1, <3>3 DEF g
  <2>2. CASE q # r
    <3>1. /\ run[q].holder = "plugin" /\ run[q].pc \in InTask
          /\ run'[q].agent = run[q].agent /\ run'[q].asked = run[q].asked
      BY <1>4, <2>2
    <3>2. run[q].agent \in Agents
      BY <1>1, <3>1, Phrases DEF Accounts
    <3> QED
      BY <1>1, <1>12, <3>1, <3>2 DEF Freshness, StaleOnlyIfOvertaken
  <2> QED
    BY <2>1, <2>2
<1>15. Freshness'
  <2>1. held'["plugin"] # None => held'["plugin"] \in Agents /\ Fresh(held'["plugin"])
    <3>1. CASE g = "plugin"
      BY <3>1 DEF g
    <3>2. CASE g # "plugin"
      BY <1>1, <1>9, <3>2, AgentNumbers DEF Freshness, g
    <3> QED
      BY <3>1, <3>2
  <2>2. held'["plugin"] # None => Fresh(held["plugin"])'
    <3>1. \A b \in Agents : b = held'["plugin"] /\ Fresh(b) => Fresh(held["plugin"])'
      BY <1>13 DEF Fresh
    <3> QED
      BY <2>1, <3>1
  <2>3. ASSUME NEW q \in Runs, run'[q].pc \in Starting
        PROVE  Fresh(run[q].agent)' /\ run'[q].asked <= agent'[run'[q].agent].config
    <3>1. /\ run[q].agent \in Agents /\ Fresh(run[q].agent) /\ run[q].asked <= agent[run[q].agent].config
          /\ run'[q].agent = run[q].agent /\ run'[q].asked = run[q].asked
      BY <1>4, <1>8, <2>3, StarterFacts
    <3>2. Fresh(run[q].agent)'
      BY <1>13, <3>1 DEF Fresh
    <3> QED
      BY <1>12, <3>1, <3>2
  <2>4. \A p \in Puts : put'[p].version <= saved'
    BY <1>1 DEF Freshness
  <2> QED
    BY <1>14, <2>2, <2>3, <2>4 DEF Freshness
<1>16. BrowsersFollowAgents'
  <2>1. InstalledIsUsable'
    <3>1. \A h \in Holders : h = g => held'[h] = a
      BY DEF g
    <3>2. \A h \in Holders : h # g => held'[h] = held[h]
      BY DEF g
    <3> QED
      BY <1>1, <1>9, <3>1, <3>2 DEF BrowsersFollowAgents, InstalledIsUsable
  <2>2. \A b : b # a /\ b \in BeingStarted => b \in BeingStarted'
    <3>1. \A q \in Runs : run[q].pc \in Starting /\ run[q].agent # a =>
            run'[q].pc \in Starting /\ run'[q].agent = run[q].agent
      BY <1>4
    <3> QED
      BY <3>1, StartedAgents DEF BeingStarted
  <2>3. \A b : BeingStopped(b) => BeingStopped(b)'
    BY DEF BeingStopped, Stoppers
  <2>4. ASSUME NEW b \in Agents, agent'[b].browser PROVE Reachable(b)'
    <3>1. CASE b = a
      <4>1. held'[g] = b
        BY <3>1 DEF g
      <4> QED
        BY <1>2, <4>1 DEF Reachable
    <3>2. CASE b # a
      <4>1. Reachable(b)
        BY <1>1, <2>4, <3>2 DEF BrowsersFollowAgents, BrowsersAreReachable, Reachable
      <4>2. \A h \in Holders : held[h] = b => held'[h] = b \/ rivals[b] # {}
        <5>1. b # None
          BY AgentNumbers
        <5> QED
          BY <3>2, <5>1
      <4> QED
        BY <2>2, <2>3, <3>2, <4>1, <4>2 DEF Reachable
    <3> QED
      BY <3>1, <3>2
  <2>5. BrowsersAreReachable'
    BY <2>4 DEF BrowsersAreReachable, Reachable
  <2> QED
    BY <2>1, <2>5 DEF BrowsersFollowAgents
<1> QED
  BY <1>6, <1>7, <1>10, <1>11, <1>15, <1>16 DEF LifeInv

LEMMA InstalledHolds ==
  ASSUME LifeInv, NEW r \in Runs, Installed(r)
  PROVE  LifeInv'
<1>1. /\ LifeTyped /\ Phases /\ Overlaps
      /\ run[r].pc = "stealth" /\ run[r].pc \in Starting
      /\ UNCHANGED <<saved, acked, put, plug, overtaken, rivals, lost>>
  BY Phrases DEF LifeInv, Installed
<1>2. PICK a \in Agents : /\ a = run[r].agent /\ agent[a] \in AgentRecords /\ agent[a].status = "starting"
                          /\ Fresh(a) /\ run[r].asked <= agent[a].config
  BY <1>1, StarterFacts DEF Fresh
<1>3. agent[a].browser
  BY <1>1, <1>2 DEF Phases
<1>4. /\ agent' \in [Agents -> AgentRecords] /\ \A b \in Agents : b # a => agent'[b] = agent[b]
      /\ agent'[a].status = "ready" /\ agent'[a].browser = agent[a].browser
      /\ agent'[a].config = agent[a].config /\ agent'[a].tokens = agent[a].tokens
  <2>1. agent' = [agent EXCEPT ![a].status = "ready"]
    BY <1>2 DEF Installed
  <2> QED
    BY <1>1, <2>1, ChangedStatus
<1>5. /\ run \in [Runs -> RunRecords] /\ run[r].holder \in Holders
      /\ run[r].own = 0 /\ run[r].tokens = 0 /\ run[r].steps = 0
  BY <1>1, StarterFacts DEF LifeTyped, RunRecords
<1>6. /\ held' \in [Holders -> Agents \cup {None}] /\ held'[run[r].holder] = a
      /\ \A h \in Holders : h # run[r].holder => held'[h] = held[h]
  <2>1. held' = [held EXCEPT ![run[r].holder] = a] /\ held \in [Holders -> Agents \cup {None}]
    BY <1>1, <1>2 DEF Installed, LifeTyped
  <2> QED
    BY <1>5, <2>1
<1>7. \A h \in Holders : held[h] # a
  BY <1>2, StrangersToStarts
<1>8. run' \in Entered(run, r, a, agent'[a])
  BY <1>2 DEF Installed
<1>9. /\ \A q \in Runs : q # r /\ run[q].pc \in Starting => run[q].agent # a
      /\ \A q \in Runs : q # r /\ run[q].pc \in Starting /\ run[q].holder = run[r].holder => rivals[a] # {}
      /\ held[run[r].holder] \notin {None, a} => rivals[held[run[r].holder]] # {}
  BY <1>1, <1>2 DEF Phases, Overlaps
<1>10. agent[a].status \in Gone => agent'[a].status \in Gone
  BY <1>2 DEF Gone
<1> QED
  <2>1. Enters(r, a, run)
    BY <1>1, <1>2, <1>5, <1>7, <1>9 DEF Enters
  <2>2. EntersWith(r, a, run)
    BY <1>1, <1>2, <1>3, <1>4, <1>6, <1>8, <1>10 DEF EntersWith
  <2> QED
    BY <1>5, <2>1, <2>2, EnteringHolds

\* The caller finds an agent installed.
LEMMA JoinHolds ==
  ASSUME LifeInv, NEW r \in Runs, NEW h \in Holders, NEW k \in Kinds, Ask(r, h, k), held[h] # None
  PROVE  LifeInv'
<1> DEFINE asking == [run[r] EXCEPT !.holder = h, !.kind = k, !.asked = acked]
           R == [run EXCEPT ![r] = asking]
<1>1. /\ LifeTyped /\ Phases /\ Overlaps /\ Freshness /\ run[r].pc = "idle"
      /\ UNCHANGED <<agent, held, saved, acked, put, plug, overtaken, rivals, lost>>
  BY DEF LifeInv, Ask
<1>2. PICK a \in Agents : /\ a = held[h] /\ agent[a].status \notin {"unused", "starting"}
                          /\ plug.pc = "up" => agent[a].status = "ready"
  BY StoppersKnow
<1>3. plug.pc = "up" => agent[a].browser
  BY <1>2, AgentNumbers DEF LifeInv, BrowsersFollowAgents, InstalledIsUsable
<1>4. /\ run \in [Runs -> RunRecords] /\ run[r] \in RunRecords
      /\ run[r].own = 0 /\ run[r].tokens = 0 /\ run[r].steps = 0 /\ acked \in Nat
      /\ agent \in [Agents -> AgentRecords] /\ held \in [Holders -> Agents \cup {None}]
  BY <1>1, StarterFacts DEF LifeTyped
<1>5. /\ asking \in RunRecords /\ asking.holder = h /\ asking.asked = acked
      /\ asking.own = 0 /\ asking.tokens = 0 /\ asking.steps = 0
  BY <1>4 DEF RunRecords
<1>6. run' \in Entered(R, r, a, agent'[a])
  BY <1>1, <1>2, <1>4 DEF Ask
<1> HIDE DEF asking
<1>7. /\ R \in [Runs -> RunRecords] /\ R[r] = asking /\ \A q \in Runs : q # r => R[q] = run[q]
  BY <1>4, <1>5
<1> HIDE DEF R
<1>8. h = "plugin" => Fresh(a) /\ (a \in overtaken \/ acked <= agent[a].config)
  BY <1>1, <1>2, AgentNumbers DEF Freshness, Fresh
<1>9. \A q \in Runs : q # r /\ run[q].pc \in Starting => run[q].agent # a
  BY <1>2, StarterFacts
<1>10. \A q \in Runs : q # r /\ run[q].pc \in Starting /\ run[q].holder = h => rivals[a] # {}
  BY <1>1, <1>2, AgentNumbers DEF Overlaps
<1>11. \A g \in Holders : g # h => held[g] # a
  BY <1>1, <1>2, AgentNumbers DEF Phases
<1>12. "idle" \notin Starting
  BY Phrases
<1>13. Enters(r, a, R)
  BY <1>1, <1>2, <1>5, <1>7, <1>8, <1>9, <1>10, <1>11, <1>12 DEF Enters
<1>14. EntersWith(r, a, R)
  BY <1>1, <1>2, <1>3, <1>4, <1>5, <1>6, <1>7 DEF EntersWith
<1> QED
  BY <1>7, <1>13, <1>14, EnteringHolds

\* The caller finds none, and starts one.
LEMMA BuildHolds ==
  ASSUME LifeInv, NEW r \in Runs, NEW h \in Holders, NEW k \in Kinds, Ask(r, h, k), held[h] = None
  PROVE  LifeInv'
<1>1. /\ LifeTyped /\ Accounts /\ Phases /\ Overlaps /\ Freshness /\ BrowsersFollowAgents
      /\ run[r].pc = "idle" /\ "idle" \notin Starting
      /\ UNCHANGED <<held, saved, acked, put, plug, overtaken, lost>>
  BY Phrases DEF LifeInv, Ask
<1> DEFINE S == {run[q].agent : q \in {q \in Runs : run[q].pc \in Starting /\ run[q].holder = h}}
           fresh == [NewAgent EXCEPT !.status = "starting", !.config = saved]
<1>2. PICK a \in Agents :
        /\ agent[a].status = "unused" /\ agent' = [agent EXCEPT ![a] = fresh]
        /\ run' = [[run EXCEPT ![r].holder = h, ![r].kind = k, ![r].asked = acked]
                      EXCEPT ![r].pc = "launch", ![r].agent = a]
        /\ rivals' = [b \in Agents |-> IF b = a THEN S
                                       ELSE IF b \in S THEN rivals[b] \cup {a} ELSE rivals[b]]
  <2>1. Unused # {} /\ Unused \in SUBSET Nat
    BY AgentNumbers DEF Ask, Unused
  <2>2. Min(Unused) \in Unused
    BY <2>1, LeastAgent
  <2> QED
    BY <2>2 DEF Ask, Unused
<1> DEFINE new == [run[r] EXCEPT !.holder = h, !.kind = k, !.asked = acked, !.pc = "launch", !.agent = a]
<1>3. /\ saved \in Nat /\ acked \in Nat /\ acked <= saved
      /\ run \in [Runs -> RunRecords] /\ run[r] \in RunRecords
      /\ run[r].own = 0 /\ run[r].tokens = 0 /\ run[r].steps = 0
      /\ agent \in [Agents -> AgentRecords] /\ rivals \in [Agents -> SUBSET Agents]
  BY <1>1, StarterFacts DEF LifeTyped
<1>4. /\ fresh \in AgentRecords /\ fresh.status = "starting" /\ fresh.config = saved /\ ~fresh.browser
  BY <1>3 DEF NewAgent, AgentRecords
<1>5. /\ new \in RunRecords /\ new.pc = "launch" /\ new.pc \in Starting /\ new.agent = a /\ new.holder = h
      /\ new.asked = acked /\ new.own = 0 /\ new.tokens = 0 /\ new.steps = 0
  BY <1>3, Phrases DEF RunRecords
<1>6. run' = [run EXCEPT ![r] = new]
  BY <1>2, <1>3
<1>7. \A b : b \in S <=> \E q \in Runs : run[q].pc \in Starting /\ run[q].holder = h /\ run[q].agent = b
  OBVIOUS
<1> HIDE DEF S, fresh, new
<1>a. agent' \in [Agents -> AgentRecords] /\ agent'[a] = fresh /\ \A b \in Agents : b # a => agent'[b] = agent[b]
  BY <1>2, <1>3, <1>4
<1>b. run' \in [Runs -> RunRecords] /\ run'[r] = new /\ \A q \in Runs : q # r => run'[q] = run[q]
  BY <1>3, <1>5, <1>6
<1>8. /\ agent' \in [Agents -> AgentRecords] /\ agent'[a] = fresh /\ \A b \in Agents : b # a => agent'[b] = agent[b]
      /\ run' \in [Runs -> RunRecords] /\ run'[r] = new /\ \A q \in Runs : q # r => run'[q] = run[q]
  BY <1>a, <1>b
<1>9. \A q \in Runs : run[q].pc # "idle" => run[q].agent \in Agents \ {a}
  BY <1>1, <1>2 DEF Accounts, StatusOf
<1>10. \A b \in S : b \in Agents
  BY <1>7, <1>9, <1>1
<1>11. /\ rivals'[a] = S /\ \A b \in Agents \ {a} : rivals[b] \subseteq rivals'[b] /\ (b \in S => rivals'[b] # {})
       /\ rivals' \in [Agents -> SUBSET Agents]
  BY <1>2, <1>3, <1>10
<1>12. LifeTyped'
  BY <1>1, <1>8, <1>11 DEF LifeTyped
<1>13. Accounts'
  <2>1. \A b \in Agents : /\ agent[b].status # "unused" =>
                                agent'[b].tokens = agent[b].tokens /\ agent'[b].status # "unused"
                          /\ b = new.agent => agent'[b].status # "unused"
    BY <1>2, <1>4, <1>5, <1>8
  <2>2. new.pc \in Starting \cup {"raised"} /\ run[r].pc \in {"idle"} \cup Starting
    BY <1>1, <1>5
  <2> QED
    BY <1>1, <1>5, <1>6, <2>1, <2>2, AccountsOfAStart
<1>14. \A g \in Holders : held[g] # None => held[g] \in Agents \ {a}
  BY <1>2, StoppersKnow
<1>15. Phases'
  <2>1. \A g \in Holders : held[g] # None => agent'[held[g]] = agent[held[g]]
    BY <1>8, <1>14
  <2>2. \A p \in Puts : put[p].pc = "stopping" => put[p].agent \in Agents /\ agent'[put[p].agent].status \in Gone
    BY <1>2, <1>8, StoppersKnow, StrangersToStarts
  <2>3. plug.pc = "stopping" => plug.agent \in Agents /\ agent'[plug.agent].status \in Gone
    BY <1>2, <1>8, StoppersKnow, StrangersToStarts
  <2>4. \A q \in Runs : q # r /\ run'[q].pc \in Starting =>
          run'[q] = run[q] /\ run[q].agent \in Agents \ {a} /\ agent'[run[q].agent] = agent[run[q].agent]
    BY <1>8, <1>9, Phrases
  <2>5. \A q \in Runs : run'[q].pc = "stealth" => q # r /\ run'[q].pc \in Starting
    BY <1>5, <1>8, Phrases
  <2>6. \A q \in Runs : run'[q].pc \in Starting => agent'[run'[q].agent].status = "starting"
    BY <1>1, <1>4, <1>5, <1>8, <2>4 DEF Phases, StatusOf
  <2>7. \A q, s \in Runs : q # s /\ run'[q].pc \in Starting /\ run'[s].pc \in Starting => run'[q].agent # run'[s].agent
    BY <1>1, <1>5, <1>8, <2>4 DEF Phases
  <2>8. \A q \in Runs : run'[q].pc = "stealth" => agent'[run'[q].agent].browser
    BY <1>1, <2>4, <2>5 DEF Phases
  <2> QED
    BY <1>1, <2>1, <2>2, <2>3, <2>6, <2>7, <2>8 DEF Phases, StatusOf
<1>16. Overlaps'
  <2>1. ASSUME NEW q \in Runs, NEW s \in Runs, q # s, run'[q].pc \in Starting, run'[s].pc \in Starting,
               run'[q].holder = run'[s].holder
        PROVE  rivals'[run'[s].agent] # {}
    <3>1. CASE s = r
      <4>1. run'[q] = run[q] /\ run[q].holder = h /\ run'[s].agent = a
        BY <1>5, <1>8, <2>1, <3>1
      <4>2. run[q].agent \in S
        BY <1>7, <2>1, <4>1
      <4> QED
        BY <1>11, <4>1, <4>2
    <3>2. CASE q = r
      <4>1. run'[s] = run[s] /\ run[s].holder = h
        BY <1>5, <1>8, <2>1, <3>2
      <4>2. run[s].agent \in S /\ run[s].agent \in Agents \ {a}
        BY <1>1, <1>7, <1>9, <2>1, <4>1
      <4> QED
        BY <1>11, <4>1, <4>2
    <3>3. CASE q # r /\ s # r
      <4>1. run'[q] = run[q] /\ run'[s] = run[s] /\ run[s].agent \in Agents \ {a}
        BY <1>1, <1>8, <1>9, <2>1, <3>3
      <4>2. rivals[run[s].agent] # {}
        BY <1>1, <2>1, <4>1 DEF Overlaps
      <4> QED
        BY <1>11, <4>1, <4>2
    <3> QED
      BY <3>1, <3>2, <3>3
  <2>2. ASSUME NEW q \in Runs, run'[q].pc \in Starting, held[run'[q].holder] # None
        PROVE  rivals'[held[run'[q].holder]] # {}
    <3>1. q # r /\ run'[q] = run[q] /\ run[q].holder \in Holders
      BY <1>3, <1>5, <1>8, <2>2 DEF RunRecords
    <3>2. rivals[held[run[q].holder]] # {} /\ held[run[q].holder] \in Agents \ {a}
      BY <1>1, <1>14, <2>2, <3>1 DEF Overlaps
    <3> QED
      BY <1>11, <3>1, <3>2
  <2> QED
    BY <1>1, <2>1, <2>2 DEF Overlaps
<1>17. \A b \in Agents \ {a} : Fresh(b) => Fresh(b)'
  BY <1>1, <1>8 DEF Fresh
<1>18. Freshness'
  <2>1. StaleOnlyIfOvertaken'
    <3>1. \A q \in Runs : run'[q].pc \in InTask => q # r /\ run'[q] = run[q] /\ run[q].agent \in Agents \ {a}
      BY <1>5, <1>8, <1>9, Phrases
    <3> QED
      BY <1>1, <1>8, <3>1 DEF Freshness, StaleOnlyIfOvertaken
  <2>2. held["plugin"] # None => Fresh(held["plugin"])'
    BY <1>1, <1>14, <1>17, AgentNumbers DEF Freshness, Fresh
  <2>3. Fresh(a)'
    <3>1. agent'[a].config = saved
      BY <1>4, <1>8
    <3>2. \A p \in Puts : put'[p].version <= saved
      BY <1>1, StoppersKnow
    <3> QED
      BY <1>1, <1>3, <3>1, <3>2 DEF Fresh
  <2>4. ASSUME NEW q \in Runs, run'[q].pc \in Starting
        PROVE  Fresh(run[q].agent)' /\ run'[q].asked <= agent'[run'[q].agent].config
    <3>1. CASE q = r
      <4>1. run'[q].agent = a /\ run'[q].asked = acked /\ agent'[a].config = saved
        BY <1>4, <1>5, <1>8, <3>1
      <4> QED
        BY <1>3, <2>3, <4>1 DEF Fresh
    <3>2. CASE q # r
      <4>1. /\ run'[q] = run[q] /\ run[q].pc \in Starting /\ run[q].agent \in Agents \ {a}
        BY <1>1, <1>8, <1>9, <2>4, <3>2
      <4>2. Fresh(run[q].agent) /\ run[q].asked <= agent[run[q].agent].config
        BY <4>1, StarterFacts
      <4>3. Fresh(run[q].agent)'
        BY <1>17, <4>1, <4>2 DEF Fresh
      <4> QED
        BY <1>8, <4>1, <4>2, <4>3 DEF Fresh
    <3> QED
      BY <3>1, <3>2
  <2>5. \A p \in Puts : put'[p].version <= saved'
    BY <1>1 DEF Freshness
  <2> QED
    BY <1>1, <2>1, <2>2, <2>4, <2>5 DEF Freshness, Fresh
<1>19. BrowsersFollowAgents'
  <2>1. InstalledIsUsable'
    BY <1>1, <1>8, <1>14 DEF BrowsersFollowAgents, InstalledIsUsable
  <2>2. \A b : b \in BeingStarted => b \in BeingStarted'
    <3>1. \A q \in Runs : run[q].pc \in Starting => run'[q] = run[q]
      BY <1>1, <1>8
    <3> QED
      BY <3>1, StartedAgents DEF BeingStarted
  <2>3. \A b : BeingStopped(b) => BeingStopped(b)'
    BY <1>1 DEF BeingStopped, Stoppers
  <2>4. \A b \in Agents : agent'[b].browser => b # a /\ agent[b].browser
    BY <1>4, <1>8
  <2>5. BrowsersAreReachable'
    BY <1>1, <1>11, <2>2, <2>3, <2>4 DEF BrowsersFollowAgents, BrowsersAreReachable
  <2> QED
    BY <2>1, <2>5 DEF BrowsersFollowAgents
<1> QED
  BY <1>12, <1>13, <1>15, <1>16, <1>18, <1>19 DEF LifeInv
-----------------------------------------------------------------------------
(* The theorems. *)

LEMMA LifeStart == LifeInit => LifeInv
<1> SUFFICES ASSUME LifeInit PROVE LifeInv
  OBVIOUS
<1>1. NewAgent \in AgentRecords /\ NewAgent.status = "unused" /\ ~NewAgent.browser
  BY DEF NewAgent, AgentRecords
<1>2. NewRun \in RunRecords /\ NewRun.pc = "idle" /\ NewRun.own = 0 /\ NewRun.tokens = 0 /\ NewRun.steps = 0
  BY BoundsAssumption, AgentNumbers DEF NewRun, RunRecords, Kinds
<1>3. [pc |-> "idle", agent |-> None, version |-> 0] \in PutRecords
  BY DEF PutRecords
<1>4. [pc |-> "up", agent |-> None] \in PlugRecords
  BY DEF PlugRecords
<1>5. /\ \A h \in Holders : held[h] = None
      /\ \A a \in Agents : agent[a] = NewAgent
      /\ \A p \in Puts : put[p].pc = "idle" /\ put[p].version = 0
      /\ \A r \in Runs : run[r] = NewRun
      /\ plug.pc = "up" /\ saved = 0 /\ acked = 0
  BY DEF LifeInit
<1>6. LifeTyped
  BY <1>1, <1>2, <1>3, <1>4 DEF LifeTyped, LifeInit
<1>7. "idle" \notin Starting /\ "idle" \notin InTask /\ "idle" # "stealth"
  BY DEF Starting, InTask
<1>8. Accounts
  <2>1. \A s : Balanced(NewRun, s)
    BY <1>2, <1>7 DEF Balanced
  <2> QED
    BY <1>2, <1>5, <1>7, <2>1 DEF Accounts, Shared
<1>9. Phases /\ Overlaps
  BY <1>2, <1>5, <1>7, AgentNumbers DEF Phases, Overlaps
<1>10. Freshness
  BY <1>2, <1>5, <1>7, AgentNumbers DEF Freshness, StaleOnlyIfOvertaken
<1>11. BrowsersFollowAgents
  BY <1>1, <1>5 DEF BrowsersFollowAgents, InstalledIsUsable, BrowsersAreReachable
<1> QED
  BY <1>6, <1>8, <1>9, <1>10, <1>11 DEF LifeInv

LEMMA LifeStands == LifeInv /\ UNCHANGED lifeVars => LifeInv'
BY DEF lifeVars, LifeInv, LifeTyped, Accounts, Balanced, Shared, Phases, StatusOf, Overlaps, Freshness, Fresh,
       StaleOnlyIfOvertaken, BrowsersFollowAgents, InstalledIsUsable, BrowsersAreReachable,
       BeingStarted, BeingStopped, Stoppers

LEMMA LifeSteps == LifeInv /\ [LifeNext]_lifeVars => LifeInv'
<1> SUFFICES ASSUME LifeInv, LifeNext PROVE LifeInv'
  BY LifeStands
<1>1. CASE \E r \in Runs : \E h \in Holders, k \in Kinds : Ask(r, h, k)
  BY <1>1, JoinHolds, BuildHolds
<1>2. CASE \E r \in Runs : Start(r)
  BY <1>2, LaunchHolds, InstalledHolds, StartFailsHolds DEF Start
<1>3. CASE \E r \in Runs : Loop(r)
  BY <1>3, LoopKeepsLife
<1>4. CASE \E p \in Puts : Save(p) \/ SaveFails(p) \/ PutSteps(p)
  BY <1>4, SaveHolds, SaveFailsHolds, PutStepsHold
<1>5. CASE Closing
  BY <1>5, BrowserClosesHolds DEF Closing
<1>6. CASE Shutdown \/ EndShutdown \/ ShutdownFails
  BY <1>6, ShutdownHolds, ShutdownEndsHolds
<1> QED
  BY <1>1, <1>2, <1>3, <1>4, <1>5, <1>6 DEF LifeNext

\* The inductive invariant of the agents' life: types, accounts, phases, overlaps and freshness
\* hold of every state, for any number of callers, saves and agents.
THEOREM LifeIsInvariant == LifeSpec => []LifeInv
BY LifeStart, LifeSteps, PTL DEF LifeSpec

\* Every variable keeps its type, and a request is never answered for a save that did not
\* happen (plugin.py, invalidate_agent).
THEOREM LifeTypeCorrectness == LifeSpec => []LifeTypeOK
<1>1. LifeInv => LifeTypeOK
  BY TypesAgree DEF LifeInv
<1> QED
  BY <1>1, LifeIsInvariant, PTL

\* A run works with preferences older than those saved before it asked only if its agent was
\* being started while they were saved (plugin.py, invalidate_agent, get_or_start_agent).
THEOREM StalenessHasACause == LifeSpec => []StaleOnlyIfOvertaken
<1>1. LifeInv => StaleOnlyIfOvertaken
  BY DEF LifeInv, Freshness
<1> QED
  BY <1>1, LifeIsInvariant, PTL

\* An installed agent has its browser until the shutdown, and a browser that nobody can stop
\* any more is one of the named accidents: a failed start or stop, two starts at a time, a
\* start during the shutdown (plugin.py, get_or_start_agent, shutdown; browser/tools.py).
THEOREM BrowsersHaveAgents == LifeSpec => []BrowsersFollowAgents
<1>1. LifeInv => BrowsersFollowAgents
  BY DEF LifeInv
<1> QED
  BY <1>1, LifeIsInvariant, PTL

\* However many runs share an agent, each is charged at least its own vision calls, and
\* exactly those when it had the agent to itself (browser/agent.py, execute).
THEOREM TokensAreCharged == LifeSpec => []OwnTokensAreCharged
<1>1. LifeInv => OwnTokensAreCharged
  BY DEF LifeInv, Accounts, Balanced, OwnTokensAreCharged
<1> QED
  BY <1>1, LifeIsInvariant, PTL
=============================================================================
