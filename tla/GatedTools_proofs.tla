-------------------------- MODULE GatedTools_proofs --------------------------
(***************************************************************************)
(* Proofs about GatedTools, for any calls, tool maps, tools, policies and  *)
(* batch size: type correctness, the two promises about what reaches the   *)
(* host, where audit entries are, and what replies say about them.         *)
(*                                                                         *)
(* The properties are not inductive alone.  That a call still runs under   *)
(* the policy it was checked against needs that its map was built before   *)
(* and is never built again; that its approval is its own, that a call     *)
(* which has not begun has asked nothing; and that an approval suffices,   *)
(* that the checks came before the request.                                *)
(***************************************************************************)
EXTENDS GatedTools, SequenceTheorems, TLAPS

\* A call that has begun runs on a map that was built; one that has not has asked
\* nothing and touched nothing.
CallsAreBound ==
  \A c \in Calls :
    /\ phase[c] # "idle" => map[c] \in held \union discarded /\ tool[c] \in Tools
    /\ phase[c] = "idle" => decision[c] = "none"
    /\ phase[c] \in {"idle", "parked"} => c \notin reached /\ answer[c] = "none"
    /\ phase[c] \in {"acting", "verifying"} =>
         c \in reached /\ answer[c] \in {"none", "approved"}

\* A parked call passed its checks before it asked.
ParkedWasChecked ==
  \A c \in Calls : phase[c] = "parked" => Allows(PolicyOf(c), tool[c])

\* Of a call that has not come to its action nothing is recorded, and a call that
\* verifies what it did has recorded that it was done.
EntriesFollowTheAction ==
  /\ \A e \in recorded : phase[e[1]] \notin {"idle", "parked"}
  /\ \A c \in Calls : phase[c] = "verifying" => <<c, "done">> \in recorded

GateType == /\ decision \in [Calls -> {"none", "pending", "approved", "denied", "timed_out"}]
            /\ answer \in [Calls -> {"none", "approved", "denied", "timed_out"}]

HostInv == /\ TypeOK /\ GateType
           /\ CallsAreBound
           /\ ParkedWasChecked
           /\ EntriesFollowTheAction
           /\ NoActionWithoutApproval
           /\ NoActionAgainstItsPolicy
           /\ EntriesSurviveFlushes
           /\ RepliesAreBackedByEntries
-----------------------------------------------------------------------------
(* Lemmas about sequences of entries and about AuditLogger.record. *)

LEMMA ToSetOfAppend ==
  ASSUME NEW S, NEW s \in Seq(S), NEW e \in S
  PROVE  ToSet(Append(s, e)) = ToSet(s) \union {e}
<1>1. /\ Append(s, e) \in Seq(S) /\ Len(Append(s, e)) = Len(s) + 1
      /\ \A i \in 1 .. Len(s) : Append(s, e)[i] = s[i]
      /\ Append(s, e)[Len(s) + 1] = e
  BY AppendProperties
<1>2. DOMAIN s = 1 .. Len(s) /\ DOMAIN Append(s, e) = 1 .. Len(s) + 1 /\ Len(s) \in Nat
  BY <1>1, LenProperties
<1>3. 1 .. Len(s) + 1 = 1 .. Len(s) \union {Len(s) + 1}
  BY <1>2
<1> QED
  BY <1>1, <1>2, <1>3 DEF ToSet

LEMMA ToSetOfConcat ==
  ASSUME NEW S, NEW s \in Seq(S), NEW t \in Seq(S)
  PROVE  ToSet(s \o t) = ToSet(s) \union ToSet(t)
<1>1. Range(s \o t) = Range(s) \union Range(t)
  BY RangeConcatenation
<1> QED
  BY <1>1 DEF Range, ToSet

\* What one call of record does to the log, whichever way it ends: the entry is in
\* the file or in the buffer of its map, and nothing that was there is gone.
LogGrows(m, e) ==
  /\ recorded' = recorded \union {e}
  /\ lost' = lost
  /\ buffer' \in [Maps -> Seq(Entries)]
  /\ auditFile' \in Seq(Entries)
  /\ ToSet(auditFile) \subseteq ToSet(auditFile')
  /\ \A n \in Maps : ToSet(buffer[n]) \subseteq ToSet(buffer'[n]) \union ToSet(auditFile')
  /\ e \in ToSet(buffer'[m]) \union ToSet(auditFile')

LEMMA RecordGrowsTheLog ==
  ASSUME TypeOK, NEW m \in Maps, NEW e \in Entries,
         Record(m, e) \/ RecordAndFlush(m, e) \/ RecordAndFailToFlush(m, e)
  PROVE  LogGrows(m, e)
<1>1. buffer \in [Maps -> Seq(Entries)] /\ auditFile \in Seq(Entries)
  BY DEF TypeOK
<1>2. /\ Append(buffer[m], e) \in Seq(Entries)
      /\ ToSet(Append(buffer[m], e)) = ToSet(buffer[m]) \union {e}
  BY <1>1, AppendProperties, ToSetOfAppend
<1>3. CASE Record(m, e)
  BY <1>1, <1>2, <1>3 DEF Record, LogGrows
<1>4. CASE RecordAndFlush(m, e)
  <2>1. /\ auditFile' \in Seq(Entries)
        /\ ToSet(auditFile') = ToSet(auditFile) \union ToSet(buffer[m]) \union {e}
    <3> DEFINE batch == Append(buffer[m], e)
    <3>1. batch \in Seq(Entries) /\ auditFile' = auditFile \o batch
      BY <1>2, <1>4 DEF RecordAndFlush
    <3>2. ToSet(batch) = ToSet(buffer[m]) \union {e}
      BY <1>2
    <3> HIDE DEF batch
    <3> QED
      BY <1>1, <3>1, <3>2, ConcatProperties, ToSetOfConcat
  <2>2. buffer' \in [Maps -> Seq(Entries)]
    BY <1>1, <1>4, EmptySeq DEF RecordAndFlush
  <2> QED
    BY <1>1, <1>4, <2>1, <2>2 DEF RecordAndFlush, LogGrows
<1>5. CASE RecordAndFailToFlush(m, e)
  <2>1. PICK written \in 0 .. Len(buffer[m]) :
          auditFile' = auditFile \o SubSeq(buffer[m], 1, written)
    BY <1>5 DEF RecordAndFailToFlush
  <2>2. \A i \in 1 .. written : buffer[m][i] \in Entries
    BY <1>1, <2>1, ElementOfSeq, LenProperties
  <2>3. SubSeq(buffer[m], 1, written) \in Seq(Entries)
    BY <1>1, <2>1, <2>2, LenProperties, SubSeqProperties
  <2>4. /\ auditFile' \in Seq(Entries)
        /\ ToSet(auditFile) \subseteq ToSet(auditFile')
    <3> DEFINE part == SubSeq(buffer[m], 1, written)
    <3>1. part \in Seq(Entries) /\ auditFile' = auditFile \o part
      BY <2>1, <2>3
    <3> HIDE DEF part
    <3> QED
      BY <1>1, <3>1, ConcatProperties, ToSetOfConcat
  <2> QED
    BY <1>1, <1>2, <1>5, <2>4 DEF RecordAndFailToFlush, LogGrows
<1> QED
  BY <1>3, <1>4, <1>5

\* A call that ends with an entry has ended and left it, whatever the disk did.
LEMMA EndWithEntryGrowsTheLog ==
  ASSUME TypeOK, NEW c \in Calls, map[c] \in Maps, NEW kind, <<c, kind>> \in Entries,
         NEW answered \in {"success", "denied", "error"}, EndWithEntry(c, kind, answered)
  PROVE  /\ LogGrows(map[c], <<c, kind>>)
         /\ phase' = [phase EXCEPT ![c] = "ended"]
         /\ \E a \in {answered, "error"} : reply' = [reply EXCEPT ![c] = a]
BY RecordGrowsTheLog DEF EndWithEntry, End
-----------------------------------------------------------------------------
(* The invariant: what several kinds of step have in common. *)

\* An entry about a call that has begun is found again, and so are all others.
LEMMA EntriesStayFound ==
  ASSUME HostInv, NEW c \in Calls, phase[c] # "idle", NEW e \in Entries, e[1] = c,
         LogGrows(map[c], e), UNCHANGED <<map, discarded>>
  PROVE  EntriesSurviveFlushes'
<1>1. \A f \in recorded : f \in Entries /\ f[1] \in Calls /\ map[f[1]] \in Maps
  BY DEF HostInv, TypeOK, CallsAreBound, EntriesFollowTheAction, Entries
<1> QED
  BY <1>1 DEF HostInv, EntriesSurviveFlushes, LogGrows

\* Binding a call that has not begun to a tool and a map moves no entry.
LEMMA BindingMovesNoEntry ==
  ASSUME HostInv, NEW c \in Calls, phase[c] = "idle", NEW m \in Maps,
         map' = [map EXCEPT ![c] = m], UNCHANGED <<audit, discarded>>
  PROVE  EntriesSurviveFlushes'
<1>1. \A e \in recorded : e[1] \in Calls /\ e[1] # c
  BY DEF HostInv, TypeOK, EntriesFollowTheAction, Entries
<1>2. \A e \in recorded : map'[e[1]] = map[e[1]]
  BY <1>1 DEF HostInv, TypeOK
<1> QED
  BY <1>2 DEF HostInv, EntriesSurviveFlushes, audit

LEMMA InitHostInv == Init => HostInv
<1> SUFFICES ASSUME Init PROVE HostInv
  OBVIOUS
<1>1. TypeOK /\ GateType
  BY EmptySeq DEF Init, TypeOK, GateType, Gate!Init
<1> QED
  BY <1>1 DEF Init, Gate!Init, HostInv, CallsAreBound, ParkedWasChecked,
     EntriesFollowTheAction, NoActionWithoutApproval, NoActionAgainstItsPolicy,
     EntriesSurviveFlushes, RepliesAreBackedByEntries
-----------------------------------------------------------------------------
(* The invariant: policies and maps. *)

LEMMA BuildMapKeepsHostInv ==
  ASSUME HostInv, NEW m \in Maps, BuildMap(m)
  PROVE  HostInv'
<1>1. TypeOK' /\ GateType'
  BY DEF HostInv, TypeOK, GateType, BuildMap, calls, audit, gate
<1>2. \A c \in Calls : phase[c] # "idle" => PolicyOf(c)' = PolicyOf(c)
  BY DEF HostInv, TypeOK, CallsAreBound, BuildMap, PolicyOf, calls
<1>3. CallsAreBound' /\ EntriesFollowTheAction' /\ EntriesSurviveFlushes'
      /\ RepliesAreBackedByEntries'
  BY DEF HostInv, CallsAreBound, EntriesFollowTheAction, EntriesSurviveFlushes,
         RepliesAreBackedByEntries, BuildMap, calls, audit, gate
<1>4. ParkedWasChecked' /\ NoActionWithoutApproval' /\ NoActionAgainstItsPolicy'
  BY <1>2 DEF HostInv, TypeOK, CallsAreBound, ParkedWasChecked, NoActionWithoutApproval,
              NoActionAgainstItsPolicy, BuildMap, calls, gate
<1> QED
  BY <1>1, <1>3, <1>4 DEF HostInv

LEMMA DiscardMapKeepsHostInv ==
  ASSUME HostInv, NEW m \in Maps, DiscardMap(m)
  PROVE  HostInv'
<1>1. TypeOK' /\ GateType'
  <2>1. lost' \subseteq Entries
    BY RangeOfSeq DEF HostInv, TypeOK, DiscardMap, ToSet, Range
  <2> QED
    BY <2>1, EmptySeq DEF HostInv, TypeOK, GateType, DiscardMap, calls, gate
<1>2. CallsAreBound' /\ ParkedWasChecked' /\ EntriesFollowTheAction'
      /\ NoActionWithoutApproval' /\ NoActionAgainstItsPolicy' /\ RepliesAreBackedByEntries'
  BY DEF HostInv, CallsAreBound, ParkedWasChecked, EntriesFollowTheAction,
         NoActionWithoutApproval, NoActionAgainstItsPolicy, RepliesAreBackedByEntries,
         PolicyOf, DiscardMap, calls, gate
<1>3. EntriesSurviveFlushes'
  <2> SUFFICES ASSUME NEW e \in recorded
               PROVE  \/ e \in ToSet(auditFile)
                      \/ e \in ToSet(buffer'[map[e[1]]])
                      \/ e \in lost' /\ map[e[1]] \in discarded'
    BY DEF EntriesSurviveFlushes, DiscardMap, calls
  <2>1. map[e[1]] \in Maps
    BY DEF HostInv, TypeOK, CallsAreBound, EntriesFollowTheAction, Entries
  <2> QED
    BY <2>1 DEF HostInv, TypeOK, EntriesSurviveFlushes, DiscardMap
<1> QED
  BY <1>1, <1>2, <1>3 DEF HostInv
-----------------------------------------------------------------------------
(* The invariant: the beginning of a call. *)

\* Bad arguments are replied as the table says, never with a success.
LEMMA BadArgsReply ==
  \A t \in Tools : ToolSpec[t].badArgs \in {"none", "denied", "error"}
<1>1. Tools \subseteq DOMAIN ToolSpec
  BY ToolsAreKnown
<1>2. \A t \in DOMAIN ToolSpec : ToolSpec[t].badArgs \in {"none", "denied", "error"}
  BY DEF ToolSpec, Kind
<1> QED
  BY <1>1, <1>2

LEMMA RefuseKeepsHostInv ==
  ASSUME HostInv, NEW c \in Calls, NEW t \in Tools, NEW m \in Maps, Refuse(c, t, m)
  PROVE  HostInv'
<1>1. PICK a \in {"denied", "error"} : /\ phase' = [phase EXCEPT ![c] = "ended"]
                                       /\ reply' = [reply EXCEPT ![c] = a]
  BY BadArgsReply DEF Refuse, End
<1>2. TypeOK' /\ GateType'
  BY <1>1 DEF HostInv, TypeOK, GateType, Refuse, maps, audit, gate
<1>3. CallsAreBound' /\ ParkedWasChecked' /\ EntriesFollowTheAction'
  BY <1>1 DEF HostInv, TypeOK, GateType, CallsAreBound, ParkedWasChecked,
     EntriesFollowTheAction, Entries, PolicyOf, Refuse, maps, audit, gate
<1>4. NoActionWithoutApproval' /\ NoActionAgainstItsPolicy'
  BY <1>1 DEF HostInv, TypeOK, CallsAreBound, NoActionWithoutApproval,
     NoActionAgainstItsPolicy, PolicyOf, Refuse, maps, gate
<1>5. EntriesSurviveFlushes'
  BY BindingMovesNoEntry DEF Refuse, maps
<1>6. RepliesAreBackedByEntries'
  BY <1>1 DEF HostInv, TypeOK, CallsAreBound, RepliesAreBackedByEntries, Refuse, audit, gate
<1> QED
  BY <1>2, <1>3, <1>4, <1>5, <1>6 DEF HostInv

LEMMA ParkKeepsHostInv ==
  ASSUME HostInv, NEW c \in Calls, NEW t \in Tools, NEW m \in Maps, Park(c, t, m)
  PROVE  HostInv'
<1>1. TypeOK' /\ GateType'
  BY DEF HostInv, TypeOK, GateType, Park, Gate!Ask, maps, audit
<1>2. CallsAreBound' /\ EntriesFollowTheAction'
  BY DEF HostInv, TypeOK, GateType, CallsAreBound, EntriesFollowTheAction, Entries,
         Park, Gate!Ask, maps, audit
<1>3. ParkedWasChecked'
  BY DEF HostInv, TypeOK, ParkedWasChecked, PolicyOf, Park, maps
<1>4. NoActionWithoutApproval' /\ NoActionAgainstItsPolicy'
  BY DEF HostInv, TypeOK, GateType, CallsAreBound, NoActionWithoutApproval,
         NoActionAgainstItsPolicy, PolicyOf, Park, Gate!Ask, maps
<1>5. EntriesSurviveFlushes'
  BY BindingMovesNoEntry DEF Park, maps
<1>6. RepliesAreBackedByEntries'
  BY DEF HostInv, TypeOK, RepliesAreBackedByEntries, Park, Gate!Ask, audit
<1> QED
  BY <1>1, <1>2, <1>3, <1>4, <1>5, <1>6 DEF HostInv

LEMMA StartKeepsHostInv ==
  ASSUME HostInv, NEW c \in Calls, NEW t \in Tools, NEW m \in Maps, Start(c, t, m)
  PROVE  HostInv'
<1>1. TypeOK' /\ GateType'
  BY DEF HostInv, TypeOK, GateType, Start, StartAction, maps, audit, gate
<1>2. CallsAreBound' /\ EntriesFollowTheAction'
  BY DEF HostInv, TypeOK, GateType, CallsAreBound, EntriesFollowTheAction, Entries,
         Start, StartAction, maps, audit, gate
<1>3. ParkedWasChecked'
  BY DEF HostInv, TypeOK, ParkedWasChecked, PolicyOf, Start, StartAction, maps
<1>4. NoActionWithoutApproval' /\ NoActionAgainstItsPolicy'
  BY DEF HostInv, TypeOK, GateType, CallsAreBound, NoActionWithoutApproval,
         NoActionAgainstItsPolicy, PolicyOf, Start, StartAction, maps, gate
<1>5. EntriesSurviveFlushes'
  BY BindingMovesNoEntry DEF Start, maps
<1>6. RepliesAreBackedByEntries'
  BY DEF HostInv, TypeOK, RepliesAreBackedByEntries, Start, StartAction, audit, gate
<1> QED
  BY <1>1, <1>2, <1>3, <1>4, <1>5, <1>6 DEF HostInv
-----------------------------------------------------------------------------
(* The invariant: the gate. *)

LEMMA OperatorDecidesKeepsHostInv ==
  ASSUME HostInv, NEW c \in Calls, NEW verdict \in {"approved", "denied"},
         OperatorDecides(c, verdict)
  PROVE  HostInv'
<1>1. TypeOK' /\ GateType'
  BY DEF HostInv, TypeOK, GateType, OperatorDecides, Gate!Decide, maps, calls, audit
<1>2. CallsAreBound' /\ ParkedWasChecked' /\ EntriesFollowTheAction'
      /\ NoActionAgainstItsPolicy' /\ EntriesSurviveFlushes' /\ RepliesAreBackedByEntries'
  BY DEF HostInv, GateType, CallsAreBound, ParkedWasChecked, EntriesFollowTheAction,
         NoActionAgainstItsPolicy, EntriesSurviveFlushes, RepliesAreBackedByEntries,
         PolicyOf, OperatorDecides, Gate!Decide, maps, calls, audit
<1>3. NoActionWithoutApproval'
  BY DEF HostInv, GateType, NoActionWithoutApproval, PolicyOf, OperatorDecides,
         Gate!Decide, maps, calls
<1> QED
  BY <1>1, <1>2, <1>3 DEF HostInv

LEMMA ApprovedKeepsHostInv ==
  ASSUME HostInv, NEW c \in Calls, Approved(c)
  PROVE  HostInv'
<1>1. decision[c] = "approved" /\ answer' = [answer EXCEPT ![c] = "approved"]
      /\ UNCHANGED decision
  BY DEF HostInv, GateType, Approved, Gate!Answer
<1>2. TypeOK' /\ GateType'
  BY <1>1 DEF HostInv, TypeOK, GateType, Approved, StartAction, maps, audit
<1>3. CallsAreBound' /\ ParkedWasChecked' /\ EntriesFollowTheAction'
  BY <1>1 DEF HostInv, TypeOK, GateType, CallsAreBound, ParkedWasChecked,
     EntriesFollowTheAction, Entries, PolicyOf, Approved, StartAction, maps, audit
<1>4. NoActionWithoutApproval' /\ NoActionAgainstItsPolicy'
  BY <1>1 DEF HostInv, TypeOK, ParkedWasChecked, NoActionWithoutApproval,
     NoActionAgainstItsPolicy, PolicyOf, Approved, StartAction, maps
<1>5. EntriesSurviveFlushes' /\ RepliesAreBackedByEntries'
  BY <1>1 DEF HostInv, TypeOK, GateType, EntriesSurviveFlushes, RepliesAreBackedByEntries,
     Approved, StartAction, maps, audit
<1> QED
  BY <1>2, <1>3, <1>4, <1>5 DEF HostInv

LEMMA RefusedKeepsHostInv ==
  ASSUME HostInv, NEW c \in Calls, Refused(c)
  PROVE  HostInv'
<1>1. PICK a \in {"denied", "error"} : /\ LogGrows(map[c], <<c, "refused">>)
                                       /\ phase' = [phase EXCEPT ![c] = "ended"]
                                       /\ reply' = [reply EXCEPT ![c] = a]
  BY EndWithEntryGrowsTheLog DEF HostInv, TypeOK, CallsAreBound, Refused, Entries
<1>2. /\ decision' \in [Calls -> {"none", "pending", "approved", "denied", "timed_out"}]
      /\ \A d \in Calls : decision[d] = "approved" <=> decision'[d] = "approved"
      /\ \A d \in Calls : phase[d] = "idle" => decision'[d] = decision[d]
      /\ \E b \in {"denied", "timed_out"} : answer' = [answer EXCEPT ![c] = b]
  BY DEF HostInv, GateType, CallsAreBound, Refused, Gate!Answer, Gate!Expire
<1>3. TypeOK' /\ GateType'
  BY <1>1, <1>2 DEF HostInv, TypeOK, GateType, Refused, LogGrows, maps, Entries
<1>4. CallsAreBound' /\ ParkedWasChecked'
  BY <1>1, <1>2 DEF HostInv, TypeOK, GateType, CallsAreBound, ParkedWasChecked, PolicyOf,
     Refused, maps
<1>5. EntriesFollowTheAction'
  BY <1>1 DEF HostInv, TypeOK, EntriesFollowTheAction, Entries, LogGrows
<1>6. NoActionWithoutApproval' /\ NoActionAgainstItsPolicy'
  BY <1>2 DEF HostInv, TypeOK, NoActionWithoutApproval, NoActionAgainstItsPolicy, PolicyOf,
     Refused, maps
<1>7. EntriesSurviveFlushes'
  BY <1>1, EntriesStayFound DEF Refused, maps, Entries
<1>8. RepliesAreBackedByEntries'
  <2> SUFFICES ASSUME NEW d \in Calls
               PROVE  /\ reply'[d] = "success" => <<d, "done">> \in recorded'
                      /\ phase'[d] = "ended" /\ answer'[d] \in {"denied", "timed_out"} =>
                           {e \in recorded' : e[1] = d} = {<<d, "refused">>}
    BY DEF RepliesAreBackedByEntries
  <2>1. recorded' = recorded \union {<<c, "refused">>}
    BY <1>1 DEF LogGrows
  <2>2. CASE d = c
    <3>1. {e \in recorded : e[1] = c} = {}
      BY DEF HostInv, EntriesFollowTheAction, Refused
    <3>2. reply'[c] \in {"denied", "error"}
      BY <1>1 DEF HostInv, TypeOK
    <3> QED
      BY <2>1, <2>2, <3>1, <3>2
  <2>3. CASE d # c
    <3>1. {e \in recorded' : e[1] = d} = {e \in recorded : e[1] = d}
      BY <2>1, <2>3
    <3>2. phase'[d] = phase[d] /\ reply'[d] = reply[d] /\ answer'[d] = answer[d]
      BY <1>1, <1>2, <2>3 DEF HostInv, TypeOK, GateType
    <3> QED
      BY <2>1, <3>1, <3>2 DEF HostInv, RepliesAreBackedByEntries
  <2> QED
    BY <2>2, <2>3
<1> QED
  BY <1>3, <1>4, <1>5, <1>6, <1>7, <1>8 DEF HostInv
-----------------------------------------------------------------------------
(* The invariant: the end of an action. *)

\* A step of a call that touches neither the gate nor its binding.
OwnStep(c) == /\ phase[c] \in {"acting", "verifying"}
              /\ UNCHANGED <<policy, maps, tool, map, reached, gate>>

\* Once a call has come to its action, ending it without an entry breaks nothing,
\* if it is replied as an error or was done before.
LEMMA EndingKeepsHostInv ==
  ASSUME HostInv, NEW c \in Calls, OwnStep(c), UNCHANGED audit,
         NEW a \in {"success", "error"}, a = "success" => phase[c] = "verifying",
         phase' = [phase EXCEPT ![c] = "ended"], reply' = [reply EXCEPT ![c] = a]
  PROVE  HostInv'
<1>1. TypeOK' /\ GateType'
  BY DEF HostInv, TypeOK, GateType, OwnStep, maps, audit, gate
<1>2. CallsAreBound' /\ ParkedWasChecked' /\ EntriesFollowTheAction'
  BY DEF HostInv, TypeOK, GateType, CallsAreBound, ParkedWasChecked,
     EntriesFollowTheAction, Entries, PolicyOf, OwnStep, maps, audit, gate
<1>3. NoActionWithoutApproval' /\ NoActionAgainstItsPolicy' /\ EntriesSurviveFlushes'
  BY DEF HostInv, NoActionWithoutApproval, NoActionAgainstItsPolicy,
     EntriesSurviveFlushes, PolicyOf, OwnStep, maps, audit, gate
<1>4. RepliesAreBackedByEntries'
  BY DEF HostInv, TypeOK, CallsAreBound, EntriesFollowTheAction,
     RepliesAreBackedByEntries, OwnStep, audit, gate
<1> QED
  BY <1>1, <1>2, <1>3, <1>4 DEF HostInv

\* Nor does an entry, with any reply that the entries so far support.
LEMMA EntryKeepsHostInv ==
  ASSUME HostInv, NEW c \in Calls, OwnStep(c),
         NEW kind, <<c, kind>> \in Entries, LogGrows(map[c], <<c, kind>>),
         \/ /\ phase' = [phase EXCEPT ![c] = "ended"]
            /\ \E a \in {"success", "denied", "error"} :
                 /\ reply' = [reply EXCEPT ![c] = a]
                 /\ a = "success" => kind = "done" \/ phase[c] = "verifying"
         \/ /\ phase' = [phase EXCEPT ![c] = "verifying"]
            /\ kind = "done"
            /\ UNCHANGED reply
  PROVE  HostInv'
<1>1. TypeOK' /\ GateType'
  <2>1. recorded' \subseteq Entries
    BY DEF HostInv, TypeOK, LogGrows
  <2>2. /\ phase' \in [Calls -> {"idle", "parked", "acting", "verifying", "ended"}]
        /\ reply' \in [Calls -> {"none", "success", "denied", "error"}]
        /\ \A d \in Calls : phase'[d] = "ended" <=> reply'[d] # "none"
    BY DEF HostInv, TypeOK, OwnStep
  <2> QED
    BY <2>1, <2>2 DEF HostInv, TypeOK, GateType, OwnStep, LogGrows, maps, gate
<1>2. CallsAreBound' /\ ParkedWasChecked'
  BY DEF HostInv, TypeOK, GateType, CallsAreBound, ParkedWasChecked, PolicyOf, OwnStep,
     maps, gate
<1>3. EntriesFollowTheAction'
  BY DEF HostInv, TypeOK, EntriesFollowTheAction, Entries, OwnStep, LogGrows
<1>4. NoActionWithoutApproval' /\ NoActionAgainstItsPolicy'
  BY DEF HostInv, NoActionWithoutApproval, NoActionAgainstItsPolicy, PolicyOf, OwnStep,
     maps, gate
<1>5. EntriesSurviveFlushes'
  BY EntriesStayFound DEF OwnStep, maps, Entries
<1>6. RepliesAreBackedByEntries'
  <2> SUFFICES ASSUME NEW d \in Calls
               PROVE  /\ reply'[d] = "success" => <<d, "done">> \in recorded'
                      /\ phase'[d] = "ended" /\ answer'[d] \in {"denied", "timed_out"} =>
                           {e \in recorded' : e[1] = d} = {<<d, "refused">>}
    BY DEF RepliesAreBackedByEntries
  <2>1. recorded' = recorded \union {<<c, kind>>} /\ answer' = answer
    BY DEF LogGrows, OwnStep, gate
  <2>2. CASE d = c
    <3>1. answer[c] \in {"none", "approved"}
      BY DEF HostInv, CallsAreBound, OwnStep
    <3>2. reply'[c] = "success" => kind = "done" \/ <<c, "done">> \in recorded
      BY DEF HostInv, TypeOK, EntriesFollowTheAction, OwnStep
    <3> QED
      BY <2>1, <2>2, <3>1, <3>2
  <2>3. CASE d # c
    <3>1. {e \in recorded' : e[1] = d} = {e \in recorded : e[1] = d}
      BY <2>1, <2>3
    <3>2. phase'[d] = phase[d] /\ reply'[d] = reply[d]
      BY <2>3 DEF HostInv, TypeOK
    <3> QED
      BY <2>1, <3>1, <3>2 DEF HostInv, RepliesAreBackedByEntries
  <2> QED
    BY <2>2, <2>3
<1> QED
  BY <1>1, <1>2, <1>3, <1>4, <1>5, <1>6 DEF HostInv

LEMMA ActionsKeepHostInv ==
  ASSUME HostInv, NEW c \in Calls,
         \/ ActionRaises(c) \/ ActionSucceeds(c) \/ VerificationEnds(c)
         \/ \E kind \in {"timeout", "nonzero"} : ActionFails(c, kind)
  PROVE  HostInv'
<1>1. OwnStep(c)
  BY DEF ActionRaises, ActionSucceeds, VerificationEnds, ActionFails, OwnStep, gate
<1>2. map[c] \in Maps /\ TypeOK
  BY <1>1 DEF HostInv, TypeOK, CallsAreBound, OwnStep
<1>3. ASSUME NEW kind \in {"done", "timeout", "nonzero", "verify_failed"},
             NEW answered \in {"success", "denied", "error"},
             answered = "success" => kind = "done" \/ phase[c] = "verifying",
             EndWithEntry(c, kind, answered)
      PROVE  HostInv'
  <2>1. <<c, kind>> \in Entries
    BY DEF Entries
  <2>2. /\ LogGrows(map[c], <<c, kind>>)
        /\ phase' = [phase EXCEPT ![c] = "ended"]
        /\ \E a \in {answered, "error"} : reply' = [reply EXCEPT ![c] = a]
    BY <1>2, <1>3, <2>1, EndWithEntryGrowsTheLog
  <2> QED
    BY <1>1, <1>3, <2>1, <2>2, EntryKeepsHostInv
<1>4. CASE ActionRaises(c)
  BY <1>1, <1>4, EndingKeepsHostInv DEF ActionRaises, End
<1>5. CASE \E kind \in {"timeout", "nonzero"} : ActionFails(c, kind)
  BY <1>3, <1>5 DEF ActionFails
<1>6. CASE ActionSucceeds(c)
  <2>1. CASE EndWithEntry(c, "done", "success")
    BY <1>3, <2>1
  <2>2. CASE /\ Record(map[c], <<c, "done">>) \/ RecordAndFlush(map[c], <<c, "done">>)
             /\ phase' = [phase EXCEPT ![c] = "verifying"]
             /\ UNCHANGED reply
    <3>1. <<c, "done">> \in Entries
      BY DEF Entries
    <3>2. LogGrows(map[c], <<c, "done">>)
      BY <1>2, <2>2, <3>1, RecordGrowsTheLog
    <3> QED
      BY <1>1, <2>2, <3>1, <3>2, EntryKeepsHostInv
  <2> QED
    BY <1>6, <2>1, <2>2 DEF ActionSucceeds
<1>7. CASE VerificationEnds(c)
  <2>1. CASE End(c, "success") /\ UNCHANGED audit
    BY <1>1, <1>7, <2>1, EndingKeepsHostInv DEF VerificationEnds, End
  <2>2. CASE EndWithEntry(c, "verify_failed", "success")
    BY <1>3, <1>7, <2>2 DEF VerificationEnds
  <2> QED
    BY <1>7, <2>1, <2>2 DEF VerificationEnds
<1> QED
  BY <1>4, <1>5, <1>6, <1>7
-----------------------------------------------------------------------------
LEMMA NextKeepsHostInv == HostInv /\ [Next]_vars => HostInv'
<1> SUFFICES ASSUME HostInv, [Next]_vars PROVE HostInv'
  OBVIOUS
<1>1. ASSUME NEW p \in Policies, SavePolicy(p) PROVE HostInv'
  BY <1>1 DEF SavePolicy, maps, calls, audit, gate, HostInv, TypeOK, GateType,
     CallsAreBound, ParkedWasChecked, EntriesFollowTheAction, NoActionWithoutApproval,
     NoActionAgainstItsPolicy, EntriesSurviveFlushes, RepliesAreBackedByEntries, PolicyOf
<1>2. CASE UNCHANGED vars
  BY <1>2 DEF vars, maps, calls, audit, gate, HostInv, TypeOK, GateType,
     CallsAreBound, ParkedWasChecked, EntriesFollowTheAction, NoActionWithoutApproval,
     NoActionAgainstItsPolicy, EntriesSurviveFlushes, RepliesAreBackedByEntries, PolicyOf
<1>3. ASSUME NEW m \in Maps, BuildMap(m) \/ DiscardMap(m) PROVE HostInv'
  BY <1>3, BuildMapKeepsHostInv, DiscardMapKeepsHostInv
<1>4. ASSUME NEW c \in Calls, NEW t \in Tools, NEW m \in Maps,
             Refuse(c, t, m) \/ Park(c, t, m) \/ Start(c, t, m)
      PROVE  HostInv'
  BY <1>4, RefuseKeepsHostInv, ParkKeepsHostInv, StartKeepsHostInv
<1>5. ASSUME NEW c \in Calls, NEW verdict \in {"approved", "denied"},
             OperatorDecides(c, verdict)
      PROVE  HostInv'
  BY <1>5, OperatorDecidesKeepsHostInv
<1>6. ASSUME NEW c \in Calls, Approved(c) \/ Refused(c) PROVE HostInv'
  BY <1>6, ApprovedKeepsHostInv, RefusedKeepsHostInv
<1> QED
  BY <1>1, <1>2, <1>3, <1>4, <1>5, <1>6, ActionsKeepHostInv DEF Next
-----------------------------------------------------------------------------
(* The results. *)

\* A running call is bound to a map that was built, and has asked and recorded what
\* its phase says.
THEOREM HostInvariance == Spec => []HostInv
<1>1. Init => HostInv
  BY InitHostInv
<1>2. HostInv /\ [Next]_vars => HostInv'
  BY NextKeepsHostInv
<1> QED
  BY <1>1, <1>2, PTL DEF Spec

\* The state of calls, maps and log keeps its type, whatever the parameters.
THEOREM ToolsTypeCorrectness == Spec => []TypeOK
<1>1. HostInv => TypeOK
  BY DEF HostInv
<1> QED
  BY <1>1, HostInvariance, PTL

\* No tool whose capability is gated reaches the host unless an operator approved
\* that call, however many calls, maps and saved policies there are.
THEOREM GatedActionsAreApproved == Spec => []NoActionWithoutApproval
<1>1. HostInv => NoActionWithoutApproval
  BY DEF HostInv
<1> QED
  BY <1>1, HostInvariance, PTL

\* No tool reaches the host against the policy its map was built with.
THEOREM ActionsObeyTheirPolicy == Spec => []NoActionAgainstItsPolicy
<1>1. HostInv => NoActionAgainstItsPolicy
  BY DEF HostInv
<1> QED
  BY <1>1, HostInvariance, PTL

\* No entry handed to the AuditLogger disappears through a flush, failed or not.
THEOREM EntriesAreNotLostByFlushes == Spec => []EntriesSurviveFlushes
<1>1. HostInv => EntriesSurviveFlushes
  BY DEF HostInv
<1> QED
  BY <1>1, HostInvariance, PTL

\* A success was recorded, and a refusal by the gate was recorded as nothing else.
THEOREM RepliesAgreeWithTheLog == Spec => []RepliesAreBackedByEntries
<1>1. HostInv => RepliesAreBackedByEntries
  BY DEF HostInv
<1> QED
  BY <1>1, HostInvariance, PTL
==============================================================================
