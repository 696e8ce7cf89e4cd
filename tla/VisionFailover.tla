--------------------------- MODULE VisionFailover ---------------------------
(***************************************************************************)
(* The vision services of the plugin (browser/vision_failover.py): each    *)
(* browser agent and each desktop run builds its own from the preferences  *)
(* of that moment, but the model a provider is asked for sits in one table *)
(* of the class, VisionService.DEFAULT_MODELS, which every service and     *)
(* every save of preferences writes.                                       *)
(***************************************************************************)
EXTENDS Integers, Sequences

CONSTANTS Services,    \* the owners of a service: browser agents and desktop runs
          Providers,   \* the providers that can see images
          PrefSeq,     \* the preferences in force, then those of each later save:
                       \*   [provider, model, chain : Seq([provider, model])]
          Stock        \* the models the framework ships with, per provider

Entry == [provider : STRING, model : STRING]
ASSUME PrefsAssumption ==
  /\ PrefSeq \in Seq([provider : Providers, model : STRING, chain : Seq(Entry)])
  /\ PrefSeq # << >>
ASSUME StockAssumption == Stock \in [Providers -> STRING]

VARIABLES prefs,     \* which preferences are in force
          table,     \* VisionService.DEFAULT_MODELS
          svc,       \* the services: preferences, snapshot of the table, entries cooling down
          call,      \* the request each service is busy with
          disturbed  \* history: a service was built while a failover attempt was in flight
visionVars == <<prefs, table, svc, call, disturbed>>

Primary(s) == PrefSeq[svc[s].prefs]
Chain(s) == Primary(s).chain
Entries == UNION {DOMAIN PrefSeq[i].chain : i \in DOMAIN PrefSeq}
Models == {Stock[p] : p \in Providers}
            \cup UNION {{PrefSeq[i].model} \cup {PrefSeq[i].chain[j].model : j \in DOMAIN PrefSeq[i].chain}
                        : i \in DOMAIN PrefSeq}
NoModel == "none"

Pinned(t, i) == [t EXCEPT ![PrefSeq[i].provider] = PrefSeq[i].model]
Unbuilt == [prefs |-> 0, original |-> Stock, cool |-> {}]
NoCall == [pc |-> "none", idx |-> 0, skip |-> {}, model |-> NoModel]
Trying == {s \in Services : call[s].pc = "entry"}
Busy(s) == call[s].pc \in {"primary", "entry"}

VisionInit ==
  /\ prefs = 1
  /\ table = Stock
  /\ svc = [s \in Services |-> Unbuilt]
  /\ call = [s \in Services |-> NoCall]
  /\ disturbed = FALSE
-----------------------------------------------------------------------------
\* apply_model_preferences on a save: the table of the class changes under every service.
SavePrefs ==
  /\ prefs < Len(PrefSeq)
  /\ prefs' = prefs + 1
  /\ table' = Pinned(table, prefs + 1)
  /\ UNCHANGED <<svc, call, disturbed>>

\* The constructor snapshots the table t it finds, then pins the primary model.
BuildService(s, t) ==
  /\ svc' = [svc EXCEPT ![s] = [prefs |-> prefs, original |-> t, cool |-> {}]]
  /\ table' = Pinned(table, prefs)
  /\ call' = [call EXCEPT ![s] = NoCall]
  /\ disturbed' = (disturbed \/ Trying # {})
  /\ UNCHANGED prefs

\* analyze(): the primary provider is asked for the model the table names.
StartCall(s) ==
  call' = [call EXCEPT ![s] = [pc |-> "primary", idx |-> 0, skip |-> {},
                               model |-> table[Primary(s).provider]]]

\* Entries whose turn comes next: not cooling down, and able to serve vision.
Usable(s, skip) ==
  {i \in DOMAIN Chain(s) : i \notin skip /\ Chain(s)[i].provider \in Providers}

Tried(s, i, skip, t) ==
  /\ table' = [t EXCEPT ![Chain(s)[i].provider] = Chain(s)[i].model]
  /\ call' = [call EXCEPT ![s] = [pc |-> "entry", idx |-> i, skip |-> skip, model |-> Chain(s)[i].model]]

NextEntry(s, from, skip) == {i \in Usable(s, skip) : i > from /\ \A j \in Usable(s, skip) : j > from => i <= j}

\* _restore_defaults, in the finally of each attempt.
Restored(s) == Pinned(svc[s].original, svc[s].prefs)

Ends(s, how, t) ==
  /\ call' = [call EXCEPT ![s].pc = how]
  /\ table' = t

\* The provider answers.
Answers(s) ==
  /\ Busy(s)
  /\ Ends(s, "answered", IF call[s].pc = "entry" THEN Restored(s) ELSE table)
  /\ UNCHANGED <<prefs, svc, disturbed>>

\* The primary fails: the chain is walked from the top, past entries cooling down by now.
PrimaryFails(s) ==
  /\ call[s].pc = "primary"
  /\ LET next == NextEntry(s, 0, svc[s].cool)
     IN  IF next = {} THEN Ends(s, "raised", table)
         ELSE \E i \in next : Tried(s, i, svc[s].cool, table)
  /\ UNCHANGED <<prefs, svc, disturbed>>

\* An entry fails: it cools down, the table is restored, the next entry has its turn.
EntryFails(s) ==
  /\ call[s].pc = "entry"
  /\ svc' = [svc EXCEPT ![s].cool = @ \cup {call[s].idx}]
  /\ LET next == NextEntry(s, call[s].idx, call[s].skip)
     IN  IF next = {} THEN Ends(s, "raised", Restored(s))
         ELSE \E i \in next : Tried(s, i, call[s].skip, Restored(s))
  /\ UNCHANGED <<prefs, disturbed>>

\* Seeded fault: the restore is not in a finally, and a cancelled attempt skips it.
CutShortAsIs(s) ==
  /\ Busy(s)
  /\ Ends(s, "timeout", table)
  /\ UNCHANGED <<prefs, svc, disturbed>>

\* The caller's timeout cancels the attempt; its finally still runs.
CutShort(s) ==
  /\ Busy(s)
  /\ Ends(s, "timeout", IF call[s].pc = "entry" THEN Restored(s) ELSE table)
  /\ UNCHANGED <<prefs, svc, disturbed>>

CoolsOff(s) ==
  /\ \E i \in svc[s].cool : svc' = [svc EXCEPT ![s].cool = @ \ {i}]
  /\ UNCHANGED <<prefs, table, call, disturbed>>

CallStep(s) == Answers(s) \/ PrimaryFails(s) \/ EntryFails(s)
-----------------------------------------------------------------------------
Built(s) == svc[s].prefs # 0

VisionTypeOK ==
  /\ prefs \in DOMAIN PrefSeq
  /\ table \in [Providers -> Models]
  /\ svc \in [Services -> [prefs : {0} \cup DOMAIN PrefSeq, original : [Providers -> Models],
                           cool : SUBSET Entries]]
  /\ call \in [Services -> [pc : {"none", "primary", "entry", "answered", "raised", "timeout"},
                            idx : {0} \cup Entries, skip : SUBSET Entries, model : Models \cup {NoModel}]]
  /\ \A s \in Trying : call[s].idx # 0

\* While nobody is at a failover entry the table is back to the stock models with the primary
\* pinned, unless preferences were saved since, or a service took its snapshot during an
\* attempt (vision_failover.py, _restore_defaults).
TableIsRestored ==
  Trying = {} /\ prefs = 1 /\ ~disturbed /\ (\E s \in Services : Built(s)) => table = Pinned(Stock, 1)

\* docs/models.md: "running tasks keep the model they started with".
RunningTaskKeepsItsModel ==
  \A s \in Services : call[s].pc = "primary" => call[s].model = Primary(s).model
=============================================================================
