--------------------------- MODULE Channels_proofs ---------------------------
(***************************************************************************)
(* What holds of the operators' stores for any number of keys, values,     *)
(* channels and requests: an answered request is on disk, an agent's       *)
(* invoker is that of its spec, and one workspace at most is primary.      *)
(*                                                                         *)
(* The inductive invariant is Agreement, OnePrimary and                    *)
(* RegistryFollowsSpecs with the types of the entries, and that requests   *)
(* for channels are under way only in a behaviour about that store.        *)
(* Agreement strengthens AcknowledgedIsKept with the memory, which the     *)
(* next write takes to the file as a whole.                                *)
(*                                                                         *)
(* The last part is about the adapters.  A start and a stop suspend, so    *)
(* that others run in between; HeldInv says what each of those under way   *)
(* knows: its adapter is its own, and whoever overtook it is a rival.      *)
(* StoresKeyed adds for the types that whatever is kept is kept under a    *)
(* key.                                                                    *)
(***************************************************************************)
EXTENDS Channels, TLAPS

Typed(m) == \A k \in DOMAIN m : m[k] \in Entries
StoresTyped == store \in StoreKinds /\ Typed(memory) /\ Typed(file) /\ Typed(acked)

Same(m, a, k) == (k \in DOMAIN m <=> k \in DOMAIN a) /\ (k \in DOMAIN m => m[k] = a[k])
Agreement == ~misread => \A k \in Keys \ doubtful : Same(memory, acked, k) /\ Same(file, acked, k)

NoRequests == store # "channels" => \A q \in Requests : request[q].pc = "idle"

-----------------------------------------------------------------------------
(* Tables. *)

\* Demoting changes nothing else, and nothing in an entry that is not marked.
LEMMA DemotedEntries ==
  ASSUME NEW m, NEW k, Typed(m)
  PROVE  /\ DOMAIN Demoted(m, k) = DOMAIN m
         /\ k \in DOMAIN m => Demoted(m, k)[k] = m[k]
         /\ \A j \in DOMAIN m : j # k => /\ Demoted(m, k)[j] \in Entries
                                         /\ ~Demoted(m, k)[j].mark
                                         /\ Demoted(m, k)[j].value = m[j].value
                                         /\ ~m[j].mark => Demoted(m, k)[j] = m[j]
<1>1. DOMAIN Demoted(m, k) = DOMAIN m /\ (k \in DOMAIN m => Demoted(m, k)[k] = m[k])
  BY DEF Demoted
<1>2. ASSUME NEW j \in DOMAIN m, j # k
      PROVE  /\ Demoted(m, k)[j] \in Entries
             /\ ~Demoted(m, k)[j].mark
             /\ Demoted(m, k)[j].value = m[j].value
             /\ ~m[j].mark => Demoted(m, k)[j] = m[j]
  <2>1. m[j] \in [value : Values, mark : BOOLEAN]
    BY DEF Typed, Entries
  <2>2. Demoted(m, k)[j] = [m[j] EXCEPT !.mark = FALSE]
    BY <1>2 DEF Demoted
  <2> QED
    BY <2>1, <2>2 DEF Entries
<1> QED
  BY <1>1, <1>2

\* n is m with k set to e; e is the one primary workspace if it is one at all.
Sets(m, k, e, n) ==
  /\ DOMAIN n = DOMAIN m \cup {k} /\ n[k] = e /\ Typed(n)
  /\ \A j \in DOMAIN m : j # k /\ (store # "workspaces" \/ ~e.mark \/ ~m[j].mark) => n[j] = m[j]
  /\ \A j \in DOMAIN m : j # k /\ store = "workspaces" /\ e.mark => ~n[j].mark

LEMMA PlacedSets ==
  ASSUME NEW m, NEW k, NEW e \in Entries, Typed(m)
  PROVE  Sets(m, k, e, Placed(m, k, e))
<1> DEFINE all == With(m, k, e)
<1>1. /\ DOMAIN all = DOMAIN m \cup {k} /\ all[k] = e
      /\ \A j \in DOMAIN m : j # k => all[j] = m[j]
  BY DEF With
<1>2. Typed(all)
  BY <1>1 DEF Typed
<1>3. CASE store = "workspaces" /\ e.mark
  <2>1. Placed(m, k, e) = Demoted(all, k)
    BY <1>3 DEF Placed
  <2> HIDE DEF all
  <2>2. /\ DOMAIN Demoted(all, k) = DOMAIN all /\ Demoted(all, k)[k] = all[k]
        /\ \A j \in DOMAIN all : j # k => /\ Demoted(all, k)[j] \in Entries /\ ~Demoted(all, k)[j].mark
                                          /\ ~all[j].mark => Demoted(all, k)[j] = all[j]
    BY <1>1, <1>2, DemotedEntries
  <2>3. Typed(Demoted(all, k))
    BY <1>1, <2>2 DEF Typed
  <2> QED
    BY <1>1, <1>3, <2>1, <2>2, <2>3 DEF Sets
<1>4. CASE ~(store = "workspaces" /\ e.mark)
  <2>1. Placed(m, k, e) = all
    BY <1>4 DEF Placed
  <2> HIDE DEF all
  <2> QED
    BY <1>1, <1>2, <1>4, <2>1 DEF Sets
<1> QED
  BY <1>3, <1>4

LEMMA PlacedAlike ==
  ASSUME NEW m, NEW a, NEW k, NEW e \in Entries, Typed(m), Typed(a), NEW j, j # k, Same(m, a, j)
  PROVE  Same(Placed(m, k, e), Placed(a, k, e), j)
<1>1. Sets(m, k, e, Placed(m, k, e)) /\ Sets(a, k, e, Placed(a, k, e))
  BY PlacedSets
<1>2. ASSUME j \in DOMAIN m PROVE Placed(m, k, e)[j] = Placed(a, k, e)[j]
  <2>1. j \in DOMAIN a /\ m[j] = a[j]
    BY <1>2 DEF Same
  <2>2. j \in DOMAIN With(m, k, e) /\ j \in DOMAIN With(a, k, e) /\ With(m, k, e)[j] = With(a, k, e)[j]
    BY <1>2, <2>1 DEF With
  <2>3. Demoted(With(m, k, e), k)[j] = Demoted(With(a, k, e), k)[j]
    BY <2>2 DEF Demoted
  <2>4. CASE store = "workspaces" /\ e.mark
    <3>1. /\ Placed(m, k, e) = Demoted(With(m, k, e), k)
          /\ Placed(a, k, e) = Demoted(With(a, k, e), k)
      BY <2>4 DEF Placed
    <3> QED
      BY <3>1, <2>3
  <2>5. CASE ~(store = "workspaces" /\ e.mark)
    <3>1. Placed(m, k, e) = With(m, k, e) /\ Placed(a, k, e) = With(a, k, e)
      BY <2>5 DEF Placed
    <3> QED
      BY <3>1, <2>2
  <2> QED
    BY <2>4, <2>5
<1>3. DOMAIN Placed(m, k, e) = DOMAIN m \cup {k} /\ DOMAIN Placed(a, k, e) = DOMAIN a \cup {k}
  BY <1>1 DEF Sets
<1> QED
  BY <1>2, <1>3 DEF Same

LEMMA WithoutAlike ==
  ASSUME NEW m, NEW a, NEW k, NEW j, j # k, Same(m, a, j)
  PROVE  Same(Without(m, k), Without(a, k), j)
<1>1. DOMAIN Without(m, k) = DOMAIN m \ {k} /\ DOMAIN Without(a, k) = DOMAIN a \ {k}
  BY DEF Without, Restrict
<1>2. ASSUME j \in DOMAIN m, j \in DOMAIN a PROVE Without(m, k)[j] = m[j] /\ Without(a, k)[j] = a[j]
  BY <1>2 DEF Without, Restrict
<1> QED
  BY <1>1, <1>2 DEF Same
-----------------------------------------------------------------------------
(* What a change of a store does, whether its write succeeds or fails. *)

Entered == StoresTyped /\ Agreement /\ OnePrimary

OneMark(m) == \A j, k \in DOMAIN m : m[j].mark /\ m[k].mark => j = k

LEMMA SetsOneMark ==
  ASSUME NEW m, NEW k, NEW e, NEW n, Sets(m, k, e, n), OneMark(m), store = "workspaces"
  PROVE  OneMark(n)
<1>1. CASE e.mark
  BY <1>1 DEF Sets, OneMark
<1>2. CASE ~e.mark
  BY <1>2 DEF Sets, OneMark
<1> QED
  BY <1>1, <1>2

LEMMA KeepKeepsEntered ==
  ASSUME Entered, NEW k, NEW e \in Entries, Keep(Placed(memory, k, e), k, e, Affected(k, e)),
         store' = store, misread' = misread
  PROVE  Entered'
<1> DEFINE new == Placed(memory, k, e)
           told == Placed(acked, k, e)
<1>1. Sets(memory, k, e, new) /\ Sets(acked, k, e, told)
  BY PlacedSets DEF Entered, StoresTyped
<1>2. \A j : j # k /\ Same(memory, acked, j) => Same(new, told, j)
  BY PlacedAlike DEF Entered, StoresTyped
<1>3. memory' = new
  BY DEF Keep
<1>4. store = "workspaces" => OneMark(new)
  BY <1>1, SetsOneMark DEF Entered, OnePrimary, OneMark
<1>5. \/ file' = new /\ acked' = told /\ doubtful' = doubtful \ {k}
      \/ file' = file /\ acked' = acked /\ doubtful' = doubtful \cup Affected(k, e)
  BY DEF Keep
<1> HIDE DEF new, told
<1>6. Same(new, told, k)
  BY <1>1 DEF Sets, Same
<1>7. CASE file' = new /\ acked' = told /\ doubtful' = doubtful \ {k}
  <2>1. ASSUME ~misread, NEW j \in Keys \ doubtful' PROVE Same(new, told, j)
    BY <1>2, <1>6, <1>7, <2>1 DEF Entered, Agreement
  <2>2. Agreement'
    BY <2>1, <1>3, <1>7 DEF Agreement, Same
  <2>3. StoresTyped'
    BY <1>1, <1>3, <1>7 DEF Sets, StoresTyped, Typed, Entered
  <2>4. OnePrimary'
    BY <1>3, <1>4, <1>7 DEF OnePrimary, OneMark
  <2> QED
    BY <2>2, <2>3, <2>4 DEF Entered
<1>8. CASE file' = file /\ acked' = acked /\ doubtful' = doubtful \cup Affected(k, e)
  <2>1. ASSUME ~misread, NEW j \in Keys \ doubtful' PROVE Same(new, acked, j) /\ Same(file, acked, j)
    <3>1. j \notin doubtful /\ j \notin Affected(k, e)
      BY <1>8, <2>1
    <3>2. j # k /\ (j \in DOMAIN memory => store # "workspaces" \/ ~e.mark \/ ~memory[j].mark)
      BY <3>1 DEF Affected
    <3>3. j \in DOMAIN new <=> j \in DOMAIN memory
      BY <3>2, <1>1 DEF Sets
    <3>4. j \in DOMAIN memory => new[j] = memory[j]
      BY <3>2, <1>1 DEF Sets
    <3>5. Same(memory, acked, j) /\ Same(file, acked, j)
      BY <2>1, <3>1 DEF Entered, Agreement
    <3> QED
      BY <3>3, <3>4, <3>5 DEF Same
  <2>2. Agreement'
    BY <2>1, <1>3, <1>8 DEF Agreement, Same
  <2>3. StoresTyped'
    BY <1>1, <1>3, <1>8 DEF Sets, StoresTyped, Typed, Entered
  <2>4. OnePrimary'
    BY <1>3, <1>4, <1>8 DEF OnePrimary, OneMark, Entered
  <2> QED
    BY <2>2, <2>3, <2>4 DEF Entered
<1> QED
  BY <1>5, <1>7, <1>8

LEMMA ForgetKeepsEntered ==
  ASSUME Entered, NEW k, Forget(k), store' = store, misread' = misread
  PROVE  Entered'
<1> DEFINE new == Without(memory, k)
           told == Without(acked, k)
<1>1. /\ DOMAIN new = DOMAIN memory \ {k} /\ \A j \in DOMAIN new : new[j] = memory[j]
      /\ DOMAIN told = DOMAIN acked \ {k} /\ \A j \in DOMAIN told : told[j] = acked[j]
  BY DEF Without, Restrict
<1>2. \A j : j # k /\ Same(memory, acked, j) => Same(new, told, j)
  BY WithoutAlike
<1>3. memory' = new
  BY DEF Forget
<1>4. \/ file' = new /\ acked' = told /\ doubtful' = doubtful \ {k}
      \/ file' = file /\ acked' = acked /\ doubtful' = doubtful \cup {k}
  BY DEF Forget
<1> HIDE DEF new, told
<1>5. Typed(new) /\ Typed(told)
  BY <1>1 DEF Entered, StoresTyped, Typed
<1>6. store = "workspaces" => OneMark(new)
  BY <1>1 DEF Entered, OnePrimary, OneMark
<1>7. Same(new, told, k)
  BY <1>1 DEF Same
<1>8. CASE file' = new /\ acked' = told /\ doubtful' = doubtful \ {k}
  <2>1. ASSUME ~misread, NEW j \in Keys \ doubtful' PROVE Same(new, told, j)
    BY <1>2, <1>7, <1>8, <2>1 DEF Entered, Agreement
  <2>2. Agreement'
    BY <2>1, <1>3, <1>8 DEF Agreement, Same
  <2>3. StoresTyped'
    BY <1>3, <1>5, <1>8 DEF StoresTyped, Typed, Entered
  <2>4. OnePrimary'
    BY <1>3, <1>6, <1>8 DEF OnePrimary, OneMark
  <2> QED
    BY <2>2, <2>3, <2>4 DEF Entered
<1>9. CASE file' = file /\ acked' = acked /\ doubtful' = doubtful \cup {k}
  <2>1. ASSUME ~misread, NEW j \in Keys \ doubtful' PROVE Same(new, acked, j) /\ Same(file, acked, j)
    <3>1. j \notin doubtful /\ j # k
      BY <1>9, <2>1
    <3>2. Same(memory, acked, j) /\ Same(file, acked, j)
      BY <2>1, <3>1 DEF Entered, Agreement
    <3> QED
      BY <1>1, <3>1, <3>2 DEF Same
  <2>2. Agreement'
    BY <2>1, <1>3, <1>9 DEF Agreement, Same
  <2>3. StoresTyped'
    BY <1>3, <1>5, <1>9 DEF StoresTyped, Typed, Entered
  <2>4. OnePrimary'
    BY <1>3, <1>6, <1>9 DEF OnePrimary, OneMark, Entered
  <2> QED
    BY <2>2, <2>3, <2>4 DEF Entered
<1> QED
  BY <1>4, <1>8, <1>9
-----------------------------------------------------------------------------
(* The operations of the stores. *)

Kept == Entered /\ RegistryFollowsSpecs

LEMMA EntryIsTyped ==
  ASSUME NEW v \in Values, NEW b \in BOOLEAN
  PROVE  Entry(v, b) \in Entries /\ Entry(v, b).value = v /\ Entry(v, b).mark = b
BY DEF Entry, Entries

\* A step of another store than the agents' leaves the registry of agents alone.
LEMMA OtherStoreKeeps ==
  ASSUME Kept, store # "agents", store' = store, Entered'
  PROVE  Kept'
BY DEF Kept, RegistryFollowsSpecs

LEMMA PutKeeps ==
  ASSUME Kept, store # "agents", NEW k, NEW e \in Entries, Put(k, e)
  PROVE  Kept'
<1>1. Entered'
  BY KeepKeepsEntered DEF Kept, Put
<1> QED
  BY <1>1, OtherStoreKeeps DEF Put

LEMMA RemoveKeeps ==
  ASSUME Kept, store # "agents", NEW k, Remove(k)
  PROVE  Kept'
<1>1. Entered'
  BY ForgetKeepsEntered DEF Kept, Remove
<1> QED
  BY <1>1, OtherStoreKeeps DEF Remove

\* A spec that is kept and one that is refused late change the memory alike.
LEMMA AgentIsEntered ==
  ASSUME Kept, store = "agents", NEW k, NEW v \in Values, Put(k, Entry(v, FALSE)) \/ RefuseLate(k, v)
  PROVE  /\ Entered' /\ store' = store
         /\ memory' = With(memory, k, Entry(v, FALSE))
<1> DEFINE e == Entry(v, FALSE)
<1>1. e \in Entries
  BY EntryIsTyped
<1>2. Placed(memory, k, e) = With(memory, k, e) /\ Affected(k, e) = {k}
  BY DEF Placed, Affected
<1>3. /\ Keep(Placed(memory, k, e), k, e, Affected(k, e))
      /\ store' = store /\ misread' = misread
  <2>1. CASE Put(k, e)
    BY <2>1 DEF Put
  <2>2. CASE RefuseLate(k, v)
    BY <2>2, <1>2 DEF RefuseLate, Keep
  <2> QED
    BY <2>1, <2>2
<1> HIDE DEF e
<1>4. Entered'
  BY <1>1, <1>3, KeepKeepsEntered DEF Kept
<1>5. memory' = With(memory, k, e)
  BY <1>2, <1>3 DEF Keep
<1> QED
  BY <1>3, <1>4, <1>5 DEF e

LEMMA SaveAgentKeeps ==
  ASSUME Kept, NEW k, NEW v \in Values, RegisterAgent(k, v) \/ UpdateAgent(k, v)
  PROVE  Kept'
<1>1. store = "agents"
  BY DEF RegisterAgent, UpdateAgent, Running
<1>2. Put(k, Entry(v, FALSE)) \/ RefuseLate(k, v)
  BY DEF RegisterAgent, UpdateAgent
<1>3. Entered' /\ store' = store /\ memory' = With(memory, k, Entry(v, FALSE))
  BY <1>1, <1>2, AgentIsEntered
<1>4. \/ registry' = With(registry, k, v) \/ registry' = Without(registry, k)
      \/ registry' = registry /\ k \notin DOMAIN memory
  BY DEF RegisterAgent, UpdateAgent
<1>5. \A j \in DOMAIN registry : j \in DOMAIN memory /\ memory[j].value = registry[j]
  BY <1>1 DEF Kept, RegistryFollowsSpecs
<1>6. /\ DOMAIN memory' = DOMAIN memory \cup {k} /\ memory'[k].value = v
      /\ \A j \in DOMAIN memory : j # k => memory'[j] = memory[j]
  BY <1>3, EntryIsTyped DEF With
<1>7. \A j \in DOMAIN registry' :
        \/ j = k /\ registry'[j] = v
        \/ j # k /\ j \in DOMAIN registry /\ registry'[j] = registry[j]
  <2>1. CASE registry' = With(registry, k, v)
    BY <2>1 DEF With
  <2>2. CASE registry' = Without(registry, k)
    BY <2>2 DEF Without, Restrict
  <2>3. CASE registry' = registry /\ k \notin DOMAIN memory
    BY <2>3, <1>5
  <2> QED
    BY <1>4, <2>1, <2>2, <2>3
<1>8. RegistryFollowsSpecs'
  BY <1>5, <1>6, <1>7 DEF RegistryFollowsSpecs
<1> QED
  BY <1>3, <1>8 DEF Kept

LEMMA DeleteAgentKeeps ==
  ASSUME Kept, NEW k, DeleteAgent(k)
  PROVE  Kept'
<1>1. Entered'
  BY ForgetKeepsEntered DEF Kept, DeleteAgent, Remove
<1>2. memory' = Without(memory, k) /\ registry' = Without(registry, k) /\ store = "agents"
  BY DEF DeleteAgent, Remove, Forget, Running
<1>3. /\ DOMAIN memory' = DOMAIN memory \ {k} /\ \A j \in DOMAIN memory' : memory'[j] = memory[j]
      /\ DOMAIN registry' = DOMAIN registry \ {k} /\ \A j \in DOMAIN registry' : registry'[j] = registry[j]
  BY <1>2 DEF Without, Restrict
<1>4. RegistryFollowsSpecs'
  BY <1>2, <1>3 DEF Kept, RegistryFollowsSpecs
<1> QED
  BY <1>1, <1>4 DEF Kept

LEMMA OperateKeeps ==
  ASSUME Kept, Operate
  PROVE  Kept'
<1>1. ASSUME NEW k \in Keys, NEW v \in Values, SetSecret(k, v) \/ SetOverlay(k, v) PROVE Kept'
  <2>1. store # "agents" /\ Put(k, Entry(v, FALSE))
    BY <1>1 DEF SetSecret, SetOverlay, Running
  <2> QED
    BY <2>1, EntryIsTyped, PutKeeps
<1>2. ASSUME NEW v \in Values, SavePreferences(v) PROVE Kept'
  <2>1. store # "agents" /\ Put(DefaultName, Entry(v, FALSE))
    BY <1>2 DEF SavePreferences, Running
  <2> QED
    BY <2>1, EntryIsTyped, PutKeeps
<1>3. ASSUME NEW k \in Keys, NEW v \in Values, RegisterAgent(k, v) \/ UpdateAgent(k, v) PROVE Kept'
  BY <1>3, SaveAgentKeeps
<1>4. ASSUME NEW k \in Keys, NEW v \in Values, NEW primary \in BOOLEAN,
             CreateWorkspace(k, Entry(v, primary)) \/ UpdateWorkspace(k, Entry(v, primary))
      PROVE  Kept'
  <2>1. store # "agents" /\ Put(k, Entry(v, primary))
    BY <1>4 DEF CreateWorkspace, UpdateWorkspace, Running
  <2> QED
    BY <2>1, EntryIsTyped, PutKeeps
<1>5. ASSUME NEW k \in Keys, DeleteSecret(k) \/ DeleteWorkspace(k) \/ RemoveWorkspaceByTool(k) PROVE Kept'
  <2>1. store # "agents" /\ Remove(k)
    BY <1>5 DEF DeleteSecret, DeleteWorkspace, RemoveWorkspaceByTool, Running
  <2> QED
    BY <2>1, RemoveKeeps
<1>6. ASSUME NEW k \in Keys, DeleteAgent(k) PROVE Kept'
  BY <1>6, DeleteAgentKeeps
<1> QED
  BY <1>1, <1>2, <1>3, <1>4, <1>5, <1>6 DEF Operate
-----------------------------------------------------------------------------
(* Starts. *)

LEMMA FreshIsRight == Typed(Fresh) /\ OneMark(Fresh)
<1>1. CASE store = "workspaces"
  <2>1. Fresh = With(Empty, DefaultName, Entry(CHOOSE v \in Values : TRUE, TRUE))
    BY <1>1 DEF Fresh
  <2>2. (CHOOSE v \in Values : TRUE) \in Values
    BY StoresAssumption
  <2>3. DOMAIN Fresh = {DefaultName} /\ Fresh[DefaultName] \in Entries
    BY <2>1, <2>2, EntryIsTyped DEF With, Empty
  <2> QED
    BY <2>3 DEF Typed, OneMark
<1>2. CASE store # "workspaces"
  BY <1>2 DEF Fresh, Empty, Typed, OneMark
<1> QED
  BY <1>1, <1>2

LEMMA InvokersFollow ==
  ASSUME NEW m, NEW k \in DOMAIN Invokers(m)
  PROVE  k \in DOMAIN m /\ Invokers(m)[k] = m[k].value
<1>1. CASE store = "agents" /\ Loads(m) = "up"
  BY <1>1 DEF Invokers
<1>2. CASE ~(store = "agents" /\ Loads(m) = "up")
  BY <1>2 DEF Invokers
<1> QED
  BY <1>1, <1>2

LEMMA StartKeeps ==
  ASSUME Kept, Restart \/ RestartMisread
  PROVE  Kept'
<1>1. store' = store /\ registry' = Invokers(memory')
  BY DEF Restart, RestartMisread, Loaded
<1>2. /\ memory' = Fresh \/ memory' = file
      /\ file' = Fresh \/ file' = file
      /\ acked' = Fresh \/ acked' = acked
  BY DEF Restart, RestartMisread, Loaded
<1>3. StoresTyped'
  <2>1. Typed(Fresh) /\ Typed(file) /\ Typed(acked)
    BY FreshIsRight DEF Kept, Entered, StoresTyped
  <2> QED
    BY <1>1, <1>2, <2>1 DEF StoresTyped, Typed, Kept, Entered
<1>4. OnePrimary'
  <2>1. OneMark(Fresh) /\ (store = "workspaces" => OneMark(file))
    BY FreshIsRight DEF Kept, Entered, OnePrimary, OneMark
  <2> QED
    BY <1>1, <1>2, <2>1 DEF OnePrimary, OneMark
<1>5. Agreement'
  <2>1. CASE RestartMisread
    BY <2>1 DEF RestartMisread, Agreement
  <2>2. CASE Restart
    <3>1. misread' = misread /\ doubtful' = doubtful /\ memory' = file'
      BY <2>2 DEF Restart, Loaded
    <3>2. \/ memory' = acked'
          \/ file' = file /\ acked' = acked
      <4>1. CASE file = Empty /\ store = "workspaces"
        BY <2>2, <4>1 DEF Restart, Loaded
      <4>2. CASE file = Empty /\ store # "workspaces"
        BY <2>2, <4>2 DEF Restart, Loaded, Fresh
      <4>3. CASE file # Empty
        BY <2>2, <4>3 DEF Restart, Loaded
      <4> QED
        BY <4>1, <4>2, <4>3
    <3>3. CASE memory' = acked'
      BY <3>1, <3>3 DEF Agreement, Same
    <3>4. CASE file' = file /\ acked' = acked
      BY <3>1, <3>4 DEF Agreement, Same, Kept, Entered
    <3> QED
      BY <3>2, <3>3, <3>4
  <2> QED
    BY <2>1, <2>2
<1>6. RegistryFollowsSpecs'
  <2>1. \A k \in DOMAIN registry' : k \in DOMAIN memory' /\ registry'[k] = memory'[k].value
    BY <1>1, InvokersFollow
  <2> QED
    BY <2>1 DEF RegistryFollowsSpecs
<1> QED
  BY <1>3, <1>4, <1>5, <1>6 DEF Kept, Entered
-----------------------------------------------------------------------------
(* Channels: their requests change the memory one entry at a time, or not at all. *)

LEMMA ChannelEntryKeeps ==
  ASSUME Kept, store = "channels", NEW c, NEW e \in Entries, Keep(With(memory, c, e), c, e, {c}),
         UNCHANGED storeRest
  PROVE  Kept'
<1>1. Placed(memory, c, e) = With(memory, c, e) /\ Affected(c, e) = {c}
  BY DEF Placed, Affected
<1>2. store' = store /\ misread' = misread
  BY DEF storeRest
<1>3. Entered'
  BY <1>1, <1>2, KeepKeepsEntered DEF Kept
<1> QED
  BY <1>2, <1>3, OtherStoreKeeps

LEMMA NothingKeeps ==
  ASSUME Kept, UNCHANGED storeVars
  PROVE  Kept'
<1>1. StoresTyped'
  BY DEF Kept, Entered, StoresTyped, Typed, storeVars
<1>2. Agreement'
  BY DEF Kept, Entered, Agreement, Same, storeVars
<1>3. OnePrimary' /\ RegistryFollowsSpecs'
  BY DEF Kept, Entered, OnePrimary, RegistryFollowsSpecs, storeVars
<1> QED
  BY <1>1, <1>2, <1>3 DEF Kept, Entered

LEMMA MarkKeeps ==
  ASSUME Kept, store = "channels", NEW c, NEW enabled \in BOOLEAN, Mark(c, enabled), UNCHANGED storeRest
  PROVE  Kept'
<1>1. CASE c \in DOMAIN memory
  <2> DEFINE e == [memory[c] EXCEPT !.mark = enabled]
  <2>1. memory[c] \in [value : Values, mark : BOOLEAN]
    BY <1>1 DEF Kept, Entered, StoresTyped, Typed, Entries
  <2>2. e \in Entries
    BY <2>1 DEF Entries
  <2>3. Keep(With(memory, c, e), c, e, {c})
    BY <1>1 DEF Mark
  <2> HIDE DEF e
  <2> QED
    BY <2>2, <2>3, ChannelEntryKeeps
<1>2. CASE c \notin DOMAIN memory
  <2>1. UNCHANGED storeVars
    BY <1>2 DEF Mark, storeRest, storeVars
  <2> QED
    BY <2>1, NothingKeeps
<1> QED
  BY <1>1, <1>2

LEMMA ConfigureKeeps ==
  ASSUME Kept, NEW c, NEW v \in Values, Configure(c, v)
  PROVE  Kept'
<1> DEFINE b == IF c \in DOMAIN memory THEN memory[c].mark ELSE FALSE
           e == Entry(v, b)
<1>1. b \in BOOLEAN
  BY DEF Kept, Entered, StoresTyped, Typed, Entries
<1>2. store = "channels" /\ UNCHANGED storeRest /\ Keep(With(memory, c, e), c, e, {c})
  BY DEF Configure, Busy
<1> HIDE DEF b
<1>3. e \in Entries
  BY <1>1, EntryIsTyped
<1> HIDE DEF e
<1> QED
  BY <1>2, <1>3, ChannelEntryKeeps

\* What is left of a request leaves the stores alone, marks its channel or removes it.
LEMMA ChannelStepsKeep ==
  ASSUME Kept, store = "channels", ChannelSteps
  PROVE  Kept' /\ store' = store
<1>1. ASSUME NEW c, NEW enabled \in BOOLEAN, Mark(c, enabled), UNCHANGED storeRest PROVE Kept' /\ store' = store
  BY <1>1, MarkKeeps DEF storeRest
<1>2. ASSUME NEW c, Remove(c) PROVE Kept' /\ store' = store
  BY <1>2, RemoveKeeps DEF Remove
<1>3. ASSUME UNCHANGED storeVars PROVE Kept' /\ store' = store
  BY <1>3, NothingKeeps DEF storeVars
<1>4. ASSUME NEW c, NEW v \in Values, Configure(c, v) PROVE Kept' /\ store' = store
  BY <1>4, ConfigureKeeps DEF Configure, storeRest
<1>5. ASSUME NEW c, StopNothing(c) PROVE Kept' /\ store' = store
  BY <1>1, <1>5 DEF StopNothing
<1>6. ASSUME NEW c, NEW q, Start(q, c) \/ Send(q, c) \/ Stop(q, c) PROVE Kept' /\ store' = store
  BY <1>3, <1>6 DEF Start, Send, Stop, BeginStop
<1>7. ASSUME NEW c, NEW q, DeleteConfig(q, c) PROVE Kept' /\ store' = store
  BY <1>2, <1>3, <1>7 DEF DeleteConfig, BeginStop
<1>8. ASSUME NEW c, NEW q, Finish(q, c) PROVE Kept' /\ store' = store
  BY <1>1, <1>3, <1>8 DEF Finish
<1>9. ASSUME NEW q, Started(q) PROVE Kept' /\ store' = store
  BY <1>8, <1>9 DEF Started
<1>10. ASSUME NEW q, StartFails(q) PROVE Kept' /\ store' = store
  BY <1>3, <1>10 DEF StartFails
<1>11. ASSUME NEW q, Stopped(q) PROVE Kept' /\ store' = store
  <2>1. CASE request[q].op = "stop"
    BY <1>1, <1>11, <2>1 DEF Stopped
  <2>2. CASE request[q].op = "delete" /\ request[q].channel \in DOMAIN memory
    BY <1>2, <1>11, <2>2 DEF Stopped
  <2>3. CASE ~(request[q].op = "stop") /\ ~(request[q].op = "delete" /\ request[q].channel \in DOMAIN memory)
    BY <1>3, <1>11, <2>3 DEF Stopped
  <2> QED
    BY <2>1, <2>2, <2>3
<1>12. ASSUME NEW q, Restarted(q) PROVE Kept' /\ store' = store
  BY <1>3, <1>8, <1>12 DEF Restarted
<1> QED
  BY <1>4, <1>5, <1>6, <1>7, <1>9, <1>10, <1>11, <1>12 DEF ChannelSteps
-----------------------------------------------------------------------------
(* The specification. *)

Inv == Kept /\ NoRequests

LEMMA OperateKeepsStore ==
  ASSUME Operate
  PROVE  store' = store
<1>1. ASSUME NEW k, NEW e, Put(k, e) \/ Remove(k) PROVE store' = store
  BY <1>1 DEF Put, Remove
<1>2. ASSUME NEW k, NEW v, RefuseLate(k, v) PROVE store' = store
  BY <1>2 DEF RefuseLate
<1>3. ASSUME NEW k, NEW v, SetSecret(k, v) \/ SetOverlay(k, v) \/ SavePreferences(v) PROVE store' = store
  BY <1>1, <1>3 DEF SetSecret, SetOverlay, SavePreferences
<1>4. ASSUME NEW k, NEW v, RegisterAgent(k, v) \/ UpdateAgent(k, v) PROVE store' = store
  BY <1>1, <1>2, <1>4 DEF RegisterAgent, UpdateAgent
<1>5. ASSUME NEW k, NEW e, CreateWorkspace(k, e) \/ UpdateWorkspace(k, e) PROVE store' = store
  BY <1>1, <1>5 DEF CreateWorkspace, UpdateWorkspace
<1>6. ASSUME NEW k, DeleteSecret(k) \/ DeleteAgent(k) \/ DeleteWorkspace(k) \/ RemoveWorkspaceByTool(k)
      PROVE store' = store
  BY <1>1, <1>6 DEF DeleteSecret, DeleteAgent, DeleteWorkspace, RemoveWorkspaceByTool
<1> QED
  BY <1>3, <1>4, <1>5, <1>6 DEF Operate

\* Without the channels' store no request is let in, and none is under way.
LEMMA ChannelStepsAreOfChannels ==
  ASSUME NoRequests, ChannelSteps
  PROVE  store = "channels"
<1> SUFFICES ASSUME store # "channels" PROVE FALSE
  OBVIOUS
<1>1. \A q \in Requests : request[q].pc = "idle"
  BY DEF NoRequests
<1>2. ASSUME NEW c, NEW v, Configure(c, v) \/ StopNothing(c) PROVE FALSE
  BY <1>2 DEF Configure, StopNothing, Busy
<1>3. ASSUME NEW c, NEW q, Start(q, c) \/ Send(q, c) \/ Stop(q, c) \/ DeleteConfig(q, c) PROVE FALSE
  BY <1>3 DEF Start, Send, Stop, DeleteConfig, Busy
<1>4. ASSUME NEW q \in Requests, Started(q) \/ StartFails(q) \/ Stopped(q) \/ Restarted(q) PROVE FALSE
  BY <1>1, <1>4 DEF Started, StartFails, Stopped, Restarted
<1> QED
  BY <1>2, <1>3, <1>4 DEF ChannelSteps

LEMMA InitIsRight == Init => Inv
<1> SUFFICES ASSUME Init PROVE Inv
  OBVIOUS
<1>1. /\ store \in StoreKinds /\ memory = Fresh /\ file = Fresh /\ acked = Fresh
      /\ registry = Invokers(Empty)
  BY StoresAssumption DEF Init, StoreInit
<1>2. StoresTyped
  BY <1>1, FreshIsRight DEF StoresTyped
<1>3. OnePrimary
  BY <1>1, FreshIsRight DEF OnePrimary, OneMark
<1>4. Agreement
  BY <1>1 DEF Agreement, Same
<1>5. RegistryFollowsSpecs
  <2>1. \A k \in DOMAIN registry : k \in DOMAIN Empty
    BY <1>1, InvokersFollow
  <2> QED
    BY <2>1 DEF RegistryFollowsSpecs, Empty
<1>6. NoRequests
  BY DEF Init, NewRequest, NoRequests
<1> QED
  BY <1>2, <1>3, <1>4, <1>5, <1>6 DEF Inv, Kept, Entered

LEMMA InvIsInductive == Inv /\ [Next]_vars => Inv'
<1> SUFFICES ASSUME Inv, [Next]_vars PROVE Inv'
  OBVIOUS
<1>1. CASE ChannelSteps
  <2>1. store = "channels"
    BY <1>1, ChannelStepsAreOfChannels DEF Inv
  <2>2. Kept' /\ store' = store
    BY <1>1, <2>1, ChannelStepsKeep DEF Inv
  <2> QED
    BY <2>1, <2>2 DEF Inv, NoRequests
<1>2. CASE Reboot
  <2>1. Kept'
    BY <1>2, StartKeeps DEF Inv, Reboot
  <2>2. NoRequests'
    BY <1>2 DEF Reboot, NewRequest, NoRequests
  <2> QED
    BY <2>1, <2>2 DEF Inv
<1>3. CASE Operate /\ UNCHANGED channelVars
  <2>1. Kept'
    BY <1>3, OperateKeeps DEF Inv
  <2>2. request' = request /\ store' = store
    BY <1>3, OperateKeepsStore DEF channelVars
  <2>3. NoRequests'
    BY <2>2 DEF Inv, NoRequests
  <2> QED
    BY <2>1, <2>3 DEF Inv
<1>4. CASE UNCHANGED vars
  <2>1. UNCHANGED storeVars /\ UNCHANGED channelVars
    BY <1>4 DEF vars
  <2>2. Kept'
    BY <2>1, NothingKeeps DEF Inv
  <2>3. NoRequests'
    BY <2>1 DEF Inv, NoRequests, storeVars, channelVars
  <2> QED
    BY <2>2, <2>3 DEF Inv
<1> QED
  BY <1>1, <1>2, <1>3, <1>4 DEF Next

LEMMA InvHolds == Spec => []Inv
BY InitIsRight, InvIsInductive, PTL DEF Spec

\* As long as every start could read the file, a key whose last change was answered is in the
\* file exactly as it was answered, whatever other writes failed and whenever the process was
\* killed (every store writes the whole of its memory, and no change touches another key but
\* the demotion of a primary workspace, which the failed request is about as well).
THEOREM AnswersAreKept == Spec => []AcknowledgedIsKept
<1>1. Inv => AcknowledgedIsKept
  BY DEF Inv, Kept, Entered, Agreement, Same, AcknowledgedIsKept
<1> QED
  BY <1>1, InvHolds, PTL

\* An agent in the registry answers with the spec that is kept for it, and one workspace at
\* most is primary in memory and on disk, also where a write has failed, a spec was refused
\* after it was kept, or the file could not be read (agents/custom.py, update and delete;
\* workspace/config.py, create and update).
THEOREM TablesHold == Spec => []TablesAgree
<1>1. Inv => TablesAgree
  BY DEF Inv, Kept, Entered, TablesAgree
<1> QED
  BY <1>1, InvHolds, PTL
-----------------------------------------------------------------------------
(* Adapters.  A request that starts one built it and is alone with it; two *)
(* that start one of the same channel are rivals, and so is the adapter    *)
(* that took the place while another was being started.                    *)

AdapterRecords == [used : BOOLEAN, channel : Keys, open : BOOLEAN]
RequestRecords == [pc : {"idle", "starting", "stopping"},
                   op : {"none", "start", "stop", "send", "delete"},
                   channel : Keys, adapter : Adapters \cup {NoAdapter}]

AdaptersTyped ==
  /\ instance \in [Names -> Adapters \cup {NoAdapter}]
  /\ adapter \in [Adapters -> AdapterRecords]
  /\ request \in [Requests -> RequestRecords]
  /\ rivals \subseteq Adapters /\ torn \subseteq Adapters

RequestsKnowTheirs ==
  \A q \in Requests :
    /\ request[q].pc \in {"starting", "stopping"} => request[q].channel \in Names
    /\ request[q].pc = "starting" =>
         /\ request[q].adapter \in Adapters
         /\ adapter[request[q].adapter].used
         /\ adapter[request[q].adapter].channel = request[q].channel

StartsAreApart ==
  \A p, q \in Requests : p # q /\ request[p].pc = "starting" /\ request[q].pc = "starting" =>
    /\ request[p].adapter # request[q].adapter
    /\ request[p].channel = request[q].channel => request[p].adapter \in rivals

OvertakersAreRivals ==
  \A q \in Requests : request[q].pc = "starting" =>
    instance[request[q].channel] \in rivals \cup {NoAdapter}

HeldInv == /\ AdaptersTyped /\ RequestsKnowTheirs /\ StartsAreApart
           /\ OvertakersAreRivals /\ ConnectionsAreHeld

LEMMA NumbersOfAdapters == NoAdapter \notin Adapters
BY ChannelsAssumption DEF NoAdapter, Adapters

LEMMA NewRecords == NewRequest \in RequestRecords /\ NewAdapter \in AdapterRecords
BY StoresAssumption DEF NewRequest, NewAdapter, RequestRecords, AdapterRecords

\* Shutting an adapter down changes nothing but its connection.
LEMMA ClosedAdapters ==
  ASSUME AdaptersTyped, NEW a \in Adapters \cup {NoAdapter}
  PROVE  /\ Closed(a) \in [Adapters -> AdapterRecords]
         /\ \A b \in Adapters : /\ Closed(a)[b].used = adapter[b].used
                                /\ Closed(a)[b].channel = adapter[b].channel
                                /\ Closed(a)[b].open => adapter[b].open /\ b # a
<1>1. CASE a = NoAdapter
  BY <1>1, NumbersOfAdapters DEF Closed, AdaptersTyped
<1>2. CASE a # NoAdapter
  <2>1. a \in Adapters /\ Closed(a) = [adapter EXCEPT ![a].open = FALSE]
    BY <1>2 DEF Closed
  <2>2. \A b \in Adapters : adapter[b] \in AdapterRecords
    BY DEF AdaptersTyped
  <2>3. \A b \in Adapters : /\ b # a => Closed(a)[b] = adapter[b]
                            /\ b = a => Closed(a)[b] = [adapter[b] EXCEPT !.open = FALSE]
    BY <2>1 DEF AdaptersTyped
  <2>4. DOMAIN Closed(a) = Adapters /\ Closed(a) = [b \in Adapters |-> Closed(a)[b]]
    BY <2>1 DEF AdaptersTyped
  <2>5. ASSUME NEW b \in Adapters
        PROVE  /\ Closed(a)[b] \in AdapterRecords
               /\ Closed(a)[b].used = adapter[b].used
               /\ Closed(a)[b].channel = adapter[b].channel
               /\ Closed(a)[b].open => adapter[b].open /\ b # a
    <3>1. CASE b # a
      BY <2>2, <2>3, <3>1
    <3>2. CASE b = a
      <4>1. adapter[b] \in AdapterRecords /\ Closed(a)[b] = [adapter[b] EXCEPT !.open = FALSE]
        BY <2>2, <2>3, <3>2
      <4> QED
        BY <4>1 DEF AdapterRecords
    <3> QED
      BY <3>1, <3>2
  <2> QED
    BY <2>4, <2>5
<1> QED
  BY <1>1, <1>2

\* Adapters being shut down stay so while their requests do.
LEMMA StoppingStays ==
  ASSUME NEW q \in Requests, \A p \in Requests : p # q => request'[p] = request[p],
         NEW a \in Stopping, request[q].pc # "stopping" \/ a # request[q].adapter
  PROVE  a \in Stopping'
BY DEF Stopping

\* get_or_create on adapters one of which may just have been closed.
LEMMA BuildHolds ==
  ASSUME HeldInv, NEW q \in Requests, request[q].pc # "starting", NEW c \in Names,
         NEW op \in {"start", "send"}, instance[c] = NoAdapter, NEW a \in Unbuilt,
         NEW before, before \in [Adapters -> AdapterRecords],
         \A b \in Adapters :
           /\ before[b].used = adapter[b].used /\ before[b].channel = adapter[b].channel
           /\ before[b].open =>
                adapter[b].open /\ (request[q].pc = "stopping" => b # request[q].adapter),
         adapter' = [before EXCEPT ![a] = [used |-> TRUE, channel |-> c, open |-> FALSE]],
         request' = [request EXCEPT ![q] = [pc |-> "starting", op |-> op, channel |-> c, adapter |-> a]],
         rivals' = IF Starting(c) = {} THEN rivals ELSE rivals \cup Starting(c) \cup {a},
         UNCHANGED <<instance, torn>>
  PROVE  HeldInv'
<1> USE DEF HeldInv
<1>1. a \in Adapters /\ ~adapter[a].used /\ c \in Keys
  BY ChannelsAssumption DEF Unbuilt
<1>2. /\ request'[q].pc = "starting" /\ request'[q].channel = c /\ request'[q].adapter = a
      /\ \A p \in Requests : p # q => request'[p] = request[p]
  BY DEF AdaptersTyped
<1>3. /\ adapter'[a].used /\ adapter'[a].channel = c /\ ~adapter'[a].open
      /\ \A b \in Adapters : b # a => adapter'[b] = before[b]
  BY <1>1
<1>4. Starting(c) \subseteq Adapters
  BY DEF Starting
<1>5. rivals \subseteq rivals'
  OBVIOUS
<1>6. AdaptersTyped'
  <2>1. [pc |-> "starting", op |-> op, channel |-> c, adapter |-> a] \in RequestRecords
    BY <1>1 DEF RequestRecords
  <2>2. [used |-> TRUE, channel |-> c, open |-> FALSE] \in AdapterRecords
    BY <1>1 DEF AdapterRecords
  <2>3. request' \in [Requests -> RequestRecords] /\ adapter' \in [Adapters -> AdapterRecords]
    BY <1>1, <2>1, <2>2 DEF AdaptersTyped
  <2> QED
    BY <1>1, <1>4, <2>3 DEF AdaptersTyped
<1>7. RequestsKnowTheirs'
  <2> SUFFICES ASSUME NEW p \in Requests
               PROVE  /\ request'[p].pc \in {"starting", "stopping"} => request'[p].channel \in Names
                      /\ request'[p].pc = "starting" =>
                           /\ request'[p].adapter \in Adapters
                           /\ adapter'[request'[p].adapter].used
                           /\ adapter'[request'[p].adapter].channel = request'[p].channel
    BY DEF RequestsKnowTheirs
  <2>1. CASE p = q
    BY <1>1, <1>2, <1>3, <2>1
  <2>2. CASE p # q
    BY <1>1, <1>2, <1>3, <2>2 DEF RequestsKnowTheirs
  <2> QED
    BY <2>1, <2>2
<1>8. ASSUME NEW p \in Requests, p # q, request[p].pc = "starting"
      PROVE  /\ request[p].adapter # a
             /\ request[p].channel = c => request[p].adapter \in rivals' /\ a \in rivals'
  <2>1. request[p].adapter \in Adapters /\ request[p].adapter # a
    BY <1>1, <1>8 DEF RequestsKnowTheirs
  <2>2. ASSUME request[p].channel = c PROVE request[p].adapter \in rivals' /\ a \in rivals'
    <3>1. request[p].adapter \in Starting(c)
      BY <1>8, <2>1, <2>2 DEF Starting
    <3> QED
      BY <3>1
  <2> QED
    BY <2>1, <2>2
<1>9. StartsAreApart'
  <2> SUFFICES ASSUME NEW p \in Requests, NEW r \in Requests, p # r,
                      request'[p].pc = "starting", request'[r].pc = "starting"
               PROVE  /\ request'[p].adapter # request'[r].adapter
                      /\ request'[p].channel = request'[r].channel => request'[p].adapter \in rivals'
    BY DEF StartsAreApart
  <2>1. CASE p = q
    BY <1>2, <1>8, <2>1
  <2>2. CASE r = q
    BY <1>2, <1>8, <2>2
  <2>3. CASE p # q /\ r # q
    BY <1>2, <1>5, <2>3 DEF StartsAreApart
  <2> QED
    BY <2>1, <2>2, <2>3
<1>10. OvertakersAreRivals'
  BY <1>2, <1>5 DEF OvertakersAreRivals
<1>11. ConnectionsAreHeld'
  <2> SUFFICES ASSUME NEW b \in Adapters, adapter'[b].open
               PROVE  \/ instance'[adapter'[b].channel] = b \/ b \in Stopping'
                      \/ b \in rivals' \cup torn'
    BY DEF ConnectionsAreHeld
  <2>1. b # a /\ adapter[b].open /\ adapter'[b].channel = adapter[b].channel
    BY <1>3
  <2>2. request[q].pc = "stopping" => b # request[q].adapter
    BY <1>3, <2>1
  <2>3. b \in Stopping => b \in Stopping'
    BY <1>2, <2>2, StoppingStays
  <2> QED
    BY <1>5, <2>1, <2>3 DEF ConnectionsAreHeld
<1> QED
  BY <1>6, <1>7, <1>9, <1>10, <1>11

\* A request that ends, or only starts to stop, takes no adapter over.
LEMMA NoStartHolds ==
  ASSUME HeldInv, NEW q \in Requests, AdaptersTyped',
         \A p \in Requests : p # q => request'[p] = request[p],
         request'[q].pc # "starting", request'[q].pc = "stopping" => request'[q].channel \in Names,
         \A b \in Adapters : /\ adapter'[b].used = adapter[b].used
                             /\ adapter'[b].channel = adapter[b].channel,
         \A c \in Names : \/ instance'[c] = instance[c] \/ instance'[c] = NoAdapter
                          \/ /\ request[q].pc = "starting" /\ request[q].channel = c
                             /\ instance'[c] = request[q].adapter,
         rivals' = rivals
  PROVE  RequestsKnowTheirs' /\ StartsAreApart' /\ OvertakersAreRivals'
<1> USE DEF HeldInv
<1>1. RequestsKnowTheirs'
  BY DEF RequestsKnowTheirs
<1>2. StartsAreApart'
  BY DEF StartsAreApart
<1>3. OvertakersAreRivals'
  <2> SUFFICES ASSUME NEW p \in Requests, request'[p].pc = "starting"
               PROVE  instance'[request'[p].channel] \in rivals \cup {NoAdapter}
    BY DEF OvertakersAreRivals
  <2>1. p # q /\ request'[p] = request[p] /\ request[p].channel \in Names
    BY DEF RequestsKnowTheirs
  <2>2. CASE /\ request[q].pc = "starting" /\ request[q].channel = request[p].channel
             /\ instance'[request[p].channel] = request[q].adapter
    BY <2>1, <2>2 DEF StartsAreApart
  <2>3. CASE \/ instance'[request[p].channel] = instance[request[p].channel]
             \/ instance'[request[p].channel] = NoAdapter
    BY <2>1, <2>3 DEF OvertakersAreRivals
  <2> QED
    BY <2>1, <2>2, <2>3
<1> QED
  BY <1>1, <1>2, <1>3

LEMMA StartOrSendHolds ==
  ASSUME HeldInv, NEW q \in Requests, request[q].pc = "idle", NEW c \in Names,
         NEW op \in {"start", "send"}, instance[c] = NoAdapter, Build(q, op, c),
         UNCHANGED <<instance, torn>>
  PROVE  HeldInv'
<1> PICK a \in Unbuilt :
      /\ adapter' = [adapter EXCEPT ![a] = [used |-> TRUE, channel |-> c, open |-> FALSE]]
      /\ request' = [request EXCEPT ![q] = [pc |-> "starting", op |-> op, channel |-> c, adapter |-> a]]
      /\ rivals' = IF Starting(c) = {} THEN rivals ELSE rivals \cup Starting(c) \cup {a}
  BY DEF Build
<1>1. adapter \in [Adapters -> AdapterRecords]
  BY DEF HeldInv, AdaptersTyped
<1>2. \A b \in Adapters :
        /\ adapter[b].used = adapter[b].used /\ adapter[b].channel = adapter[b].channel
        /\ adapter[b].open => adapter[b].open /\ (request[q].pc = "stopping" => b # request[q].adapter)
  OBVIOUS
<1>3. request[q].pc # "starting"
  OBVIOUS
<1> QED
  BY <1>1, <1>2, <1>3, BuildHolds

LEMMA BeginStopHolds ==
  ASSUME HeldInv, NEW q \in Requests, request[q].pc = "idle", NEW c \in Names,
         NEW op \in {"start", "stop", "delete"}, instance[c] # NoAdapter, BeginStop(q, op, c)
  PROVE  HeldInv'
<1> USE DEF HeldInv
<1>1. /\ instance' = [instance EXCEPT ![c] = NoAdapter]
      /\ request' = [request EXCEPT ![q] = [pc |-> "stopping", op |-> op, channel |-> c,
                                            adapter |-> instance[c]]]
      /\ UNCHANGED <<adapter, rivals, torn>>
  BY DEF BeginStop
<1>2. /\ request'[q].pc = "stopping" /\ request'[q].channel = c /\ request'[q].adapter = instance[c]
      /\ \A p \in Requests : p # q => request'[p] = request[p]
      /\ instance'[c] = NoAdapter /\ \A d \in Names : d # c => instance'[d] = instance[d]
  BY <1>1 DEF AdaptersTyped
<1>3. AdaptersTyped'
  <2>1. [pc |-> "stopping", op |-> op, channel |-> c, adapter |-> instance[c]] \in RequestRecords
    BY ChannelsAssumption DEF RequestRecords, AdaptersTyped
  <2>2. request' \in [Requests -> RequestRecords]
    BY <1>1, <2>1 DEF AdaptersTyped
  <2> QED
    BY <1>1, <2>2 DEF AdaptersTyped
<1>4. RequestsKnowTheirs' /\ StartsAreApart' /\ OvertakersAreRivals'
  BY <1>1, <1>2, <1>3, NoStartHolds
<1>5. ConnectionsAreHeld'
  <2> SUFFICES ASSUME NEW b \in Adapters, adapter[b].open
               PROVE  \/ instance'[adapter[b].channel] = b \/ b \in Stopping'
                      \/ b \in rivals \cup torn
    BY <1>1 DEF ConnectionsAreHeld
  <2>1. b \in Stopping => b \in Stopping'
    BY <1>2, StoppingStays
  <2>2. instance[c] \in Stopping'
    BY <1>2 DEF Stopping
  <2>3. instance[adapter[b].channel] = b =>
          instance'[adapter[b].channel] = b \/ b = instance[c]
    BY <1>1 DEF AdaptersTyped
  <2> QED
    BY <2>1, <2>2, <2>3 DEF ConnectionsAreHeld
<1> QED
  BY <1>3, <1>4, <1>5

LEMMA DoneRequest ==
  ASSUME AdaptersTyped, NEW q \in Requests, request' = Done(q)
  PROVE  /\ request' \in [Requests -> RequestRecords] /\ request'[q].pc = "idle"
         /\ \A p \in Requests : p # q => request'[p] = request[p]
<1>1. request' = [request EXCEPT ![q] = NewRequest]
  BY DEF Done
<1>2. NewRequest.pc = "idle"
  BY DEF NewRequest
<1> QED
  BY <1>1, <1>2, NewRecords DEF AdaptersTyped

LEMMA StartedHolds ==
  ASSUME HeldInv, NEW q \in Requests, Started(q)
  PROVE  HeldInv'
<1> DEFINE a == request[q].adapter
           c == request[q].channel
<1> USE DEF HeldInv
<1>1. /\ request[q].pc = "starting" /\ adapter' = [adapter EXCEPT ![a].open = TRUE]
      /\ instance' = [instance EXCEPT ![c] = a] /\ request' = Done(q)
      /\ UNCHANGED <<rivals, torn>>
  BY DEF Started
<1>2. a \in Adapters /\ c \in Names /\ adapter[a].channel = c
  BY <1>1 DEF RequestsKnowTheirs
<1>3. /\ request' \in [Requests -> RequestRecords] /\ request'[q].pc = "idle"
      /\ \A p \in Requests : p # q => request'[p] = request[p]
  BY <1>1, DoneRequest
<1> HIDE DEF a, c
<1>4. /\ adapter' \in [Adapters -> AdapterRecords]
      /\ \A b \in Adapters : /\ adapter'[b].used = adapter[b].used
                             /\ adapter'[b].channel = adapter[b].channel
                             /\ b # a => adapter'[b].open = adapter[b].open
  <2>1. \A b \in Adapters : adapter[b] \in AdapterRecords
    BY DEF AdaptersTyped
  <2>2. [adapter[a] EXCEPT !.open = TRUE] \in AdapterRecords
    BY <1>2, <2>1 DEF AdapterRecords
  <2>3. adapter' = [adapter EXCEPT ![a] = [adapter[a] EXCEPT !.open = TRUE]]
    BY <1>1
  <2>4. adapter' \in [Adapters -> AdapterRecords]
    BY <1>2, <2>2, <2>3 DEF AdaptersTyped
  <2>5. adapter'[a] = [adapter[a] EXCEPT !.open = TRUE] /\ \A b \in Adapters : b # a => adapter'[b] = adapter[b]
    BY <1>2, <2>3 DEF AdaptersTyped
  <2>6. adapter'[a].used = adapter[a].used /\ adapter'[a].channel = adapter[a].channel
    BY <1>2, <2>1, <2>5 DEF AdapterRecords
  <2> QED
    BY <2>4, <2>5, <2>6
<1>5. instance'[c] = a /\ \A d \in Names : d # c => instance'[d] = instance[d]
  BY <1>1, <1>2 DEF AdaptersTyped
<1>6. AdaptersTyped'
  BY <1>1, <1>2, <1>3, <1>4 DEF AdaptersTyped
<1>7. RequestsKnowTheirs' /\ StartsAreApart' /\ OvertakersAreRivals'
  <2>1. \A d \in Names : \/ instance'[d] = instance[d] \/ instance'[d] = NoAdapter
                         \/ /\ request[q].pc = "starting" /\ request[q].channel = d
                            /\ instance'[d] = request[q].adapter
    BY <1>1, <1>5 DEF a, c
  <2>2. request'[q].pc # "starting" /\ request'[q].pc # "stopping"
    BY <1>3
  <2> QED
    BY <1>1, <1>3, <1>4, <1>6, <2>1, <2>2, NoStartHolds
<1>8. ConnectionsAreHeld'
  <2> SUFFICES ASSUME NEW b \in Adapters, adapter'[b].open
               PROVE  \/ instance'[adapter[b].channel] = b \/ b \in Stopping'
                      \/ b \in rivals \cup torn
    BY <1>1, <1>4 DEF ConnectionsAreHeld
  <2>1. CASE b = a
    BY <1>2, <1>5, <2>1
  <2>2. CASE b # a
    <3>1. adapter[b].open
      BY <1>4, <2>2
    <3>2. b \in Stopping => b \in Stopping'
      BY <1>1, <1>3, StoppingStays
    <3>3. ASSUME instance[adapter[b].channel] = b, adapter[b].channel = c PROVE b \in rivals
      <4>1. instance[c] \in rivals \cup {NoAdapter}
        BY <1>1 DEF OvertakersAreRivals, c
      <4> QED
        BY <3>3, <4>1, NumbersOfAdapters
    <3>4. ASSUME instance[adapter[b].channel] = b, adapter[b].channel # c
          PROVE  instance'[adapter[b].channel] = b
      BY <1>1, <3>4 DEF AdaptersTyped
    <3> QED
      BY <3>1, <3>2, <3>3, <3>4 DEF ConnectionsAreHeld
  <2> QED
    BY <2>1, <2>2
<1> QED
  BY <1>6, <1>7, <1>8

LEMMA StartFailsHolds ==
  ASSUME HeldInv, NEW q \in Requests, StartFails(q)
  PROVE  HeldInv'
<1> DEFINE a == request[q].adapter
<1> USE DEF HeldInv
<1> PICK connected \in BOOLEAN : /\ adapter' = [adapter EXCEPT ![a].open = connected]
                                 /\ torn' = IF connected THEN torn \cup {a} ELSE torn
  BY DEF StartFails
<1>1. request[q].pc = "starting" /\ request' = Done(q) /\ UNCHANGED <<instance, rivals>>
  BY DEF StartFails
<1>2. a \in Adapters
  BY <1>1 DEF RequestsKnowTheirs
<1>3. /\ request' \in [Requests -> RequestRecords] /\ request'[q].pc = "idle"
      /\ \A p \in Requests : p # q => request'[p] = request[p]
  BY <1>1, DoneRequest
<1> HIDE DEF a
<1>4. /\ adapter' \in [Adapters -> AdapterRecords]
      /\ \A b \in Adapters : /\ adapter'[b].used = adapter[b].used
                             /\ adapter'[b].channel = adapter[b].channel
                             /\ adapter'[b].open => adapter[b].open \/ b \in torn'
  <2>1. \A b \in Adapters : adapter[b] \in AdapterRecords
    BY DEF AdaptersTyped
  <2>2. [adapter[a] EXCEPT !.open = connected] \in AdapterRecords
    BY <1>2, <2>1 DEF AdapterRecords
  <2>3. adapter' = [adapter EXCEPT ![a] = [adapter[a] EXCEPT !.open = connected]]
    OBVIOUS
  <2>4. adapter' \in [Adapters -> AdapterRecords]
    BY <1>2, <2>2, <2>3 DEF AdaptersTyped
  <2>5. /\ adapter'[a] = [adapter[a] EXCEPT !.open = connected]
        /\ \A b \in Adapters : b # a => adapter'[b] = adapter[b]
    BY <1>2, <2>3 DEF AdaptersTyped
  <2>6. /\ adapter'[a].used = adapter[a].used /\ adapter'[a].channel = adapter[a].channel
        /\ adapter'[a].open = connected
    BY <1>2, <2>1, <2>5 DEF AdapterRecords
  <2>7. connected => a \in torn'
    OBVIOUS
  <2> QED
    BY <2>4, <2>5, <2>6, <2>7
<1>5. torn' \subseteq Adapters /\ torn \subseteq torn'
  BY <1>2 DEF AdaptersTyped
<1>6. AdaptersTyped'
  BY <1>1, <1>3, <1>4, <1>5 DEF AdaptersTyped
<1>7. RequestsKnowTheirs' /\ StartsAreApart' /\ OvertakersAreRivals'
  <2>1. request'[q].pc # "starting" /\ request'[q].pc # "stopping"
    BY <1>3
  <2> QED
    BY <1>1, <1>3, <1>4, <1>6, <2>1, NoStartHolds
<1>8. ConnectionsAreHeld'
  <2>1. \A b \in Stopping : b \in Stopping'
    BY <1>1, <1>3, StoppingStays
  <2> QED
    BY <1>1, <1>4, <1>5, <2>1 DEF ConnectionsAreHeld
<1> QED
  BY <1>6, <1>7, <1>8

\* A shutdown ends, and with it the request, unless it goes on to start another adapter.
LEMMA EndOfStopHolds ==
  ASSUME HeldInv, NEW q \in Requests, request[q].pc = "stopping",
         adapter' = Closed(request[q].adapter), request' = Done(q),
         UNCHANGED <<instance, rivals, torn>>
  PROVE  HeldInv'
<1> USE DEF HeldInv
<1>1. request[q].adapter \in Adapters \cup {NoAdapter}
  BY DEF AdaptersTyped, RequestRecords
<1>2. /\ adapter' \in [Adapters -> AdapterRecords]
      /\ \A b \in Adapters : /\ adapter'[b].used = adapter[b].used
                             /\ adapter'[b].channel = adapter[b].channel
                             /\ adapter'[b].open => adapter[b].open /\ b # request[q].adapter
  BY <1>1, ClosedAdapters
<1>3. /\ request' \in [Requests -> RequestRecords] /\ request'[q].pc = "idle"
      /\ \A p \in Requests : p # q => request'[p] = request[p]
  BY DoneRequest
<1>4. AdaptersTyped'
  BY <1>2, <1>3 DEF AdaptersTyped
<1>5. RequestsKnowTheirs' /\ StartsAreApart' /\ OvertakersAreRivals'
  <2>1. request'[q].pc # "starting" /\ request'[q].pc # "stopping"
    BY <1>3
  <2> QED
    BY <1>2, <1>3, <1>4, <2>1, NoStartHolds
<1>6. ConnectionsAreHeld'
  <2>1. \A b \in Stopping : b # request[q].adapter => b \in Stopping'
    BY <1>3, StoppingStays
  <2> QED
    BY <1>2, <2>1 DEF ConnectionsAreHeld
<1> QED
  BY <1>4, <1>5, <1>6

LEMMA RestartedHolds ==
  ASSUME HeldInv, NEW q \in Requests, Restarted(q)
  PROVE  HeldInv'
<1> DEFINE c == request[q].channel
           closed == Closed(request[q].adapter)
<1>1. request[q].pc = "stopping" /\ UNCHANGED <<instance, torn>>
  BY DEF Restarted
<1>2. CASE instance[c] # NoAdapter
  BY <1>1, <1>2, EndOfStopHolds DEF Restarted
<1>3. CASE instance[c] = NoAdapter
  <2> PICK a \in Unbuilt :
        /\ adapter' = [closed EXCEPT ![a] = [used |-> TRUE, channel |-> c, open |-> FALSE]]
        /\ request' = [request EXCEPT ![q] = [pc |-> "starting", op |-> "start", channel |-> c,
                                              adapter |-> a]]
        /\ rivals' = IF Starting(c) = {} THEN rivals ELSE rivals \cup Starting(c) \cup {a}
    BY <1>3 DEF Restarted
  <2>1. c \in Names /\ request[q].adapter \in Adapters \cup {NoAdapter}
    BY <1>1 DEF HeldInv, RequestsKnowTheirs, AdaptersTyped, RequestRecords
  <2>2. /\ closed \in [Adapters -> AdapterRecords]
        /\ \A b \in Adapters : /\ closed[b].used = adapter[b].used
                               /\ closed[b].channel = adapter[b].channel
                               /\ closed[b].open => adapter[b].open /\ b # request[q].adapter
    BY <2>1, ClosedAdapters DEF HeldInv
  <2> HIDE DEF c, closed
  <2>3. request[q].pc # "starting" /\ instance[c] = NoAdapter /\ c \in Names /\ UNCHANGED <<instance, torn>>
    BY <1>1, <1>3, <2>1
  <2>4. \A b \in Adapters :
          /\ closed[b].used = adapter[b].used /\ closed[b].channel = adapter[b].channel
          /\ closed[b].open =>
               adapter[b].open /\ (request[q].pc = "stopping" => b # request[q].adapter)
    BY <2>2
  <2>5. closed \in [Adapters -> AdapterRecords] /\ "start" \in {"start", "send"}
    BY <2>2
  <2> QED
    BY <2>3, <2>4, <2>5, BuildHolds
<1> QED
  BY <1>2, <1>3

LEMMA RebootHolds ==
  ASSUME Reboot
  PROVE  HeldInv'
<1> PICK f \in [Names -> Adapters \cup {NoAdapter}] :
      /\ instance' = f
      /\ adapter' = [a \in Adapters |->
                       IF \E c \in Names : f[c] = a
                       THEN [used |-> TRUE, channel |-> CHOOSE c \in Names : f[c] = a, open |-> TRUE]
                       ELSE NewAdapter]
  BY DEF Reboot
<1>1. request' = [q \in Requests |-> NewRequest] /\ rivals' = {} /\ torn' = {}
  BY DEF Reboot
<1>2. ASSUME NEW a \in Adapters, \E c \in Names : f[c] = a
      PROVE  /\ adapter'[a] \in AdapterRecords
             /\ instance'[adapter'[a].channel] = a
  <2> DEFINE d == CHOOSE c \in Names : f[c] = a
  <2>1. d \in Names /\ f[d] = a
    BY <1>2
  <2>2. adapter'[a] = [used |-> TRUE, channel |-> d, open |-> TRUE]
    BY <1>2
  <2> HIDE DEF d
  <2> QED
    BY <2>1, <2>2, ChannelsAssumption DEF AdapterRecords
<1>3. ASSUME NEW a \in Adapters, ~(\E c \in Names : f[c] = a)
      PROVE  adapter'[a] \in AdapterRecords /\ ~adapter'[a].open
  <2>1. adapter'[a] = NewAdapter
    BY <1>3
  <2> QED
    BY <2>1, NewRecords DEF NewAdapter
<1>4. AdaptersTyped'
  <2>1. adapter' = [a \in Adapters |-> adapter'[a]]
    OBVIOUS
  <2>2. adapter' \in [Adapters -> AdapterRecords]
    BY <1>2, <1>3, <2>1
  <2> QED
    BY <1>1, <2>2, NewRecords DEF AdaptersTyped
<1>5. \A q \in Requests : request'[q].pc = "idle"
  BY <1>1 DEF NewRequest
<1>6. RequestsKnowTheirs' /\ StartsAreApart' /\ OvertakersAreRivals'
  BY <1>5 DEF RequestsKnowTheirs, StartsAreApart, OvertakersAreRivals
<1>7. ConnectionsAreHeld'
  BY <1>2, <1>3 DEF ConnectionsAreHeld
<1> QED
  BY <1>4, <1>6, <1>7 DEF HeldInv

LEMMA HeldInvInit == Init => HeldInv
<1> SUFFICES ASSUME Init PROVE HeldInv
  OBVIOUS
<1>1. AdaptersTyped
  BY NewRecords DEF Init, AdaptersTyped
<1>2. \A q \in Requests : request[q].pc = "idle"
  BY DEF Init, NewRequest
<1>3. \A a \in Adapters : ~adapter[a].open
  BY DEF Init, NewAdapter
<1> QED
  BY <1>1, <1>2, <1>3 DEF HeldInv, RequestsKnowTheirs, StartsAreApart, OvertakersAreRivals,
                          ConnectionsAreHeld

LEMMA HeldInvNext == HeldInv /\ [Next]_vars => HeldInv'
<1> SUFFICES ASSUME HeldInv, [Next]_vars PROVE HeldInv'
  OBVIOUS
<1>1. ASSUME UNCHANGED channelVars PROVE HeldInv'
  BY <1>1 DEF channelVars, HeldInv, AdaptersTyped, RequestsKnowTheirs, StartsAreApart,
              OvertakersAreRivals, ConnectionsAreHeld, Stopping
<1>2. ASSUME NEW c \in Names, NEW v \in Values, Configure(c, v) PROVE HeldInv'
  BY <1>1, <1>2 DEF Configure
<1>3. ASSUME NEW c \in Names, StopNothing(c) PROVE HeldInv'
  BY <1>1, <1>3 DEF StopNothing
<1>4. ASSUME NEW c \in Names, NEW q \in Requests, Start(q, c) PROVE HeldInv'
  BY <1>4, BeginStopHolds, StartOrSendHolds DEF Start
<1>5. ASSUME NEW c \in Names, NEW q \in Requests, Send(q, c) PROVE HeldInv'
  BY <1>5, StartOrSendHolds DEF Send
<1>6. ASSUME NEW c \in Names, NEW q \in Requests, Stop(q, c) PROVE HeldInv'
  BY <1>6, BeginStopHolds DEF Stop
<1>7. ASSUME NEW c \in Names, NEW q \in Requests, DeleteConfig(q, c) PROVE HeldInv'
  BY <1>1, <1>7, BeginStopHolds DEF DeleteConfig
<1>8. ASSUME NEW q \in Requests, Stopped(q) PROVE HeldInv'
  BY <1>8, EndOfStopHolds DEF Stopped
<1>9. CASE ChannelSteps
  BY <1>2, <1>3, <1>4, <1>5, <1>6, <1>7, <1>8, <1>9, StartedHolds, StartFailsHolds,
     RestartedHolds DEF ChannelSteps
<1>10. CASE Reboot
  BY <1>10, RebootHolds
<1>11. CASE UNCHANGED vars
  BY <1>1, <1>11 DEF vars
<1> QED
  BY <1>1, <1>9, <1>10, <1>11 DEF Next

\* A connection that no request can close any more comes from a start that failed half-way, or
\* from two starts of one channel that overlapped (channels/registry.py, get_or_create and
\* stop): for any channels, requests and adapters, also across stops, restarts and deletions.
THEOREM ConnectionsHaveHolders == Spec => []ConnectionsAreHeld
<1>1. HeldInv => ConnectionsAreHeld
  BY DEF HeldInv
<1> QED
  BY HeldInvInit, HeldInvNext, <1>1, PTL DEF Spec
-----------------------------------------------------------------------------
(* Types: whatever is kept is kept under a key. *)

TablesKeyed ==
  /\ DOMAIN memory \subseteq Keys /\ DOMAIN file \subseteq Keys /\ DOMAIN acked \subseteq Keys
  /\ doubtful \subseteq Keys

RegistryKeyed == DOMAIN registry \subseteq Keys /\ \A k \in DOMAIN registry : registry[k] \in Values

StoresKeyed ==
  /\ TablesKeyed /\ RegistryKeyed
  /\ store \in Stores /\ process \in {"up", "failed"} /\ restarts \in 0..MaxRestarts
  /\ misread \in BOOLEAN

LEMMA KeepKeyed ==
  ASSUME StoresTyped, TablesKeyed, NEW k \in Keys, NEW e \in Entries, NEW new, DOMAIN new \subseteq Keys,
         NEW keys \in SUBSET Keys, Keep(new, k, e, keys)
  PROVE  TablesKeyed'
<1>1. Typed(acked)
  BY DEF StoresTyped
<1>2. Sets(acked, k, e, Placed(acked, k, e))
  BY <1>1, PlacedSets
<1>3. DOMAIN Placed(acked, k, e) \subseteq Keys
  BY <1>2 DEF Sets, TablesKeyed
<1> QED
  BY <1>3 DEF Keep, TablesKeyed

LEMMA PutKeyed ==
  ASSUME StoresTyped, StoresKeyed, NEW k \in Keys, NEW e \in Entries, Put(k, e)
  PROVE  TablesKeyed' /\ UNCHANGED <<store, process, restarts, misread>>
<1>1. TablesKeyed
  BY DEF StoresKeyed
<1>2. DOMAIN Placed(memory, k, e) \subseteq Keys
  <2>1. Typed(memory)
    BY DEF StoresTyped
  <2>2. Sets(memory, k, e, Placed(memory, k, e))
    BY <2>1, PlacedSets
  <2> QED
    BY <1>1, <2>2 DEF Sets, TablesKeyed
<1>3. Affected(k, e) \in SUBSET Keys
  BY <1>1 DEF Affected, TablesKeyed
<1>4. Keep(Placed(memory, k, e), k, e, Affected(k, e)) /\ UNCHANGED <<store, process, restarts, misread>>
  BY DEF Put
<1> QED
  BY <1>1, <1>2, <1>3, <1>4, KeepKeyed

LEMMA RemoveKeyed ==
  ASSUME StoresKeyed, NEW k \in Keys, Remove(k)
  PROVE  TablesKeyed' /\ UNCHANGED <<store, process, restarts, misread>>
<1>1. DOMAIN Without(memory, k) \subseteq Keys /\ DOMAIN Without(acked, k) \subseteq Keys
  BY DEF Without, Restrict, StoresKeyed, TablesKeyed
<1> QED
  BY <1>1 DEF Remove, Forget, StoresKeyed, TablesKeyed

LEMMA RegistryChanges ==
  ASSUME RegistryKeyed, NEW k \in Keys, NEW v \in Values,
         \/ registry' = registry \/ registry' = With(registry, k, v) \/ registry' = Without(registry, k)
  PROVE  RegistryKeyed'
<1>1. CASE registry' = registry
  BY <1>1 DEF RegistryKeyed
<1>2. CASE registry' = With(registry, k, v)
  <2>1. DOMAIN registry' = DOMAIN registry \cup {k}
    BY <1>2 DEF With
  <2>2. \A j \in DOMAIN registry' : registry'[j] = IF j = k THEN v ELSE registry[j]
    BY <1>2 DEF With
  <2> QED
    BY <2>1, <2>2 DEF RegistryKeyed
<1>3. CASE registry' = Without(registry, k)
  BY <1>3 DEF RegistryKeyed, Without, Restrict
<1> QED
  BY <1>1, <1>2, <1>3

LEMMA StaysKeyed ==
  ASSUME StoresKeyed, TablesKeyed', RegistryKeyed', UNCHANGED <<store, process, restarts, misread>>
  PROVE  StoresKeyed'
BY DEF StoresKeyed

LEMMA SaveAgentKeyed ==
  ASSUME StoresTyped, StoresKeyed, NEW k \in Keys, NEW v \in Values, RegisterAgent(k, v) \/ UpdateAgent(k, v)
  PROVE  StoresKeyed'
<1>1. Put(k, Entry(v, FALSE)) \/ RefuseLate(k, v)
  BY DEF RegisterAgent, UpdateAgent
<1>2. ASSUME Put(k, Entry(v, FALSE)) PROVE TablesKeyed' /\ UNCHANGED <<store, process, restarts, misread>>
  BY <1>2, EntryIsTyped, PutKeyed
<1>3. ASSUME RefuseLate(k, v) PROVE TablesKeyed' /\ UNCHANGED <<store, process, restarts, misread>>
  <2>1. DOMAIN With(memory, k, Entry(v, FALSE)) \subseteq Keys
    BY DEF With, StoresKeyed, TablesKeyed
  <2> QED
    BY <1>3, <2>1 DEF RefuseLate, StoresKeyed, TablesKeyed
<1>4. TablesKeyed' /\ UNCHANGED <<store, process, restarts, misread>>
  BY <1>1, <1>2, <1>3
<1>5. \/ registry' = registry \/ registry' = With(registry, k, v) \/ registry' = Without(registry, k)
  BY DEF RegisterAgent, UpdateAgent
<1>6. RegistryKeyed'
  BY <1>5, RegistryChanges DEF StoresKeyed
<1> QED
  BY <1>4, <1>6, StaysKeyed

LEMMA PutStaysKeyed ==
  ASSUME StoresTyped, StoresKeyed, NEW k \in Keys, NEW e \in Entries, Put(k, e), UNCHANGED registry
  PROVE  StoresKeyed'
<1>1. TablesKeyed' /\ UNCHANGED <<store, process, restarts, misread>>
  BY PutKeyed
<1>2. RegistryKeyed'
  BY DEF RegistryKeyed, StoresKeyed
<1> QED
  BY <1>1, <1>2, StaysKeyed

LEMMA RemoveStaysKeyed ==
  ASSUME StoresKeyed, NEW k \in Keys, Remove(k), registry' = registry \/ registry' = Without(registry, k)
  PROVE  StoresKeyed'
<1>1. TablesKeyed' /\ UNCHANGED <<store, process, restarts, misread>>
  BY RemoveKeyed
<1>2. PICK v \in Values : TRUE
  BY StoresAssumption
<1>3. RegistryKeyed'
  BY RegistryChanges DEF StoresKeyed
<1> QED
  BY <1>1, <1>3, StaysKeyed

LEMMA OperateStaysKeyed ==
  ASSUME StoresTyped, StoresKeyed, Operate
  PROVE  StoresKeyed'
<1>1. ASSUME NEW k \in Keys, NEW v \in Values, SetSecret(k, v) \/ SetOverlay(k, v) \/ SavePreferences(v)
      PROVE  StoresKeyed'
  <2>1. Put(k, Entry(v, FALSE)) \/ Put(DefaultName, Entry(v, FALSE))
    BY <1>1 DEF SetSecret, SetOverlay, SavePreferences
  <2>2. UNCHANGED registry /\ DefaultName \in Keys
    BY <1>1, StoresAssumption DEF SetSecret, SetOverlay, SavePreferences
  <2> QED
    BY <2>1, <2>2, EntryIsTyped, PutStaysKeyed
<1>2. ASSUME NEW k \in Keys, NEW v \in Values, NEW primary \in BOOLEAN,
             CreateWorkspace(k, Entry(v, primary)) \/ UpdateWorkspace(k, Entry(v, primary))
      PROVE  StoresKeyed'
  <2>1. Put(k, Entry(v, primary)) /\ UNCHANGED registry
    BY <1>2 DEF CreateWorkspace, UpdateWorkspace
  <2> QED
    BY <2>1, EntryIsTyped, PutStaysKeyed
<1>3. ASSUME NEW k \in Keys,
             DeleteSecret(k) \/ DeleteAgent(k) \/ DeleteWorkspace(k) \/ RemoveWorkspaceByTool(k)
      PROVE  StoresKeyed'
  <2>1. Remove(k) /\ (registry' = registry \/ registry' = Without(registry, k))
    BY <1>3 DEF DeleteSecret, DeleteAgent, DeleteWorkspace, RemoveWorkspaceByTool
  <2> QED
    BY <2>1, RemoveStaysKeyed
<1> QED
  BY <1>1, <1>2, <1>3, SaveAgentKeyed DEF Operate

LEMMA FreshIsKeyed == DOMAIN Fresh \subseteq Keys
<1>1. CASE store = "workspaces"
  <2>1. DOMAIN Fresh = {DefaultName}
    BY <1>1 DEF Fresh, With, Empty
  <2> QED
    BY <2>1, StoresAssumption
<1>2. CASE store # "workspaces"
  BY <1>2 DEF Fresh, Empty
<1> QED
  BY <1>1, <1>2

LEMMA InvokersKeyed ==
  ASSUME NEW m, Typed(m), DOMAIN m \subseteq Keys
  PROVE  DOMAIN Invokers(m) \subseteq Keys /\ \A k \in DOMAIN Invokers(m) : Invokers(m)[k] \in Values
BY InvokersFollow DEF Typed, Entries

LEMMA StartStaysKeyed ==
  ASSUME StoresTyped, StoresKeyed, Restart \/ RestartMisread
  PROVE  StoresKeyed'
<1>3. PICK x : Loaded(x) /\ (x = Fresh \/ x = file)
  BY DEF Restart, RestartMisread
<1>4. Typed(x) /\ DOMAIN x \subseteq Keys
  BY <1>3, FreshIsRight, FreshIsKeyed DEF StoresTyped, StoresKeyed, TablesKeyed
<1>5. /\ memory' = x /\ process' = Loads(x) /\ registry' = Invokers(x)
      /\ restarts < MaxRestarts /\ restarts' = restarts + 1
  BY <1>3 DEF Loaded
<1>6. RegistryKeyed'
  BY <1>4, <1>5, InvokersKeyed DEF RegistryKeyed
<1>7. process' \in {"up", "failed"}
  BY <1>5 DEF Loads
<1>8. restarts' \in 0..MaxRestarts
  BY <1>5, StoresAssumption DEF StoresKeyed
<1>9. /\ store' = store /\ doubtful' = doubtful /\ (misread' = misread \/ misread' = TRUE)
      /\ file' = Fresh \/ file' = file
      /\ acked' = Fresh \/ acked' = acked
  BY DEF Restart, RestartMisread
<1>10. TablesKeyed'
  BY <1>4, <1>5, <1>9, FreshIsKeyed DEF StoresKeyed, TablesKeyed
<1> QED
  BY <1>6, <1>7, <1>8, <1>9, <1>10 DEF StoresKeyed

LEMMA NothingStaysKeyed ==
  ASSUME StoresKeyed, UNCHANGED storeVars
  PROVE  StoresKeyed'
BY DEF StoresKeyed, TablesKeyed, RegistryKeyed, storeVars

\* A channel request changes one entry, or none.
LEMMA EntryStaysKeyed ==
  ASSUME StoresTyped, StoresKeyed, NEW c \in Names, NEW e \in Entries, Keep(With(memory, c, e), c, e, {c}),
         UNCHANGED storeRest
  PROVE  StoresKeyed'
<1>1. c \in Keys /\ DOMAIN With(memory, c, e) \subseteq Keys
  BY ChannelsAssumption DEF With, StoresKeyed, TablesKeyed
<1>2. {c} \in SUBSET Keys
  BY <1>1
<1>3. TablesKeyed'
  BY <1>1, <1>2, KeepKeyed DEF StoresKeyed
<1>4. RegistryKeyed' /\ UNCHANGED <<store, process, restarts, misread>>
  BY DEF RegistryKeyed, StoresKeyed, storeRest
<1> QED
  BY <1>3, <1>4, StaysKeyed

LEMMA MarkStaysKeyed ==
  ASSUME StoresTyped, StoresKeyed, NEW c \in Names, NEW enabled \in BOOLEAN, Mark(c, enabled), UNCHANGED storeRest
  PROVE  StoresKeyed'
<1>1. CASE c \in DOMAIN memory
  <2>1. PICK e : e = [memory[c] EXCEPT !.mark = enabled]
    OBVIOUS
  <2>2. memory[c] \in [value : Values, mark : BOOLEAN]
    BY <1>1 DEF StoresTyped, Typed, Entries
  <2>3. e \in Entries
    BY <2>1, <2>2 DEF Entries
  <2>4. Keep(With(memory, c, e), c, e, {c})
    BY <1>1, <2>1 DEF Mark
  <2> QED
    BY <2>3, <2>4, EntryStaysKeyed
<1>2. CASE c \notin DOMAIN memory
  <2>1. UNCHANGED storeVars
    BY <1>2 DEF Mark, storeRest, storeVars
  <2> QED
    BY <2>1, NothingStaysKeyed
<1> QED
  BY <1>1, <1>2

LEMMA ChannelStepsStayKeyed ==
  ASSUME StoresTyped, StoresKeyed, RequestsKnowTheirs, ChannelSteps
  PROVE  StoresKeyed'
<1>1. ASSUME NEW c \in Names, NEW v \in Values, Configure(c, v) PROVE StoresKeyed'
  <2>1. PICK b : b = IF c \in DOMAIN memory THEN memory[c].mark ELSE FALSE
    OBVIOUS
  <2>2. b \in BOOLEAN
    BY <2>1 DEF StoresTyped, Typed, Entries
  <2>3. PICK e : e = Entry(v, b)
    OBVIOUS
  <2>4. e \in Entries
    BY <2>2, <2>3, EntryIsTyped
  <2>5. Keep(With(memory, c, e), c, e, {c}) /\ UNCHANGED storeRest
    BY <1>1, <2>1, <2>3 DEF Configure
  <2> QED
    BY <2>4, <2>5, EntryStaysKeyed
<1>2. ASSUME NEW c \in Names, StopNothing(c) PROVE StoresKeyed'
  BY <1>2, MarkStaysKeyed DEF StopNothing
<1>3. ASSUME NEW c \in Names, NEW q, Start(q, c) \/ Send(q, c) \/ Stop(q, c) PROVE StoresKeyed'
  BY <1>3, NothingStaysKeyed DEF Start, Send, Stop, BeginStop
<1>4. ASSUME NEW c \in Names, Remove(c), registry' = registry PROVE StoresKeyed'
  BY <1>4, RemoveStaysKeyed, ChannelsAssumption
<1>5. ASSUME NEW c \in Names, NEW q, DeleteConfig(q, c) PROVE StoresKeyed'
  BY <1>4, <1>5, NothingStaysKeyed DEF DeleteConfig, BeginStop
<1>6. ASSUME NEW c \in Names, NEW q, Finish(q, c) PROVE StoresKeyed'
  BY <1>6, MarkStaysKeyed, NothingStaysKeyed DEF Finish
<1>7. ASSUME NEW q \in Requests, Started(q) PROVE StoresKeyed'
  BY <1>6, <1>7 DEF Started, RequestsKnowTheirs
<1>8. ASSUME NEW q \in Requests, StartFails(q) PROVE StoresKeyed'
  BY <1>8, NothingStaysKeyed DEF StartFails
<1>9. ASSUME NEW q \in Requests, Stopped(q) PROVE StoresKeyed'
  <2>1. request[q].channel \in Names
    BY <1>9 DEF Stopped, RequestsKnowTheirs
  <2>2. CASE request[q].op = "stop"
    BY <1>9, <2>1, <2>2, MarkStaysKeyed DEF Stopped
  <2>3. CASE request[q].op = "delete" /\ request[q].channel \in DOMAIN memory
    BY <1>4, <1>9, <2>1, <2>3 DEF Stopped
  <2>4. CASE ~(request[q].op = "stop") /\ ~(request[q].op = "delete" /\ request[q].channel \in DOMAIN memory)
    BY <1>9, <2>4, NothingStaysKeyed DEF Stopped
  <2> QED
    BY <2>2, <2>3, <2>4
<1>10. ASSUME NEW q \in Requests, Restarted(q) PROVE StoresKeyed'
  <2>1. request[q].channel \in Names
    BY <1>10 DEF Restarted, RequestsKnowTheirs
  <2> QED
    BY <1>6, <1>10, <2>1, NothingStaysKeyed DEF Restarted
<1> QED
  BY <1>1, <1>2, <1>3, <1>5, <1>7, <1>8, <1>9, <1>10 DEF ChannelSteps

LEMMA StoresKeyedInit == Init => StoresKeyed
<1> SUFFICES ASSUME Init PROVE StoresKeyed
  OBVIOUS
<1>1. /\ store \in Stores /\ memory = Fresh /\ file = Fresh /\ acked = Fresh
      /\ registry = Invokers(Empty) /\ process = "up" /\ restarts = 0
      /\ doubtful = {} /\ misread = FALSE
  BY DEF Init, StoreInit
<1>2. TablesKeyed
  BY <1>1, FreshIsKeyed DEF TablesKeyed
<1>3. Typed(Empty) /\ DOMAIN Empty \subseteq Keys
  BY DEF Typed, Empty
<1>4. RegistryKeyed
  BY <1>1, <1>3, InvokersKeyed DEF RegistryKeyed
<1>5. restarts \in 0..MaxRestarts
  BY <1>1, StoresAssumption
<1> QED
  BY <1>1, <1>2, <1>4, <1>5 DEF StoresKeyed

LEMMA StoresKeyedNext == StoresKeyed /\ Inv /\ HeldInv /\ [Next]_vars => StoresKeyed'
<1> SUFFICES ASSUME StoresKeyed, Inv, HeldInv, [Next]_vars PROVE StoresKeyed'
  OBVIOUS
<1>1. StoresTyped /\ RequestsKnowTheirs
  BY DEF Inv, Kept, Entered, HeldInv
<1>2. CASE ChannelSteps
  BY <1>1, <1>2, ChannelStepsStayKeyed
<1>3. CASE Reboot
  BY <1>1, <1>3, StartStaysKeyed DEF Reboot
<1>4. CASE Operate
  BY <1>1, <1>4, OperateStaysKeyed
<1>5. CASE UNCHANGED vars
  BY <1>5, NothingStaysKeyed DEF vars
<1> QED
  BY <1>2, <1>3, <1>4, <1>5 DEF Next

\* Entries, invokers, adapters and requests keep their types for any stores, keys, values and
\* numbers of adapters; nothing is kept or registered under anything but a key.
THEOREM ChannelsTypeCorrectness == Spec => []TypeOK
<1>1. ASSUME StoresKeyed, Inv, HeldInv PROVE TypeOK
  <2>1. StoreTypeOK
    BY <1>1 DEF StoreTypeOK, StoresKeyed, TablesKeyed, RegistryKeyed, Inv, Kept, Entered, StoresTyped, Typed
  <2> QED
    BY <1>1, <2>1 DEF TypeOK, HeldInv, AdaptersTyped, AdapterRecords, RequestRecords
<1>2. Spec => []HeldInv
  BY HeldInvInit, HeldInvNext, PTL DEF Spec
<1>3. Spec => []StoresKeyed
  BY <1>2, InvHolds, StoresKeyedInit, StoresKeyedNext, PTL DEF Spec
<1> QED
  BY <1>1, <1>2, <1>3, InvHolds, PTL
=============================================================================
