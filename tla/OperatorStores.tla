--------------------------- MODULE OperatorStores ---------------------------
(***************************************************************************)
(* What operators configure and the plugin keeps in one JSON file per      *)
(* store: provider keys (security/secret_store.py), the runtime overlay    *)
(* (config/runtime.py), model preferences (config/models.py), custom       *)
(* agents with their registry (agents/custom.py), workspaces               *)
(* (workspace/config.py) and channel configurations                        *)
(* (channels/config_store.py).  Every store changes its memory, then       *)
(* writes all of it to a temporary file and renames that over the old one. *)
(* The stores share no state: a behaviour follows one of them.             *)
(***************************************************************************)
EXTENDS Integers, FiniteSets, Functions

CONSTANTS Stores,        \* the stores that are followed
          Keys,          \* providers, sections, agent names, workspaces, channels
          Values,        \* what a key is set to: an API key, a policy, a spec, a configuration
          Unbuildable,   \* agent specs that pass validation and whose invoker cannot be built
          DefaultName,   \* the workspace made when none is loaded
          MaxAgents,     \* _MAX_CUSTOM_AGENTS
          MaxRestarts    \* bound: restarts of the plugin

StoreKinds == {"secrets", "overlay", "models", "agents", "workspaces", "channels"}
ASSUME StoresAssumption == /\ Stores \subseteq StoreKinds /\ Stores # {} /\ Values # {}
                           /\ Unbuildable \subseteq Values /\ DefaultName \in Keys
                           /\ MaxRestarts \in Nat

VARIABLES store,      \* the store this behaviour is about
          memory,     \* its entries, by key
          file,       \* what its file holds
          registry,   \* custom agents: the invokers in the AgentRegistry
          process,    \* the plugin: initialised, or stopped by an error while initialising
          restarts,   \* restarts so far
          acked,      \* history: the entries as the answered requests left them
          doubtful,   \* history: keys whose last change was answered with an error
          misread     \* history: some start could not read the file
storeVars == <<store, memory, file, registry, process, restarts, acked, doubtful, misread>>
-----------------------------------------------------------------------------
Entry(v, mark) == [value |-> v, mark |-> mark]   \* mark: a channel is enabled, a workspace primary
Empty == [k \in {} |-> Entry(CHOOSE v \in Values : TRUE, FALSE)]
With(m, k, e) == [j \in DOMAIN m \cup {k} |-> IF j = k THEN e ELSE m[j]]
Without(m, k) == Restrict(m, DOMAIN m \ {k})

\* A new or updated primary workspace demotes every other one.
\* Seeded fault: the demotion is forgotten.
DemotedNever(m, k) == [j \in DOMAIN m |-> m[j]]
Demoted(m, k) == [j \in DOMAIN m |-> IF j = k THEN m[j] ELSE [m[j] EXCEPT !.mark = FALSE]]
Placed(m, k, e) == LET all == With(m, k, e) IN IF store = "workspaces" /\ e.mark THEN Demoted(all, k) ELSE all
Affected(k, e) == IF store = "workspaces" /\ e.mark THEN {j \in DOMAIN memory : memory[j].mark} \cup {k} ELSE {k}

Fresh == IF store = "workspaces" THEN With(Empty, DefaultName, Entry(CHOOSE v \in Values : TRUE, TRUE)) ELSE Empty

\* _persist: the file becomes the whole memory and the request is answered; or writing raises,
\* the memory keeps the change and the request is answered with an error.
\* Seeded fault: only the changed entry is written.
KeepOnlyNew(new, k, e, keys) ==
  /\ memory' = new
  /\ \/ /\ file' = With(Empty, k, e)
        /\ acked' = Placed(acked, k, e) /\ doubtful' = doubtful \ {k}
     \/ UNCHANGED <<file, acked>> /\ doubtful' = doubtful \cup keys
Keep(new, k, e, keys) ==
  /\ memory' = new
  /\ \/ file' = new /\ acked' = Placed(acked, k, e) /\ doubtful' = doubtful \ {k}
     \/ UNCHANGED <<file, acked>> /\ doubtful' = doubtful \cup keys

Forget(k) ==
  /\ memory' = Without(memory, k)
  /\ \/ file' = Without(memory, k) /\ acked' = Without(acked, k) /\ doubtful' = doubtful \ {k}
     \/ UNCHANGED <<file, acked>> /\ doubtful' = doubtful \cup {k}

Running(s) == process = "up" /\ store = s
Put(k, e) == Keep(Placed(memory, k, e), k, e, Affected(k, e)) /\ UNCHANGED <<store, process, restarts, misread>>
Remove(k) == k \in DOMAIN memory /\ Forget(k) /\ UNCHANGED <<store, process, restarts, misread>>
-----------------------------------------------------------------------------
(* Stores whose operations are those of a dictionary. *)

SetSecret(k, v) == Running("secrets") /\ Put(k, Entry(v, FALSE)) /\ UNCHANGED registry
DeleteSecret(k) == Running("secrets") /\ Remove(k) /\ UNCHANGED registry
SetOverlay(k, v) == Running("overlay") /\ Put(k, Entry(v, FALSE)) /\ UNCHANGED registry
SavePreferences(v) == Running("models") /\ Put(DefaultName, Entry(v, FALSE)) /\ UNCHANGED registry
-----------------------------------------------------------------------------
(* Custom agents: the spec is kept, its invoker registered, the file saved. *)

Buildable(v) == v \notin Unbuildable

\* _apply raises after _specs has the spec and before the file is saved: the request is refused.
RefuseLate(k, v) ==
  /\ ~Buildable(v)
  /\ memory' = With(memory, k, Entry(v, FALSE))
  /\ doubtful' = doubtful \cup {k}
  /\ UNCHANGED <<store, file, process, restarts, acked, misread>>

RegisterAgent(k, v) ==
  /\ Running("agents") /\ k \notin DOMAIN memory /\ Cardinality(DOMAIN memory) < MaxAgents
  /\ \/ Buildable(v) /\ Put(k, Entry(v, FALSE)) /\ registry' = With(registry, k, v)
     \/ RefuseLate(k, v) /\ UNCHANGED registry

UpdateAgent(k, v) ==
  /\ Running("agents") /\ k \in DOMAIN memory
  /\ \/ Buildable(v) /\ Put(k, Entry(v, FALSE)) /\ registry' = With(registry, k, v)
     \/ RefuseLate(k, v) /\ registry' = Without(registry, k)

DeleteAgent(k) == Running("agents") /\ Remove(k) /\ registry' = Without(registry, k)
-----------------------------------------------------------------------------
(* Workspaces. *)

CreateWorkspace(k, e) ==
  Running("workspaces") /\ k \notin DOMAIN memory /\ Put(k, e) /\ UNCHANGED registry

\* Nothing asks for another primary workspace when an update takes the flag away.
UpdateWorkspace(k, e) ==
  Running("workspaces") /\ k \in DOMAIN memory /\ Put(k, e) /\ UNCHANGED registry

\* The route keeps the last workspace and a primary one.
DeleteWorkspace(k) ==
  /\ Running("workspaces") /\ Cardinality(DOMAIN memory) > 1
  /\ k \in DOMAIN memory /\ ~memory[k].mark
  /\ Remove(k) /\ UNCHANGED registry

\* The MCP tool keeps neither the last workspace nor a primary one.
RemoveWorkspaceByTool(k) == Running("workspaces") /\ Remove(k) /\ UNCHANGED registry
-----------------------------------------------------------------------------
(* The process stops or is killed, also between the temporary file and its renaming, and     *)
(* starts again.                                                                             *)

Loads(m) == IF store = "agents" /\ \E k \in DOMAIN m : ~Buildable(m[k].value) THEN "failed" ELSE "up"
Invokers(m) == IF store = "agents" /\ Loads(m) = "up" THEN [k \in DOMAIN m |-> m[k].value]
               ELSE [k \in {} |-> CHOOSE v \in Values : TRUE]

Loaded(m) ==
  /\ memory' = m
  /\ process' = Loads(m)
  /\ registry' = Invokers(m)
  /\ restarts < MaxRestarts /\ restarts' = restarts + 1

\* Without any workspace the default one is made and saved.
Restart ==
  /\ Loaded(IF file = Empty THEN Fresh ELSE file)
  /\ file' = IF file = Empty THEN Fresh ELSE file
  /\ acked' = IF file = Empty /\ store = "workspaces" THEN Fresh ELSE acked
  /\ UNCHANGED <<store, doubtful, misread>>

\* An unreadable file loads as nothing; workspaces save their default over it at once.
RestartMisread ==
  /\ Loaded(Fresh)
  /\ file' = IF store = "workspaces" THEN Fresh ELSE file
  /\ misread' = TRUE
  /\ UNCHANGED <<store, acked, doubtful>>

StoreInit ==
  /\ store \in Stores
  /\ memory = Fresh /\ file = Fresh /\ acked = Fresh
  /\ registry = Invokers(Empty) /\ process = "up" /\ restarts = 0
  /\ doubtful = {} /\ misread = FALSE

Operate ==
  \/ \E k \in Keys, v \in Values :
       \/ SetSecret(k, v) \/ SetOverlay(k, v) \/ SavePreferences(v)
       \/ RegisterAgent(k, v) \/ UpdateAgent(k, v)
       \/ \E primary \in BOOLEAN : \/ CreateWorkspace(k, Entry(v, primary))
                                   \/ UpdateWorkspace(k, Entry(v, primary))
  \/ \E k \in Keys : \/ DeleteSecret(k) \/ DeleteAgent(k)
                     \/ DeleteWorkspace(k) \/ RemoveWorkspaceByTool(k)

StoreNext == Operate \/ Restart \/ RestartMisread
-----------------------------------------------------------------------------
Entries == [value : Values, mark : BOOLEAN]
StoreTypeOK ==
  /\ store \in Stores
  /\ \A m \in {memory, file, acked} : DOMAIN m \subseteq Keys /\ \A k \in DOMAIN m : m[k] \in Entries
  /\ DOMAIN registry \subseteq Keys /\ \A k \in DOMAIN registry : registry[k] \in Values
  /\ process \in {"up", "failed"} /\ restarts \in 0..MaxRestarts
  /\ doubtful \subseteq Keys /\ misread \in BOOLEAN

\* Unless a start could not read the file, every key is on disk as the last answered request
\* left it, whatever failed for other keys and whenever the process was killed; only a key
\* whose own last change was answered with an error may be there either way.
AcknowledgedIsKept ==
  ~misread => \A k \in Keys \ doubtful :
    /\ k \in DOMAIN file <=> k \in DOMAIN acked
    /\ k \in DOMAIN file => file[k] = acked[k]

\* A custom agent answers with the spec that is listed for it (agents/custom.py, update and
\* delete change the registry and the specs together).
RegistryFollowsSpecs ==
  store = "agents" => \A k \in DOMAIN registry : k \in DOMAIN memory /\ memory[k].value = registry[k]

\* At most one workspace is primary, in memory and after any restart.
OnePrimary ==
  store = "workspaces" => \A m \in {memory, file} : \A j, k \in DOMAIN m : m[j].mark /\ m[k].mark => j = k

\* The tables that a store keeps beside its entries, or marks in them, are consistent.
TablesAgree == RegistryFollowsSpecs /\ OnePrimary

\* What the module promises (agents/custom.py:3-4): stored agents are rehydrated when the
\* plugin initialises.
StoredAgentsAreRehydrated == store = "agents" => process = "up"
=============================================================================
