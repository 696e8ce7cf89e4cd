------------------------------ MODULE Channels ------------------------------
(***************************************************************************)
(* Channel adapters (channels/registry.py, base.py, irc.py, twitch.py) on  *)
(* top of the stored channel configurations: the routes that configure,    *)
(* start, stop and test a channel, the MCP tool that sends, and the start  *)
(* of the enabled channels when the plugin initialises.  Starting and      *)
(* stopping an adapter are awaited; other requests run in between.         *)
(***************************************************************************)
EXTENDS OperatorStores

CONSTANTS Names,         \* the channels among Keys
          Requests,      \* start, stop, test and delete requests
          MaxAdapters,   \* bound: adapters built in one life of the plugin
          Incomplete     \* configurations that lack a required field

ASSUME ChannelsAssumption == Names \subseteq Keys /\ Incomplete \subseteq Values /\ MaxAdapters \in Nat \ {0}

VARIABLES instance,   \* the registry's _instances: per channel its adapter, or NoAdapter
          adapter,    \* the adapters and whether they hold a connection
          request,    \* the requests under way
          rivals,     \* history: adapters that were being started while another one of their channel was
          torn        \* history: adapters whose start failed with the connection made
channelVars == <<instance, adapter, request, rivals, torn>>
vars == <<storeVars, channelVars>>

NoAdapter == 0
Adapters == 1..MaxAdapters
NewRequest == [pc |-> "idle", op |-> "none", channel |-> DefaultName, adapter |-> NoAdapter]
NewAdapter == [used |-> FALSE, channel |-> DefaultName, open |-> FALSE]

Busy == "channels" = store /\ process = "up"
Starting(c) == {a \in Adapters : \E q \in Requests : request[q].pc = "starting" /\ request[q].adapter = a
                                                     /\ request[q].channel = c}
Stopping == {request[q].adapter : q \in {p \in Requests : request[p].pc = "stopping"}}
Complete(c) == c \in DOMAIN memory /\ memory[c].value \notin Incomplete
Done(q) == [request EXCEPT ![q] = NewRequest]
Unbuilt == {a \in Adapters : ~adapter[a].used}
-----------------------------------------------------------------------------
(* Steps of the registry, as the rest of a request that has reached them. *)

\* get_or_create(): an existing instance is returned at once, else one is built and awaited.
Build(q, op, c) ==
  \E a \in Unbuilt :
    /\ \A b \in Unbuilt : a <= b
    /\ adapter' = [adapter EXCEPT ![a] = [used |-> TRUE, channel |-> c, open |-> FALSE]]
    /\ request' = [request EXCEPT ![q] = [pc |-> "starting", op |-> op, channel |-> c, adapter |-> a]]
    /\ rivals' = IF Starting(c) = {} THEN rivals ELSE rivals \cup Starting(c) \cup {a}

\* set_enabled() after the adapter is there; without a stored entry it raises, and the adapter stays.
Mark(c, enabled) ==
  IF c \in DOMAIN memory
  THEN LET e == [memory[c] EXCEPT !.mark = enabled] IN Keep(With(memory, c, e), c, e, {c})
  ELSE UNCHANGED <<memory, file, acked, doubtful>>
storeRest == <<store, registry, process, restarts, misread>>

Finish(q, c) ==
  IF request[q].op = "start" THEN Mark(c, TRUE) /\ UNCHANGED storeRest ELSE UNCHANGED storeVars

\* Seeded fault: the instance leaves the table, and its shutdown is never called.
BeginStopDropping(q, op, c) ==
  /\ instance' = [instance EXCEPT ![c] = NoAdapter]
  /\ request' = [request EXCEPT ![q] = [pc |-> "stopping", op |-> op, channel |-> c, adapter |-> NoAdapter]]
  /\ UNCHANGED <<storeVars, adapter, rivals, torn>>

\* stop(): the instance leaves the table before its shutdown is awaited.
BeginStop(q, op, c) ==
  /\ instance' = [instance EXCEPT ![c] = NoAdapter]
  /\ request' = [request EXCEPT ![q] = [pc |-> "stopping", op |-> op, channel |-> c,
                                        adapter |-> instance[c]]]
  /\ UNCHANGED <<storeVars, adapter, rivals, torn>>
-----------------------------------------------------------------------------
(* Requests. *)

\* PUT config merges the stored one and leaves the enabled flag and the adapter alone.
Configure(c, v) ==
  /\ Busy
  /\ LET e == Entry(v, IF c \in DOMAIN memory THEN memory[c].mark ELSE FALSE)
     IN  Keep(With(memory, c, e), c, e, {c})
  /\ UNCHANGED <<storeRest, channelVars>>

\* POST start: refused without the required fields; a live adapter is stopped first.
Start(q, c) ==
  /\ Busy /\ request[q].pc = "idle" /\ Complete(c)
  /\ IF instance[c] # NoAdapter THEN BeginStop(q, "start", c)
     ELSE Build(q, "start", c) /\ UNCHANGED <<storeVars, instance, torn>>

\* POST test and the MCP tool start an adapter that is not live, and leave it live.  The send
\* itself changes nothing here: the IRC and Twitch adapters connect again in send() if they have
\* no writer, but one in the table has its writer, from Started on until BeginStop takes it out.
\* Only shutdown_all() closes adapters that are still in the table, when the plugin shuts down,
\* which is left out: a life of the plugin ends with Reboot.
Send(q, c) ==
  /\ Busy /\ request[q].pc = "idle" /\ instance[c] = NoAdapter
  /\ Build(q, "send", c) /\ UNCHANGED <<storeVars, instance, torn>>

Stop(q, c) == Busy /\ request[q].pc = "idle" /\ instance[c] # NoAdapter /\ BeginStop(q, "stop", c)
StopNothing(c) ==
  /\ Busy /\ instance[c] = NoAdapter /\ c \in DOMAIN memory
  /\ Mark(c, FALSE) /\ UNCHANGED <<storeRest, channelVars>>

DeleteConfig(q, c) ==
  /\ Busy /\ request[q].pc = "idle"
  /\ IF instance[c] # NoAdapter THEN BeginStop(q, "delete", c)
     ELSE Remove(c) /\ UNCHANGED <<registry, channelVars>>

\* The adapter connects (at once when it has no connection to make) and takes its place,
\* whoever has taken it meanwhile.
Started(q) ==
  LET a == request[q].adapter
      c == request[q].channel
  IN  /\ request[q].pc = "starting"
      /\ adapter' = [adapter EXCEPT ![a].open = TRUE]
      /\ instance' = [instance EXCEPT ![c] = a]
      /\ Finish(q, c)
      /\ request' = Done(q) /\ UNCHANGED <<rivals, torn>>

StartFails(q) ==
  LET a == request[q].adapter
  IN  /\ request[q].pc = "starting"
      /\ \E connected \in BOOLEAN :
           /\ adapter' = [adapter EXCEPT ![a].open = connected]
           /\ torn' = IF connected THEN torn \cup {a} ELSE torn
      /\ request' = Done(q) /\ UNCHANGED <<storeVars, instance, rivals>>

\* The shutdown has ended, its errors logged: the request goes on where it stopped.
Closed(a) == IF a = NoAdapter THEN adapter ELSE [adapter EXCEPT ![a].open = FALSE]
Stopped(q) ==
  LET c == request[q].channel
  IN  /\ request[q].pc = "stopping" /\ request[q].op # "start"
      /\ adapter' = Closed(request[q].adapter)
      /\ CASE request[q].op = "stop" -> Mark(c, FALSE) /\ UNCHANGED storeRest
           [] request[q].op = "delete" /\ c \in DOMAIN memory -> Remove(c) /\ UNCHANGED registry
           [] OTHER -> UNCHANGED storeVars
      /\ request' = Done(q) /\ UNCHANGED <<instance, rivals, torn>>

\* start() after its stop(): a new adapter, or the one another request has put there.
Restarted(q) ==
  LET c == request[q].channel
      closed == Closed(request[q].adapter)
  IN  /\ request[q].pc = "stopping" /\ request[q].op = "start"
      /\ IF instance[c] # NoAdapter
         THEN /\ adapter' = closed /\ request' = Done(q)
              /\ Finish(q, c) /\ UNCHANGED rivals
         ELSE \E a \in Unbuilt :
                /\ \A b \in Unbuilt : a <= b
                /\ adapter' = [closed EXCEPT ![a] = [used |-> TRUE, channel |-> c, open |-> FALSE]]
                /\ request' = [request EXCEPT ![q] = [pc |-> "starting", op |-> "start", channel |-> c,
                                                      adapter |-> a]]
                /\ rivals' = IF Starting(c) = {} THEN rivals ELSE rivals \cup Starting(c) \cup {a}
                /\ UNCHANGED storeVars
      /\ UNCHANGED <<instance, torn>>
-----------------------------------------------------------------------------
(* A new process has no adapters; it starts the enabled channels it has loaded, here all at   *)
(* once and without a failure: they are started before anything else runs.                    *)

Autostarted == {c \in DOMAIN memory' : store = "channels" /\ memory'[c].mark}
Reboot ==
  /\ Restart \/ RestartMisread
  /\ \E f \in [Names -> Adapters \cup {NoAdapter}] :
       /\ \A c \in Names : (f[c] # NoAdapter) <=> c \in Autostarted
       /\ \A b, c \in Autostarted : f[b] = f[c] => b = c
       /\ \A c \in Autostarted : f[c] <= Cardinality(Autostarted)
       /\ instance' = f
       /\ adapter' = [a \in Adapters |->
                        IF \E c \in Names : f[c] = a
                        THEN [used |-> TRUE, channel |-> CHOOSE c \in Names : f[c] = a, open |-> TRUE]
                        ELSE NewAdapter]
  /\ request' = [q \in Requests |-> NewRequest] /\ rivals' = {} /\ torn' = {}

Init ==
  /\ StoreInit
  /\ instance = [c \in Names |-> NoAdapter] /\ adapter = [a \in Adapters |-> NewAdapter]
  /\ request = [q \in Requests |-> NewRequest] /\ rivals = {} /\ torn = {}

ChannelSteps ==
  \/ \E c \in Names : \/ \E v \in Values : Configure(c, v)
                      \/ StopNothing(c)
                      \/ \E q \in Requests : Start(q, c) \/ Send(q, c) \/ Stop(q, c) \/ DeleteConfig(q, c)
  \/ \E q \in Requests : Started(q) \/ StartFails(q) \/ Stopped(q) \/ Restarted(q)

Next == ChannelSteps \/ Reboot \/ (Operate /\ UNCHANGED channelVars)
Spec == Init /\ [][Next]_vars
-----------------------------------------------------------------------------
TypeOK ==
  /\ StoreTypeOK
  /\ instance \in [Names -> Adapters \cup {NoAdapter}]
  /\ adapter \in [Adapters -> [used : BOOLEAN, channel : Keys, open : BOOLEAN]]
  /\ request \in [Requests -> [pc : {"idle", "starting", "stopping"},
                               op : {"none", "start", "stop", "send", "delete"},
                               channel : Keys, adapter : Adapters \cup {NoAdapter}]]
  /\ rivals \subseteq Adapters /\ torn \subseteq Adapters

\* A connection that no request can close any more comes from a start that failed half-way,
\* or from two starts of one channel at a time, of which the table keeps the later one
\* (channels/registry.py, get_or_create tests, awaits startup() and assigns).
ConnectionsAreHeld ==
  \A a \in Adapters : adapter[a].open =>
    \/ instance[adapter[a].channel] = a \/ a \in Stopping
    \/ a \in rivals \cup torn
=============================================================================
