------------------------------ MODULE Sessions ------------------------------
(***************************************************************************)
(* Chat sessions (sessions/manager.py), the routes that change them, slash *)
(* commands, the background runs a message launches                        *)
(* (dashboard/session_driver.py) with their tracker entry and usage        *)
(* events, and the inbound channel events that become session messages     *)
(* (api/router.py, inbound/dispatcher.py, inbound/default_handler.py).     *)
(* Coroutines of one event loop: a step runs from one await to the next.   *)
(***************************************************************************)
EXTENDS RateLimiter, SequencesExt, FiniteSets

CONSTANTS Senders,        \* senders of channel events; the title ch:<channel>:<sender> is named by its sender
          Runs,           \* background runs that messages launch
          MaxIds,         \* bound: sessions ever created
          MaxSessions,    \* SessionManager.max_sessions
          HistoryLimit,   \* SessionManager.history_limit
          MaxTracked,     \* RunTaskTracker.max_runs
          MaxPending,     \* bound: channel events between dispatch and handler
          Ttl             \* ttl_seconds of the pruning job

ASSUME SessionsAssumption == MaxSessions \in Nat \ {0} /\ HistoryLimit \in Nat \ {0}
ASSUME SessionBounds == MaxIds \in Nat /\ MaxTracked \in Nat \ {0}
ASSUME KeysAssumption == "session_send" \in Keys

VARIABLES chat,       \* the manager: [live, info, log], see NoSessions
          nextId,     \* ids handed out so far
          pending,    \* channel events whose handler has been scheduled
          task,       \* the background runs
          tracked,    \* the run tracker: run ids, least recently touched first
          status,     \* the tracker's status of each run
          ledger,     \* usage events recorded per run
          told        \* the end of each run as published to the dashboard
vars == <<chat, nextId, pending, task, tracked, status, ledger, told, limiterVars>>
runVars == <<task, tracked, status, ledger, told>>

Ids == 1..MaxIds
NoRun == "none"
Untitled == "untitled"         \* a session an operator makes; its title is never a sender's
Titles == Senders \cup {Untitled}
ASSUME TitlesAssumption == Untitled \notin Senders
-----------------------------------------------------------------------------
(* The session manager as a value. *)

NoInfo == [title |-> Untitled, primary |-> FALSE, active |-> 0]
NoSessions == [live |-> {},                          \* the OrderedDict: ids in the order they were drawn
               info |-> [s \in Ids |-> NoInfo],      \* their Session models
               log |-> [s \in Ids |-> <<>>]]         \* the message deques
Message(kind, r) == [kind |-> kind, run |-> r]

Live(s) == s \in chat.live
Oldest(S) == CHOOSE s \in S : \A t \in S : s <= t

Dropped(c, gone) ==
  [live |-> c.live \ gone,
   info |-> [s \in Ids |-> IF s \in gone THEN NoInfo ELSE c.info[s]],
   log |-> [s \in Ids |-> IF s \in gone THEN <<>> ELSE c.log[s]]]

\* create(): the session is appended, and beyond max_sessions the oldest one goes.
Created(c, s, title, primary) ==
  LET all == [live |-> c.live \cup {s},
              info |-> [c.info EXCEPT ![s] = [title |-> title, primary |-> primary, active |-> clock]],
              log |-> c.log]
  IN  IF Cardinality(all.live) > MaxSessions THEN Dropped(all, {Oldest(all.live)}) ELSE all

\* A deque of bounded length.
Remembered(log, m) ==
  LET all == Append(log, m) IN IF Len(all) > HistoryLimit THEN Tail(all) ELSE all

\* send(): append to the history, touch last_active.
Sent(c, s, m) ==
  [live |-> c.live,
   info |-> [c.info EXCEPT ![s].active = clock],
   log |-> [c.log EXCEPT ![s] = Remembered(@, m)]]

\* reset(): the history is emptied.
Cleared(c, s) == [live |-> c.live, info |-> c.info, log |-> [c.log EXCEPT ![s] = <<>>]]

Init ==
  /\ LimiterInit
  /\ chat = NoSessions /\ nextId = 1 /\ pending = <<>>
  /\ task = [r \in Runs |-> [pc |-> "idle", sid |-> 0, success |-> FALSE]]
  /\ tracked = <<>> /\ status = [r \in Runs |-> "unknown"]
  /\ ledger = [r \in Runs |-> 0] /\ told = [r \in Runs |-> "nothing"]
-----------------------------------------------------------------------------
(* Operators: routes, MCP tools and the pruning job. *)

\* POST /sessions (whose own limiter only delays it), the MCP tool and its /new.
Create(primary) ==
  /\ nextId \in Ids /\ nextId' = nextId + 1
  /\ chat' = Created(chat, nextId, Untitled, primary)
  /\ UNCHANGED <<pending, runVars, limiterVars>>

\* The MCP tool writes without the limiter and starts no run.
SendByTool(s) ==
  /\ Live(s)
  /\ chat' = Sent(chat, s, Message("note", NoRun))
  /\ UNCHANGED <<nextId, pending, runVars, limiterVars>>

\* POST /send with another role than user, or with a blank text: nothing answers.
SendNote(s) ==
  /\ Live(s)
  /\ Consume("session_send")
  /\ chat' = Sent(chat, s, Message("note", NoRun))
  /\ UNCHANGED <<nextId, pending, runVars>>

\* The limiter is asked before the session is looked up: a call answered 404 counts.
SendNowhere == Consume("session_send") /\ UNCHANGED <<chat, nextId, pending, runVars>>

\* A slash command is handled and answered within the request; what the command does to the
\* session list happens between the user's message and the reply.
Slash(s) == Live(s) /\ Consume("session_send") /\ UNCHANGED <<pending, runVars>>
Typed(s) == Sent(chat, s, Message("note", NoRun))
Replied(c, s) == IF s \in c.live THEN Sent(c, s, Message("note", NoRun)) ELSE c

\* Any command but /new and /reset leaves the sessions alone.
SlashOther(s) == Slash(s) /\ chat' = Replied(Typed(s), s) /\ UNCHANGED nextId

\* /reset clears this session, or the one it names; the reply follows.
SlashReset(s, t) ==
  Slash(s) /\ chat' = Replied(Cleared(Typed(s), t), s) /\ UNCHANGED nextId

\* /new may evict the very session it was typed in: the reply raises and the request is a 500.
SlashNew(s) ==
  /\ Slash(s)
  /\ nextId \in Ids /\ nextId' = nextId + 1
  /\ chat' = Replied(Created(Typed(s), nextId, Untitled, FALSE), s)

\* POST /reset; the MCP tool and /reset with an unknown id change nothing.
Reset(s) ==
  /\ Live(s)
  /\ chat' = Cleared(chat, s)
  /\ UNCHANGED <<nextId, pending, runVars, limiterVars>>

Delete(s) ==
  /\ Live(s)
  /\ chat' = Dropped(chat, {s})
  /\ UNCHANGED <<nextId, pending, runVars, limiterVars>>

Idle == {s \in Ids : Live(s) /\ ~chat.info[s].primary /\ chat.info[s].active < clock - Ttl}

PruneInactive ==
  /\ Idle # {}
  /\ chat' = Dropped(chat, Idle)
  /\ UNCHANGED <<nextId, pending, runVars, limiterVars>>
-----------------------------------------------------------------------------
(* Runs launched from a session. *)

Place(r) == CHOOSE i \in 1..Len(tracked) : tracked[i] = r
Touched(r) == IF Contains(tracked, r) THEN Append(RemoveAt(tracked, Place(r)), r) ELSE tracked

\* start(): the tracker keeps the last MaxTracked runs, whatever their state.
Tracking(r) ==
  LET all == Append(tracked, r) IN IF Len(all) > MaxTracked THEN Tail(all) ELSE all

\* A user's message with plain text: the run is tracked, acknowledged, announced and spawned
\* before the request yields.
SendTask(s, r) ==
  /\ Live(s) /\ task[r].pc = "idle"
  /\ Consume("session_send")
  /\ chat' = Sent(Sent(chat, s, Message("note", NoRun)), s, Message("ack", r))
  /\ task' = [task EXCEPT ![r].pc = "starting", ![r].sid = s]
  /\ tracked' = Tracking(r) /\ status' = [status EXCEPT ![r] = "running"]
  /\ told' = [told EXCEPT ![r] = "started"]
  /\ UNCHANGED <<nextId, pending, ledger>>

AgentReady(r) ==
  /\ task[r].pc = "starting"
  /\ task' = [task EXCEPT ![r].pc = "executing"]
  /\ UNCHANGED <<chat, nextId, pending, tracked, status, ledger, told, limiterVars>>

\* The progress callback: a run the tracker has dropped is not reported any more.
Progress(r) ==
  /\ task[r].pc = "executing"
  /\ tracked' = Touched(r)
  /\ UNCHANGED <<chat, nextId, pending, task, status, ledger, told, limiterVars>>

Verdict(success) == IF success THEN "completed" ELSE "failed"
Finish(r, success) ==
  /\ tracked' = Touched(r)
  /\ status' = IF Contains(tracked, r) THEN [status EXCEPT ![r] = Verdict(success)] ELSE status
  /\ told' = [told EXCEPT ![r] = Verdict(success)]

Charge(r, n) == ledger' = [ledger EXCEPT ![r] = @ + n]

\* Seeded fault: once send() has raised, the handler does not finish the run a second time.
ExecuteFinishingOnce(r, success) ==
  LET s == task[r].sid
  IN  /\ task[r].pc = "executing"
      /\ task' = [task EXCEPT ![r].pc = "ended", ![r].success = success]
      /\ IF Live(s)
         THEN chat' = Sent(chat, s, Message("result", r)) /\ Finish(r, success) /\ Charge(r, 1)
         ELSE /\ UNCHANGED chat /\ Charge(r, 2)
              /\ tracked' = Touched(r)
              /\ status' = IF Contains(tracked, r) THEN [status EXCEPT ![r] = Verdict(success)] ELSE status
              /\ told' = [told EXCEPT ![r] = "failed"]
      /\ UNCHANGED <<nextId, pending, limiterVars>>
\* The agent answers: usage, tracker, session and event follow without an await.  When the
\* session is gone, send() raises after the first two and the exception path does all again.
Execute(r, success) ==
  LET s == task[r].sid
  IN  /\ task[r].pc = "executing"
      /\ task' = [task EXCEPT ![r].pc = "ended", ![r].success = success]
      /\ IF Live(s)
         THEN chat' = Sent(chat, s, Message("result", r)) /\ Finish(r, success) /\ Charge(r, 1)
         ELSE UNCHANGED chat /\ Finish(r, FALSE) /\ Charge(r, 2)
      /\ UNCHANGED <<nextId, pending, limiterVars>>

\* The agent cannot be started, or execute() raises.
TaskRaises(r) ==
  LET s == task[r].sid
  IN  /\ task[r].pc \in {"starting", "executing"}
      /\ task' = [task EXCEPT ![r].pc = "ended"]
      /\ chat' = IF Live(s) THEN Sent(chat, s, Message("result", r)) ELSE chat
      /\ Finish(r, FALSE) /\ Charge(r, 1)
      /\ UNCHANGED <<nextId, pending, limiterVars>>
-----------------------------------------------------------------------------
(* Channel events. *)

\* POST /inbound/<channel>: the body is within its bound and signed, and no sender policy is
\* configured; dispatch() schedules the channel's handler and waits for it.
Deliver(e) ==
  /\ Len(pending) < MaxPending
  /\ pending' = Append(pending, e)
  /\ UNCHANGED <<chat, nextId, runVars, limiterVars>>

\* The sessions with the sender's title; the lookup takes the first.
Owned(e) == {s \in chat.live : chat.info[s].title = e}

\* The handler looks the session up, or creates it, and sends without yielding.
Handle ==
  /\ pending # <<>>
  /\ LET e == Head(pending)
     IN  IF Owned(e) # {}
         THEN chat' = Sent(chat, Oldest(Owned(e)), Message("note", NoRun)) /\ UNCHANGED nextId
         ELSE /\ nextId \in Ids /\ nextId' = nextId + 1
              /\ chat' = Sent(Created(chat, nextId, e, FALSE), nextId, Message("note", NoRun))
  /\ pending' = Tail(pending)
  /\ UNCHANGED <<runVars, limiterVars>>
-----------------------------------------------------------------------------
LimitHit(k) == Refuse(k) /\ UNCHANGED <<chat, nextId, pending, runVars>>
TimePasses == Tick /\ UNCHANGED <<chat, nextId, pending, runVars>>

Operate ==
  \/ \E primary \in BOOLEAN : Create(primary)
  \/ \E s \in Ids :
       \/ SendByTool(s) \/ SendNote(s) \/ SlashOther(s) \/ SlashNew(s)
       \/ \E t \in Ids : SlashReset(s, t)
       \/ Reset(s) \/ Delete(s)
  \/ PruneInactive \/ SendNowhere

TaskSteps(r) == AgentReady(r) \/ TaskRaises(r) \/ \E success \in BOOLEAN : Execute(r, success)

Next ==
  \/ Operate
  \/ \E r \in Runs : (\E s \in Ids : SendTask(s, r)) \/ Progress(r) \/ TaskSteps(r)
  \/ (\E e \in Senders : Deliver(e)) \/ Handle
  \/ (\E k \in Keys : LimitHit(k)) \/ TimePasses

Spec == Init /\ [][Next]_vars
-----------------------------------------------------------------------------
Messages == [kind : {"note", "ack", "result"}, run : Runs \cup {NoRun}]
Managers == [live : SUBSET Ids,
             info : [Ids -> [title : Titles, primary : BOOLEAN, active : Nat]],
             log : [Ids -> Seq(Messages)]]

\* The shape of the state.
TypeOK ==
  /\ LimiterTypeOK
  /\ chat \in Managers
  /\ nextId \in 1..(MaxIds + 1)
  /\ pending \in Seq(Senders)
  /\ task \in [Runs -> [pc : {"idle", "starting", "executing", "ended"}, sid : 0..MaxIds, success : BOOLEAN]]
  /\ tracked \in Seq(Runs)
  /\ status \in [Runs -> {"unknown", "running", "completed", "failed"}]
  /\ ledger \in [Runs -> 0..2]
  /\ told \in [Runs -> {"nothing", "started", "completed", "failed"}]

\* From its announcement to its end the tracker and the dashboard tell the same of a run, and
\* "completed" only of one whose agent reported success.  That includes a run whose session
\* is deleted, pruned or evicted while it works: send() then raises after the run was finished
\* as completed, and the handler finishes it as failed (session_driver.py:189, 226).  A run
\* whose session is still there ends as its agent reported, is charged once, and its result
\* follows its acknowledgement in the history.
RunEndsAsItWas ==
  \A r \in Runs :
    /\ task[r].pc \in {"starting", "executing"} => told[r] = "started"
    /\ task[r].pc = "ended" => told[r] \in {"completed", "failed"} /\ ledger[r] >= 1
    /\ told[r] = "completed" => task[r].success
    /\ Contains(tracked, r) => status[r] = IF told[r] = "started" THEN "running" ELSE told[r]
    /\ task[r].pc = "ended" /\ Live(task[r].sid) =>
         /\ ledger[r] = 1
         /\ told[r] = Verdict(task[r].success)
         /\ \A i \in DOMAIN chat.log[task[r].sid] :
              chat.log[task[r].sid][i] = Message("ack", r)
                => Message("result", r) \in {chat.log[task[r].sid][j] : j \in (i + 1)..Len(chat.log[task[r].sid])}

\* However many of its events are on their way, a sender gets one session of its own at most
\* (inbound/default_handler.py, _session_for).
SenderHasOneSession ==
  \A s, t \in Ids :
    Live(s) /\ Live(t) /\ chat.info[s].title \in Senders /\ chat.info[s].title = chat.info[t].title => s = t
=============================================================================
