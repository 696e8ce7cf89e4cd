--------------------------- MODULE AgentLifecycle ---------------------------
(***************************************************************************)
(* The browser agents of the plugin and of the MCP tool set (plugin.py,    *)
(* browser/agent.py, browser/tools.py): started lazily by the first run    *)
(* that needs one, shared by all later runs, dropped when an operator      *)
(* saves model, stealth or Computer Use preferences, and stopped with the  *)
(* plugin.  Every await of the code is a place where other callers step in.*)
(***************************************************************************)
EXTENDS Integers, FiniteSets, FiniteSetsExt

CONSTANTS Runs,          \* calls of /run, of a chat session or of an MCP tool
          Puts,          \* PUT /models, /stealth, /computer-use requests
          MaxAgents,     \* bound: agents built in one behaviour
          MaxRounds      \* a task's max_steps

ASSUME BoundsAssumption == MaxAgents \in Nat \ {0} /\ MaxRounds \in Nat \ {0}

VARIABLES held,       \* per holder: the plugin's _agent, the MCP tools' shared_agent
          agent,      \* the agents built so far
          saved,      \* number of preference saves that reached memory
          acked,      \* the last save whose request was answered with 200
          put,        \* the preference requests
          run,        \* the callers
          plug,       \* the plugin's own shutdown
          overtaken,  \* history: agents that were being started when preferences were saved
          rivals,     \* history: per agent, those started while its start was in flight
          lost        \* history: agents whose start failed half-way or whose stop failed
lifeVars == <<held, agent, saved, acked, put, run, plug, overtaken, rivals, lost>>

Holders == {"plugin", "mcp"}
Agents == 1..MaxAgents
None == 0
Kinds == {"task", "tool"}      \* a whole task, or one MCP primitive
-----------------------------------------------------------------------------
NewAgent == [status |-> "unused", browser |-> FALSE, attached |-> FALSE, config |-> 0, tokens |-> 0]
NewRun == [pc |-> "idle", kind |-> "task", holder |-> "plugin", agent |-> None,
           steps |-> 0, asked |-> 0, before |-> 0, own |-> 0,
           alone |-> TRUE, tokens |-> 0, counted |-> FALSE]

Starting == {"launch", "stealth"}
InTask == {"navigate", "observe", "decide", "act"}
Ended == {"success", "failed", "raised"}

Unused == {a \in Agents : agent[a].status = "unused"}
BeingStarted == {run[r].agent : r \in {q \in Runs : run[q].pc \in Starting}}
Stoppers(a) == {p \in Puts : put[p].pc = "stopping" /\ put[p].agent = a}
InUse(a) == \E r \in Runs : run[r].agent = a /\ run[r].pc \notin Ended
BeingStopped(a) == Stoppers(a) # {} \/ (plug.pc = "stopping" /\ plug.agent = a)

LifeInit ==
  /\ held = [h \in Holders |-> None]
  /\ agent = [a \in Agents |-> NewAgent]
  /\ saved = 0 /\ acked = 0
  /\ put = [p \in Puts |-> [pc |-> "idle", agent |-> None, version |-> 0]]
  /\ run = [r \in Runs |-> NewRun]
  /\ plug = [pc |-> "up", agent |-> None]
  /\ overtaken = {} /\ rivals = [a \in Agents |-> {}] /\ lost = {}
-----------------------------------------------------------------------------
(* Starting and sharing an agent. *)

\* execute(): the token count of the agent, whoever spends them, is read before the loop.
Entered(R, r, a, st) ==
  LET others == {q \in Runs \ {r} : R[q].agent = a /\ R[q].pc \in InTask}
      first  == IF R[r].kind = "tool" THEN {"act"} ELSE {"navigate", "observe"}
  IN  IF R[r].kind = "task" /\ st.status # "ready"
      THEN {[R EXCEPT ![r].agent = a, ![r].pc = "failed", ![r].counted = st.attached]}
      ELSE {[q \in Runs |->
               IF q = r THEN [R[r] EXCEPT !.agent = a, !.pc = pc, !.alone = others = {},
                                          !.before = st.tokens]
               ELSE IF q \in others THEN [R[q] EXCEPT !.alone = FALSE] ELSE R[q]] : pc \in first}

\* A caller asks its holder for the agent: the installed one, or a new one it starts.
Ask(r, h, k) ==
  /\ run[r].pc = "idle"
  /\ h = "plugin" => k = "task"
  /\ LET R == [run EXCEPT ![r].holder = h, ![r].kind = k, ![r].asked = acked]
     IN  IF held[h] # None
         THEN /\ run' \in Entered(R, r, held[h], agent[held[h]])
              /\ UNCHANGED <<agent, rivals>>
         ELSE /\ Unused # {}
              /\ LET a == Min(Unused)
                     S == {run[q].agent : q \in {q \in Runs : run[q].pc \in Starting
                                                              /\ run[q].holder = h}}
                 IN  /\ agent' = [agent EXCEPT ![a] = [NewAgent EXCEPT !.status = "starting",
                                                                       !.config = saved]]
                     /\ run' = [R EXCEPT ![r].pc = "launch", ![r].agent = a]
                     /\ rivals' = [b \in Agents |-> IF b = a THEN S
                                                    ELSE IF b \in S THEN rivals[b] \cup {a} ELSE rivals[b]]
  /\ UNCHANGED <<held, saved, acked, put, plug, overtaken, lost>>

\* The browser is up; its context still has to be dressed when stealth is enabled.
Launch(r) ==
  /\ run[r].pc = "launch"
  /\ agent' = [agent EXCEPT ![run[r].agent].attached = TRUE, ![run[r].agent].browser = TRUE]
  /\ run' = [run EXCEPT ![r].pc = "stealth"]
  /\ UNCHANGED <<held, saved, acked, put, plug, overtaken, rivals, lost>>

\* startup() returns: the agent is installed over whatever is there by now.
Installed(r) ==
  LET a == run[r].agent
  IN  /\ run[r].pc = "stealth"
      /\ agent' = [agent EXCEPT ![a].status = "ready"]
      /\ held' = [held EXCEPT ![run[r].holder] = a]
      /\ run' \in Entered(run, r, a, agent'[a])
      /\ UNCHANGED <<saved, acked, put, plug, overtaken, rivals, lost>>

\* The launch or apply_stealth raises.  Nobody stops a browser that was already launched.
StartFails(r) ==
  /\ run[r].pc \in Starting
  /\ agent' = [agent EXCEPT ![run[r].agent].status = "error"]
  /\ run' = [run EXCEPT ![r].pc = "raised"]
  /\ lost' = lost \cup {run[r].agent}
  /\ UNCHANGED <<held, saved, acked, put, plug, overtaken, rivals>>
-----------------------------------------------------------------------------
(* One task: observe, decide, act. *)

Here(r) == agent[run[r].agent]
Others == <<held, saved, acked, put, plug, overtaken, rivals, lost>>

\* Seeded fault: the result carries the counter, not what the run added to it.
CountedInAll(rec, st) ==
  [rec EXCEPT !.counted = st.attached, !.tokens = IF st.attached THEN st.tokens ELSE 0,
              !.steps = 0, !.before = 0, !.asked = 0]

\* The run's tokens are what the shared counter gained, and zero without a backend.
Counted(rec, st) ==
  [rec EXCEPT !.counted = st.attached,
              !.tokens = IF st.attached THEN st.tokens - rec.before ELSE 0,
              !.steps = 0, !.before = 0, !.asked = 0]

\* The call returns; its locals go.
Finish(r, rec, outcome, st) == run' = [run EXCEPT ![r] = Counted([rec EXCEPT !.pc = outcome], st)]
Continue(r, rec) == run' = [run EXCEPT ![r] = rec]

\* start_url is opened outside the try: a failure there is the caller's.
Navigate(r) ==
  /\ run[r].pc = "navigate"
  /\ Continue(r, [run[r] EXCEPT !.pc = IF Here(r).browser THEN "observe" ELSE "raised"])
  /\ UNCHANGED <<agent, Others>>

NavigateRaises(r) ==
  /\ run[r].pc = "navigate"
  /\ Continue(r, [run[r] EXCEPT !.pc = "raised"])
  /\ UNCHANGED <<agent, Others>>

Observe(r) ==
  /\ run[r].pc = "observe" /\ Here(r).browser
  /\ Continue(r, [run[r] EXCEPT !.pc = "decide", !.steps = @ + 1])
  /\ UNCHANGED <<agent, Others>>

\* Seeded fault: a call on a browser that was stopped is awaited for ever.
RaisesWhileOpen(r) ==
  /\ run[r].pc \in {"observe", "decide", "act"} /\ Here(r).browser
  /\ Finish(r, run[r], "failed", Here(r))
  /\ UNCHANGED <<agent, Others>>

\* Any exception inside the loop is a failed result.
Raises(r) ==
  /\ run[r].pc \in {"observe", "decide", "act"}
  /\ Finish(r, run[r], "failed", Here(r))
  /\ UNCHANGED <<agent, Others>>

\* The vision model answered, even if the browser is gone by now.
Answered(r) == [Here(r) EXCEPT !.tokens = @ + 1]
Charged(r) == [run[r] EXCEPT !.own = @ + 1]

\* Its answer ends the task (DONE, FAIL, an EXTRACT that fills the fields or repeats itself).
DecideToEnd(r) ==
  /\ run[r].pc = "decide"
  /\ agent' = [agent EXCEPT ![run[r].agent] = Answered(r)]
  /\ \E outcome \in {"success", "failed"} : Finish(r, Charged(r), outcome, Answered(r))
  /\ UNCHANGED Others

\* Its answer is an action, or an extraction to go on from with a scroll.
DecideToAct(r) ==
  /\ run[r].pc = "decide"
  /\ agent' = [agent EXCEPT ![run[r].agent] = Answered(r)]
  /\ Continue(r, [Charged(r) EXCEPT !.pc = "act"])
  /\ UNCHANGED Others

\* The action and the pause after it.
ActOnPage(r) ==
  /\ run[r].pc = "act" /\ run[r].kind = "task" /\ Here(r).browser
  /\ IF run[r].steps < MaxRounds THEN Continue(r, [run[r] EXCEPT !.pc = "observe"])
     ELSE Finish(r, run[r], "failed", Here(r))
  /\ UNCHANGED <<agent, Others>>

\* One MCP primitive is one call of the backend.
CallTool(r) ==
  /\ run[r].pc = "act" /\ run[r].kind = "tool" /\ Here(r).browser
  /\ \E outcome \in {"success", "failed"} : Finish(r, run[r], outcome, Here(r))
  /\ UNCHANGED <<agent, Others>>
-----------------------------------------------------------------------------
(* Saving preferences: save, drop the agent, wait for its browser to stop. *)

Acknowledged(v) == acked' = Max({acked, v})

\* Seeded fault: an agent that is running a task is kept ("in-flight agents keep their
\* current configuration to avoid mid-task churn").
SaveSparingRuns(p) ==
  /\ put[p].pc = "idle"
  /\ saved' = saved + 1
  /\ overtaken' = overtaken \cup BeingStarted
  /\ IF held["plugin"] = None \/ InUse(held["plugin"])
     THEN /\ put' = [put EXCEPT ![p] = [pc |-> "acked", agent |-> None, version |-> saved']]
          /\ Acknowledged(saved')
          /\ UNCHANGED <<held, agent>>
     ELSE /\ put' = [put EXCEPT ![p] = [pc |-> "stopping", agent |-> held["plugin"], version |-> saved']]
          /\ held' = [held EXCEPT !["plugin"] = None]
          /\ agent' = [agent EXCEPT ![held["plugin"]].status = "stopping"]
          /\ UNCHANGED acked
  /\ UNCHANGED <<run, plug, rivals, lost>>

\* Seeded fault: the agent is dropped and never shut down.
SaveForgetting(p) ==
  /\ put[p].pc = "idle"
  /\ saved' = saved + 1
  /\ overtaken' = overtaken \cup BeingStarted
  /\ put' = [put EXCEPT ![p] = [pc |-> "acked", agent |-> None, version |-> saved']]
  /\ Acknowledged(saved')
  /\ held' = [held EXCEPT !["plugin"] = None]
  /\ UNCHANGED <<agent, run, plug, rivals, lost>>

Save(p) ==
  /\ put[p].pc = "idle"
  /\ saved' = saved + 1
  /\ overtaken' = overtaken \cup BeingStarted
  /\ IF held["plugin"] = None
     THEN /\ put' = [put EXCEPT ![p] = [pc |-> "acked", agent |-> None, version |-> saved']]
          /\ Acknowledged(saved')
          /\ UNCHANGED <<held, agent>>
     ELSE /\ put' = [put EXCEPT ![p] = [pc |-> "stopping", agent |-> held["plugin"], version |-> saved']]
          /\ held' = [held EXCEPT !["plugin"] = None]
          /\ agent' = [agent EXCEPT ![held["plugin"]].status = "stopping"]
          /\ UNCHANGED acked
  /\ UNCHANGED <<run, plug, rivals, lost>>

\* The file cannot be written: the new value is already in memory, the agent stays.
SaveFails(p) ==
  /\ put[p].pc = "idle"
  /\ saved' = saved + 1
  /\ put' = [put EXCEPT ![p] = [pc |-> "failed", agent |-> None, version |-> saved']]
  /\ UNCHANGED <<held, agent, acked, run, plug, overtaken, rivals, lost>>

\* Playwright closes the browser some time before stop() returns.
BrowserCloses(a) ==
  /\ BeingStopped(a) /\ agent[a].browser
  /\ agent' = [agent EXCEPT ![a].browser = FALSE]
  /\ UNCHANGED <<held, saved, acked, put, run, plug, overtaken, rivals, lost>>

Stopped(a) == agent' = [agent EXCEPT ![a].status = "stopped", ![a].attached = FALSE]

EndSave(p) ==
  /\ put[p].pc = "stopping" /\ ~agent[put[p].agent].browser
  /\ Stopped(put[p].agent)
  /\ put' = [put EXCEPT ![p].pc = "acked"]
  /\ Acknowledged(put[p].version)
  /\ UNCHANGED <<held, saved, run, plug, overtaken, rivals, lost>>

\* stop() raises: logged, and the request is answered all the same.
EndSaveFails(p) ==
  /\ put[p].pc = "stopping" /\ agent[put[p].agent].attached
  /\ agent' = [agent EXCEPT ![put[p].agent].status = "error"]
  /\ put' = [put EXCEPT ![p].pc = "acked"]
  /\ Acknowledged(put[p].version)
  /\ lost' = lost \cup {put[p].agent}
  /\ UNCHANGED <<held, saved, run, plug, overtaken, rivals>>
-----------------------------------------------------------------------------
(* The plugin's shutdown: the agent stays installed while it is being stopped. *)

Shutdown ==
  /\ plug.pc = "up"
  /\ LET a == held["plugin"]
     IN  IF a = None THEN /\ plug' = [pc |-> "down", agent |-> None]
                          /\ UNCHANGED agent
         ELSE /\ plug' = [pc |-> "stopping", agent |-> a]
              /\ agent' = [agent EXCEPT ![a].status = "stopping"]
  /\ UNCHANGED <<held, saved, acked, put, run, overtaken, rivals, lost>>

EndShutdown ==
  /\ plug.pc = "stopping" /\ ~agent[plug.agent].browser
  /\ Stopped(plug.agent)
  /\ held' = [held EXCEPT !["plugin"] = None]
  /\ plug' = [plug EXCEPT !.pc = "down"]
  /\ UNCHANGED <<saved, acked, put, run, overtaken, rivals, lost>>

\* stop() raises out of shutdown(): cron and channels go on, the agent stays installed.
ShutdownFails ==
  /\ plug.pc = "stopping" /\ agent[plug.agent].attached
  /\ agent' = [agent EXCEPT ![plug.agent].status = "error"]
  /\ plug' = [plug EXCEPT !.pc = "failed"]
  /\ lost' = lost \cup {plug.agent}
  /\ UNCHANGED <<held, saved, acked, put, run, overtaken, rivals>>
-----------------------------------------------------------------------------
Start(r) == Launch(r) \/ Installed(r) \/ StartFails(r)
Loop(r) ==
  \/ Navigate(r) \/ NavigateRaises(r) \/ Observe(r) \/ Raises(r)
  \/ DecideToEnd(r) \/ DecideToAct(r) \/ ActOnPage(r) \/ CallTool(r)
PutSteps(p) == EndSave(p) \/ EndSaveFails(p)
Closing == \E a \in Agents : BrowserCloses(a)

LifeNext ==
  \/ \E r \in Runs : \/ \E h \in Holders, k \in Kinds : Ask(r, h, k)
                     \/ Start(r) \/ Loop(r)
  \/ \E p \in Puts : Save(p) \/ SaveFails(p) \/ PutSteps(p)
  \/ Closing
  \/ Shutdown \/ EndShutdown \/ ShutdownFails

\* The event loop resumes every coroutine whose awaited call has returned, and the calls of
\* Playwright and of the vision providers return or time out.
LifeFairness ==
  /\ \A r \in Runs : WF_lifeVars(Start(r)) /\ WF_lifeVars(Loop(r))
  /\ \A p \in Puts : WF_lifeVars(PutSteps(p))
  /\ WF_lifeVars(Closing)

LifeSpec == LifeInit /\ [][LifeNext]_lifeVars /\ LifeFairness
-----------------------------------------------------------------------------
LifeTypeOK ==
  /\ held \in [Holders -> Agents \cup {None}]
  /\ agent \in [Agents -> [status : {"unused", "starting", "ready", "error", "stopping", "stopped"},
                           browser : BOOLEAN, attached : BOOLEAN, config : Nat, tokens : Nat]]
  /\ saved \in Nat /\ acked \in 0..saved
  /\ put \in [Puts -> [pc : {"idle", "stopping", "acked", "failed"}, agent : Agents \cup {None}, version : Nat]]
  /\ plug \in [pc : {"up", "stopping", "failed", "down"}, agent : Agents \cup {None}]
  /\ run \in [Runs -> [pc : {"idle"} \cup Starting \cup InTask \cup Ended, kind : Kinds,
                       holder : Holders, agent : Agents \cup {None}, steps : 0..MaxRounds,
                       asked : Nat, before : Nat, own : Nat, alone : BOOLEAN,
                       tokens : Nat, counted : BOOLEAN]]

\* A run that asks the plugin for its agent after preferences were saved runs with older
\* ones only if that agent was still being started at the save (plugin.py, invalidate_agent).
StaleOnlyIfOvertaken ==
  \A r \in Runs :
    run[r].holder = "plugin" /\ run[r].pc \in InTask /\ agent[run[r].agent].config < run[r].asked
      => run[r].agent \in overtaken

\* What the docs promise without that exception: every save makes the next run rebuild.
NextRunHasFreshPrefs ==
  \A r \in Runs :
    run[r].holder = "plugin" /\ run[r].pc \in InTask => agent[run[r].agent].config >= run[r].asked

\* The installed agent is started and its browser runs, unless the plugin is being shut down
\* (plugin.py, get_or_start_agent assigns after startup(); invalidate_agent drops before stop).
InstalledIsUsable ==
  \A h \in Holders : held[h] # None /\ plug.pc = "up"
    => agent[held[h]].status = "ready" /\ agent[held[h]].browser

\* A browser nobody can stop any more is due to a start or a stop that failed, to two starts
\* of one holder at a time, or to a start during the plugin's shutdown.
BrowsersAreReachable ==
  \A a \in Agents : agent[a].browser =>
    \/ \E h \in Holders : held[h] = a
    \/ a \in BeingStarted \/ BeingStopped(a)
    \/ a \in lost \/ rivals[a] # {} \/ plug.pc # "up"

\* Holders and browsers go together: an installed agent has its browser, and a browser has
\* somebody who can still stop it.
BrowsersFollowAgents == InstalledIsUsable /\ BrowsersAreReachable

\* A finished run is charged at least its own vision calls, and exactly those when no other
\* run used the agent meanwhile (browser/agent.py, execute), unless its browser was stopped.
OwnTokensAreCharged ==
  \A r \in Runs : run[r].pc \in {"success", "failed"} /\ run[r].counted
    => run[r].tokens >= run[r].own /\ (run[r].alone => run[r].tokens = run[r].own)

\* Every call ends, whatever the model answers, and whoever stops the browser under it.
RunsEnd == \A r \in Runs : run[r].pc # "idle" ~> run[r].pc \in Ended
=============================================================================
