# Baselithbot in TLA+

This directory holds TLA+ models of the Baselithbot plugin, TLC configurations
that check them on small instances, and proofs that TLAPS checks for every
instance. The models are written from the Python source, file by file;
`PROJECT.json` maps each definition to the lines it stands for, lists the
hazards the properties are for, and names a seeded fault of the model for each
property, which TLC finds.

## 1. The system

Baselithbot is a plugin that lets a language model drive a browser and, if the
operator arms it, the desktop of its host. Nearly everything runs on one asyncio
event loop: a handler is atomic between two `await`s that really suspend. The
exceptions are worker threads (`asyncio.to_thread`: subprocesses, mouse and
keyboard calls, SQLite inserts) and the crash of the process.

| Component | State | Operations | What is hard | What makes it correct |
|---|---|---|---|---|
| Approval gate (`control/approvals.py`) | pending requests, history, listeners | submit, approve, deny, time out, subscribe | timer and answer in the same instant; caller cancelled while parked; slow listeners | an acknowledged answer stands; a decision is final; caller, operator and listeners see the same one |
| Computer Use tools (`computer_use/*`, `browser/web_launcher.py`) | policy snapshot and audit buffer of each tool map | about 25 tools | check, approval and action are separated by suspensions; policies change meanwhile; audit writes fail | nothing reaches the host without its approval, nor against the policy it is bound to; audit entries survive failing writes |
| Run recording (`api/router.py`, `control/replay.py`, `control/run_tracker.py`) | tracker of 12 runs, SQLite runs and steps, uncommitted steps | run, step, finish, get_run, prune | worker threads beside the loop, batched commits, crash, cancellation | a crash costs less than a batch, and a tail; tracker, store and events agree |
| Cron scheduler (`cron/scheduler.py`) | jobs, loop task, wake and stop events | add, remove, pause, re-time, trigger, start, stop | operators act while the loop works off a list it has taken | no lost wake-up or trigger; stale jobs run at most once more; no starvation |
| Custom crons (`cron/custom.py`) | specs in memory, JSON file | create, update, delete, load | failing writes, specs that pass validation and cannot be built, restarts, a second way to the scheduler | scheduler and memory agree; what was acknowledged is on disk |
| Desktop lane and runs (`dashboard/routes/desktop.py`, `computer_use/desktop_lane.py`, `desktop_agent/agent.py`) | lane, cancel events, active run, tracker | dispatch, cancel, agent loop | several dispatches accepted at once; cancellation at any point; reused run ids | one run on the desktop; cancellation costs at most a step; every accepted run ends |
| Desktop agent decisions (`desktop_agent/*`, `browser/vision_failover.py`) | last screenshot, history, allowed tools, a table of models shared by all vision services | observe, decide, act; failover to other models | observations that fail or are skipped; a table rewritten around an await | decisions rest on the screen as it is; repetition is stopped; the table comes back |
| Agent life cycle and browser agent (`plugin.py`, `browser/agent.py`) | the browser agents of plugin and MCP host, preferences, tokens | get or start, run, invalidate, shut down | check-then-await; failing starts and stops; runs that share a page and a counter | no browser is lost; a run gets the preferences in force; every run ends |
| Sessions (`sessions/manager.py`, `dashboard/session_driver.py`, `inbound/*`) | sessions with bounded history, background tasks, pending events | create, send, reset, delete, prune, slash commands, channel events | a session vanishes under its task; several events of a new sender | a run's end is told once and as it was; one session per sender |
| Rate limits (`policies/rate_limit.py`) | accepted times per key | consume | the edge of the window | no window is overfull |
| Skills (`skills/*`) | registry, bundles on disk, installs in flight, ClawHub settings | scan, author, install, sync, remove, reconfigure, restart | several origins under one name and several writers of one place, workspaces that come and go, hands on the files, scans and installs cut short, a client replaced under a download | the registry lists what the last scan could find, and later no more than what is still there; what is put on disk is listed; a managed skill has its own files |
| Operators' stores (`security/secret_store.py`, `config/runtime.py`, `config/models.py`, `agents/custom.py`, `workspace/config.py`, `channels/config_store.py`) | entries in memory, a JSON file each, an agent registry, the primary flag | set, delete, load | failing writes, refused specs, unreadable files | what was answered is kept; tables beside the entries agree with them |
| Channels (`channels/registry.py`, `base.py`, `irc.py`, `twitch.py`) | adapters, live instances, requests under way | configure, start, stop, test, delete | check-then-await in start and in stop | no connection that nobody can close |
| Event bus (`dashboard/bus.py`) | ring of 200 events, queues of 256 | publish, subscribe | slow subscribers | what may be lost |
| Pairing, model routing, code edit, canvas, voice, gateway, diagnostics, UI | tokens, cool-downs, widgets, devices | | mostly formatting and I/O | |

How they interact: the desktop agent and the dashboard call Computer Use tools;
a gated tool parks its caller on the approval gate, and the approval routes
release it. `POST /run` and the session driver run the browser agent and report
to the run tracker; `POST /run` also writes the replay store, which the
scheduler's retention job prunes. Both agents ask models through vision
services, which share a table. Saving preferences makes the plugin drop its
browser agent and changes that table. Custom crons are jobs of the scheduler,
and so are skill scans and the pruning of sessions. Channel events become
session messages. All of them publish on the event bus, which nothing but the
dashboard reads.

## 2. The modules

| Module | Models | Composed from |
|---|---|---|
| `ApprovalContract` | what the gate promises: a one-shot decision per request | |
| `ApprovalGate` | the gate with its timers, waiters, history, listeners and routes | implements `ApprovalContract` |
| `GatedTools` | every kind of Computer Use tool from call to reply, policies, tool maps, audit log | the gate as `ApprovalContract` (INSTANCE) |
| `RunRecording` | POST /run, tracker, replay store, reader, retention, crash | |
| `CronScheduler` | the scheduler and its operators | |
| `CustomCrons` | the custom-job registry over the scheduler, with its file | extends `CronScheduler` |
| `DesktopLane` | dispatch, cancel, lane and agent loop | |
| `VisionFailover` | vision services, their failover chain, the shared table of models | |
| `DesktopDecisions` | what one desktop run sees, decides, repeats | extends `VisionFailover` |
| `AgentLifecycle` | the browser agents of plugin and MCP host, runs on them, saves, shutdown | |
| `Skills` | workspaces and bundles, scans, authoring, ClawHub, removal, restarts | |
| `RateLimiter` | the sliding window | |
| `Sessions` | sessions, slash commands, background runs, channel events | extends `RateLimiter` |
| `OperatorStores` | the six JSON-backed stores | |
| `Channels` | adapters and requests on the channel configurations | extends `OperatorStores` |
| `ApprovalGate_proofs`, `GatedTools_proofs`, `RunRecording_proofs`, `CronsAndSkills_proofs`, `DesktopLane_proofs`, `Agents_proofs`, `Sessions_proofs`, `Channels_proofs` | theorems | |
| `MC*` | model values, symmetry sets and state constraints for TLC | |

### How state and actions correspond to the code

*ApprovalGate.* A request is one record of `status` (its enum), `phase` (where
the task inside `submit()` is), membership in `pending` and in `history`.
`asyncio.wait_for` makes three phases of its wait: *waiting*, *woken* (the event
is set, the task not yet resumed) and *expiring* (the timer has cancelled the
task, not yet resumed). A timer may fire after the event was set and an operator
may answer after the timer fired; `TimeoutPath` then runs with a decided
request. `told` remembers what the operator was answered, `log` what was
broadcast; both are history variables. Listeners are queues with a bound; a
full one is unsubscribed. What the gate publishes on the event bus is left out.

*GatedTools.* `ToolSpec` lists one tool per kind of handler: does it check its
capability, how does it reply to bad arguments, does it ask, how can its action
end. A call passes `Refuse`, `Park` or `Start` under the *snapshot* policy of
its map, then `Approved` or `Refused` when the gate answers, then one of the
ends of its action. `EndWithEntry` is `AuditLogger.record` and the reply: the
buffer is kept, flushed, or fails to be flushed, in which case the OSError
replaces the reply. Arguments, allowlists and paths are a choice of outcome.

*RunRecording.* The handler's phases are cut at its awaits; `add_step` runs in a
worker thread, everything else on the loop. `steps` is what the writer
connection sees, `diskSteps` what is committed; a crash falls back to the
latter. SQLite statements may raise, with nothing written: `BeginFails`, `ThreadFails`
(the handler finds the exception when its step returns, and ends the run as failed) and
`FinishUnrecorded`. Of `get_run` the model keeps the flush of uncommitted steps, the SELECT of the
run's row and that of the steps, between which only worker threads run; the SELECT of the
count is left out.

*CronScheduler.* A job *object* is a name and a slot, because the loop holds
references to objects which an operator may have removed or replaced; two slots
are enough for the registered one and the one the loop holds. Time is the flag
`due`. The loop suspends in a job and in its sleep, and nowhere else.

*CustomCrons.* `specs` is the registry's dictionary, `file` the JSON file,
`acked` what was last answered 200 (a history variable). Every change is applied
to memory and scheduler first and written afterwards, and the write may fail. A
webhook whose timeout is no number passes `_validate_action` and has no executor:
`_apply` raises when memory has its spec already (`RefuseLate`), an update has by
then taken the former job out of the scheduler, the spec goes to disk with the
next write, and the next start raises on it.

*DesktopLane.* A run's phases are the places where its task suspends. The lane
is an `asyncio.Lock` handed over in FIFO order with a gap in which nobody holds
it. Cancel events are kept by *run id*, which a client may choose, so that runs
may share one.

*VisionFailover, DesktopDecisions.* `table` is `VisionService.DEFAULT_MODELS`, one
for all services; a service takes its snapshot when it is built, writes an entry's
model before it awaits the answer and restores afterwards. A call is at its primary
model, at an entry of its chain, answered, raised or cut short by the agent's
timeout. Of the run the model keeps what `_decide` is given: `view` and `shown` (is
the last screenshot that of the present screen), the last step, which decides
whether the observation is skipped, the allowed tools, and what the loop guard
compares. What a model answers is a choice (`Heard`).

*AgentLifecycle.* The two holders are the plugin and the MCP tool set, each with its
own lazily started agent. An agent is unused, starting, ready, in error, stopping or
stopped, with or without a browser; `agent.config` counts the save whose preferences
it was built from. A run asks, may start an agent, then alternates between the model
and the page; stopping a browser makes the page calls of its runs raise. `overtaken`,
`rivals` and `lost` are history variables that name the causes the properties except.

*Skills.* A place is a holder, one of the two layouts (`skills/<slug>` shadows
`.agents/skills/<slug>`) or another directory, and a folder; a bundle is reduced to its
`SKILL.md` and `MANIFEST.yaml` as the loader tells them apart (`Status`). `roots` is the
state directory and the workspaces there are, as a scan finds them. ClawHub installs into
`Target`, the folder of an identifier in the client's `install_dir`: any directory, one
that is scanned included, and two identifiers may share a folder. `skills` is the
registry, `reports` the validation panel, `calls` the installs that download. A download
suspends; writing and registering do not, but each file operation may fail. `touched` and
`broken` are history: scanned places written to and roots that came or went since the last
scan, and places where an OSError struck a listed managed skill.

*Sessions.* A session is an id with a log of at most `HistoryLimit` messages. Ids are
numbers in the order of creation, which is that of the OrderedDict, so the live sessions
are a set and the first of it is the smallest; when the manager is full, creating one
evicts that one. `task` follows the background run from
the acknowledgement to its last message, `told` what the dashboard's events say. Titles
of operators are taken not to be those of channel senders. Authentication of a channel
event is a guard.

*OperatorStores, Channels.* One behaviour follows one store (they share nothing):
`memory`, `file`, and as history `acked` (the entries as answered requests left them)
and `doubtful` (keys whose last change was answered with an error). `registry` is the
agents' own, `mark` a channel's enabled flag or a workspace's primary one. An adapter is
an object with or without a connection; `get_or_create` and `stop` suspend, and other
requests run in between. Test sends to a disabled channel start it, as the route does;
that `send()` of IRC and Twitch connects anew when it finds no writer matters only during
`shutdown_all`, which is left out.

## 3. What the runs check

Each component has one passing run with all its properties. Deadlock is not checked: every model ends in states in which all requests, calls or runs are used up. A type
invariant stands in every component's specification (`TypeOK` or a name with that
ending), and all of them are proved; the runs check the other properties.

| Run | Bounds | Shows |
|---|---|---|
| `ApprovalGate` | 2 requests, 1 listener with a queue of 2, history of 2 | acknowledged answers stand and are final; what was announced as decided is in the history until 2 later entries have pushed it out; a listener that is still subscribed has missed nothing and is told the decision; every caller is released; refinement of `ApprovalContract` with fairness |
| `GatedTools` | 2 calls, 2 tool maps, 3 tools, 3 policies, batches of 2, failing writes | no action without its approval, none against its map's policy; every entry is in the file, in a buffer or went with a discarded map; replies and entries agree; every call ends |
| `RunRecording` | 2 requests of 3 steps, batches of 3, a tracker of 1 run, one crash, statements that raise | what a crash can cost; a finished run is complete; tracker, store and events agree; a reader gets what was written before it |
| `CronScheduler` | 2 names, one driven by a cron expression, 2 objects of each | no lost wake-up, no forgotten trigger, stale objects run at most once; a due job begins; `stop()` returns |
| `CustomCrons` | a built-in and 2 custom jobs, one of them with too long a name, limit of 2, old, new and unbuildable action, failing writes, restarts | what was acknowledged of a job is on disk, unless its own name is too long; a job is scheduled exactly while its spec is registered, with the spec's action |
| `DesktopLane` | 3 dispatches with ids of their own, 2 steps | one run on the desktop; a cancelled one dispatches nothing and costs at most a step; the tracker's last word; every accepted run ends |
| `Skills` | the state directory, a workspace and one that may be added, one slug and one name that is also bundled and that the catalog lists twice, 2 callers, installs into the default directory and into a scanned one; 2 of bundles, prompts, installs under way and changes of the workspaces at a time | after a scan, also one that was broken off, the registry lists what it could find; later no more than what is still there; a managed skill has the files of the install that registered it; a valid bundle made by hand is listed |
| `AgentLifecycle` | 2 runs, 1 save, 2 agents, tasks of 2 rounds | a run has older preferences only if its agent was being started at the save; no browser is lost but for named causes; a run alone is charged its own calls; every run ends |
| `DesktopDecisions` | one run of up to 4 steps, one browser agent, 4 tools, a chain of 2 entries, one save | a decision on an old image has one of two causes; the loop guard stops repetition; the table is restored |
| `Sessions` | 1 sender, 2 interchangeable runs, 3 sessions of which 2 fit, histories of 1 message, a tracker of 1, 2 pending events, a window of one tick and one call | a run is told alike by tracker, bus and session from its start to its end, as completed only when its agent reported success; no window is overfull |
| `Channels` | six stores, 2 keys, 3 values of which one is odd, one restart; 1 channel, 2 requests, 3 adapters | what was answered is kept through failing writes and restarts; registry and primary flag agree with the entries; a connection nobody can close has one of two causes |
| `Channels_refused_agent` | the agents' store alone | expected violation: see below |

Why such bounds are enough. The hazards involve two actors on one object (a timer
and an operator, a reader and a writer, an operator and the loop) and one
bystander whose state must not be disturbed; each limit is reached and passed in
the run that has a property about it. Two requests overflow a history of 2,
because a request decided as its timer fires takes two entries; one listener with
a queue of 2 is full after one request of two. The tools of the `GatedTools` run
differ in every column of `ToolSpec` that matters to a gated call: `fs_write` checks
its capability, may turn its arguments down and verifies afterwards; `open_url`
runs a command that may time out or exit nonzero; `tailscale_up` asks without
checking a capability first. The three policies differ in the master switch and in
what is gated. All tools and all policies are covered by the proofs. Three dispatches
leave one waiting while another hands the lane over. `CustomCrons` has two state constraints:
the loop works on one of the custom jobs (`LoopWorksOnOneJob`; the loop with several is
`CronScheduler`'s), and the other, whose name is too long, exists only while the loop is off
(`SecondJobIsQuiet`): it is there to be lost by a restart without taking the first one with
it. The run of `Skills` has a constraint as well: two bundles exist at a time, or one beside
an install that is under way, and one place is out of step between scans. Two bundles are what shadowing, a scan broken off before the
second, a name with two origins and an install beside a removal take, and a third would be
a bystander; two installs overlap before either has written. Directories outside of the
state directory and folders shared by two identifiers are left to the proofs. `DesktopDecisions` takes 4 steps because the tolerant threshold of the loop
guard is a fourth identical call. Two runs and two agents are a start that overtakes another, or a run
whose agent is replaced. With three sessions of which two fit, the session of a running
task can be evicted and its sender come back. Two keys are the one whose write failed and
another whose write then succeeds.

### The claim the code does not keep

`Channels_refused_agent`: `agents/custom.py:3-4` says that stored agents are rehydrated
when the plugin initialises. `register` and `update` keep a spec before its invoker is
built; if building raises (an `http_webhook` whose timeout is no number passes
validation), the request is answered 400, the spec goes to the file with the next accepted
request, and every later start raises on it. `CustomCrons` has the same shape for jobs.

### Met on the way, without a run of their own

These stand as definitions in the modules and can be added to a cfg as INVARIANT; TLC
refutes each of them.

| Definition | Claim | What the code does |
|---|---|---|
| `ApprovalGate.HistoryNamesARequestOnce` | `control/approvals.py:121` | a request decided as its timer fires is in the history twice |
| `GatedTools.EveryGatedCapabilityAsks` | `computer_use/desktop_vision.py:64` | screenshots, reads and process kills never ask |
| `GatedTools.EverySuccessReachesTheFile` | `computer_use/config.py:139` | buffered audit entries are never flushed at the end |
| `CronScheduler.TriggeredJobStaysDue` | `cron/scheduler.py:154` | a trigger during a run of the job is lost when the run ends (`:218`) |
| `CustomCrons.AcknowledgedJobIsScheduled` | `cron/custom.py:3-4` | a job whose name outgrows the limit vanishes at the next start (`:222`) |
| `DesktopLane.ActiveRunIsFound` | `dashboard/routes/desktop.py:183` | the active run cannot be cancelled when its id was used before (`computer_use/desktop_lane.py:66`; give two runs one id) |
| `Skills.FailedParsingIsReported` | `docs/guide/skills.md` | front matter that cannot be parsed raises out of the scan, unreported (`skills/loader.py:373`) |
| `Skills.ManagedAlwaysHasItsFiles` | `skills/clawhub.py:420-438` | an install directory that is scanned, or two identifiers with one folder: removing one skill deletes the files of another, which stays listed |
| `AgentLifecycle.NextRunHasFreshPrefs` | `config/models.py:5-6` | an agent that is being started at a save keeps the former preferences |
| `DesktopDecisions.DecisionsSeeTheScreen` | `desktop_agent/agent.py:275` | `open_url` skips the observation although it changes the screen |
| `VisionFailover.RunningTaskKeepsItsModel` | `docs/models.md` | the table is shared: a save, or another service's attempt, changes a running task's model |

Met while reading, of components that are modelled:

- Gate and tools: a pending request is announced to the gate's listeners but not on the
  dashboard bus (`control/approvals.py:111`, against `docs/approvals.md:49-51`); a command
  that timed out is replied as denied (`computer_use/shell_exec.py:131`); allowlist denials
  leave no audit entry (`:106`, against `docs/computer-use.md:62`).
- Run recording: the retention job does not reset the commit counter
  (`control/replay.py:432`, unlike `:145-147`); a run's count and its list of steps come
  from two SELECTs and can differ (`:334`); a reused run id inherits the former run's
  steps (`:223`); a run whose `start_run` raised stays "running" in the
  tracker with no row that tells of it; one whose `finish_run` raised, and once more in
  the handler of that error, keeps a "running" row (`api/router.py:106`, `:186`, `:214`).
- Custom crons: an update that is refused leaves its job unscheduled until the next
  accepted update.
- Agents: docstrings speak of a singleton, but MCP hosts have an agent of their own and two
  first callers start two; saving a provider key does not invalidate the agent
  (`docs/reference/configuration.md:63-64`); runs share one page.
- Skills: removing `skills/<slug>` reveals `.agents/skills/<slug>`; a prompt bundle that
  is deleted comes back with the next scan; managed registrations are lost on restart; what
  is installed outside the state directory cannot be removed; a blank draft is answered as
  created although it is invalid; a re-authored bundle keeps its old `MANIFEST.yaml`.
- Sessions: nothing calls `dm_policy.configure`, so unpaired senders are not denied
  (`docs/guide/channels.md`, `docs/configuration.md` §9).
- Workspaces: an update may take the flag of the only primary one; the MCP tool
  `workspace_remove` keeps neither the last workspace nor a primary one, as the route does.
- Channels: saving a configuration does not restart its adapter; a test send makes a
  disabled channel live; a start whose configuration is deleted meanwhile is answered 400
  and its adapter stays; the catalogue of actions says "capped at 15s" where the code caps
  at 60.

## 4. Fairness

Weak fairness only, and only of the runtime: the event loop resumes tasks that
are ready and fires timers that are due (`LoopFairness`, `Advance`,
`LoopStep`, `Start`, `Loop` and `PutSteps` of the life cycle), and started actions
end: subprocesses, HTTP calls, Playwright and vision calls have timeouts, built-in jobs
never suspend. `Skills` assumes that the scan, a cron job of ten minutes, runs again and
again. Nothing is assumed of operators, clients and the model: `CallsEnd` and
`AcceptedRunEnds` hold although no operator ever answers, because the gate times out. A
job that hangs is outside the assumption; it would block the scheduler, see the hazards.

## 5. What is proved

`ApprovalGate_proofs` proves for any requests, listeners, history size and queue
size, from `SizesAreUsable` alone:

- `TypeCorrectness`: `[]TypeOK`.
- `DecisionInvariance`: `[]DecisionInv`, the strengthening the rest uses. The
  properties are not inductive alone: that an acknowledged answer is the status
  needs that a pending request has not been acknowledged and that a task in
  *woken* belongs to a decided one. `DecisionInv` ties status, phase, pending
  list and `told` of each request together.
- `AcknowledgedDecisionsHold`, `PendingListIsExact`, `DecisionsAreFinal` (an action
  property), `HistoryRecordsDecisions` (with lemmas on appending to and cutting a
  bounded history).
- `FeedsAreFaithful`: the queue of a subscribed listener is the end of the log, and the log
  announces each request once, before its end, with the decision that stands (`FeedInv`).
- `GateImplementsContract`: `Spec => Contract!Spec` under the refinement mapping
  in `ApprovalGate`, by simulation of each action.

`GatedTools_proofs` proves for any calls, tool maps, policies and batch size, with
every tool of `ToolSpec`, from `ToolsAreKnown` and the other assumptions on the
constants:

- `HostInvariance`: `[]HostInv`. The invariant adds to the properties that a call
  which has begun is bound to a map that was built before it, and a map is built
  once, so that its policy does not change under the call (`CallsAreBound`); that a
  parked call passed its checks before it asked (`ParkedWasChecked`), without which
  an approval alone would not show that the action obeys the policy; and that
  nothing is recorded of a call before its action (`EntriesFollowTheAction`).
- `GatedActionsAreApproved`, `ActionsObeyTheirPolicy`: the two promises about what
  reaches the host.
- `EntriesAreNotLostByFlushes`, `RepliesAgreeWithTheLog`: by a lemma (`LogGrows`)
  that all three outcomes of `AuditLogger.record` add the entry to file or buffer
  and take nothing away, a failed flush included.

`DesktopLane_proofs` proves for any runs, ids and numbers of steps:

- `LaneInvariance`: `[]LaneInv`. Lane and active run id change together
  (`ActiveFollowsTheLane`), which makes `OneRunOnTheDesktop` inductive; a run in the
  loop has a step left while it thinks or acts (`StepsFitThePhase`); and a cancelled
  run stays at the step of its cancellation until its next pause or end
  (`CancelledStaysAtItsStep`), which bounds what it still costs.
- `LaneExcludes`, `CancellationIsPrompt`, `CancelledRunsDispatchNothing` (an action
  property), without any assumption on run ids.
- `RegistersAreRight`: under `IdsAreDistinct`, a hypothesis of the theorem;
  `ActiveRunIsFound` shows that it is needed.

`RunRecording_proofs` proves for any requests, ids, batch and tracker size and any number
of crashes:

- `RecordingTypeCorrectness`.
- `CrashesCostShortTails`, whether run ids are distinct or not. `BatchInv` counts the rows
  at stake against the commit counter, which only ever is too large, and says that a step
  on record was emitted before and that the one in a worker thread comes next
  (`RowsAreEmitted`); without that a late `add_step` could leave a hole in what is on disk.
- `FinishedRunsAreComplete`, `RecordsTellOneStory`, `LiveTailsAreCurrent`, if run ids are
  distinct, a hypothesis of the theorems: clients may choose ids, and a reused one inherits
  the former run's steps. `StoryInv` says what the store, the tracker and the events know
  of a request in each of its phases, statements that raised included, and that what a reader has flushed stays committed
  while it reads.

`CronsAndSkills_proofs` proves for any names, functions and objects:

- `SchedulerTypeCorrectness`, `TriggersAreKept`, `StaleWorkEnds` of `CronScheduler` alone,
  and by `SchedulerHoldsBesideRegistry` of the scheduler whose jobs the custom registry
  adds, replaces and removes. `CronInv` is about the list the loop has taken: its objects
  are of different names and have no stale run behind them, and the job under way is owed
  no trigger of an idle job.
- `RegistryTypeCorrectness`, `RegistryAgrees`, through failing writes, late refusals and
  restarts.
- `AcknowledgedJobsAreOnDisk`, for every job whose own name stays within the limit, whatever
  the others are called. As in the other stores the memory is what makes this
  inductive (`MemoryIsAcknowledged`).

and of `Skills`, whose scan is one of the jobs, for any workspaces, slugs, bundles,
catalogs, install directories and requests:

- `SkillsTypeCorrectness`, `RegistryKeepsFollowingDisk`, `ManagedKeepsItsFiles`. Places of installs and of scans may overlap. `SkillsInv` adds to
  the properties that a workspace skill is listed under a name of its root with its files in
  a scanned place, and a managed one under its identifier with its files in a `Target` of
  that identifier (`Origins`); a folder of its own that is not scanned is then no other's
  (`PlacesApart`). A scan lists under a name what roots and disk alone determine
  (`MatchesIs`, `ScanFacts`), and depends on the scanned places only (`SameScan`); every
  other step that writes to one of them, an install included, marks it in `touched`, and
  none lists a workspace skill (`OnlyForgets`). `RemoveEntry` is the delicate step: a workspace skill whose files are
  gone may lose its entry without a scan, which would break the agreement if the registry
  could agree with a disk that lacks the files.

`Agents_proofs` proves of `DesktopDecisions` with `VisionFailover`, for any services, entries,
tools, policies and run lengths:

- `DecisionsTypeCorrectness`.
- `StaleViewsAreExplained`: `ViewInv` carries the cause from the step that changed the
  screen to the observation that was skipped after it.
- `RepetitionsAreStopped`: `RepeatInv` says that the calls counted are the last steps of
  the run's history, which is what the loop guard counts.
- `AttemptsRestoreTheTable`: by `TableInv`, every service's snapshot holds what the table is
  put back to, until preferences are saved or a service is built during an attempt.

and of `AgentLifecycle`, for any callers, saves, agents and rounds:

- `LifeIsInvariant`: `[]LifeInv`, with `LifeTypeCorrectness`. None of the three properties
  below is inductive alone, and their strengthenings share `Phases`, which says how far an
  agent is whom somebody holds, starts or stops: what is being started is nobody's yet,
  what is being stopped was installed.
- `StalenessHasACause`: `Freshness` extends the property from running tasks to installed
  and starting agents. Such an agent was built after every save that was answered or is
  about to be (a request that is stopping the former agent has saved already), or it was
  being started at that save; `Save` drops the installed agent at once, so it holds of
  whatever is installed later.
- `BrowsersHaveAgents`: an agent is installed over another only by a start that overlapped
  with the other's; `Overlaps` says that both then are each other's rivals, and that a start
  under way while its holder has an agent is a rival of that agent.
- `TokensAreCharged`: `Accounts` relates what a run has spent to what its agent's counter
  gained since the run began: never more, and no less while it is alone; of several runs in
  the loop of one agent none believes to be alone.

`Sessions_proofs` proves for any keys, window and limits, senders, runs and sessions, with a
clock that does not go back:

- `WindowHolds` of the limiter alone and, as `Sessions` uses it, `SessionWindowHolds`. The
  property speaks of all accepted calls ever, the code only keeps a pruned bucket: the
  invariant says that the bucket is the end of the history, that everything older than the
  bucket's start is out of every later window, and that times do not decrease; a call
  is let in only when the bucket is short, so the one `MaxEvents` places before it is out.
- `SessionTypeCorrectness`, `SendersHaveOneSession` (which no run checks: lookup and
  creation are one segment of the loop).
- `RunsEndAsTheyWere`: an id is drawn once, so a run whose session is gone never meets
  another under that id, and a run that has not ended has been charged nothing. That the
  result follows the acknowledgement needs lemmas on histories: a bounded one
  forgets from its front, so no acknowledgement outlives the answer behind it.

`Channels_proofs` proves for any stores, keys, values and requests, from
`StoresAssumption`:

- `AnswersAreKept`: `AcknowledgedIsKept` says nothing of memory, which the next write
  takes to the file as a whole; `Agreement` adds that memory too has, for every key that
  is not in doubt, what was answered. Demoting a primary workspace is the one change
  that touches another key; the failed request then puts that key in doubt as well.
- `TablesHold`: agents' registry and primary flag, through late refusals, failed writes
  and unreadable files. A step of a channel request is one change of an entry or none
  (`ChannelStepsKeep`), and no such request exists while another store is followed
  (`NoRequests`).
- `ConnectionsHaveHolders`: `HeldInv` adds that two starts under way have different
  adapters, that one of two for the same channel is a rival, and that whatever was
  registered while a start was suspended is a rival too.
- `ChannelsTypeCorrectness`: `StoresKeyed` adds that nothing is kept or registered under
  anything but a key, and `Inv` and `HeldInv` have the types of the rest.

Model-checked only: liveness and the fairness part of the refinement, which are beyond
the prover. Every invariant and every action property of a passing run is proved.

## 6. Not modelled

Parts of the modelled components: the argument checks of the tools (allowlist,
path confinement, size limits) are choices; the content of steps, screenshots
and prompts; intervals and cron expressions; what jobs do; what an action does to the
page; what an adapter sends; routing and invoking agents; the limiters of
`POST /sessions` and `DELETE`; encryption and authentication. The single-tool route and MCP
hosts do not take the desktop lane, and `plugin.shutdown` does not cancel
desktop tasks; a scheduler that is started while `stop()` still waits; no property
speaks of that. `GatedTools` and `DesktopLane` are not composed: a desktop run's tool call
is one phase there.

Hazards of code that is not modelled: a full subscriber of the dashboard's bus loses
single events and stays subscribed (`dashboard/bus.py:36`); a batch of edits that fails
half-way is rolled back file by file, which leaves files it had created
(`code_edit/multi_file.py:45`); a pairing token is spent by an attempt that fails
(`nodes/pairing.py:54`); `_bootstrap.py:321` reads a configuration outside its `try`;
`channels/registry.py:91` stops the adapters one by one at shutdown.

Whole components that are not modelled are listed with reasons in `PROJECT.json`: voice
and gateway wrap devices and commands, canvas and code editing are synchronous and
keep nothing, `model_routing` is not on the path of any run, pairing pops its token in the
statement that looks it up.

## 7. Plan

What is left, in this order:

1. `EventBus`: ring, replay to new subscribers, full queues, as a refinement of a totally
   ordered log of which a subscriber sees a subsequence.
2. `MultiFileEdit`: a batch of gated writes with its rollback, over `GatedTools`.
3. `GatedTools` under `DesktopLane`: cancellation of a run whose tool is parked on the gate.
