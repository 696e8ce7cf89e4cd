----------------------------- MODULE GatedTools -----------------------------
(***************************************************************************)
(* The Computer Use tools: computer_use/{tools,extra_tools,shell_exec,     *)
(* filesystem,os_control,desktop_vision,process_manager,spotify_control}   *)
(* and browser/web_launcher, the policy they run under, the approval gate  *)
(* they ask, and the audit log they write.                                 *)
(*                                                                         *)
(* A tool map is what build_computer_tool_definitions (or                  *)
(* build_extra_tool_definitions) returns: handlers bound to the policy in  *)
(* force when the map was built and to an AuditLogger of their own.  The   *)
(* dashboard's single-tool route builds a map for one call, a desktop run  *)
(* for its whole length, the MCP surface for as long as the host keeps it. *)
(*                                                                         *)
(* The gate is ApprovalContract, which ApprovalGate implements: each call  *)
(* is the caller of at most one request, named after it.                   *)
(*                                                                         *)
(* Abstracted: arguments (whether they pass the allowlist, path and size   *)
(* checks is a choice), results, and what an action does to the host.      *)
(***************************************************************************)
EXTENDS Integers, Sequences, FiniteSets, SequencesExt

CONSTANTS
  Calls,       \* tool invocations; each happens once
  Maps,        \* tool maps built in a behaviour
  Tools,       \* the tools offered, a subset of DOMAIN ToolSpec
  Policies,    \* the ComputerUseConfig values an operator may save
  BatchSize,   \* AuditLogger's batch_size
  DiskFaults   \* whether writing the audit file may raise OSError

Capabilities == {"mouse", "keyboard", "screenshot", "shell", "filesystem", "network"}
PolicyType   == [enabled : BOOLEAN, allowed : SUBSET Capabilities, gated : SUBSET Capabilities]

(***************************************************************************)
(* One entry per kind of tool.  "checks": the handler calls                *)
(* require_enabled(capability).  "badArgs": its reply when the allowlist,  *)
(* the path confinement or another check of the arguments fails.  "asks":  *)
(* it submits to the gate when its capability is gated.  "ends": how its   *)
(* action can end besides "ok".                                            *)
(***************************************************************************)
Kind(capability, checks, badArgs, asks, ends) ==
  [capability |-> capability, checks |-> checks, badArgs |-> badArgs,
   asks |-> asks, ends |-> ends \union {"ok"}]

ToolSpec ==
  [mouse_click  |-> Kind("mouse",      TRUE,  "none",   TRUE,  {"raised"}),
   kbd_type     |-> Kind("keyboard",   TRUE,  "none",   TRUE,  {"raised"}),
   shell_run    |-> Kind("shell",      TRUE,  "denied", TRUE,  {"raised", "timeout"}),
   open_url     |-> Kind("shell",      TRUE,  "denied", TRUE,  {"raised", "timeout", "nonzero"}),
   spotify      |-> Kind("shell",      TRUE,  "denied", TRUE,  {"raised", "timeout", "nonzero"}),
   fs_write     |-> Kind("filesystem", TRUE,  "denied", TRUE,  {"raised"}),
   tailscale_up |-> Kind("network",    FALSE, "none",   TRUE,  {"nonzero"}),
   screenshot   |-> Kind("screenshot", TRUE,  "error",  FALSE, {"raised"}),
   fs_read      |-> Kind("filesystem", TRUE,  "denied", FALSE, {"raised"}),
   process_kill |-> Kind("shell",      TRUE,  "none",   FALSE, {"raised"})]

ASSUME ToolsAreKnown    == Tools \subseteq DOMAIN ToolSpec
ASSUME PoliciesAreTyped == Policies \subseteq PolicyType
ASSUME BatchIsPositive  == BatchSize \in Nat \ {0} /\ DiskFaults \in BOOLEAN

VARIABLES
  policy,     \* effective_computer_use_config()
  snapshot,   \* of each map, the policy it was built with
  held,       \* maps that are built and that somebody holds
  buffer,     \* of each map, the entries its AuditLogger holds back
  discarded,  \* maps nobody holds any more
  phase,      \* of each call: "idle", "parked", "acting", "verifying", "ended"
  tool, map,  \* of each call, once invoked
  reply,      \* of each call, once ended: "success", "denied" or "error"
  reached,    \* calls that went past every check: their action may touch the host
  auditFile,  \* the lines of audit_log_path
  recorded,   \* entries handed to AuditLogger.record so far (history variable)
  lost,       \* entries that went with a discarded map (history variable)
  decision, answer   \* the gate

maps  == <<snapshot, held, discarded>>
calls == <<phase, tool, map, reply, reached>>
audit == <<buffer, auditFile, recorded, lost>>
gate  == <<decision, answer>>
vars  == <<policy, maps, calls, audit, gate>>

Gate == INSTANCE ApprovalContract WITH Requests <- Calls

\* The defaults of ComputerUseConfig; what snapshot holds before a map is built.
DefaultPolicy == [enabled |-> FALSE, allowed |-> {"mouse", "keyboard", "screenshot"},
                  gated |-> {}]
Entries  == Calls \X {"done", "refused", "timeout", "nonzero", "verify_failed"}

Running(c)   == phase[c] \in {"parked", "acting", "verifying"}
KindOf(c)    == ToolSpec[tool[c]]
PolicyOf(c)  == snapshot[map[c]]

Init ==
  /\ policy \in Policies
  /\ snapshot  = [m \in Maps |-> DefaultPolicy]
  /\ held      = {}
  /\ buffer    = [m \in Maps |-> << >>]
  /\ discarded = {}
  /\ phase = [c \in Calls |-> "idle"]
  /\ tool  = [c \in Calls |-> "none"]
  /\ map   = [c \in Calls |-> "none"]
  /\ reply = [c \in Calls |-> "none"]
  /\ reached   = {}
  /\ auditFile = << >>
  /\ recorded  = {}
  /\ lost      = {}
  /\ Gate!Init
-----------------------------------------------------------------------------
(* The policy and the tool maps. *)

\* PUT /dash/computer-use: the overlay is replaced; maps built before keep theirs.
SavePolicy(p) ==
  /\ policy' = p
  /\ UNCHANGED <<maps, calls, audit, gate>>

BuildMap(m) ==
  /\ m \notin held \union discarded
  /\ snapshot' = [snapshot EXCEPT ![m] = policy]
  /\ held'     = held \union {m}
  /\ UNCHANGED <<policy, discarded, calls, audit, gate>>

\* The last reference to a map goes away once none of its calls runs: the end of
\* a route call or of a desktop run, or the end of the process.  Nothing calls
\* flush() or aclose() of its AuditLogger.
DiscardMap(m) ==
  /\ m \in held
  /\ \A c \in Calls : Running(c) => map[c] # m
  /\ held' = held \ {m}
  /\ discarded' = discarded \union {m}
  /\ lost'   = lost \union ToSet(buffer[m])
  /\ buffer' = [buffer EXCEPT ![m] = << >>]
  /\ UNCHANGED <<policy, snapshot, calls, auditFile, recorded, gate>>
-----------------------------------------------------------------------------
(***************************************************************************)
(* AuditLogger.record followed by the end of the call.  The buffer is      *)
(* flushed when it is full, or when flush_interval has passed since the    *)
(* last flush (which the model lets happen at any record).  A write that   *)
(* raises may have written a part; the buffer is kept, and the exception   *)
(* replaces the reply the handler was about to give.                       *)
(***************************************************************************)
Record(m, e) ==
  /\ recorded' = recorded \union {e}
  /\ Len(buffer[m]) + 1 < BatchSize
  /\ buffer' = [buffer EXCEPT ![m] = Append(@, e)]
  /\ UNCHANGED <<auditFile, lost>>

RecordAndFlush(m, e) ==
  /\ recorded'  = recorded \union {e}
  /\ auditFile' = auditFile \o Append(buffer[m], e)
  /\ buffer'    = [buffer EXCEPT ![m] = << >>]
  /\ UNCHANGED lost

\* Seeded fault: the buffer is emptied before the write that fails.
FailToFlushAnEmptiedBuffer(m, e) ==
  /\ DiskFaults
  /\ recorded' = recorded \union {e}
  /\ buffer'   = [buffer EXCEPT ![m] = << >>]
  /\ UNCHANGED <<auditFile, lost>>

RecordAndFailToFlush(m, e) ==
  /\ DiskFaults
  /\ recorded' = recorded \union {e}
  /\ buffer'   = [buffer EXCEPT ![m] = Append(@, e)]
  /\ \E written \in 0 .. Len(buffer[m]) :
       auditFile' = auditFile \o SubSeq(buffer[m], 1, written)
  /\ UNCHANGED lost

End(c, answered) ==
  /\ phase' = [phase EXCEPT ![c] = "ended"]
  /\ reply' = [reply EXCEPT ![c] = answered]

\* Seeded fault: an entry that cannot be recorded is given up silently.
EndPerhapsWithEntry(c, kind, answered) ==
  /\ Record(map[c], <<c, kind>>) \/ RecordAndFlush(map[c], <<c, kind>>) \/ UNCHANGED audit
  /\ End(c, answered)

EndWithEntry(c, kind, answered) ==
  \/ (Record(map[c], <<c, kind>>) \/ RecordAndFlush(map[c], <<c, kind>>)) /\ End(c, answered)
  \/ RecordAndFailToFlush(map[c], <<c, kind>>) /\ End(c, "error")

StartAction(c) ==
  /\ phase'   = [phase EXCEPT ![c] = "acting"]
  /\ reached' = reached \union {c}
-----------------------------------------------------------------------------
(* A tool call. *)

Allows(p, t) ==
  ToolSpec[t].checks => p.enabled /\ ToolSpec[t].capability \in p.allowed

Asks(p, t) == ToolSpec[t].asks /\ ToolSpec[t].capability \in p.gated

\* The policy or the checks on the arguments refuse the call: no audit entry.
Refuse(c, t, m) ==
  /\ phase[c] = "idle" /\ m \in held
  /\ tool' = [tool EXCEPT ![c] = t]
  /\ map'  = [map EXCEPT ![c] = m]
  /\ \/ ~Allows(snapshot[m], t) /\ End(c, "denied")
     \/ /\ Allows(snapshot[m], t)
        /\ ToolSpec[t].badArgs # "none"
        /\ End(c, ToolSpec[t].badArgs)
  /\ UNCHANGED <<policy, maps, reached, audit, gate>>

\* The call passes its checks and is parked on the gate ...
Park(c, t, m) ==
  /\ phase[c] = "idle" /\ m \in held
  /\ Allows(snapshot[m], t)
  /\ Asks(snapshot[m], t)
  /\ tool'  = [tool EXCEPT ![c] = t]
  /\ map'   = [map EXCEPT ![c] = m]
  /\ phase' = [phase EXCEPT ![c] = "parked"]
  /\ Gate!Ask(c)
  /\ UNCHANGED <<policy, maps, reply, reached, audit>>

\* Seeded fault: a tool that need not ask is not checked either.
StartUnchecked(c, t, m) ==
  /\ phase[c] = "idle" /\ m \in held
  /\ ~Asks(snapshot[m], t)
  /\ tool' = [tool EXCEPT ![c] = t]
  /\ map'  = [map EXCEPT ![c] = m]
  /\ StartAction(c)
  /\ UNCHANGED <<policy, maps, reply, audit, gate>>

\* ... or starts at once.
Start(c, t, m) ==
  /\ phase[c] = "idle" /\ m \in held
  /\ Allows(snapshot[m], t)
  /\ ~Asks(snapshot[m], t)
  /\ tool' = [tool EXCEPT ![c] = t]
  /\ map'  = [map EXCEPT ![c] = m]
  /\ StartAction(c)
  /\ UNCHANGED <<policy, maps, reply, audit, gate>>

OperatorDecides(c, verdict) ==
  /\ Gate!Decide(c, verdict)
  /\ UNCHANGED <<policy, maps, calls, audit>>

\* Seeded fault: any answer of the gate but a timeout lets the action start.
ApprovedByAnyAnswer(c) ==
  /\ phase[c] = "parked"
  /\ Gate!Answer(c)
  /\ StartAction(c)
  /\ UNCHANGED <<policy, maps, tool, map, reply, audit>>

\* submit() returns APPROVED: nothing is checked again, the action starts.
Approved(c) ==
  /\ phase[c] = "parked"
  /\ Gate!Answer(c)
  /\ answer'[c] = "approved"
  /\ StartAction(c)
  /\ UNCHANGED <<policy, maps, tool, map, reply, audit>>

\* Seeded fault: the call waits for an operator as long as it takes.
RefusedByOperatorOnly(c) ==
  /\ phase[c] = "parked"
  /\ Gate!Answer(c)
  /\ answer'[c] # "approved"
  /\ EndWithEntry(c, "refused", "denied")
  /\ UNCHANGED <<policy, maps, tool, map, reached>>

\* submit() returns DENIED or TIMED_OUT: audited, then ComputerUseError.
Refused(c) ==
  /\ phase[c] = "parked"
  /\ Gate!Answer(c) \/ Gate!Expire(c)
  /\ answer'[c] # "approved"
  /\ EndWithEntry(c, "refused", "denied")
  /\ UNCHANGED <<policy, maps, tool, map, reached>>

(***************************************************************************)
(* The action ends.  An exception other than the subprocess timeout leaves *)
(* no audit entry; a timeout, and a non-zero exit of open_url and spotify, *)
(* are audited and then raised as ComputerUseError, which is replied as    *)
(* "denied".  process_kill acts and replies in one segment of the loop;    *)
(* here, as for the threaded tools, another task may run in between.       *)
(***************************************************************************)
ActionRaises(c) ==
  /\ phase[c] = "acting"
  /\ "raised" \in KindOf(c).ends
  /\ End(c, "error")
  /\ UNCHANGED <<policy, maps, tool, map, reached, audit, gate>>

ActionFails(c, kind) ==
  /\ phase[c] = "acting"
  /\ kind \in KindOf(c).ends \ {"ok", "raised"}
  /\ EndWithEntry(c, kind, IF KindOf(c).checks THEN "denied" ELSE "error")
  /\ UNCHANGED <<policy, maps, tool, map, reached, gate>>

\* fs_write of a .py file goes on to byte-compile it, unless the entry raises.
ActionSucceeds(c) ==
  /\ phase[c] = "acting"
  /\ \/ EndWithEntry(c, "done", "success")
     \/ /\ tool[c] = "fs_write"
        /\ Record(map[c], <<c, "done">>) \/ RecordAndFlush(map[c], <<c, "done">>)
        /\ phase' = [phase EXCEPT ![c] = "verifying"]
        /\ UNCHANGED reply
  /\ UNCHANGED <<policy, maps, tool, map, reached, gate>>

\* The file compiles, or a second entry says it does not; it is kept either way.
VerificationEnds(c) ==
  /\ phase[c] = "verifying"
  /\ \/ End(c, "success") /\ UNCHANGED audit
     \/ EndWithEntry(c, "verify_failed", "success")
  /\ UNCHANGED <<policy, maps, tool, map, reached, gate>>

Next ==
  \/ \E p \in Policies : SavePolicy(p)
  \/ \E m \in Maps : BuildMap(m) \/ DiscardMap(m)
  \/ \E c \in Calls :
       \/ \E t \in Tools, m \in Maps : Refuse(c, t, m) \/ Park(c, t, m) \/ Start(c, t, m)
       \/ \E verdict \in {"approved", "denied"} : OperatorDecides(c, verdict)
       \/ Approved(c)
       \/ Refused(c)
       \/ ActionRaises(c)
       \/ \E kind \in {"timeout", "nonzero"} : ActionFails(c, kind)
       \/ ActionSucceeds(c)
       \/ VerificationEnds(c)

(***************************************************************************)
(* Fairness: the gate answers (its own liveness), and an action that has   *)
(* been started on the host comes to an end.                               *)
(***************************************************************************)
Progress(c) == \/ Approved(c) \/ Refused(c)
               \/ ActionRaises(c) \/ ActionSucceeds(c) \/ VerificationEnds(c)
               \/ \E kind \in {"timeout", "nonzero"} : ActionFails(c, kind)

Spec     == Init /\ [][Next]_vars
FairSpec == Spec /\ \A c \in Calls : WF_vars(Progress(c))
-----------------------------------------------------------------------------
(* Properties. *)

TypeOK ==
  /\ policy \in Policies
  /\ snapshot \in [Maps -> Policies \union {DefaultPolicy}]
  /\ held \subseteq Maps
  /\ buffer \in [Maps -> Seq(Entries)]
  /\ discarded \subseteq Maps
  /\ phase \in [Calls -> {"idle", "parked", "acting", "verifying", "ended"}]
  /\ tool \in [Calls -> Tools \union {"none"}]
  /\ map \in [Calls -> Maps \union {"none"}]
  /\ reply \in [Calls -> {"none", "success", "denied", "error"}]
  /\ reached \subseteq Calls
  /\ \A c \in Calls : phase[c] = "ended" <=> reply[c] # "none"
  /\ auditFile \in Seq(Entries)
  /\ recorded \subseteq Entries
  /\ lost \subseteq Entries

\* However operators, timers and policy edits interleave, a tool that asks never
\* reaches the host under a policy that gates its capability unless an operator
\* approved that very call; a denied or expired call never does.
NoActionWithoutApproval ==
  \A c \in reached : Asks(PolicyOf(c), tool[c]) => decision[c] = "approved"

\* No tool that checks its capability reaches the host from a map whose policy has
\* the master switch or that capability off, whatever is saved before or after.
NoActionAgainstItsPolicy ==
  \A c \in reached : Allows(PolicyOf(c), tool[c])

\* A flush that fails half-way loses nothing: what was recorded is in the file, or
\* still in the buffer of its map, or went with a discarded map.
EntriesSurviveFlushes ==
  \A e \in recorded :
    \/ e \in ToSet(auditFile)
    \/ e \in ToSet(buffer[map[e[1]]])
    \/ e \in lost /\ map[e[1]] \in discarded

\* What a reply says and what was recorded agree: a success left its entry, and a
\* call the operator refused was recorded as refused and as nothing else.
RepliesAreBackedByEntries ==
  \A c \in Calls :
    /\ reply[c] = "success" => <<c, "done">> \in recorded
    /\ phase[c] = "ended" /\ answer[c] \in {"denied", "timed_out"} =>
         {e \in recorded : e[1] = c} = {<<c, "refused">>}

\* An invoked tool ends: a silent operator only delays it.
CallsEnd == \A c \in Calls : Running(c) ~> phase[c] = "ended"

(***************************************************************************)
(* Claims of the docs and docstrings that the code does not keep.          *)
(***************************************************************************)

\* computer_use/tools.py:49-50 and docs/computer-use.md:27-28: every invocation of
\* a capability listed in require_approval_for is parked until approved.
EveryGatedCapabilityAsks ==
  \A c \in reached :
    KindOf(c).capability \in PolicyOf(c).gated => decision[c] = "approved"

\* docs/README.md:53: every privileged action is written to the audit log; here,
\* once the tool map that performed it is gone.
EverySuccessReachesTheFile ==
  \A c \in Calls :
    reply[c] = "success" /\ map[c] \in discarded => <<c, "done">> \in ToSet(auditFile)
=============================================================================
