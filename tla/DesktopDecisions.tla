-------------------------- MODULE DesktopDecisions --------------------------
(***************************************************************************)
(* The observe, decide, act loop of one desktop run (desktop_agent/), with *)
(* the vision service it decides through, while a browser agent uses its   *)
(* own and an operator saves model preferences.  What the run is allowed   *)
(* and how it is cancelled against the lane is DesktopLane's.              *)
(***************************************************************************)
EXTENDS VisionFailover, FiniteSets

CONSTANTS Tools,       \* the tools the model can name
          Screenshot,  \* baselithbot_desktop_screenshot, one of them
          Changing,    \* those whose success shows on the screen
          Skipping,    \* OBSERVATION_SKIP_TOOLS, and a shell command that launches no app
          Tolerant,    \* LOOP_TOLERANT_TOOLS
          Policies,    \* sets of tools a policy can leave
          Objects,     \* what an argument object can hold, nothing ("empty") included
          MaxSteps

ASSUME ObjectsAssumption == "empty" \in Objects /\ "odd" \notin Objects
ASSUME ToolsAssumption ==
  /\ Screenshot \in Tools /\ Changing \subseteq Tools
  /\ Skipping \subseteq Tools /\ Tolerant \subseteq Tools
ASSUME PoliciesAssumption == Policies \subseteq SUBSET Tools
ASSUME StepsAssumption == MaxSteps \in Nat \ {0}

VARIABLES pc, step, allowed,
          last,    \* the last steps of the history that are alike, and how many they are
          view,    \* last_screenshot: none, or whether it still shows the screen
          shown,   \* the image the decision is made on
          asked,   \* the tool call the model answered with
          ran,     \* history: the last tool calls that are alike, and how many they are
          cause,   \* history: why the view was not renewed since it was taken
          odd      \* history: the model sent arguments that are no object
deskVars == <<pc, step, allowed, last, view, shown, asked, ran, cause, odd>>
vars == <<visionVars, deskVars>>

Desktop == "desktop"
Browser == "browser"
ASSUME ServicesAssumption == {Desktop, Browser} \subseteq Services

Sights == {"none", "fresh", "stale"}
\* The arguments as the model sends them: an object, or something that is none.
Args == Objects \cup {"odd"}
NoStep == [tool |-> "", args |-> "empty", status |-> "", times |-> 0]
NoCallMade == <<"", "empty">>
NoRan == [tool |-> "", args |-> "empty", times |-> 0]

Init ==
  /\ VisionInit
  /\ pc = "new" /\ step = 0 /\ allowed = {}
  /\ last = NoStep /\ ran = NoRan /\ asked = NoCallMade
  /\ view = "none" /\ shown = "none" /\ cause = {} /\ odd = FALSE
-----------------------------------------------------------------------------
(* The run. *)

\* create_desktop_agent: the policy and the vision service of this moment.
Begin ==
  /\ pc = "new"
  /\ BuildService(Desktop, table)
  /\ \E A \in Policies : allowed' = A /\ pc' = IF A = {} THEN "ended" ELSE "top"
  /\ UNCHANGED <<step, last, view, shown, asked, ran, cause, odd>>

\* execute() returns or raises; its locals go with it.
End ==
  /\ pc' = "ended" /\ step' = 0
  /\ last' = NoStep /\ ran' = NoRan /\ asked' = NoCallMade
  /\ view' = "none" /\ shown' = "none" /\ cause' = {} /\ odd' = FALSE
  /\ UNCHANGED allowed

OutOfSteps ==
  /\ pc = "top" /\ step = MaxSteps
  /\ End
  /\ UNCHANGED visionVars

\* The decision is taken out of the answered call.
Heard ==
  /\ call' = [call EXCEPT ![Desktop] = NoCall]
  /\ UNCHANGED <<prefs, table, svc, disturbed>>

\* The operator cancels: seen at the top and again before a tool is called.
Cancelled ==
  /\ pc = "top" \/ (pc = "deciding" /\ call[Desktop].pc = "answered")
  /\ End
  /\ IF pc = "top" THEN UNCHANGED visionVars ELSE Heard

\* Seeded fault: any successful step leaves the screen as it was.
SkipAfterAny == last.times > 0 /\ last.status = "success"

SkipObserve == last.times > 0 /\ last.status = "success" /\ last.tool \in Skipping

Decide ==
  /\ StartCall(Desktop)
  /\ pc' = "deciding"
  /\ UNCHANGED <<prefs, table, svc, disturbed, step, allowed, last, asked, ran, odd>>

\* The image of an earlier step is shown again.
DecideOnOldView ==
  /\ pc = "top" /\ step < MaxSteps
  /\ SkipObserve
  /\ shown' = view
  /\ Decide
  /\ UNCHANGED <<view, cause>>

DecideOnNewView ==
  /\ pc = "top" /\ step < MaxSteps
  /\ ~SkipObserve /\ Screenshot \in allowed
  /\ view' = "fresh" /\ shown' = "fresh" /\ cause' = {}
  /\ Decide

\* No screenshot is allowed, or taking one fails: the decision is made without an image.
DecideBlind ==
  /\ pc = "top" /\ step < MaxSteps
  /\ ~SkipObserve
  /\ shown' = "none"
  /\ cause' = IF Screenshot \in allowed THEN cause \cup {"failed"} ELSE cause
  /\ Decide
  /\ UNCHANGED view

\* The vision call ends the run: it raised, ran out of time, or said done or fail or no JSON.
DecisionEnds ==
  /\ pc = "deciding" /\ call[Desktop].pc \in {"answered", "raised", "timeout"}
  /\ End
  /\ Heard

Threshold(t) == IF t \in Tolerant THEN 3 ELSE 2

\* Seeded fault: only calls of tolerant tools are compared.
RepeatsOfTolerant(t, a) == t \in Tolerant /\ last.tool = t /\ last.args = a /\ last.times >= Threshold(t)

\* The last Threshold steps named this tool with these arguments.
Repeats(t, a) == last.tool = t /\ last.args = a /\ last.times >= Threshold(t)

\* A step records an object's arguments; anything else was called with none.
Recorded(a) == IF a = "odd" THEN "empty" ELSE a

Record(t, a, status) ==
  last' = IF last.tool = t /\ last.args = a
          THEN [last EXCEPT !.status = status, !.times = IF @ < 3 THEN @ + 1 ELSE @]
          ELSE [tool |-> t, args |-> a, status |-> status, times |-> 1]

\* The model names a call: cut short as a loop, refused by the policy, or made.
Names(t, a) ==
  /\ pc = "deciding" /\ call[Desktop].pc = "answered"
  /\ \/ /\ Repeats(t, a)
        /\ End
     \/ /\ ~Repeats(t, a) /\ t \notin allowed
        /\ IF a = "odd" THEN End
           ELSE /\ pc' = "top" /\ step' = step + 1 /\ Record(t, a, "denied") /\ ran' = NoRan
                /\ shown' = "none"
                /\ UNCHANGED <<allowed, view, cause, asked, odd>>
     \/ /\ ~Repeats(t, a) /\ t \in allowed
        /\ pc' = "acting"
        /\ asked' = <<t, Recorded(a)>>
        /\ odd' = (odd \/ a = "odd")
        /\ shown' = "none"
        /\ UNCHANGED <<step, allowed, last, view, ran, cause>>
  /\ Heard

Ran(t, a) == IF ran.tool = t /\ ran.args = a THEN [ran EXCEPT !.times = @ + 1]
             ELSE [tool |-> t, args |-> a, times |-> 1]

\* The handler returns: a refusal or a success is a step.
Act(status) ==
  LET t == asked[1]
  IN  /\ pc = "acting"
      /\ pc' = "top" /\ step' = step + 1
      /\ Record(t, asked[2], status)
      /\ ran' = Ran(t, asked[2])
      /\ view' = IF status # "success" THEN view
                 ELSE IF t = Screenshot THEN "fresh"
                 ELSE IF t \in Changing /\ view = "fresh" THEN "stale" ELSE view
      /\ cause' = IF status = "success" /\ t = Screenshot THEN {}
                  ELSE IF status = "success" /\ t \in Changing \cap Skipping THEN cause \cup {"skipped"}
                  ELSE cause
      /\ asked' = NoCallMade
      /\ UNCHANGED <<visionVars, allowed, shown, odd>>

ActFails == pc = "acting" /\ End /\ UNCHANGED visionVars
-----------------------------------------------------------------------------
(* The others who use the table of models. *)

\* get_or_start_agent: preferences are applied, then the service is built.
BrowserStarts ==
  /\ BuildService(Browser, Pinned(table, prefs))
  /\ ~Busy(Browser)
  /\ UNCHANGED deskVars

BrowserAsks ==
  /\ Built(Browser) /\ ~Busy(Browser)
  /\ StartCall(Browser)
  /\ UNCHANGED <<prefs, table, svc, disturbed, deskVars>>

Vision == (\E s \in Services : CallStep(s) \/ CutShort(s) \/ CoolsOff(s)) /\ UNCHANGED deskVars

Run ==
  \/ OutOfSteps \/ DecideOnOldView \/ DecideOnNewView \/ DecideBlind \/ DecisionEnds
  \/ \E t \in Tools, a \in Args : Names(t, a)
  \/ \E status \in {"success", "denied"} : Act(status)
  \/ ActFails

Next ==
  \/ Begin \/ Cancelled \/ Run
  \/ Vision
  \/ BrowserStarts \/ BrowserAsks
  \/ SavePrefs /\ UNCHANGED deskVars

Spec == Init /\ [][Next]_vars
-----------------------------------------------------------------------------
RunTypeOK ==
  /\ pc \in {"new", "top", "deciding", "acting", "ended"}
  /\ step \in 0..MaxSteps /\ allowed \in SUBSET Tools
  /\ last \in [tool : Tools \cup {""}, args : Args, status : {"", "success", "denied"}, times : 0..3]
  /\ ran \in [tool : Tools \cup {""}, args : Args, times : 0..MaxSteps]
  /\ view \in Sights /\ shown \in Sights
  /\ asked \in (Tools \cup {""}) \X Args
  /\ cause \in SUBSET {"failed", "skipped"} /\ odd \in BOOLEAN

TypeOK == VisionTypeOK /\ RunTypeOK

\* A decision is made on an image older than the run's own last change of the screen only
\* after a screenshot failed or a tool that skips the observation changed the screen
\* (desktop_agent/agent.py, _should_skip_observe).
StaleViewHasACause == pc = "deciding" /\ shown = "stale" => cause # {}

\* As its docstring has it: the observation is skipped only where nothing changed.
DecisionsSeeTheScreen == pc = "deciding" => shown # "stale"

\* No tool call is made more often in a row than the loop guard allows, as long as the model
\* sends objects for arguments (desktop_agent/agent.py, repeat_threshold).
RepeatsAreStopped == odd \/ ran.times <= IF ran.tool \in Tolerant THEN 3 ELSE 2
=============================================================================
