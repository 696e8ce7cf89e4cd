------------------------------- MODULE Skills -------------------------------
(***************************************************************************)
(* skills/: the registry of skills and the bundles on disk it tells of.    *)
(*                                                                         *)
(* Three writers share one dict of names.  Bundled skills are put there by *)
(* the constructor; managed ones by ClawHub installs, which download for a *)
(* while and then write and register without suspending; workspace ones by *)
(* a scan of the state directory and of the workspaces there are at that   *)
(* moment.  A scan runs at start, every ten minutes as a cron job, when    *)
(* asked for, after a skill was authored and after one was removed with    *)
(* its files.  People edit the scanned bundles by hand as well.            *)
(*                                                                         *)
(* A bundle is a directory with a SKILL.md and perhaps a MANIFEST.yaml,    *)
(* each reduced to what the loader tells apart.  Its place is              *)
(* <<holder, layout, folder>>: <root>/skills/<folder>, which takes         *)
(* precedence over <root>/.agents/skills/<folder>, or a folder of another  *)
(* directory.  ClawHub may install into any, scanned ones included.        *)
(*                                                                         *)
(* Abstracted: texts, versions, sizes; symbolic links (a directory that    *)
(* resolves outside its root is taken as absent); an install directory     *)
(* that is a root or inside of a bundle; the file of the workspaces, which *)
(* OperatorStores follows (a start may find any list in it here); rate     *)
(* limits and events.                                                      *)
(***************************************************************************)
EXTENDS Naturals, Sequences, FiniteSets, Functions

CONSTANTS
  Home,        \* the state directory
  Workspaces,  \* workspaces there may be, each a directory below it
  RootLists,   \* what a start may list: Home and at least one workspace, in order
  Slugs,       \* names of the folders skills are in
  Bundled,     \* names of the native skills
  Ids,         \* identifiers the hub offers; a bundled name may be among them
  Folder,      \* of each identifier, "/" replaced by "__": two may share one
  Listings,    \* the catalogs a sync may be answered with, sequences of Ids
  Outside,     \* directories outside of the state directory
  InstallDirs, \* values of ClawHubConfig.install_dir
  DefaultDir,  \* the one a client has unless told otherwise
  Callers,     \* requests that install or sync
  Handmade,    \* the bundles people put on disk by hand,
  Drafts,      \* those they write in the dashboard,
  Downloads    \* and those the hub delivers

Roots           == {Home} \union Workspaces
Layouts         == {"skills", ".agents"}
PromptName(r)   == <<r, "prompt_bundle">>
WorkspaceNames  == Roots \X (Slugs \union {"prompt_bundle"})
SkillNames      == Bundled \union Ids \union WorkspaceNames
Scanned         == Roots \X Layouts \X Slugs
Target(d, id)   == <<d[1], d[2], Folder[id]>>
Installed       == {Target(d, id) : d \in InstallDirs, id \in Ids}
RootPlaces      == {<<r>> : r \in Roots}   \* where the prompt bundles are
Places          == Scanned \union Installed

ASSUME RootsAreListed ==
  /\ Home \notin Workspaces /\ Outside \cap Roots = {}
  /\ RootLists # {}
  /\ \A list \in RootLists : list \in Seq(Roots) /\ Len(list) > 1 /\ list[1] = Home
ASSUME HubNamesApart == (Ids \union Bundled) \cap WorkspaceNames = {}
ASSUME DirsKnown     ==
  /\ Folder \in [Ids -> Slugs]
  /\ InstallDirs \subseteq (Roots \union Outside) \X (Layouts \union {"clawhub"})
  /\ DefaultDir \in InstallDirs
ASSUME ListingsKnown == Listings \subseteq Seq(Ids)

\* SKILL.md: absent, frontmatter that does not parse, no name or description, fine but
\* with an OpenClaw part that draws a warning, fine.  MANIFEST.yaml: absent, not YAML,
\* without surfaces or a passing test, complete.
Bundles == [dir : BOOLEAN, skill : {"none", "unparsable", "blank", "odd", "plain"},
            manifest : {"none", "broken", "vague", "tested"}]
Absent  == [dir |-> FALSE, skill |-> "none", manifest |-> "none"]

ASSUME HandmadeAreBundles == Handmade \subseteq Bundles \ {Absent}

\* A draft whose name or description is blank passes validation and is written; an
\* OpenClaw draft may name dispatch=tool and no tool.  The manifest is always complete.
ASSUME DraftsAreWritten ==
  Drafts \subseteq {[dir |-> TRUE, skill |-> s, manifest |-> "tested"] : s \in {"blank", "odd", "plain"}}

\* The hub delivers no manifest at all or one that parses; install() asks for no more
\* than a SKILL.md that is not blank.
ASSUME DownloadsAreAccepted ==
  Downloads \subseteq [dir : {TRUE}, skill : {"blank", "odd", "plain"}, manifest : {"none", "vague", "tested"}]

VARIABLES
  roots,      \* the roots as a scan finds them: Home, then WorkspaceManager._workspaces
  skills,     \* SkillRegistry._skills, NoSkill where there is none
  reports,    \* places and roots in _workspace_skill_reports
  bundle,     \* the bundle at each place on disk
  prompts,    \* roots with an AGENTS.md, SOUL.md or TOOLS.md
  installDir, \* the install_dir of the plugin's current ClawHubClient
  calls,      \* of each caller, the ids still to install and the directory of its client
  up,         \* the plugin object exists
  touched,    \* places and roots out of step with the registry since the last scan
  broken      \* places where an OSError struck a listed skill (history, as the one before)

skillRegistry == <<skills, reports>>
disk          == <<bundle, prompts>>
hub           == <<installDir, calls>>
history       == <<touched, broken>>
skillsVars    == <<roots, skillRegistry, disk, hub, up, history>>

Skill(scope, place, b) == [scope |-> scope, place |-> place, bundle |-> b]
NoSkill                == Skill("none", <<>>, Absent)
BundledSkill           == Skill("bundled", <<>>, Absent)
Idle                   == [todo |-> <<>>, dir |-> DefaultDir]
Touch(p)               == touched' = IF p \in Scanned THEN touched \union {p} ELSE touched
\* An OSError at p is history for the managed skills that are listed from there.
Break(p)               ==
  broken' = IF \E id \in Ids : skills[id].scope = "managed" /\ skills[id].place = p
            THEN broken \union {p} ELSE broken
-----------------------------------------------------------------------------
(* The loader. *)

Errors(b)   == \/ b.skill \in {"none", "blank"}
               \/ b.manifest = "broken"
OpenClawWarns(b)      == b.skill = "odd"
CompatibilityWarns(b) == b.manifest \in {"none", "vague"}

Status(b) == CASE Errors(b)                                   -> "invalid"
               [] OpenClawWarns(b) \/ CompatibilityWarns(b)   -> "provisional"
               [] OTHER                                       -> "verified"

\* skills/<slug> hides .agents/skills/<slug>, whatever is in it.
Visible(disk_, r, s) ==
  IF disk_[<<r, "skills", s>>].dir THEN <<r, "skills", s>> ELSE <<r, ".agents", s>>

\* A SKILL.md that does not parse ends the discovery with an exception.
Raises(disk_, r) == \E s \in Slugs : disk_[Visible(disk_, r, s)].skill = "unparsable"

Earlier(list, r)        == {list[i] : i \in {j \in 1..Len(list) : \A k \in 1..j : list[k] # r}}
Reached(list, disk_, r) == r \in Range(list) /\ \A q \in Earlier(list, r) : ~Raises(disk_, q)
ScanFails(list, disk_)  == \E r \in Range(list) : Raises(disk_, r)

\* The bundles a scan of the roots in list comes to see, and those it registers.
Seen(list, disk_) ==
  {p \in Scanned : /\ disk_[p].dir
                   /\ p = Visible(disk_, p[1], p[3])
                   /\ Reached(list, disk_, p[1]) /\ ~Raises(disk_, p[1])}

Valid(list, disk_) == {p \in Seen(list, disk_) : Status(disk_[p]) # "invalid"}
SeenPrompts(list, disk_) == {<<r>> : r \in {q \in prompts : Reached(list, disk_, q)}}

NameOf(p) == <<p[1], p[3]>>

\* discover_workspace_skills: the prompt bundle of a root first, then its custom skills.
Discover(list, skills_, disk_) ==
  LET custom   == {NameOf(p) : p \in Valid(list, disk_)}
      prompt   == {PromptName(r[1]) : r \in SeenPrompts(list, disk_)}
      Place(n) == Visible(disk_, n[1], n[2])
  IN  [n \in SkillNames |-> IF n \in custom THEN Skill("workspace", Place(n), disk_[Place(n)])
                        ELSE IF n \in prompt THEN Skill("workspace", <<n[1]>>, Absent)
                        ELSE skills_[n]]

WithoutWorkspace(skills_) ==
  [n \in SkillNames |-> IF skills_[n].scope = "workspace" THEN NoSkill ELSE skills_[n]]

\* The scan of the disk as it will be after this step.
ScanInto(list, skills_, disk_) ==
  /\ skills'   = Discover(list, skills_, disk_)
  /\ reports'  = Seen(list, disk_) \union SeenPrompts(list, disk_)
  /\ touched'  = {}

\* Seeded fault: only the skills already listed are read anew.
RescanKnown(skills_, disk_) ==
  /\ skills'  = [n \in SkillNames |-> IF skills[n].scope = "workspace"
                                 THEN Discover(roots, WithoutWorkspace(skills_), disk_)[n]
                                 ELSE skills_[n]]
  /\ reports' = Seen(roots, disk_) \union SeenPrompts(roots, disk_)
  /\ touched' = {}

\* Seeded fault: what was listed before is not forgotten.
RescanKeeping(skills_, disk_) == ScanInto(roots, skills_, disk_)

\* plugin.rescan_workspace_skills
RescanWith(skills_, disk_) == ScanInto(roots, WithoutWorkspace(skills_), disk_)

Rescan ==
  /\ up
  /\ RescanWith(skills, bundle)
  /\ UNCHANGED <<roots, disk, hub, up, broken>>
-----------------------------------------------------------------------------
(* Workspaces come and go without a scan, and leave their directories where they are. *)

AddWorkspace(w) ==
  /\ up
  /\ w \notin Range(roots)
  /\ roots' = Append(roots, w)
  /\ touched' = touched \union {<<w>>}
  /\ UNCHANGED <<skillRegistry, disk, hub, up, broken>>

\* Not the last one, and not the primary one, which any other may become before.
RemoveWorkspace(w) ==
  /\ up /\ Len(roots) > 2
  /\ \E i \in 1..Len(roots) :
       /\ roots[i] = w
       /\ roots' = SubSeq(roots, 1, i - 1) \o SubSeq(roots, i + 1, Len(roots))
  /\ touched' = touched \union {<<w>>}
  /\ UNCHANGED <<skillRegistry, disk, hub, up, broken>>
-----------------------------------------------------------------------------
(* Authoring through the dashboard. *)

\* write_workspace_skill: SKILL.md first, then MANIFEST.yaml; what is left behind when
\* the directory, the first or the second file cannot be written.
HalfWritten(old, new) ==
  {old, [old EXCEPT !.dir = TRUE],
   [old EXCEPT !.dir = TRUE, !.skill = "blank"],
   [old EXCEPT !.dir = TRUE, !.skill = new.skill]}

\* Writing succeeds, and so does discovery below the root: rescan, and answer.
Create(r, s, draft, overwrite) ==
  LET p   == <<r, "skills", s>>
      new == [bundle EXCEPT ![p] = draft]
  IN  /\ up /\ r \in Range(roots)
      /\ bundle[p].dir => overwrite
      /\ bundle' = new
      /\ IF Raises(new, r) THEN Touch(p) /\ UNCHANGED skillRegistry
                           ELSE RescanWith(skills, new)
      /\ UNCHANGED <<roots, prompts, hub, up, broken>>

CreateFails(r, s, draft, overwrite) ==
  LET p == <<r, "skills", s>>
  IN  /\ up /\ r \in Range(roots)
      /\ bundle[p].dir => overwrite
      /\ \E left \in HalfWritten(bundle[p], draft) : bundle' = [bundle EXCEPT ![p] = left]
      /\ Touch(p)
      /\ UNCHANGED <<roots, skillRegistry, prompts, hub, up, broken>>
-----------------------------------------------------------------------------
(* ClawHub. *)

Configure(d) ==
  /\ up
  /\ installDir' = d
  /\ UNCHANGED <<roots, skillRegistry, disk, calls, up, history>>

Busy(c) == calls[c].todo # <<>>

\* A request takes the client of the moment and begins to download.
StartInstall(c, id) ==
  /\ up
  /\ ~Busy(c)
  /\ calls' = [calls EXCEPT ![c] = [todo |-> <<id>>, dir |-> installDir]]
  /\ UNCHANGED <<roots, skillRegistry, disk, installDir, up, history>>

\* Of an empty catalog nothing remains to be done.
StartSync(c, listing) ==
  /\ up
  /\ ~Busy(c)
  /\ listing # <<>>
  /\ calls' = [calls EXCEPT ![c] = [todo |-> listing, dir |-> installDir]]
  /\ UNCHANGED <<roots, skillRegistry, disk, installDir, up, history>>

\* A sync goes on with the next name, whatever became of this one.
NextInstall(c) ==
  calls' = [calls EXCEPT ![c] = IF Len(@.todo) = 1 THEN Idle
                                   ELSE [@ EXCEPT !.todo = Tail(calls[c].todo)]]

\* get_manifest and the checks of install() refuse: not found, no SKILL.md or a blank
\* one, a manifest that is no YAML, or a moderation verdict.  Compatibility refuses none.
InstallRefused(c) ==
  /\ Busy(c)
  /\ NextInstall(c)
  /\ UNCHANGED <<roots, skillRegistry, disk, installDir, up, history>>

\* A request fails or the frontmatter does not parse: the exception ends a sync as well.
InstallRaises(c) ==
  /\ Busy(c)
  /\ calls' = [calls EXCEPT ![c] = Idle]
  /\ UNCHANGED <<roots, skillRegistry, disk, installDir, up, history>>

\* The files of a bundle without a manifest leave an older MANIFEST.yaml where it is.
Unpacked(old, new) ==
  [dir |-> TRUE, skill |-> new.skill,
   manifest |-> IF new.manifest = "none" THEN old.manifest ELSE new.manifest]

Install(c, new) ==
  LET id == Head(calls[c].todo)
      p  == Target(calls[c].dir, id)
  IN  /\ Busy(c)
      /\ bundle' = [bundle EXCEPT ![p] = Unpacked(@, new)]
      /\ skills' = [skills EXCEPT ![id] = Skill("managed", p, new)]
      /\ Touch(p)
      /\ broken' = broken \ {p}
      /\ NextInstall(c)
      /\ UNCHANGED <<roots, reports, prompts, installDir, up>>

\* Seeded fault: a skill is listed before its files are written.
InstallFailsListed(c, new) ==
  LET id == Head(calls[c].todo)
      p  == Target(calls[c].dir, id)
  IN  /\ Busy(c)
      /\ \E left \in HalfWritten(bundle[p], new) : bundle' = [bundle EXCEPT ![p] = left]
      /\ skills' = [skills EXCEPT ![id] = Skill("managed", p, new)]
      /\ Touch(p) /\ Break(p)
      /\ calls'  = [calls EXCEPT ![c] = Idle]
      /\ UNCHANGED <<roots, reports, prompts, installDir, up>>

\* An OSError while unpacking: nothing is registered, and nothing is taken back.
InstallFails(c, new) ==
  LET p == Target(calls[c].dir, Head(calls[c].todo))
  IN  /\ Busy(c)
      /\ \E left \in HalfWritten(bundle[p], new) : bundle' = [bundle EXCEPT ![p] = left]
      /\ Touch(p) /\ Break(p)
      /\ calls'  = [calls EXCEPT ![c] = Idle]
      /\ UNCHANGED <<roots, skillRegistry, prompts, installDir, up>>
-----------------------------------------------------------------------------
(* DELETE /skills/{name}. *)

IsPrompt(sk) == sk.scope = "workspace" /\ Len(sk.place) = 1

\* purge_skill_on_disk: what has files of its own, a purge refused with ValueError, and
\* one that comes to rmtree.
HasFiles(sk)     == sk.scope # "bundled" /\ ~IsPrompt(sk)
InState(place)   == place[1] \in Roots
PurgeRefused(sk) == HasFiles(sk) /\ ~InState(sk.place)
Purges(sk)       == HasFiles(sk) /\ InState(sk.place) /\ bundle[sk.place].dir

Removable(n) == up /\ skills[n].scope \in {"managed", "workspace"} /\ ~PurgeRefused(skills[n])

\* Only the registry entry goes: a prompt bundle, or a skill whose files are gone.
RemoveEntry(n) ==
  /\ Removable(n)
  /\ ~Purges(skills[n])
  /\ skills'  = [skills EXCEPT ![n] = NoSkill]
  /\ touched' = IF IsPrompt(skills[n]) THEN touched \union {<<n[1]>>} ELSE touched
  /\ UNCHANGED <<roots, reports, disk, hub, up, broken>>

RemoveAndPurge(n) ==
  LET p   == skills[n].place
      new == [bundle EXCEPT ![p] = Absent]
  IN  /\ Removable(n)
      /\ Purges(skills[n])
      /\ bundle' = new
      /\ broken' = broken \ {p}
      /\ RescanWith([skills EXCEPT ![n] = NoSkill], new)
      /\ UNCHANGED <<roots, prompts, hub, up>>

\* rmtree stops half-way, and the entry stays.
PurgeFails(n) ==
  LET p   == skills[n].place
      old == bundle[p]
  IN  /\ Removable(n)
      /\ Purges(skills[n])
      /\ \E left \in {old, [old EXCEPT !.skill = "none"], [old EXCEPT !.manifest = "none"]} :
           bundle' = [bundle EXCEPT ![p] = left]
      /\ Touch(p) /\ Break(p)
      /\ UNCHANGED <<roots, skillRegistry, prompts, hub, up>>
-----------------------------------------------------------------------------
(* The world outside: edits by hand, and the end of the process. *)

EditByHand(p, b) ==
  /\ p \in Scanned
  /\ bundle'  = [bundle EXCEPT ![p] = b]
  /\ Touch(p)
  /\ UNCHANGED <<roots, skillRegistry, prompts, hub, up, broken>>

EditPrompts(r) ==
  /\ prompts' = IF r \in prompts THEN prompts \ {r} ELSE prompts \union {r}
  /\ touched' = touched \union {<<r>>}
  /\ UNCHANGED <<roots, skillRegistry, bundle, hub, up, broken>>

\* The constructor; a scan that raises leaves no plugin.
Fresh == [n \in SkillNames |-> IF n \in Bundled THEN BundledSkill ELSE NoSkill]

RestartPlugin ==
  /\ roots' \in RootLists
  /\ ScanInto(roots', Fresh, bundle)
  /\ up'         = ~ScanFails(roots', bundle)
  /\ installDir' = DefaultDir
  /\ calls'      = [c \in Callers |-> Idle]
  /\ broken'     = {}
  /\ UNCHANGED disk

SkillsInit ==
  /\ roots \in RootLists
  /\ skills = Fresh /\ reports = {} /\ up = TRUE
  /\ bundle = [p \in Places |-> Absent] /\ prompts = {}
  /\ installDir = DefaultDir /\ calls = [c \in Callers |-> Idle]
  /\ touched = {} /\ broken = {}

Authoring ==
  \E r \in Roots, s \in Slugs, draft \in Drafts, overwrite \in BOOLEAN :
    \/ Create(r, s, draft, overwrite)
    \/ CreateFails(r, s, draft, overwrite)

Hub(c) ==
  \/ \E id \in Ids : StartInstall(c, id)
  \/ \E listing \in Listings : StartSync(c, listing)
  \/ InstallRefused(c) \/ InstallRaises(c)
  \/ \E new \in Downloads : Install(c, new) \/ InstallFails(c, new)

SkillsNext ==
  \/ Rescan
  \/ \E w \in Workspaces : AddWorkspace(w) \/ RemoveWorkspace(w)
  \/ Authoring
  \/ \E d \in InstallDirs : Configure(d)
  \/ \E c \in Callers : Hub(c)
  \/ \E n \in SkillNames : RemoveEntry(n) \/ RemoveAndPurge(n) \/ PurgeFails(n)
  \/ \E p \in Scanned, b \in Handmade \union {Absent} : EditByHand(p, b)
  \/ \E r \in Roots : EditPrompts(r)
  \/ RestartPlugin

\* The scan is a cron job every ten minutes, and the scheduler survives its failures.
SkillsSpec == SkillsInit /\ [][SkillsNext]_skillsVars /\ WF_skillsVars(Rescan)
-----------------------------------------------------------------------------
SkillsTypeOK ==
  /\ roots \in Seq(Roots)
  /\ skills \in [SkillNames -> [scope  : {"none", "bundled", "managed", "workspace"},
                           place  : {<<>>} \union RootPlaces \union Places,
                           bundle : Bundles]]
  /\ reports \subseteq Scanned \union RootPlaces
  /\ bundle \in [Places -> Bundles] /\ prompts \subseteq Roots
  /\ installDir \in InstallDirs
  /\ calls \in [Callers -> [todo : Seq(Ids), dir : InstallDirs]]
  /\ up \in BOOLEAN
  /\ touched \subseteq Scanned \union RootPlaces /\ broken \subseteq Places

\* Until something on disk or the list of workspaces changes after a scan, the workspace
\* skills listed are exactly what that scan could find, each as its files are: all valid
\* bundles, or, where a SKILL.md that does not parse broke the scan off, those of the roots
\* before it.  No removal, install, refusal or half-done purge undoes it (plugin.py:169-176).
RegistryMatchesDisk ==
  up /\ touched = {} => skills = Discover(roots, WithoutWorkspace(skills), bundle)

\* Whatever changed since, a listed workspace skill has a valid bundle behind it, the one
\* it was read from, unless that very place was written to.
ListedIsOnDisk ==
  \A n \in SkillNames :
    LET sk == skills[n]
    IN  up /\ sk.scope = "workspace" /\ HasFiles(sk) /\ sk.place \notin touched =>
          /\ bundle[sk.place] = sk.bundle
          /\ Status(sk.bundle) # "invalid"

\* What the registry lists of the workspaces is all there was at the scan, and later
\* nothing that went or changed elsewhere than where it was touched: deletions, installs
\* into scanned directories and scans that raise included.
RegistryFollowsDisk == RegistryMatchesDisk /\ ListedIsOnDisk

\* A managed skill has the files of the install that registered it: installs that
\* overlap, one that is cut short, a client replaced meanwhile or a removal in between
\* do not mix them up, unless an OSError struck at the place of a listed one.  That holds
\* of a folder of its own (clawhub.py:438-467).
OfItsOwn(sk, n) ==
  sk.place \notin Scanned /\ \A id \in Ids : Folder[id] = Folder[n] => id = n

ManagedHasItsFiles ==
  \A n \in Ids :
    LET sk == skills[n]
    IN  sk.scope = "managed" /\ OfItsOwn(sk, n) /\ sk.place \notin broken =>
          bundle[sk.place].dir /\ bundle[sk.place].skill = sk.bundle.skill

\* False of a skill in a scanned directory, where workspace skills are written, removed
\* and edited, and of two identifiers with one folder, of which one is removed.
ManagedAlwaysHasItsFiles ==
  \A n \in Ids :
    LET sk == skills[n]
    IN  sk.scope = "managed" /\ sk.place \notin broken \union touched => bundle[sk.place].dir

\* A valid bundle put on disk by hand is listed sooner or later, as long as the plugin
\* is up, no other bundle makes the scan raise, and it stays valid.
HandmadeIsListed ==
  \A n \in Roots \X Slugs :
    LET ready == /\ up /\ ~ScanFails(roots, bundle)
                 /\ \E p \in Valid(roots, bundle) : NameOf(p) = n
    IN  ready ~> (skills[n].scope = "workspace" \/ ~ready)

\* docs/guide/skills.md: the validation panel "surfaces any workspace skill that failed
\* discovery/parsing".  After a scan every bundle in a scanned place is reported.
FailedParsingIsReported ==
  up /\ touched = {} => \A r \in Range(roots), s \in Slugs :
    bundle[Visible(bundle, r, s)].dir => Visible(bundle, r, s) \in reports

=============================================================================
