------------------------------ MODULE MCSkills ------------------------------
(***************************************************************************)
(* An instance of Skills for TLC: the state directory and a workspace, and *)
(* another workspace that may be added; two callers, who share one         *)
(* identifier, a bundled name as well, and a catalog that lists it twice;  *)
(* an install directory of its own and one that is scanned.                *)
(***************************************************************************)
EXTENDS Skills, TLC

Browser == <<"baselithbot", "browser">>

WithTeam     == {<<"state", "team">>}
BundledNames == {Browser}
OneName      == {Browser}
OneFolder    == Browser :> "browser"
Twice        == {<<Browser, Browser>>}
Default      == <<"state", "clawhub">>
TwoDirs      == {Default, <<"state", "skills">>}

Plain        == [dir |-> TRUE, skill |-> "plain", manifest |-> "tested"]
SomeDrafts   == {Plain}
OneDownload  == {[dir |-> TRUE, skill |-> "plain", manifest |-> "none"]}
ByHand       == {Plain, [dir |-> TRUE, skill |-> "unparsable", manifest |-> "none"]}

OnDisk   == {p \in Places : bundle[p].dir}
InFlight == {<<c, i>> \in Callers \X (1..2) : i <= Len(calls[c].todo)}

\* Bound: two of bundles on disk, roots with prompts, installs in flight or to come, and a
\* change to the list of workspaces; one layout and no prompts in the workspace, nothing in
\* the other one; one place out of step.
FewBundles ==
  /\ \A p \in OnDisk : p[1] # "spare" /\ p # <<"team", ".agents", "browser">>
  /\ Cardinality(OnDisk) + Cardinality(prompts) + Cardinality(InFlight)
       + (IF roots = <<"state", "team">> THEN 0 ELSE 1) <= 2
  /\ Cardinality(touched) <= 1
  /\ prompts \subseteq {"state"}
=============================================================================
