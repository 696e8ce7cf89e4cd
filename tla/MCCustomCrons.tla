---------------------------- MODULE MCCustomCrons ----------------------------
(***************************************************************************)
(* Instances of CustomCrons for TLC: a built-in job and two custom ones,   *)
(* the second under a name that no start reads back.                       *)
(***************************************************************************)
EXTENDS CustomCrons, TLC

CONSTANTS builtin, c1, c2

TwoPerName == {1, 2}

\* Bound: the loop has the job c1 to work on; the built-in job is not paused, and
\* nothing but c1 comes due.
LoopWorksOnOneJob ==
  /\ \A o \in Objects : due[o] => o[1] = c1
  /\ Registered(builtin) => enabled[Job(builtin)]

\* Bound: the second job exists only while the loop is off and nothing is due; it is not
\* paused, and its action is the old one or one that cannot be built.
SecondJobIsQuiet ==
  specs[c2] # NoSpec =>
    /\ loop = "off" /\ ~stop /\ Registered(builtin)
    /\ specs[c2].fn # "new" /\ specs[c2].on
    /\ (Registered(c2) => enabled[Job(c2)])
    /\ \A o \in Objects : ~due[o]
==============================================================================
