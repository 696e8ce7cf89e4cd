--------------------------- MODULE MCCronScheduler ---------------------------
(***************************************************************************)
(* Instances of CronScheduler for TLC.                                     *)
(***************************************************************************)
EXTENDS CronScheduler, TLC

CONSTANTS n1, n2

TwoPerName == {1, 2}
=============================================================================
