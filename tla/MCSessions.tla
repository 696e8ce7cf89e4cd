----------------------------- MODULE MCSessions -----------------------------
(***************************************************************************)
(* One sender, two interchangeable runs, three sessions of which two fit,  *)
(* and a window of one tick that lets one call through.                    *)
(***************************************************************************)
EXTENDS Sessions, TLC

CONSTANTS r1, r2

RunSymmetry == Permutations({r1, r2})
=============================================================================
