---------------------------- MODULE MCDesktopLane ----------------------------
(***************************************************************************)
(* Instances of DesktopLane for TLC.                                       *)
(***************************************************************************)
EXTENDS DesktopLane, TLC

CONSTANTS d1, d2, d3, a, b, c

\* Ids drawn by the server or chosen apart, and a client that repeats its own.
OwnIds == (d1 :> a) @@ (d2 :> b) @@ (d3 :> c)
SameId == (d1 :> a) @@ (d2 :> a) @@ (d3 :> c)
=============================================================================
