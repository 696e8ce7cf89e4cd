--------------------------- MODULE MCRunRecording ---------------------------
(***************************************************************************)
(* An instance of RunRecording for TLC: two requests, with run ids drawn   *)
(* by the server or chosen apart by the clients.                           *)
(***************************************************************************)
EXTENDS RunRecording, TLC

CONSTANTS q1, q2, a, b

OwnIds == (q1 :> a) @@ (q2 :> b)
=============================================================================
