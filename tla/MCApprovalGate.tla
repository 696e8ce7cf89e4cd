--------------------------- MODULE MCApprovalGate ---------------------------
(***************************************************************************)
(* Instances of ApprovalGate for TLC.  Two requests are enough to overflow *)
(* a history of two: a request decided in the instant its timer fires is   *)
(* moved to the history twice.                                             *)
(***************************************************************************)
EXTENDS ApprovalGate, TLC

CONSTANTS r1, r2, l1
=============================================================================
