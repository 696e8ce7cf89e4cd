----------------------------- MODULE MCGatedTools ----------------------------
(***************************************************************************)
(* Instances of GatedTools for TLC.  Three policies tell "armed and        *)
(* gated", "armed and not gated" and "off" apart, and with two maps one    *)
(* can be stale while the other is current.  SomeTools has a tool that     *)
(* verifies what it did, one that can end in every way, and one that asks  *)
(* without checking its capability.                                        *)
(***************************************************************************)
EXTENDS GatedTools, TLC

CONSTANTS c1, c2, m1, m2

All     == {"mouse", "keyboard", "screenshot", "shell", "filesystem"}
Gated   == [enabled |-> TRUE,  allowed |-> All, gated |-> Capabilities]
Ungated == [enabled |-> TRUE,  allowed |-> All, gated |-> {}]
Off     == [enabled |-> FALSE, allowed |-> All, gated |-> {}]

ThreePolicies == {Gated, Ungated, Off}

SomeTools == {"fs_write", "open_url", "tailscale_up"}
=============================================================================
