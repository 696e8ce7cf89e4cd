----------------------------- MODULE MCChannels -----------------------------
(* Every store with two keys and one restart; two requests on channels.    *)
EXTENDS Channels
=============================================================================
