-------------------------- MODULE MCAgentLifecycle --------------------------
(* Two callers, one save, two agents, tasks of two rounds.                 *)
EXTENDS AgentLifecycle
=============================================================================
