---------------------------- MODULE MCAgentGraph ----------------------------
(* Instances of AgentGraph for TLC: one tool of each kind.                 *)
EXTENDS AgentGraph
=============================================================================
