---------------------------- MODULE MCAgentLane ----------------------------
(* The lane with the bounds of the configuration.                          *)
EXTENDS AgentLane
=============================================================================
