-------------------------- MODULE MCAgentSession ----------------------------
(***************************************************************************)
(* Instances of AgentSession for TLC: the names of the goroutines.         *)
(***************************************************************************)
EXTENDS AgentSession

CONSTANTS r1, r2
=============================================================================
