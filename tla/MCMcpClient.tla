---------------------------- MODULE MCMcpClient ----------------------------
(***************************************************************************)
(* Instances of McpClient for TLC.                                         *)
(***************************************************************************)
EXTENDS McpClient
CONSTANTS c1, c2, c3

\* Two calls at a time, or one with a stray line, whose name retries it.
MCScenarios == {[calls |-> {c1, c2}, strays |-> 0], [calls |-> {c3}, strays |-> 1]}
=============================================================================
