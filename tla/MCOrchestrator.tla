--------------------------- MODULE MCOrchestrator ---------------------------
(***************************************************************************)
(* Instances of Orchestrator for TLC.                                      *)
(***************************************************************************)
EXTENDS Orchestrator, TLC

CONSTANT e1

\* The first stage waits for its driver without limit, the second does not.
SecondStage == {2}
=============================================================================
