------------------------------ MODULE MCParts ------------------------------
(***************************************************************************)
(* Instances of Parts for TLC.                                             *)
(***************************************************************************)
EXTENDS Parts
CONSTANTS t1, t2, d1, d2, d3, g1, g2, g3, k1, k2
=============================================================================
