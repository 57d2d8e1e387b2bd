------------------------------ MODULE MCVezir ------------------------------
(***************************************************************************)
(* Instances of Vezir for TLC.                                             *)
(***************************************************************************)
EXTENDS Vezir
CONSTANTS t1, t2, s1, s2
=============================================================================
