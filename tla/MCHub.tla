------------------------------- MODULE MCHub -------------------------------
(***************************************************************************)
(* Instances of Hub for TLC: how many messages each side's clients send.   *)
(***************************************************************************)
EXTENDS Hub

CONSTANTS c1, c2, c3

TwoAndNone == [r \in Roles |-> IF r = "shell" THEN 2 ELSE 0]
OneAndNone == [r \in Roles |-> IF r = "shell" THEN 1 ELSE 0]
=============================================================================
