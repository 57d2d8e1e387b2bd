------------------------------ MODULE MCBroker ------------------------------
(* Small instances of Broker for TLC. *)
EXTENDS Broker, TLC

CONSTANTS p1, p2, p3

\* One plan ID handed in twice, as a repeated alert does, and another once.
TwiceAndOnce == (p1 :> 2) @@ (p2 :> 1)

\* Distinct plan IDs, each handed in once.
EachOnce == [id \in IDs |-> 1]
=============================================================================
