-------------------------- MODULE MCArtifactGraph --------------------------
(***************************************************************************)
(* Instance of ArtifactGraph for TLC.                                      *)
(***************************************************************************)
EXTENDS ArtifactGraph

CONSTANTS a1, a2

\* The first and the last segment touch the same file.
FirstAndLast == [i \in 1..3 |-> IF i = 2 THEN {} ELSE {"f"}]

ReadyFor(deps, given) ==
  [status |-> "ready", owner |-> NoAgent, deps |-> deps, given |-> given]

\* No file; one with a segment that waits for the next one and another whose ID was
\* given; one with a segment that waits for another one that waits for none there is.
EarlierFiles ==
  {NoFile,
   [items |-> 1 :> ReadyFor({2}, FALSE) @@ 3 :> ReadyFor({}, TRUE), counter |-> 1],
   [items |-> 1 :> ReadyFor({2}, FALSE) @@ 2 :> ReadyFor({3}, FALSE), counter |-> 2]}

AgentSymmetry == Permutations(Agents)
=============================================================================
