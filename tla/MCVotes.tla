------------------------------ MODULE MCVotes ------------------------------
(* Votes with two nodes, which are interchangeable. *)
EXTENDS Votes, TLC

CONSTANTS nodeA, nodeB

TwoNodes == {nodeA, nodeB}
Swaps == Permutations(TwoNodes)
=============================================================================
