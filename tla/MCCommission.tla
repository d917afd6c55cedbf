---------------------------- MODULE MCCommission ----------------------------
(* A small instance of Commission for TLC: a committee in which one node is *)
(* a quorum, one in which both are needed, and one that a node has left.    *)
EXTENDS Commission

CONSTANTS n1, n2

MCNodes == {n1, n2}

Assign(shards1, shards2) == [n \in MCNodes |-> IF n = n1 THEN shards1 ELSE shards2]

MCCommittees ==
  {Assign({1, 2, 3}, {4}), Assign({1, 2}, {3, 4}), Assign({}, {1, 2, 3, 4})}
=============================================================================
