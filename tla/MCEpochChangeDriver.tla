------------------------- MODULE MCEpochChangeDriver -------------------------
(* A small instance of EpochChangeDriver for TLC.  Node n1 runs the software *)
(* and owns one shard; n2 is a quorum by itself, so that the chain   *)
(* also moves on while n1 is down.                                           *)
EXTENDS EpochChangeDriver

CONSTANTS n1, n2

MCNodes == {n1, n2}

Assign(shards1, shards2) == [n \in MCNodes |-> IF n = n1 THEN shards1 ELSE shards2]

MCCommittees == {Assign({1}, {2, 3, 4})}
==============================================================================
