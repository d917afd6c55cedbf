---------------------------- MODULE MCStoragePool ----------------------------
(* A small instance of StoragePool for TLC, without rewards.                *)
EXTENDS StoragePool, TLC

Symmetry == Permutations(Ids) \cup Permutations(BlobIds)

OneCommittee == [Nodes -> {1}]
=============================================================================
