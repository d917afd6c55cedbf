------------------------- MODULE MCEventBlobWriter --------------------------
\* Two writers and four shards: the first writer is a quorum by itself in the first
\* epoch, while the other one is late, and afterwards a quorum takes both.
EXTENDS EventBlobWriter

CONSTANTS n1, n2

Joint == [e \in 1 .. MaxEpoch |-> [s \in Shards |-> IF s <= (IF e = 1 THEN 3 ELSE 2) THEN n1 ELSE n2]]

\* The IDs of the blobs with number k, and all IDs.
IdsOf[k \in 0 .. MaxCheckpoint] ==
  IF k = 0 THEN {<<>>} ELSE {<<id, k, e>> : id \in IdsOf[k - 1], e \in 1 .. MaxEpoch}

Ids == UNION {IdsOf[k] : k \in 1 .. MaxCheckpoint}
====
