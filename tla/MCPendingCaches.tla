--------------------------- MODULE MCPendingCaches ---------------------------
(* Model values for the pending caches. *)
EXTENDS PendingCaches, TLC

CONSTANTS b1, s1, s2, s3, r1, r2, r3
OneBlob == {b1}
ThreeSlivers == {s1, s2, s3}
MCRequests == {r1, r2, r3}
Symmetry == Permutations(ThreeSlivers) \cup Permutations(MCRequests)
=============================================================================
