----------------------------- MODULE MCBlobInfo -----------------------------
(* Instances of BlobInfo for TLC.                                          *)
EXTENDS BlobInfo, TLC

CONSTANTS o1, o2, p1

AllKinds == {"deletable", "permanent", "pooled"}

Symmetry == Permutations(Objects)
=============================================================================
