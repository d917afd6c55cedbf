---------------------------- MODULE MCBlobEvents ----------------------------
(* Model values for the events of a blob. *)
EXTENDS BlobEvents, TLC

CONSTANTS o1, o2, s1, s2
MCObjects == {o1, o2}
MCShards == {s1, s2}
=============================================================================
