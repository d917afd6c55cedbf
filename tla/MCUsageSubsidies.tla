-------------------------- MODULE MCUsageSubsidies --------------------------
(* Two nodes with three shards, so that rewards are rounded. *)
EXTENDS UsageSubsidies

CONSTANTS n1, n2

TwoToOne == {[n \in Nodes |-> IF n = n1 THEN 2 ELSE 1]}
=============================================================================
