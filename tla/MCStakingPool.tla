----------------------------- MODULE MCStakingPool -----------------------------
(* Instances of StakingPool for TLC. *)
EXTENDS StakingPool, TLC

StakeSymmetry == Permutations(Stakes)
=============================================================================
