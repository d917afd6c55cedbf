------------------------------ MODULE Commission ------------------------------
(***************************************************************************)
(* The commission of storage nodes and how it can be slashed: commission   *)
(* that a node earns with an epoch is blocked from the epoch change until  *)
(* voting ends (staking_pool.move, staking_inner.move), so that within     *)
(* that time a quorum of the committee can vote to burn it                 *)
(* (slashing.move).  Subsidies for the previous committee are paid as      *)
(* commission too (walrus_subsidies_inner.move).                           *)
(*                                                                         *)
(* How much commission a node earns depends on rewards and on its rate; it *)
(* is any of Amounts.  All operations are transactions of arbitrary        *)
(* callers, subject only to the assertions of the contract.                *)
(***************************************************************************)
EXTENDS EpochState

CONSTANTS
  Amounts,       \* commission that a node may earn or be given
  Subsidy,       \* base_subsidy; there is no subsidy per shard
  MaxCommission  \* bound on the commission of a node

ASSUME AmountsAssumption == Amounts \subseteq Nat
ASSUME SubsidyAssumption == Subsidy \in Nat

VARIABLES
  commission,    \* commission of every pool
  blocked,       \* NewEpochCommissionBlockedForCollection of every pool
  proposals,     \* slashing_candidates
  latest_epoch,  \* the last epoch that fixed-rate subsidies were paid for
  earned,        \* history: commission of the last epoch change, unless burned
  slashings      \* history: the shards that voted for executed slashings

pools == <<commission, blocked>>
commissionVars == <<epochVars, pools, proposals, latest_epoch, earned, slashings>>

NoProposal == [epoch |-> -1, voting_weight |-> 0, voters |-> {}]

\* fresh_proposal.
FreshProposal == [epoch |-> epoch, voting_weight |-> 0, voters |-> {}]

CommissionInit ==
  /\ EpochInit
  /\ commission = [n \in Nodes |-> 0]
  /\ blocked = [n \in Nodes |-> 0]
  /\ proposals = [n \in Nodes |-> NoProposal]
  /\ latest_epoch = 0
  /\ earned = [n \in Nodes |-> 0]
  /\ slashings = {}

\* add_commission for all nodes, with the part of it that is blocked.
AddCommission(amount, block) ==
  /\ commission' = [n \in Nodes |-> commission[n] + amount[n]]
  /\ \A n \in Nodes : commission'[n] <= MaxCommission
  /\ blocked' = [n \in Nodes |-> IF block THEN blocked[n] + amount[n] ELSE blocked[n]]

PassTime ==
  /\ Tick
  /\ UNCHANGED <<pools, proposals, latest_epoch, earned, slashings>>

SyncDone(n) ==
  /\ EpochSyncDone(n, epoch)
  /\ UNCHANGED <<pools, proposals, latest_epoch, earned, slashings>>

\* clear_previous_committee_blocked_commission.
ReleasedBy == Members(previous_committee)

EndVoting(c) ==
  /\ VotingEnd(c)
  /\ blocked' = [n \in Nodes |-> IF n \in ReleasedBy THEN 0 ELSE blocked[n]]
  /\ UNCHANGED <<commission, proposals, latest_epoch, earned, slashings>>

\* Mutant: commission can be collected at once.
NotBlocked == FALSE

\* pool.advance_epoch adds commission with block = true.
BlockRewards == TRUE

\* The epoch change pays rewards to the members of the ending committee.
ChangeEpoch(amount) ==
  /\ InitiateEpochChange
  /\ \A n \in Nodes : n \notin Members(committee) => amount[n] = 0
  /\ AddCommission(amount, BlockRewards)
  /\ earned' = amount
  /\ UNCHANGED <<proposals, latest_epoch, slashings>>

\* collect_commission by the node's operator.
CollectCommission(n) ==
  /\ commission[n] > blocked[n]
  /\ commission' = [commission EXCEPT ![n] = blocked[n]]
  /\ UNCHANGED <<epochVars, blocked, proposals, latest_epoch, earned, slashings>>

\* add_commission_to_pools is public: anybody may give commission to any pool.
AddCommissionToPools(n, amount) ==
  /\ AddCommission([m \in Nodes |-> IF m = n THEN amount ELSE 0], epoch_state # "selected")
  /\ UNCHANGED <<epochVars, proposals, latest_epoch, earned, slashings>>

EpochToBePaid == epoch - 1

\* process_fixed_rate_subsidies.
ProcessFixedRateSubsidies ==
  /\ epoch > 0
  /\ latest_epoch < EpochToBePaid
  /\ AddCommission([n \in Nodes |-> IF n \in Members(previous_committee) THEN Subsidy ELSE 0],
                   epoch_state # "selected")
  /\ latest_epoch' = EpochToBePaid
  /\ UNCHANGED <<epochVars, proposals, earned, slashings>>

-----------------------------------------------------------------------------
(* Slashing.                                                               *)

\* The proposal to add a vote to; one of an earlier epoch is refreshed.
CurrentProposal(candidate) ==
  IF proposals[candidate].epoch # epoch THEN FreshProposal ELSE proposals[candidate]

\* Mutant: a node may vote again.
MayVote(proposal, voter) == TRUE

\* EDuplicateVote.
NotVoted(proposal, voter) == voter \notin proposal.voters

\* vote_for_slashing and add_vote.
VoteForSlashing(voter, candidate) ==
  LET proposal == CurrentProposal(candidate) IN
  /\ voter \in Members(committee)
  /\ NotVoted(proposal, voter)
  /\ proposals' = [proposals EXCEPT ![candidate] =
       [epoch |-> proposal.epoch,
        voting_weight |-> proposal.voting_weight + Cardinality(committee[voter]),
        voters |-> proposal.voters \cup {voter}]]
  /\ UNCHANGED <<epochVars, pools, latest_epoch, earned, slashings>>

\* extract_commission_to_burn clears what is blocked.
ClearBlocked(n) == [blocked EXCEPT ![n] = 0]

\* execute_slashing and extract_commission_to_burn.
ExecuteSlashing(candidate) ==
  LET proposal == proposals[candidate] IN
  /\ proposal.epoch = epoch
  /\ IsQuorum(proposal.voting_weight)
  /\ commission' = [commission EXCEPT ![candidate] = 0]
  /\ blocked' = ClearBlocked(candidate)
  /\ proposals' = [proposals EXCEPT ![candidate] = NoProposal]
  /\ earned' = [earned EXCEPT ![candidate] = 0]
  /\ slashings' = slashings \cup {ShardsOf(proposal.voters)}
  /\ UNCHANGED <<epochVars, latest_epoch>>

\* cleanup_slashing_proposals.
CleanupSlashingProposals(candidate) ==
  /\ proposals[candidate] # NoProposal
  /\ proposals[candidate].epoch < epoch
  /\ proposals' = [proposals EXCEPT ![candidate] = NoProposal]
  /\ UNCHANGED <<epochVars, pools, latest_epoch, earned, slashings>>

CommissionNext ==
  \/ PassTime
  \/ \E n \in Nodes : SyncDone(n) \/ CollectCommission(n)
  \/ \E c \in Committees : EndVoting(c)
  \/ \E amount \in [Nodes -> Amounts \cup {0}] : ChangeEpoch(amount)
  \/ \E n \in Nodes, amount \in Amounts : AddCommissionToPools(n, amount)
  \/ ProcessFixedRateSubsidies
  \/ \E voter, candidate \in Nodes : VoteForSlashing(voter, candidate)
  \/ \E n \in Nodes : ExecuteSlashing(n) \/ CleanupSlashingProposals(n)

CommissionSpec == CommissionInit /\ [][CommissionNext]_commissionVars

-----------------------------------------------------------------------------
Proposals == [epoch: -1 .. MaxEpoch, voting_weight: 0 .. Cardinality(Shards), voters: SUBSET Nodes]

(* Type correctness; in particular votes never weigh more than all shards. *)
CommissionType ==
  /\ EpochType
  /\ commission \in [Nodes -> Nat]
  /\ blocked \in [Nodes -> Nat]
  /\ proposals \in [Nodes -> Proposals]
  /\ latest_epoch \in 0 .. MaxEpoch
  /\ earned \in [Nodes -> Nat]
  /\ slashings \subseteq SUBSET Shards

(* What is blocked is in the pool: collecting, slashing and the end of     *)
(* voting never leave a block on commission that is not there, which would *)
(* also block commission that is added later.                              *)
BlockedIsHeld == \A n \in Nodes : blocked[n] <= commission[n]

(* The slashing window: from an epoch change until voting ends, nobody but *)
(* a slashing can take the commission that was earned with the last epoch. *)
HeldForSlashing ==
  epoch_state # "selected" => \A n \in Nodes : commission[n] >= earned[n]

(* voting_end releases all commission of the members of the previous       *)
(* committee, and nothing blocks it again before the next epoch change.    *)
ReleasedAfterVote ==
  epoch_state = "selected" => \A n \in Members(previous_committee) : blocked[n] = 0

(* The weight of a proposal of the current epoch is the number of distinct *)
(* shards of its voters in the current committee.                          *)
VotesAreDistinct ==
  \A n \in Nodes : proposals[n].epoch = epoch =>
    proposals[n].voting_weight = Cardinality(ShardsOf(proposals[n].voters))

(* Commission is only ever burned by a quorum of the shards of the         *)
(* committee of one epoch: votes of different epochs are never added up.   *)
SlashedByQuorum == \A shards \in slashings : IsQuorum(Cardinality(shards))
=============================================================================
