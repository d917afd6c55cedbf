------------------------------ MODULE EpochState ------------------------------
(***************************************************************************)
(* The epoch state machine of the staking contract (staking_inner.move):   *)
(* voting for an epoch ends, the epoch change is initiated, and the new    *)
(* epoch is under way once a quorum of its committee has received its      *)
(* shards.  All operations are transactions that anybody may send at any   *)
(* time; one whose assertions fail aborts and changes nothing.             *)
(*                                                                         *)
(* A committee is the set of shards of every node.  The timestamp in the   *)
(* epoch state is only ever compared with the clock, so elapsed, the time  *)
(* since then, stands for both; it stops at the largest threshold.         *)
(* Which committee apportionment selects depends on stake and is any of    *)
(* Committees, each an assignment of every shard to one node.              *)
(***************************************************************************)
EXTENDS Integers, FiniteSets

CONSTANTS
  Nodes,              \* storage nodes
  Shards,             \* the shards of the system
  Committees,         \* committees that apportionment may select
  EpochDuration,
  EpochZeroDuration,  \* first_epoch_start, counted from genesis
  MaxEpoch            \* bound on the number of epochs

ASSUME ShardsAssumption == IsFiniteSet(Shards) /\ Shards # {}
ASSUME CommitteesAssumption ==
  /\ Committees \subseteq [Nodes -> SUBSET Shards]
  /\ \A c \in Committees : \A s \in Shards : \E n \in Nodes : \A m \in Nodes : s \in c[m] <=> m = n
ASSUME DurationAssumption == EpochDuration \in Nat /\ EpochZeroDuration \in Nat
ASSUME MaxEpochAssumption == MaxEpoch \in Nat \ {0}

VARIABLES
  epoch,
  epoch_state,            \* EpochState: "sync", "done" or "selected"
  sync_weight,            \* the weight in EpochChangeSync, otherwise 0
  elapsed,                \* time since the timestamp in the other states
  committee,
  previous_committee,
  next_committee,         \* EmptyCommittee stands for none
  last_epoch_sync_done    \* of every node's StorageNodeCap

epochVars == <<epoch, epoch_state, sync_weight, elapsed, committee,
               previous_committee, next_committee, last_epoch_sync_done>>

EmptyCommittee == [n \in Nodes |-> {}]

Members(c) == {n \in Nodes : c[n] # {}}

\* The shards of a set of nodes in the current committee.
ShardsOf(nodes) == {s \in Shards : \E n \in nodes : s \in committee[n]}

\* is_quorum_for_n_shards.
IsQuorum(weight) == 3 * weight >= 2 * Cardinality(Shards) + 1

\* No timestamp is compared with anything later than this.
MaxElapsed == IF EpochDuration < EpochZeroDuration THEN EpochZeroDuration ELSE EpochDuration

EpochInit ==
  /\ epoch = 0
  /\ epoch_state = "done"
  /\ sync_weight = 0
  /\ elapsed = 0
  /\ committee = EmptyCommittee
  /\ previous_committee = EmptyCommittee
  /\ next_committee = EmptyCommittee
  /\ last_epoch_sync_done = [n \in Nodes |-> 0]

\* The clock; in the sync state there is no timestamp to compare it with.
Tick ==
  /\ epoch_state # "sync"
  /\ elapsed < MaxElapsed
  /\ elapsed' = elapsed + 1
  /\ UNCHANGED <<epoch, epoch_state, sync_weight, committee, previous_committee,
                 next_committee, last_epoch_sync_done>>

VotingTime == IF epoch = 0 THEN EpochZeroDuration ELSE EpochDuration \div 2

\* voting_end and select_committee_and_calculate_votes.
VotingEnd(c) ==
  /\ epoch_state = "done"
  /\ elapsed >= VotingTime
  /\ next_committee = EmptyCommittee
  /\ c \in Committees
  /\ next_committee' = c
  /\ epoch_state' = "selected"
  /\ UNCHANGED <<epoch, sync_weight, elapsed, committee, previous_committee,
                 last_epoch_sync_done>>

ChangeTime == IF epoch = 0 THEN EpochZeroDuration ELSE EpochDuration

\* initiate_epoch_change and the epoch's own part of advance_epoch.
InitiateEpochChange ==
  /\ epoch < MaxEpoch
  /\ epoch_state = "selected"
  /\ elapsed >= ChangeTime
  /\ next_committee # EmptyCommittee
  /\ epoch' = epoch + 1
  /\ previous_committee' = committee
  /\ committee' = next_committee
  /\ next_committee' = EmptyCommittee
  /\ epoch_state' = "sync"
  /\ sync_weight' = 0
  /\ elapsed' = 0
  /\ UNCHANGED last_epoch_sync_done

\* Mutant: the cap does not remember the attestation.
ForgetSyncDone(n) == UNCHANGED last_epoch_sync_done

\* set_last_epoch_sync_done.
RememberSyncDone(n) == last_epoch_sync_done' = [last_epoch_sync_done EXCEPT ![n] = epoch]

\* EDuplicateSyncDone and ENotInCommittee.
MaySyncDone(n) ==
  /\ last_epoch_sync_done[n] < epoch
  /\ n \in Members(committee)

\* The effect of one more attestation on the epoch state.
CountSyncDone(n) ==
  LET weight == sync_weight + Cardinality(committee[n]) IN
  \/ /\ epoch_state = "sync" /\ IsQuorum(weight)
     /\ epoch_state' = "done"
     /\ sync_weight' = 0
     /\ elapsed' = 0
  \/ /\ epoch_state = "sync" /\ ~ IsQuorum(weight)
     /\ sync_weight' = weight
     /\ UNCHANGED <<epoch_state, elapsed>>
  \/ /\ epoch_state # "sync"
     /\ UNCHANGED <<epoch_state, sync_weight, elapsed>>

\* epoch_sync_done.
EpochSyncDone(n, e) ==
  /\ e = epoch
  /\ MaySyncDone(n)
  /\ RememberSyncDone(n)
  /\ CountSyncDone(n)
  /\ UNCHANGED <<epoch, committee, previous_committee, next_committee>>

-----------------------------------------------------------------------------
\* The nodes that attested in the current epoch.
Synced == {n \in Nodes : epoch > 0 /\ last_epoch_sync_done[n] = epoch}

EpochType ==
  /\ epoch \in 0 .. MaxEpoch
  /\ epoch_state \in {"sync", "done", "selected"}
  /\ sync_weight \in 0 .. Cardinality(Shards)
  /\ elapsed \in 0 .. MaxElapsed
  /\ committee \in Committees \cup {EmptyCommittee}
  /\ previous_committee \in Committees \cup {EmptyCommittee}
  /\ next_committee \in Committees \cup {EmptyCommittee}
  /\ last_epoch_sync_done \in [Nodes -> 0 .. MaxEpoch]

(* The weight in EpochChangeSync is the number of distinct shards whose    *)
(* owners attested in this epoch: nobody is counted twice, not by          *)
(* repeating the call nor with an attestation for an earlier epoch.        *)
SyncWeightIsDistinct == epoch_state = "sync" => sync_weight = Cardinality(ShardsOf(Synced))

(* An epoch is only declared done, and voting for the next one can only    *)
(* end, when a quorum of the shards of its committee has been received.    *)
DoneByQuorum ==
  epoch > 0 /\ epoch_state # "sync" => IsQuorum(Cardinality(ShardsOf(Synced)))
=============================================================================
