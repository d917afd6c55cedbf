------------------------------ MODULE EventBlob ------------------------------
(***************************************************************************)
(* Certification of event blobs by the system contract.  Storage nodes     *)
(* attest, one transaction each, that the blob with a given ID holds the   *)
(* events up to a checkpoint; the contract adds up the weight of the       *)
(* attestations and certifies the blob once a quorum of the committee has  *)
(* attested to it.                                                         *)
(*                                                                         *)
(* Nodes are arbitrary callers here: any node may attest to any blob at    *)
(* any checkpoint at any time, so the properties do not rest on the nodes' *)
(* behaviour.  A call whose assertions fail aborts and changes nothing.    *)
(*                                                                         *)
(* The committee is the assignment of shards to nodes; the weight of a     *)
(* node is the number of shards it owns.  A weight of zero stands for an   *)
(* event blob that is not in aggregate_weight_per_blob.  The storage that  *)
(* a certified blob reserves is modelled in module SystemState.            *)
(***************************************************************************)
EXTENDS Integers, FiniteSets

CONSTANTS
  Nodes,          \* storage nodes, in the committee or not
  Shards,         \* the shards of the system
  BlobIds,        \* IDs that nodes attest to
  MaxCheckpoint,  \* bound on the checkpoint sequence numbers
  MaxEpoch        \* bound on the number of epochs

ASSUME ShardsAssumption == IsFiniteSet(Shards) /\ Shards # {}
ASSUME MaxCheckpointAssumption == MaxCheckpoint \in Nat
ASSUME MaxEpochAssumption == MaxEpoch \in Nat \ {0}

Checkpoints == 1 .. MaxCheckpoint

EventBlobs == [blob_id: BlobIds, ending_checkpoint: Checkpoints]

\* The attestation of a StorageNodeCap; epoch -1 stands for "none".
Attestations == [checkpoint: 0 .. MaxCheckpoint, epoch: -1 .. MaxEpoch]

NoAttestation == [checkpoint |-> 0, epoch |-> -1]

VARIABLES
  epoch,        \* epoch of the committee in the system object
  owner,        \* shard assignment of that committee
  attestation,  \* last_event_blob_attestation of every node's cap
  weight,       \* aggregate_weight_per_blob
  latest,       \* checkpoint of latest_certified_blob, 0 if there is none
  attesters,    \* history: who attested to a blob since tracking was reset
  certified     \* history: the blobs that were certified, with their shards

vars == <<epoch, owner, attestation, weight, latest, attesters, certified>>

Members == {owner[s] : s \in Shards}

\* The shards that a set of nodes owns, and the weight of a set of shards.
ShardsOf(nodes) == {s \in Shards : owner[s] \in nodes}

\* get_member_weight: the number of shards of a committee member.
MemberWeight(n) == Cardinality(ShardsOf({n}))

\* is_quorum: strictly more than two thirds of the shards.
IsQuorum(w) == 3 * w >= 2 * Cardinality(Shards) + 1

Init ==
  /\ epoch = 1
  /\ owner \in [Shards -> Nodes]
  /\ attestation = [n \in Nodes |-> NoAttestation]
  /\ weight = [b \in EventBlobs |-> 0]
  /\ latest = 0
  /\ attesters = [b \in EventBlobs |-> {}]
  /\ certified = {}

(***************************************************************************)
(* ERepeatedAttestation: within an epoch a node's checkpoints increase.    *)
(***************************************************************************)
NotRepeated(n, checkpoint) ==
  \/ attestation[n].epoch < epoch
  \/ checkpoint > attestation[n].checkpoint

(***************************************************************************)
(* EIncorrectAttestation: a node's attestation of this epoch must have     *)
(* been overtaken by a certified blob before it attests again.             *)
(***************************************************************************)
NoOpenAttestation(n) ==
  \/ attestation[n].epoch < epoch
  \/ latest > 0 /\ attestation[n].checkpoint <= latest

\* Mutant: caps are not looked at.
AlwaysMay(n, checkpoint) == TRUE

MayAttest(n, checkpoint) ==
  /\ NotRepeated(n, checkpoint)
  /\ NoOpenAttestation(n)

\* Mutant: strict comparison lets the last checkpoint be certified again.
IsBeforeCertified(checkpoint) == latest > checkpoint

\* is_blob_already_certified.
IsAlreadyCertified(checkpoint) == latest >= checkpoint

\* EventBlobCertificationState::reset: nothing is tracked any more.
Reset(f, empty) == [b \in EventBlobs |-> empty]

(***************************************************************************)
(* system_state_inner::certify_event_blob.                                 *)
(***************************************************************************)
CertifyEventBlob(n, b) ==
  LET new_weight == weight[b] + MemberWeight(n)
      new_attesters == attesters[b] \cup {n}
  IN
  /\ n \in Members
  /\ MayAttest(n, b.ending_checkpoint)
  /\ attestation' = [attestation EXCEPT
       ![n] = [checkpoint |-> b.ending_checkpoint, epoch |-> epoch]]
  /\ \/ /\ IsAlreadyCertified(b.ending_checkpoint)
        /\ UNCHANGED <<weight, latest, attesters, certified>>
     \/ /\ ~ IsAlreadyCertified(b.ending_checkpoint)
        /\ ~ IsQuorum(new_weight)
        /\ weight' = [weight EXCEPT ![b] = new_weight]
        /\ attesters' = [attesters EXCEPT ![b] = new_attesters]
        /\ UNCHANGED <<latest, certified>>
     \/ /\ ~ IsAlreadyCertified(b.ending_checkpoint)
        /\ IsQuorum(new_weight)
        /\ latest' = b.ending_checkpoint
        /\ certified' = certified \cup
             {[blob |-> b, epoch |-> epoch, shards |-> ShardsOf(new_attesters)]}
        /\ weight' = Reset(weight, 0)
        /\ attesters' = Reset(attesters, {})
  /\ UNCHANGED <<epoch, owner>>

(***************************************************************************)
(* The part of system_state_inner::advance_epoch that concerns event       *)
(* blobs: a new committee, and no blob is tracked any more.                *)
(***************************************************************************)
AdvanceEpoch(new_owner) ==
  /\ epoch < MaxEpoch
  /\ epoch' = epoch + 1
  /\ owner' = new_owner
  /\ weight' = Reset(weight, 0)
  /\ attesters' = Reset(attesters, {})
  /\ UNCHANGED <<attestation, latest, certified>>

Next ==
  \/ \E n \in Nodes, b \in EventBlobs : CertifyEventBlob(n, b)
  \/ \E new_owner \in [Shards -> Nodes] : AdvanceEpoch(new_owner)

Spec == Init /\ [][Next]_vars

-----------------------------------------------------------------------------
(* The types of the certification state and of the caps' attestations; a   *)
(* blob that is still tracked has less than a quorum.                      *)
TypeOK ==
  /\ epoch \in 1 .. MaxEpoch
  /\ owner \in [Shards -> Nodes]
  /\ attestation \in [Nodes -> Attestations]
  /\ weight \in [EventBlobs -> {w \in 0 .. Cardinality(Shards) :
                                3 * w <= 2 * Cardinality(Shards)}]
  /\ latest \in 0 .. MaxCheckpoint
  /\ attesters \in [EventBlobs -> SUBSET Nodes]
  /\ certified \subseteq [blob: EventBlobs, epoch: 1 .. MaxEpoch, shards: SUBSET Shards]

(* The weight that update_aggregate_weight has added up is the number of   *)
(* shards of the distinct members that attested: nobody is counted twice,  *)
(* and nothing of an earlier epoch or of an earlier certification counts.  *)
WeightIsDistinctShards ==
  \A b \in EventBlobs :
    /\ attesters[b] \subseteq Members
    /\ weight[b] = Cardinality(ShardsOf(attesters[b]))

(* Claim (a) of the comment in certify_event_blob: each node is allowed    *)
(* one outstanding attestation, and it is the one its cap remembers.       *)
OneOutstandingAttestation ==
  \A b \in EventBlobs : \A n \in attesters[b] :
    /\ attestation[n] = [checkpoint |-> b.ending_checkpoint, epoch |-> epoch]
    /\ \A c \in EventBlobs : n \in attesters[c] => c = b

(* Every certified event blob was attested by distinct members that owned  *)
(* more than two thirds of the shards in one and the same epoch.           *)
CertifiedByQuorum ==
  \A c \in certified : 3 * Cardinality(c.shards) >= 2 * Cardinality(Shards) + 1

(* Two certified event blobs never end at the same checkpoint, not even    *)
(* under different committees: the certified blobs form one sequence.      *)
OneBlobPerCheckpoint ==
  \A c, d \in certified :
    c.blob.ending_checkpoint = d.blob.ending_checkpoint => c = d

(* Only blobs beyond the latest certified one are tracked, so the          *)
(* assertion of update_latest_certified_event_blob cannot fail.            *)
TrackedAreAhead ==
  \A b \in EventBlobs : attesters[b] # {} => b.ending_checkpoint > latest

=============================================================================
