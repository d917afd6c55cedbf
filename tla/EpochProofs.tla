------------------------------ MODULE EpochProofs ------------------------------
(***************************************************************************)
(* Proofs about epochs: the epoch state machine of the contract            *)
(* (EpochState), the nodes that drive it (EpochChangeDriver) and the       *)
(* commission that it pays and slashes (Commission), for any nodes,        *)
(* committees, epochs, crashes, stale reads and amounts and every finite   *)
(* set of shards.  The variables of the driver are no part of Commission   *)
(* and the other way round: the theorems are about one or the other.       *)
(*                                                                         *)
(* The three parts each begin with their argument.                         *)
(***************************************************************************)
EXTENDS EpochChangeDriver, Commission, FiniteSetTheorems, TLAPS

-----------------------------------------------------------------------------
(***************************************************************************)
(* What every step of the epoch state machine preserves.                   *)
(*                                                                         *)
(* The argument: a node that may attest has not attested in this epoch, so *)
(* its shards are none of those counted already; at an epoch change nobody *)
(* has attested for the new epoch, because caps never run ahead.           *)
(***************************************************************************)

(* The steps of the contract that change the epoch state.                  *)
EpochNext ==
  \/ Tick
  \/ \E c \in Committees : VotingEnd(c)
  \/ InitiateEpochChange
  \/ \E n \in Nodes : EpochSyncDone(n, epoch)

(* No cap is ahead of the epoch.                                           *)
SyncDoneNotAhead == \A n \in Nodes : last_epoch_sync_done[n] <= epoch

EpochInv ==
  /\ EpochType
  /\ SyncDoneNotAhead
  /\ SyncWeightIsDistinct
  /\ DoneByQuorum

(* There are finitely many shards.                                          *)
LEMMA NumShards == Cardinality(Shards) \in Nat
  BY FS_CardinalityType, ShardsAssumption

(* Sets of shards are finite and no larger than the set of all shards.     *)
LEMMA ShardSets ==
  ASSUME NEW S \in SUBSET Shards
  PROVE  /\ IsFiniteSet(S)
         /\ Cardinality(S) \in 0 .. Cardinality(Shards)
  <1>1. IsFiniteSet(S) /\ Cardinality(S) <= Cardinality(Shards)
    BY FS_Subset, ShardsAssumption
  <1>2. Cardinality(S) \in Nat
    BY <1>1, FS_CardinalityType
  <1> QED
    BY <1>1, <1>2, NumShards

(* The shards of a set of nodes are finitely many shards.                   *)
LEMMA ShardsOfType ==
  ASSUME NEW S
  PROVE  ShardsOf(S) \in SUBSET Shards
  BY DEF ShardsOf

(* No shard of the current committee has two owners.                       *)
LEMMA OneOwner ==
  ASSUME EpochType
  PROVE  /\ committee \in [Nodes -> SUBSET Shards]
         /\ \A s \in Shards : \A n, m \in Nodes : s \in committee[n] /\ s \in committee[m] => n = m
  <1>1. CASE committee = EmptyCommittee
    BY <1>1 DEF EmptyCommittee
  <1>2. CASE committee \in Committees
    BY <1>2, CommitteesAssumption
  <1> QED
    BY <1>1, <1>2 DEF EpochType

(* One more node adds the number of its shards.                            *)
LEMMA WeightAdds ==
  ASSUME EpochType, NEW S \in SUBSET Nodes, NEW n \in Nodes, n \notin S
  PROVE  /\ Cardinality(ShardsOf(S \cup {n})) = Cardinality(ShardsOf(S)) + Cardinality(committee[n])
         /\ Cardinality(committee[n]) \in Nat
         /\ Cardinality(ShardsOf(S)) \in Nat
  <1>1. committee[n] \in SUBSET Shards
    BY OneOwner
  <1>2. ShardsOf(S \cup {n}) = ShardsOf(S) \cup committee[n]
    BY <1>1 DEF ShardsOf
  <1>3. ShardsOf(S) \cap committee[n] = {}
    BY <1>1, OneOwner DEF ShardsOf
  <1>4. /\ IsFiniteSet(ShardsOf(S)) /\ IsFiniteSet(committee[n])
        /\ Cardinality(ShardsOf(S)) \in Nat /\ Cardinality(committee[n]) \in Nat
    BY <1>1, ShardsOfType, ShardSets, NumShards
  <1>5. Cardinality(ShardsOf(S) \cup committee[n]) =
          Cardinality(ShardsOf(S)) + Cardinality(committee[n])
            - Cardinality(ShardsOf(S) \cap committee[n])
    BY <1>4, FS_Union
  <1>6. Cardinality(ShardsOf(S) \cap committee[n]) = 0
    BY <1>3, FS_EmptySet
  <1> DEFINE w == Cardinality(ShardsOf(S))
             v == Cardinality(committee[n])
  <1>7. Cardinality(ShardsOf(S \cup {n})) = w + v - 0
    BY <1>2, <1>5, <1>6
  <1>8. w \in Nat /\ v \in Nat
    BY <1>4
  <1> HIDE DEF w, v
  <1>9. w + v - 0 = w + v
    BY <1>8
  <1> QED
    BY <1>7, <1>8, <1>9 DEF w, v

(* Nobody owns nothing.                                                     *)
LEMMA NoShards == Cardinality(ShardsOf({})) = 0
  <1>1. ShardsOf({}) = {}
    BY DEF ShardsOf
  <1> QED
    BY <1>1, FS_EmptySet

(* More weight than a quorum is a quorum.                                  *)
LEMMA QuorumMonotone ==
  ASSUME NEW v \in Nat, NEW w \in Nat, IsQuorum(v)
  PROVE  IsQuorum(v + w)
  BY NumShards DEF IsQuorum

(* The initial epoch state satisfies the invariant.                         *)
LEMMA EpochInitInv == EpochInit => EpochInv
  <1> SUFFICES ASSUME EpochInit
               PROVE  EpochInv
    OBVIOUS
  <1>1. EpochType
    BY NumShards, MaxEpochAssumption, DurationAssumption DEF EpochInit, EpochType, MaxElapsed
  <1> QED
    BY <1>1 DEF EpochInit, EpochInv, SyncDoneNotAhead, SyncWeightIsDistinct, DoneByQuorum

(* An attestation counts the shards of one more node.                      *)
LEMMA SyncDoneInv ==
  ASSUME EpochInv, NEW n \in Nodes, EpochSyncDone(n, epoch)
  PROVE  EpochInv'
  <1> USE DEF EpochInv
  <1> DEFINE weight == sync_weight + Cardinality(committee[n])
  <1>1. /\ EpochType
        /\ UNCHANGED <<epoch, committee, previous_committee, next_committee>>
        /\ last_epoch_sync_done' = [last_epoch_sync_done EXCEPT ![n] = epoch]
        /\ last_epoch_sync_done[n] < epoch
    BY DEF EpochSyncDone, RememberSyncDone, MaySyncDone
  <1>2. epoch \in Nat /\ epoch > 0 /\ last_epoch_sync_done[n] # epoch
    BY <1>1 DEF EpochType
  <1>3. n \notin Synced /\ Synced \in SUBSET Nodes
    BY <1>2 DEF Synced
  <1>4. Synced' = Synced \cup {n}
    BY <1>1, <1>2 DEF Synced, EpochType
  <1>5. \A S : ShardsOf(S)' = ShardsOf(S)
    BY <1>1 DEF ShardsOf
  <1>6. /\ Cardinality(ShardsOf(Synced \cup {n})) =
             Cardinality(ShardsOf(Synced)) + Cardinality(committee[n])
        /\ Cardinality(committee[n]) \in Nat
        /\ Cardinality(ShardsOf(Synced)) \in Nat
    BY <1>1, <1>3, WeightAdds
  <1>7. Cardinality(ShardsOf(Synced))' = Cardinality(ShardsOf(Synced \cup {n}))
    BY <1>1, <1>4 DEF ShardsOf
  <1>8. SyncDoneNotAhead'
    BY <1>1, <1>2 DEF SyncDoneNotAhead, EpochType
  <1>9. epoch_state = "sync" => weight = Cardinality(ShardsOf(Synced \cup {n}))
    BY <1>6 DEF SyncWeightIsDistinct
  <1>10. epoch_state = "sync" => weight \in 0 .. Cardinality(Shards)
    BY <1>9, ShardsOfType, ShardSets
  <1>11. MaxElapsed \in Nat
    BY DurationAssumption DEF MaxElapsed
  <1>12. last_epoch_sync_done' \in [Nodes -> 0 .. MaxEpoch]
    BY <1>1 DEF EpochType
  <1> HIDE DEF weight
  <1>13. CASE epoch_state = "sync" /\ IsQuorum(weight) /\ epoch_state' = "done"
              /\ sync_weight' = 0 /\ elapsed' = 0
    <2>1. EpochType'
      BY <1>1, <1>11, <1>12, <1>13, NumShards DEF EpochType
    <2>2. DoneByQuorum'
      BY <1>7, <1>9, <1>13 DEF DoneByQuorum, IsQuorum
    <2> QED
      BY <2>1, <2>2, <1>8, <1>13 DEF SyncWeightIsDistinct
  <1>14. CASE epoch_state = "sync" /\ ~ IsQuorum(weight) /\ sync_weight' = weight
              /\ UNCHANGED <<epoch_state, elapsed>>
    <2>1. EpochType'
      BY <1>1, <1>10, <1>12, <1>14 DEF EpochType
    <2>2. SyncWeightIsDistinct'
      BY <1>7, <1>9, <1>14 DEF SyncWeightIsDistinct
    <2> QED
      BY <2>1, <2>2, <1>8, <1>14 DEF DoneByQuorum
  <1>15. CASE epoch_state # "sync" /\ UNCHANGED <<epoch_state, sync_weight, elapsed>>
    <2>1. EpochType'
      BY <1>1, <1>12, <1>15 DEF EpochType
    <2>2. IsQuorum(Cardinality(ShardsOf(Synced)) + Cardinality(committee[n]))
      BY <1>2, <1>6, <1>15, QuorumMonotone DEF DoneByQuorum
    <2>3. DoneByQuorum'
      BY <2>2, <1>6, <1>7 DEF DoneByQuorum, IsQuorum
    <2> QED
      BY <2>1, <2>3, <1>8, <1>15 DEF SyncWeightIsDistinct
  <1> QED
    BY <1>13, <1>14, <1>15 DEF EpochSyncDone, CountSyncDone, weight

(* Nobody has attested yet when an epoch begins.                           *)
LEMMA InitiateInv ==
  ASSUME EpochInv, InitiateEpochChange
  PROVE  EpochInv'
  <1> USE DEF EpochInv, InitiateEpochChange
  <1>1. epoch \in Nat /\ epoch' = epoch + 1
    BY DEF EpochType
  <1>2. SyncDoneNotAhead'
    BY <1>1 DEF SyncDoneNotAhead, EpochType
  <1>3. Synced' = {}
    BY <1>1 DEF SyncDoneNotAhead, EpochType, Synced
  <1>4. SyncWeightIsDistinct'
    <2>1. ShardsOf(Synced)' = {}
      BY <1>3 DEF ShardsOf
    <2> QED
      BY <2>1, FS_EmptySet DEF SyncWeightIsDistinct
  <1>5. EpochType'
    BY <1>1, NumShards, DurationAssumption, MaxEpochAssumption DEF EpochType, MaxElapsed
  <1> QED
    BY <1>2, <1>4, <1>5 DEF DoneByQuorum

(* Every step of the epoch state machine preserves the invariant.           *)
LEMMA EpochStepInv ==
  ASSUME EpochInv, EpochNext \/ UNCHANGED epochVars
  PROVE  EpochInv'
  <1>1. ASSUME /\ UNCHANGED <<epoch, sync_weight, committee, last_epoch_sync_done>>
               /\ epoch_state' = epoch_state \/ (epoch_state = "done" /\ epoch_state' = "selected")
               /\ EpochType'
        PROVE  EpochInv'
    <2>1. Synced' = Synced
      BY <1>1 DEF Synced
    <2>2. ShardsOf(Synced)' = ShardsOf(Synced)
      BY <1>1, <2>1 DEF ShardsOf
    <2> QED
      BY <1>1, <2>2 DEF EpochInv, SyncDoneNotAhead, SyncWeightIsDistinct, DoneByQuorum, IsQuorum
  <1>2. CASE Tick
    <2>1. EpochType'
      BY <1>2, DurationAssumption DEF Tick, EpochInv, EpochType, MaxElapsed
    <2> QED
      BY <1>1, <1>2, <2>1 DEF Tick
  <1>3. ASSUME NEW c \in Committees, VotingEnd(c)
        PROVE  EpochInv'
    <2>1. EpochType'
      BY <1>3 DEF VotingEnd, EpochInv, EpochType
    <2> QED
      BY <1>1, <1>3, <2>1 DEF VotingEnd
  <1>4. CASE UNCHANGED epochVars
    <2>1. EpochType'
      BY <1>4 DEF epochVars, EpochInv, EpochType
    <2> QED
      BY <1>1, <1>4, <2>1 DEF epochVars
  <1> QED
    BY <1>2, <1>3, <1>4, InitiateInv, SyncDoneInv DEF EpochNext

-----------------------------------------------------------------------------
(***************************************************************************)
(* The nodes that drive epoch changes.                                     *)
(*                                                                         *)
(* The argument follows the order of the contract's changes.  A node only  *)
(* acts on what it has read, so it is enough to compare the latest state   *)
(* that it read (view) with the events it has handled (EventsSeen), with   *)
(* the calls that it has scheduled (CallsSeen) and with the committee that *)
(* it tracks (Follows).  From there on a read of a later state finds every *)
(* assertion satisfied; a read that goes back is what stale counts.        *)
(* Pending and Attesting are the two promises of the node, to make the     *)
(* next call and to attest, in a form that every step preserves.           *)
(***************************************************************************)

(* The types that the proofs need; the bounds on what a node knows follow  *)
(* from the invariants below.                                              *)
NodeType ==
  /\ phase \in [Drivers -> {"down", "idle", "change"}]
  /\ next_event \in [Drivers -> Nat]
  /\ view \in [Drivers -> [at: Nat, stale: Nat]]
  /\ tracked \in [Drivers -> Nat]
  /\ transitioning \in [Drivers -> BOOLEAN]
  /\ catching_up \in [Drivers -> BOOLEAN]
  /\ calls \in [Drivers -> [Kinds -> [epoch: Nat, stage: Stages]]]
  /\ finishing \in [Drivers -> [event: Nat, sync_done: Nat]]
  /\ syncing \in [Drivers -> Nat]
  /\ owed \in [Drivers -> SUBSET Nat]
  /\ unscheduled \in [Drivers -> BOOLEAN]
  /\ lost \in [Drivers -> SUBSET Nat]

(* The contract is not in the sync state before the first epoch change.    *)
ChainInv ==
  /\ EpochInv
  /\ epoch_state = "sync" => epoch > 0

(* The node has read a state no earlier than the last event it handled,    *)
(* and no later epoch is tracked than it has read.                         *)
EventsSeen(n) ==
  /\ next_event[n] >= 1
  /\ next_event[n] <= view[n].at + 1
  /\ view[n].at <= Position
  /\ phase[n] = "change" => next_event[n] <= view[n].at /\ StateAt(next_event[n]) = "sync"
  /\ tracked[n] <= EpochAt(view[n].at)

(* The finisher task is that of an event that was handled.                 *)
FinisherOK(n) ==
  /\ finishing[n] = NoTask \/ (finishing[n].event >= 1 /\ finishing[n].event < next_event[n])
  /\ finishing[n].sync_done # 0 => finishing[n].event = 3 * finishing[n].sync_done - 1

(* The state from which on a call for epoch e is due.                      *)
DueAt(kind, e) == IF kind = "end_voting" THEN 3 * e - 3 ELSE 3 * e - 2

(* The node has read a state in which its calls are due.                   *)
CallsSeen(n) ==
  \A kind \in Kinds :
    \/ calls[n][kind] = NoCall
    \/ calls[n][kind].epoch >= 1 /\ DueAt(kind, calls[n][kind].epoch) <= view[n].at

(* Without stale reads the tracked committee is at least that of the last  *)
(* event, and it is in transition only until its EpochChangeDone.          *)
Follows(n) ==
  view[n].stale = 0 /\ phase[n] # "down" =>
    /\ tracked[n] >= EpochAt(next_event[n] - 1)
    /\ transitioning[n] => next_event[n] <= 3 * tracked[n]

(* The call that the contract waits for, once all events are handled.      *)
Pending(n) ==
  /\ view[n].stale = 0
  /\ phase[n] # "down"
  /\ ~ unscheduled[n]
  /\ next_event[n] = Position + 1
  /\ epoch > 0
  => /\ epoch_state = "done" => calls[n]["end_voting"].epoch = epoch + 1
     /\ epoch_state = "selected" => calls[n]["epoch_change_start"].epoch = epoch + 1

(* The attestation, once EpochChangeStart was handled.                     *)
Attesting(n) ==
  /\ view[n].stale = 0
  /\ n \in Members(committee)
  /\ next_event[n] >= 3 * epoch
  /\ epoch \notin lost[n]
  => \/ last_epoch_sync_done[n] = epoch
     \/ finishing[n].sync_done = epoch
     \/ syncing[n] = epoch
     \/ epoch \in owed[n]

NodeOK(n) ==
  /\ EventsSeen(n)
  /\ FinisherOK(n)
  /\ CallsSeen(n)
  /\ Follows(n)
  /\ Pending(n)
  /\ Attesting(n)

DriverInv ==
  /\ ChainInv
  /\ NodeType
  /\ \A n \in Drivers : NodeOK(n)
  /\ NoFailure

-----------------------------------------------------------------------------
(* Positions.                                                              *)

(* An event and a state are determined by the epoch and the epoch state.   *)
LEMMA EventAt ==
  \A p \in Nat :
    /\ EpochAt(p) \in Nat
    /\ \/ p = 3 * EpochAt(p) - 1 /\ StateAt(p) = "sync"
       \/ p = 3 * EpochAt(p) /\ StateAt(p) = "done"
       \/ p = 3 * EpochAt(p) + 1 /\ StateAt(p) = "selected"
  <1> TAKE p \in Nat
  <1>1. PICK q \in Nat : p = 3 * q \/ p = 3 * q + 1 \/ p = 3 * q + 2
    <2>1. p \div 3 \in Nat /\ (p = 3 * (p \div 3) \/ p = 3 * (p \div 3) + 1 \/ p = 3 * (p \div 3) + 2)
      BY SMT
    <2> QED
      BY <2>1
  <1>2. CASE p = 3 * q
    <2>1. p % 3 = 0 /\ (p + 1) \div 3 = q
      BY <1>2, SMT
    <2> QED
      BY <1>2, <2>1 DEF EpochAt, StateAt
  <1>3. CASE p = 3 * q + 1
    <2>1. p % 3 = 1 /\ (p + 1) \div 3 = q
      BY <1>3, SMT
    <2> QED
      BY <1>3, <2>1 DEF EpochAt, StateAt
  <1>4. CASE p = 3 * q + 2
    <2>1. p % 3 = 2 /\ (p + 1) \div 3 = q + 1
      BY <1>4, SMT
    <2> QED
      BY <1>4, <2>1 DEF EpochAt, StateAt
  <1> QED
    BY <1>1, <1>2, <1>3, <1>4

(* The events of an epoch.                                                 *)
LEMMA EpochOf ==
  \A e \in Nat : /\ EpochAt(3 * e) = e /\ EpochAt(3 * e + 1) = e
                 /\ e >= 1 => EpochAt(3 * e - 1) = e
  <1> TAKE e \in Nat
  <1>1. ASSUME NEW p \in Nat, p = 3 * e \/ p = 3 * e + 1 \/ p = 3 * e - 1
        PROVE  EpochAt(p) = e
    <2>1. /\ EpochAt(p) \in Nat
          /\ p = 3 * EpochAt(p) - 1 \/ p = 3 * EpochAt(p) \/ p = 3 * EpochAt(p) + 1
      BY EventAt
    <2> QED
      BY <1>1, <2>1
  <1>2. 3 * e \in Nat /\ 3 * e + 1 \in Nat /\ (e >= 1 => 3 * e - 1 \in Nat)
    OBVIOUS
  <1> QED
    BY <1>1, <1>2

(* A later event is not of an earlier epoch.                               *)
LEMMA EpochMonotone ==
  ASSUME NEW p \in Nat, NEW q \in Nat, p <= q
  PROVE  EpochAt(p) <= EpochAt(q)
  BY EventAt

(* The position of the contract is that of its last event.                 *)
LEMMA PositionFacts ==
  ChainInv =>
    /\ Position \in Nat
    /\ EpochAt(Position) = epoch
    /\ StateAt(Position) = epoch_state
    /\ epoch \in Nat
  <1> HAVE ChainInv
  <1>1. epoch \in Nat /\ epoch_state \in {"sync", "done", "selected"}
    BY DEF ChainInv, EpochInv, EpochType
  <1>2. /\ epoch_state = "sync" => Position = 3 * epoch - 1 /\ epoch > 0
        /\ epoch_state = "done" => Position = 3 * epoch
        /\ epoch_state = "selected" => Position = 3 * epoch + 1
    BY DEF ChainInv, Position
  <1>3. Position \in Nat
    BY <1>1, <1>2
  <1>4. /\ EpochAt(Position) \in Nat
        /\ \/ Position = 3 * EpochAt(Position) - 1 /\ StateAt(Position) = "sync"
           \/ Position = 3 * EpochAt(Position) /\ StateAt(Position) = "done"
           \/ Position = 3 * EpochAt(Position) + 1 /\ StateAt(Position) = "selected"
    BY <1>3, EventAt
  <1> QED
    BY <1>1, <1>2, <1>3, <1>4

(* What one step of the contract may do to the epoch and its attestations. *)
ChainStep ==
  /\ Position' = Position \/ Position' = Position + 1
  /\ epoch' = epoch => committee' = committee
  /\ \A n \in Nodes : last_epoch_sync_done[n] = epoch /\ epoch' = epoch =>
       last_epoch_sync_done'[n] = epoch

(* Every step of the contract moves on by at most one position.            *)
LEMMA ChainStepHolds ==
  ASSUME ChainInv, EpochNext \/ UNCHANGED epochVars
  PROVE  ChainInv' /\ ChainStep
  <1>1. EpochInv'
    BY EpochStepInv DEF ChainInv
  <1>2. epoch \in Nat /\ last_epoch_sync_done \in [Nodes -> 0 .. MaxEpoch]
    BY DEF ChainInv, EpochInv, EpochType
  <1>3. CASE UNCHANGED epochVars
    BY <1>1, <1>3 DEF ChainInv, ChainStep, Position, epochVars
  <1>4. CASE Tick
    BY <1>1, <1>4 DEF ChainInv, ChainStep, Position, Tick
  <1>5. ASSUME NEW c \in Committees, VotingEnd(c)
        PROVE  ChainInv' /\ ChainStep
    BY <1>1, <1>2, <1>5 DEF ChainInv, ChainStep, Position, VotingEnd
  <1>6. CASE InitiateEpochChange
    BY <1>1, <1>2, <1>6 DEF ChainInv, ChainStep, Position, InitiateEpochChange
  <1>7. ASSUME NEW n \in Nodes, EpochSyncDone(n, epoch)
        PROVE  ChainInv' /\ ChainStep
    <2>1. /\ epoch' = epoch /\ committee' = committee
          /\ last_epoch_sync_done' = [last_epoch_sync_done EXCEPT ![n] = epoch]
      BY <1>7 DEF EpochSyncDone, RememberSyncDone
    <2>2. /\ epoch_state' = epoch_state \/ (epoch_state = "sync" /\ epoch_state' = "done")
      BY <1>7 DEF EpochSyncDone, CountSyncDone
    <2>3. Position' = Position \/ Position' = Position + 1
      <3>1. CASE epoch_state' = epoch_state
        BY <2>1, <3>1 DEF Position
      <3>2. CASE epoch_state = "sync" /\ epoch_state' = "done"
        BY <1>2, <2>1, <3>2 DEF Position
      <3> QED
        BY <2>2, <3>1, <3>2
    <2> QED
      BY <1>1, <1>2, <2>1, <2>2, <2>3 DEF ChainInv, ChainStep
  <1> QED
    BY <1>3, <1>4, <1>5, <1>6, <1>7 DEF EpochNext

-----------------------------------------------------------------------------
(* Nodes.                                                                  *)

(* Nothing of a node changes.                                              *)
NodeSame(n) ==
  /\ phase'[n] = phase[n] /\ next_event'[n] = next_event[n] /\ view'[n] = view[n]
  /\ tracked'[n] = tracked[n] /\ transitioning'[n] = transitioning[n]
  /\ calls'[n] = calls[n] /\ finishing'[n] = finishing[n]
  /\ syncing'[n] = syncing[n] /\ owed'[n] = owed[n]
  /\ unscheduled'[n] = unscheduled[n] /\ lost'[n] = lost[n]

(* The arithmetic of two positions that follow each other.                 *)
LEMMA NextPosition ==
  ASSUME NEW p \in Nat, NEW q \in Nat, NEW e \in Nat, NEW f \in Nat, NEW s, NEW t,
         \/ p = 3 * e - 1 /\ s = "sync"
         \/ p = 3 * e /\ s = "done"
         \/ p = 3 * e + 1 /\ s = "selected",
         \/ q = 3 * f - 1 /\ t = "sync"
         \/ q = 3 * f /\ t = "done"
         \/ q = 3 * f + 1 /\ t = "selected",
         q = p \/ q = p + 1
  PROVE  /\ p <= q
         /\ f = e \/ (f = e + 1 /\ q = 3 * f - 1)
         /\ q = p => f = e /\ t = s
         /\ 3 * e - 1 <= p /\ p <= 3 * e + 1
         /\ 3 * f - 1 <= q /\ q <= 3 * f + 1
  OBVIOUS

(* Before and after a step of the contract: an event is never of a later   *)
(* epoch than the contract, and a new epoch begins with a new event.       *)
LEMMA Chain ==
  ASSUME ChainInv, ChainInv', ChainStep
  PROVE  /\ Position \in Nat /\ Position' \in Nat /\ epoch \in Nat /\ epoch' \in Nat
         /\ Position <= Position'
         /\ epoch' = epoch \/ (epoch' = epoch + 1 /\ Position' = 3 * epoch' - 1)
         /\ Position' = Position => epoch' = epoch /\ epoch_state' = epoch_state
         /\ 3 * epoch - 1 <= Position /\ Position <= 3 * epoch + 1
         /\ 3 * epoch' - 1 <= Position' /\ Position' <= 3 * epoch' + 1
  <1>1. /\ Position \in Nat /\ epoch \in Nat
        /\ \/ Position = 3 * epoch - 1 /\ epoch_state = "sync"
           \/ Position = 3 * epoch /\ epoch_state = "done"
           \/ Position = 3 * epoch + 1 /\ epoch_state = "selected"
    BY PositionFacts, EventAt
  <1>2. (/\ Position \in Nat
         /\ EpochAt(Position) = epoch
         /\ StateAt(Position) = epoch_state
         /\ epoch \in Nat)'
    BY PositionFacts, PTL
  <1>3. \/ Position' = 3 * epoch' - 1 /\ epoch_state' = "sync"
        \/ Position' = 3 * epoch' /\ epoch_state' = "done"
        \/ Position' = 3 * epoch' + 1 /\ epoch_state' = "selected"
    BY <1>2, EventAt
  <1>4. Position' = Position \/ Position' = Position + 1
    BY DEF ChainStep
  <1>5. Position' \in Nat /\ epoch' \in Nat
    BY <1>2
  <1>6. PICK q \in Nat, f \in Nat : q = Position' /\ f = epoch'
    BY <1>5
  <1>7. /\ \/ q = 3 * f - 1 /\ epoch_state' = "sync"
           \/ q = 3 * f /\ epoch_state' = "done"
           \/ q = 3 * f + 1 /\ epoch_state' = "selected"
        /\ q = Position \/ q = Position + 1
    BY <1>3, <1>4, <1>6
  <1>8. /\ Position <= q
        /\ f = epoch \/ (f = epoch + 1 /\ q = 3 * f - 1)
        /\ q = Position => f = epoch /\ epoch_state' = epoch_state
        /\ 3 * epoch - 1 <= Position /\ Position <= 3 * epoch + 1
        /\ 3 * f - 1 <= q /\ q <= 3 * f + 1
    BY <1>1, <1>7, NextPosition
  <1> QED
    BY <1>1, <1>5, <1>6, <1>8

(* The types of what a node has.                                           *)
LEMMA NodeValues ==
  ASSUME NodeType, NEW n \in Drivers
  PROVE  /\ phase[n] \in {"down", "idle", "change"}
         /\ next_event[n] \in Nat /\ view[n].at \in Nat /\ view[n].stale \in Nat
         /\ tracked[n] \in Nat /\ transitioning[n] \in BOOLEAN
         /\ calls[n] \in [Kinds -> [epoch: Nat, stage: Stages]]
         /\ \A kind \in Kinds : calls[n][kind] \in [epoch: Nat, stage: Stages]
         /\ finishing[n] \in [event: Nat, sync_done: Nat]
         /\ finishing[n].event \in Nat /\ finishing[n].sync_done \in Nat
         /\ syncing[n] \in Nat /\ owed[n] \in SUBSET Nat /\ lost[n] \in SUBSET Nat
         /\ unscheduled[n] \in BOOLEAN
  BY DEF NodeType

(* What a node knows and its calls do not depend on other nodes, nor on    *)
(* its tasks, and are not disturbed by the contract.                       *)
LEMMA DriverKept ==
  ASSUME ChainInv, ChainInv', ChainStep, NodeType, NEW n \in Drivers, NodeOK(n),
         phase'[n] = phase[n], next_event'[n] = next_event[n], view'[n] = view[n],
         tracked'[n] = tracked[n], transitioning'[n] = transitioning[n],
         calls'[n] = calls[n], unscheduled'[n] = unscheduled[n]
  PROVE  EventsSeen(n)' /\ CallsSeen(n)' /\ Follows(n)' /\ Pending(n)'
  <1>1. /\ Position \in Nat /\ Position' \in Nat /\ epoch \in Nat /\ epoch' \in Nat
        /\ Position <= Position'
        /\ Position' = Position => epoch' = epoch /\ epoch_state' = epoch_state
    BY Chain
  <1>2. /\ view[n].at \in Nat /\ next_event[n] \in Nat
        /\ next_event[n] <= view[n].at + 1 /\ view[n].at <= Position
    BY DEF NodeType, NodeOK, EventsSeen
  <1>3. EventsSeen(n)'
    BY <1>1, <1>2 DEF NodeOK, EventsSeen
  <1>4. CallsSeen(n)'
    BY DEF NodeOK, CallsSeen
  <1>5. Follows(n)'
    BY DEF NodeOK, Follows
  <1>6. Pending(n)'
    <2>1. next_event[n] = Position' + 1 => Position' = Position
      BY <1>1, <1>2
    <2> QED
      BY <1>1, <2>1 DEF NodeOK, Pending
  <1> QED
    BY <1>3, <1>4, <1>5, <1>6

(* A new epoch begins before its first event is handled.                   *)
LEMMA NotYetHandled ==
  ASSUME ChainInv, ChainInv', ChainStep, NodeType, NEW n \in Drivers, NodeOK(n), epoch' # epoch
  PROVE  next_event[n] < 3 * epoch'
  <1>1. /\ Position \in Nat /\ Position' \in Nat /\ epoch \in Nat /\ epoch' \in Nat
        /\ epoch' = epoch + 1
        /\ Position <= 3 * epoch + 1
    BY Chain
  <1>2. /\ view[n].at \in Nat /\ next_event[n] \in Nat
        /\ next_event[n] <= view[n].at + 1 /\ view[n].at <= Position
    BY DEF NodeType, NodeOK, EventsSeen
  <1> QED
    BY <1>1, <1>2

(* What a node keeps its promises with does not depend on other nodes and  *)
(* is not disturbed by the contract.                                       *)
LEMMA OtherNode ==
  ASSUME ChainInv, ChainInv', ChainStep, NodeType, NEW n \in Drivers, NodeOK(n), NodeSame(n)
  PROVE  NodeOK(n)'
  <1>1. EventsSeen(n)' /\ CallsSeen(n)' /\ Follows(n)' /\ Pending(n)'
    BY DriverKept DEF NodeSame
  <1>2. FinisherOK(n)'
    BY DEF NodeOK, FinisherOK, NodeSame
  <1>3. Attesting(n)'
    <2>1. CASE epoch' = epoch
      BY <2>1, DriversAssumption DEF NodeOK, Attesting, NodeSame, ChainStep, Members
    <2>2. CASE epoch' # epoch
      <3>1. /\ next_event[n] < 3 * epoch'
            /\ next_event[n] \in Nat /\ epoch' \in Nat
        BY <2>2, NotYetHandled, Chain, NodeValues
      <3> QED
        BY <3>1 DEF Attesting, NodeSame
    <2> QED
      BY <2>1, <2>2
  <1> QED
    BY <1>1, <1>2, <1>3 DEF NodeOK

(* The largest of three numbers.                                           *)
LEMMA MaxOfThree ==
  ASSUME NEW a \in Nat, NEW b \in Nat, NEW c \in Nat
  PROVE  /\ Max({a, b, c}) \in {a, b, c}
         /\ Max({a, b, c}) >= a /\ Max({a, b, c}) >= b /\ Max({a, b, c}) >= c
  <1>1. \E x \in {a, b, c} : \A y \in {a, b, c} : x >= y
    <2>1. CASE a >= b /\ a >= c
      BY <2>1
    <2>2. CASE b >= a /\ b >= c
      BY <2>2
    <2>3. CASE c >= a /\ c >= b
      BY <2>3
    <2> QED
      BY <2>1, <2>2, <2>3
  <1> QED
    BY <1>1 DEF Max

(* The larger of two numbers.                                              *)
LEMMA MaxOfTwo ==
  ASSUME NEW a \in Nat, NEW b \in Nat
  PROVE  Max({a, b}) \in {a, b} /\ Max({a, b}) >= a /\ Max({a, b}) >= b
  <1>1. Max({a, b, b}) = Max({a, b})
    OBVIOUS
  <1> QED
    BY <1>1, MaxOfThree

(* A read does not lose what was read before, and unless it is stale, what *)
(* it returns is no earlier than that.                                     *)
LEMMA ReadBothFacts ==
  ASSUME NodeType, NEW n \in Drivers, NEW u \in Nat, NEW v \in Nat, ReadBoth(n, u, v)
  PROVE  /\ view' \in [Drivers -> [at: Nat, stale: Nat]]
         /\ \A m \in Drivers \ {n} : view'[m] = view[m]
         /\ view'[n].at \in {view[n].at, u, v}
         /\ view'[n].at >= view[n].at /\ view'[n].at >= u /\ view'[n].at >= v
         /\ view'[n].stale = 0 => view[n].stale = 0 /\ view[n].at <= u /\ u <= v
  <1> DEFINE a == view[n].at
             earlier == u < a \/ v < Max({a, u})
             new == [at |-> Max({a, u, v}), stale |-> view[n].stale + IF earlier THEN 1 ELSE 0]
  <1>1. a \in Nat /\ view[n].stale \in Nat
    BY DEF NodeType
  <1>2. view' = [view EXCEPT ![n] = new]
    BY DEF ReadBoth
  <1>3. /\ Max({a, u, v}) \in {a, u, v}
        /\ Max({a, u, v}) >= a /\ Max({a, u, v}) >= u /\ Max({a, u, v}) >= v
    BY <1>1, MaxOfThree
  <1>4. Max({a, u}) \in {a, u} /\ Max({a, u}) >= a /\ Max({a, u}) >= u
    BY <1>1, MaxOfTwo
  <1>5. new.at = Max({a, u, v}) /\ new.stale \in Nat
        /\ (new.stale = 0 => view[n].stale = 0 /\ ~ earlier)
    BY <1>1
  <1>6. view'[n] = new
    BY <1>2 DEF NodeType
  <1>7. ~ earlier => a <= u /\ u <= v
    BY <1>1, <1>4
  <1>8. new \in [at: Nat, stale: Nat]
    BY <1>1, <1>3
  <1>9. view' \in [Drivers -> [at: Nat, stale: Nat]]
    BY <1>2, <1>8 DEF NodeType
  <1>10. \A m \in Drivers \ {n} : view'[m] = view[m]
    BY <1>2 DEF NodeType
  <1> HIDE DEF new, earlier
  <1> QED
    BY <1>3, <1>5, <1>6, <1>7, <1>9, <1>10

(* The same for a single read.                                             *)
LEMMA ReadFacts ==
  ASSUME NodeType, NEW n \in Drivers, NEW v \in Nat, Read(n, v)
  PROVE  /\ view' \in [Drivers -> [at: Nat, stale: Nat]]
         /\ \A m \in Drivers \ {n} : view'[m] = view[m]
         /\ view'[n].at \in {view[n].at, v}
         /\ view'[n].at >= view[n].at /\ view'[n].at >= v
         /\ view'[n].stale = 0 => view[n].stale = 0 /\ view[n].at <= v
  BY ReadBothFacts DEF Read

(* A node handles an event only after it has read that the contract is     *)
(* there.                                                                  *)
LEMMA WaitFacts ==
  ASSUME NEW p \in Nat, NEW v \in Nat, WaitForEpochState(p, v)
  PROVE  p <= v
  <1>1. /\ EpochAt(p) \in Nat
        /\ \/ p = 3 * EpochAt(p) - 1 /\ StateAt(p) = "sync"
           \/ p = 3 * EpochAt(p) /\ StateAt(p) = "done"
           \/ p = 3 * EpochAt(p) + 1 /\ StateAt(p) = "selected"
    BY EventAt
  <1>2. /\ EpochAt(v) \in Nat
        /\ \/ v = 3 * EpochAt(v) - 1 /\ StateAt(v) = "sync"
           \/ v = 3 * EpochAt(v) /\ StateAt(v) = "done"
           \/ v = 3 * EpochAt(v) + 1 /\ StateAt(v) = "selected"
    BY EventAt
  <1>3. CASE EpochAt(v) > EpochAt(p)
    BY <1>1, <1>2, <1>3
  <1>4. CASE EpochAt(v) = EpochAt(p) /\ StateAt(p) = "selected" /\ StateAt(v) = "selected"
    BY <1>1, <1>2, <1>4
  <1>5. CASE EpochAt(v) = EpochAt(p) /\ StateAt(p) = "sync"
    BY <1>1, <1>2, <1>5
  <1>6. CASE EpochAt(v) = EpochAt(p) /\ StateAt(p) = "done" /\ StateAt(v) \in {"done", "selected"}
    BY <1>1, <1>2, <1>6
  <1> QED
    BY <1>1, <1>3, <1>4, <1>5, <1>6 DEF WaitForEpochState

(* What the contract's state determines when it does not change.           *)
LEMMA SameChain ==
  ASSUME UNCHANGED epochVars
  PROVE  /\ Position' = Position /\ epoch' = epoch /\ epoch_state' = epoch_state
         /\ committee' = committee /\ last_epoch_sync_done' = last_epoch_sync_done
  BY DEF epochVars, Position

(* Calls are records of an epoch and a stage.                              *)
LEMMA CallTypes ==
  /\ NoCall \in [epoch: Nat, stage: Stages]
  /\ \A e \in Nat : Scheduled(e) \in [epoch: Nat, stage: Stages] /\ Scheduled(e).epoch = e
  /\ NoCalls \in [Kinds -> [epoch: Nat, stage: Stages]]
  /\ "end_voting" \in Kinds /\ "epoch_change_start" \in Kinds
  /\ \A kind \in Kinds : NoCalls[kind] = NoCall
  BY DEF NoCall, Scheduled, Stages, NoCalls, Kinds

(* Calls that were seen to be due stay so, in whichever stage they are.    *)
LEMMA CallsKept ==
  ASSUME NodeType, NEW n \in Drivers, NodeOK(n),
         view'[n].at \in Nat, view'[n].at >= view[n].at,
         \A kind \in Kinds : \/ calls'[n][kind] = NoCall
                             \/ /\ calls[n][kind] # NoCall
                                /\ calls'[n][kind].epoch = calls[n][kind].epoch
                             \/ calls'[n][kind] = calls[n][kind]
  PROVE  CallsSeen(n)'
  <1> SUFFICES ASSUME NEW kind \in Kinds
               PROVE  \/ calls'[n][kind] = NoCall
                      \/ /\ calls'[n][kind].epoch >= 1
                         /\ DueAt(kind, calls'[n][kind].epoch) <= view'[n].at
    BY DEF CallsSeen
  <1>1. view[n].at \in Nat /\ calls[n][kind].epoch \in Nat
    BY NodeValues
  <1>2. calls[n][kind] # NoCall =>
          calls[n][kind].epoch >= 1 /\ DueAt(kind, calls[n][kind].epoch) <= view[n].at
    BY DEF NodeOK, CallsSeen
  <1>3. calls[n][kind] # NoCall => DueAt(kind, calls[n][kind].epoch) <= view'[n].at
    BY <1>1, <1>2 DEF DueAt
  <1> QED
    BY <1>2, <1>3

(* What is to be shown of each step of a node.                             *)
NodeStep(n) ==
  /\ NodeType'
  /\ NodeOK(n)'
  /\ \A m \in Drivers \ {n} : NodeSame(m)
  /\ view'[n].stale = 0 => view[n].stale = 0 /\ failure' = failure

-----------------------------------------------------------------------------
(* Events.                                                                 *)

(* EpochParametersSelected: the epoch change is due in this state.         *)
LEMMA SelectedStep ==
  ASSUME ChainInv, NodeType, NEW n \in Drivers, NodeOK(n), NEW v \in 0 .. Position,
         HandleEpochParametersSelected(n, v)
  PROVE  NodeStep(n)
  <1> DEFINE k == next_event[n]
             e == EpochAt(k)
  <1>1. /\ k \in Nat /\ view[n].at \in Nat /\ view[n].stale \in Nat /\ tracked[n] \in Nat
        /\ calls[n] \in [Kinds -> [epoch: Nat, stage: Stages]]
    BY NodeValues
  <1>2. /\ Position \in Nat /\ epoch \in Nat /\ v \in Nat
        /\ EpochAt(Position) = epoch /\ StateAt(Position) = epoch_state
    BY PositionFacts
  <1>3. /\ Position' = Position /\ epoch' = epoch /\ epoch_state' = epoch_state
        /\ committee' = committee /\ last_epoch_sync_done' = last_epoch_sync_done
    BY SameChain DEF HandleEpochParametersSelected
  <1>4. /\ phase[n] = "idle" /\ k <= Position /\ StateAt(k) = "selected"
        /\ Read(n, v) /\ WaitForEpochState(k, v)
    BY DEF HandleEpochParametersSelected, Event
  <1>5. e \in Nat /\ k = 3 * e + 1 /\ k <= v
    BY <1>1, <1>2, <1>4, EventAt, WaitFacts
  <1>6. /\ view' \in [Drivers -> [at: Nat, stale: Nat]]
        /\ \A m \in Drivers \ {n} : view'[m] = view[m]
        /\ view'[n].at \in {view[n].at, v}
        /\ view'[n].at >= view[n].at /\ view'[n].at >= v
        /\ view'[n].stale = 0 => view[n].stale = 0 /\ view[n].at <= v
    BY <1>2, <1>4, ReadFacts
  <1> DEFINE c == [CancelVotingEnd(calls[n], e + 1) EXCEPT !["epoch_change_start"] = Scheduled(e + 1)]
  <1>7. /\ calls' = [calls EXCEPT ![n] = c]
        /\ phase' = [phase EXCEPT ![n] = "idle"]
        /\ next_event' = [next_event EXCEPT ![n] = @ + 1]
        /\ unscheduled' = [unscheduled EXCEPT ![n] = FALSE]
        /\ UNCHANGED <<tracked, transitioning, catching_up, finishing, syncing, owed, lost, failure>>
    BY DEF HandleEpochParametersSelected, Handled
  <1>8. /\ c \in [Kinds -> [epoch: Nat, stage: Stages]]
        /\ c["epoch_change_start"] = Scheduled(e + 1)
        /\ c["end_voting"] \in {calls[n]["end_voting"], NoCall}
    BY <1>1, <1>5, CallTypes DEF CancelVotingEnd, Kinds
  <1> HIDE DEF c, e
  <1>9. /\ calls'[n] = c /\ phase'[n] = "idle" /\ next_event'[n] = k + 1
        /\ tracked'[n] = tracked[n] /\ transitioning'[n] = transitioning[n]
        /\ finishing'[n] = finishing[n]
        /\ syncing'[n] = syncing[n] /\ owed'[n] = owed[n] /\ lost'[n] = lost[n]
    BY <1>7 DEF NodeType
  <1>10. NodeType'
    BY <1>6, <1>7, <1>8, <1>1 DEF NodeType
  <1>11. \A m \in Drivers \ {n} : NodeSame(m)
    BY <1>6, <1>7 DEF NodeType, NodeSame
  <1>12. EventsSeen(n)'
    <2>1. EpochAt(view[n].at) <= EpochAt(view'[n].at) /\ EpochAt(view[n].at) \in Nat
          /\ EpochAt(view'[n].at) \in Nat
      BY <1>1, <1>2, <1>6, EpochMonotone, EventAt
    <2>2. tracked'[n] <= EpochAt(view'[n].at)
      BY <2>1, <1>1, <1>9 DEF NodeOK, EventsSeen
    <2> QED
      BY <1>1, <1>2, <1>3, <1>5, <1>6, <1>9, <2>2 DEF NodeOK, EventsSeen
  <1>13. FinisherOK(n)'
    BY <1>1, <1>9, NodeValues DEF NodeOK, FinisherOK
  <1>14. CallsSeen(n)'
    <2>1. DueAt("epoch_change_start", e + 1) = k
      BY <1>5 DEF DueAt
    <2>2. view'[n].at \in Nat /\ k <= view'[n].at /\ view[n].at <= view'[n].at
      BY <1>1, <1>2, <1>5, <1>6
    <2>3. \/ calls[n]["end_voting"] = NoCall
          \/ /\ calls[n]["end_voting"].epoch \in Nat
             /\ calls[n]["end_voting"].epoch >= 1
             /\ DueAt("end_voting", calls[n]["end_voting"].epoch) <= view[n].at
      BY <1>1, CallTypes DEF NodeOK, CallsSeen
    <2>4. \/ c["end_voting"] = NoCall
          \/ /\ c["end_voting"].epoch >= 1
             /\ DueAt("end_voting", c["end_voting"].epoch) <= view'[n].at
      BY <1>1, <1>8, <2>2, <2>3 DEF DueAt
    <2>5. /\ c["epoch_change_start"].epoch >= 1
          /\ DueAt("epoch_change_start", c["epoch_change_start"].epoch) <= view'[n].at
      BY <1>5, <1>8, <2>1, <2>2, CallTypes
    <2> QED
      BY <1>9, <2>4, <2>5 DEF CallsSeen, Kinds
  <1>15. Follows(n)'
    <2>1. EpochAt(k) = EpochAt(k - 1)
      <3>1. k - 1 \in Nat /\ k - 1 = 3 * e
        BY <1>1, <1>5
      <3>2. EpochAt(3 * e) = e
        BY <1>5, EpochOf
      <3> QED
        BY <3>1, <3>2 DEF e
    <2> QED
      BY <1>1, <1>4, <1>5, <1>6, <1>9, <2>1 DEF NodeOK, Follows
  <1>16. Pending(n)'
    <2>1. next_event'[n] = Position + 1 => k = Position
      BY <1>1, <1>2, <1>9
    <2>2. k = Position => epoch_state = "selected" /\ e = epoch
      BY <1>2, <1>4 DEF e
    <2> QED
      BY <1>3, <1>5, <1>8, <1>9, <2>1, <2>2, CallTypes DEF Pending
  <1>17. Attesting(n)'
    <2>1. next_event'[n] >= 3 * epoch => next_event[n] >= 3 * epoch
      BY <1>1, <1>2, <1>5, <1>9
    <2> QED
      BY <1>3, <1>6, <1>9, <2>1 DEF NodeOK, Attesting, Members
  <1> QED
    BY <1>6, <1>7, <1>10, <1>11, <1>12, <1>13, <1>14, <1>15, <1>16, <1>17 DEF NodeStep, NodeOK

(* EpochChangeStart, until it waits: the node has read the new epoch.      *)
LEMMA ChangeStartStep ==
  ASSUME ChainInv, NodeType, NEW n \in Drivers, NodeOK(n), NEW v \in 0 .. Position,
         HandleEpochChangeStart(n, v)
  PROVE  NodeStep(n)
  <1> DEFINE k == next_event[n]
             e == EpochAt(k)
             c == CancelEpochChangeInitiation(CancelVotingEnd(calls[n], e), e)
  <1>1. /\ k \in Nat /\ view[n].at \in Nat /\ view[n].stale \in Nat /\ tracked[n] \in Nat
        /\ calls[n] \in [Kinds -> [epoch: Nat, stage: Stages]]
    BY NodeValues
  <1>2. Position \in Nat /\ epoch \in Nat /\ v \in Nat
    BY PositionFacts
  <1>3. /\ Position' = Position /\ epoch' = epoch /\ epoch_state' = epoch_state
        /\ committee' = committee /\ last_epoch_sync_done' = last_epoch_sync_done
    BY SameChain DEF HandleEpochChangeStart
  <1>4. /\ phase[n] = "idle" /\ k <= Position /\ StateAt(k) = "sync"
        /\ Read(n, v) /\ WaitForEpochState(k, v)
    BY DEF HandleEpochChangeStart, Event
  <1>5. k <= v
    BY <1>1, <1>2, <1>4, WaitFacts
  <1>6. /\ view' \in [Drivers -> [at: Nat, stale: Nat]]
        /\ \A m \in Drivers \ {n} : view'[m] = view[m]
        /\ view'[n].at \in {view[n].at, v}
        /\ view'[n].at >= view[n].at /\ view'[n].at >= v
        /\ view'[n].stale = 0 => view[n].stale = 0 /\ view[n].at <= v
    BY <1>2, <1>4, ReadFacts
  <1>7. /\ calls' = [calls EXCEPT ![n] = c]
        /\ phase' = [phase EXCEPT ![n] = "change"]
        /\ UNCHANGED <<next_event, tracked, transitioning, catching_up, finishing, syncing, owed,
                       unscheduled, lost, failure>>
    BY DEF HandleEpochChangeStart
  <1>8. /\ c \in [Kinds -> [epoch: Nat, stage: Stages]]
        /\ \A kind \in Kinds : c[kind] \in {calls[n][kind], NoCall}
    BY <1>1, CallTypes DEF CancelVotingEnd, CancelEpochChangeInitiation, Kinds
  <1> HIDE DEF c, e
  <1>9. /\ calls'[n] = c /\ phase'[n] = "change" /\ next_event'[n] = k
        /\ tracked'[n] = tracked[n] /\ transitioning'[n] = transitioning[n]
        /\ finishing'[n] = finishing[n]
        /\ syncing'[n] = syncing[n] /\ owed'[n] = owed[n] /\ lost'[n] = lost[n]
    BY <1>7 DEF NodeType
  <1>10. NodeType'
    BY <1>6, <1>7, <1>8 DEF NodeType
  <1>11. \A m \in Drivers \ {n} : NodeSame(m)
    BY <1>6, <1>7 DEF NodeType, NodeSame
  <1>12. EventsSeen(n)'
    <2>1. EpochAt(view[n].at) <= EpochAt(view'[n].at) /\ EpochAt(view[n].at) \in Nat
          /\ EpochAt(view'[n].at) \in Nat
      BY <1>1, <1>2, <1>6, EpochMonotone, EventAt
    <2>2. tracked'[n] <= EpochAt(view'[n].at)
      BY <2>1, <1>1, <1>9 DEF NodeOK, EventsSeen
    <2> QED
      BY <1>1, <1>2, <1>3, <1>4, <1>5, <1>6, <1>9, <2>2 DEF NodeOK, EventsSeen
  <1>13. FinisherOK(n)'
    BY <1>9 DEF NodeOK, FinisherOK
  <1>14. CallsSeen(n)'
    BY <1>1, <1>2, <1>6, <1>8, <1>9, CallsKept
  <1>15. Follows(n)'
    BY <1>4, <1>6, <1>9 DEF NodeOK, Follows
  <1>16. Pending(n)'
    BY <1>1, <1>2, <1>3, <1>4, <1>9 DEF Pending
  <1>17. Attesting(n)'
    BY <1>3, <1>6, <1>9 DEF NodeOK, Attesting, Members
  <1> QED
    BY <1>6, <1>7, <1>10, <1>11, <1>12, <1>13, <1>14, <1>15, <1>16, <1>17 DEF NodeStep, NodeOK

(* Shards are to be removed, and perhaps to be synced first.               *)
LEMMA StartFinisherFacts ==
  ASSUME ChainInv, NodeType, NEW n \in Drivers, NEW ongoing \in BOOLEAN, StartFinisher(n, ongoing),
         EpochAt(next_event[n]) \in Nat
  PROVE  LET e == EpochAt(next_event[n]) IN
         /\ finishing' \in [Drivers -> [event: Nat, sync_done: Nat]]
         /\ syncing' \in [Drivers -> Nat]
         /\ lost' \in [Drivers -> SUBSET Nat]
         /\ \A m \in Drivers \ {n} :
              finishing'[m] = finishing[m] /\ syncing'[m] = syncing[m] /\ lost'[m] = lost[m]
         /\ finishing'[n].event = next_event[n] /\ finishing'[n].sync_done \in {0, e}
         /\ e = epoch /\ n \in Members(committee) =>
              finishing'[n].sync_done = e \/ syncing'[n] = e \/ e \in lost'[n]
  <1> DEFINE e == EpochAt(next_event[n])
             d == IF ongoing THEN 0 ELSE Attests(n, e)
             f == [event |-> next_event[n], sync_done |-> d]
  <1>1. next_event[n] \in Nat /\ e \in Nat
    BY NodeValues
  <1>2. finishing' = [finishing EXCEPT ![n] = f]
    BY DEF StartFinisher
  <1>3. d \in {0, e} /\ (e = epoch /\ n \in Members(committee) /\ ~ ongoing => d = e)
    BY DEF Attests
  <1>4. f \in [event: Nat, sync_done: Nat] /\ f.event = next_event[n] /\ f.sync_done = d
    BY <1>1, <1>3
  <1>5. \/ ~ ongoing /\ UNCHANGED <<syncing, lost>>
        \/ ongoing /\ syncing' = [syncing EXCEPT ![n] = e] /\ UNCHANGED lost
        \/ ongoing /\ lost' = [lost EXCEPT ![n] = @ \cup {e}] /\ UNCHANGED syncing
    BY DEF StartFinisher
  <1> HIDE DEF d, e
  <1>6. /\ finishing' \in [Drivers -> [event: Nat, sync_done: Nat]]
        /\ finishing'[n] = f
        /\ \A m \in Drivers \ {n} : finishing'[m] = finishing[m]
    BY <1>2, <1>4 DEF NodeType
  <1>7. /\ syncing' \in [Drivers -> Nat]
        /\ lost' \in [Drivers -> SUBSET Nat]
        /\ \A m \in Drivers \ {n} : syncing'[m] = syncing[m] /\ lost'[m] = lost[m]
        /\ ~ ongoing \/ syncing'[n] = e \/ e \in lost'[n]
    <2>1. CASE ~ ongoing /\ UNCHANGED <<syncing, lost>>
      BY <2>1 DEF NodeType
    <2>2. CASE ongoing /\ syncing' = [syncing EXCEPT ![n] = e] /\ UNCHANGED lost
      BY <1>1, <2>2 DEF NodeType
    <2>3. CASE ongoing /\ lost' = [lost EXCEPT ![n] = @ \cup {e}] /\ UNCHANGED syncing
      <3>1. lost[n] \cup {e} \in SUBSET Nat
        BY <1>1 DEF NodeType
      <3> QED
        BY <2>3, <3>1 DEF NodeType
    <2> QED
      BY <1>5, <2>1, <2>2, <2>3
  <1> QED
    BY <1>3, <1>4, <1>6, <1>7 DEF e

(* What is known in the middle of the handler of EpochChangeStart.         *)
LEMMA ChangeFacts ==
  ASSUME ChainInv, NodeType, NEW n \in Drivers, NodeOK(n), phase[n] = "change"
  PROVE  LET k == next_event[n]
             e == EpochAt(k) IN
         /\ k \in Nat /\ e \in Nat /\ e >= 1 /\ k = 3 * e - 1
         /\ k <= view[n].at /\ view[n].at <= Position
         /\ e <= EpochAt(view[n].at) /\ e <= epoch
         /\ k = Position => epoch_state = "sync"
         /\ view[n].stale = 0 => tracked[n] >= e - 1
  <1> DEFINE k == next_event[n]
             e == EpochAt(k)
  <1>1. k \in Nat /\ view[n].at \in Nat /\ tracked[n] \in Nat
    BY NodeValues
  <1>2. Position \in Nat /\ EpochAt(Position) = epoch /\ StateAt(Position) = epoch_state
    BY PositionFacts
  <1>3. k >= 1 /\ k <= view[n].at /\ view[n].at <= Position /\ StateAt(k) = "sync"
    BY DEF NodeOK, EventsSeen
  <1>4. e \in Nat /\ k = 3 * e - 1
    BY <1>1, <1>3, EventAt
  <1>5. e >= 1
    BY <1>1, <1>4
  <1>6. e <= EpochAt(view[n].at) /\ e <= epoch
    BY <1>1, <1>2, <1>3, EpochMonotone
  <1>7. view[n].stale = 0 => tracked[n] >= e - 1
    <2>1. e - 1 \in Nat /\ k - 1 = 3 * (e - 1) + 1
      BY <1>4, <1>5
    <2>2. EpochAt(3 * (e - 1) + 1) = e - 1
      BY <2>1, EpochOf
    <2> QED
      BY <2>1, <2>2 DEF NodeOK, Follows
  <1> QED
    BY <1>1, <1>2, <1>3, <1>4, <1>5, <1>6, <1>7

(* The epoch change is executed: the committee of the event is tracked.    *)
LEMMA InSyncStep ==
  ASSUME ChainInv, NodeType, NEW n \in Drivers, NodeOK(n), NEW v \in 0 .. Position,
         NEW ongoing \in BOOLEAN, ExecuteEpochChangeInSync(n, v, ongoing)
  PROVE  NodeStep(n)
  <1> DEFINE k == next_event[n]
             e == EpochAt(k)
  <1>1. /\ phase[n] = "change" /\ Read(n, v) /\ StartFinisher(n, ongoing)
        /\ phase' = [phase EXCEPT ![n] = "idle"]
        /\ next_event' = [next_event EXCEPT ![n] = @ + 1]
        /\ unscheduled' = [unscheduled EXCEPT ![n] = FALSE]
        /\ UNCHANGED <<epochVars, catching_up, calls, owed, failure>>
    BY DEF ExecuteEpochChangeInSync, BeginChange, Handled
  <1>2. \/ e = tracked[n] /\ UNCHANGED <<tracked, transitioning>>
        \/ /\ e = EpochAt(v)
           /\ tracked' = [tracked EXCEPT ![n] = e]
           /\ transitioning' = [transitioning EXCEPT ![n] = TRUE]
    BY DEF ExecuteEpochChangeInSync
  <1>3. /\ k \in Nat /\ view[n].at \in Nat /\ view[n].stale \in Nat /\ tracked[n] \in Nat
        /\ Position \in Nat /\ epoch \in Nat /\ v \in Nat
    BY NodeValues, PositionFacts
  <1>4. /\ e \in Nat /\ e >= 1 /\ k = 3 * e - 1
        /\ k <= view[n].at /\ view[n].at <= Position
        /\ e <= EpochAt(view[n].at) /\ e <= epoch
        /\ k = Position => epoch_state = "sync"
    BY <1>1, ChangeFacts
  <1>5. /\ Position' = Position /\ epoch' = epoch /\ epoch_state' = epoch_state
        /\ committee' = committee /\ last_epoch_sync_done' = last_epoch_sync_done
    BY <1>1, SameChain
  <1>6. /\ view' \in [Drivers -> [at: Nat, stale: Nat]]
        /\ \A m \in Drivers \ {n} : view'[m] = view[m]
        /\ view'[n].at \in {view[n].at, v}
        /\ view'[n].at >= view[n].at /\ view'[n].at >= v
        /\ view'[n].stale = 0 => view[n].stale = 0 /\ view[n].at <= v
    BY <1>1, <1>3, ReadFacts
  <1>7. /\ finishing' \in [Drivers -> [event: Nat, sync_done: Nat]]
        /\ syncing' \in [Drivers -> Nat]
        /\ lost' \in [Drivers -> SUBSET Nat]
        /\ \A m \in Drivers \ {n} :
             finishing'[m] = finishing[m] /\ syncing'[m] = syncing[m] /\ lost'[m] = lost[m]
        /\ finishing'[n].event = k /\ finishing'[n].sync_done \in {0, e}
        /\ e = epoch /\ n \in Members(committee) =>
             finishing'[n].sync_done = e \/ syncing'[n] = e \/ e \in lost'[n]
    BY <1>1, <1>4, StartFinisherFacts
  <1> HIDE DEF e
  <1>8. /\ tracked' \in [Drivers -> Nat] /\ transitioning' \in [Drivers -> BOOLEAN]
        /\ \A m \in Drivers \ {n} : tracked'[m] = tracked[m] /\ transitioning'[m] = transitioning[m]
        /\ tracked'[n] = e
    <2>1. CASE e = tracked[n] /\ UNCHANGED <<tracked, transitioning>>
      BY <2>1 DEF NodeType
    <2>2. CASE /\ tracked' = [tracked EXCEPT ![n] = e]
               /\ transitioning' = [transitioning EXCEPT ![n] = TRUE]
      BY <1>4, <2>2 DEF NodeType
    <2> QED
      BY <1>2, <2>1, <2>2
  <1>9. phase'[n] = "idle" /\ next_event'[n] = k + 1 /\ calls'[n] = calls[n] /\ owed'[n] = owed[n]
    BY <1>1 DEF NodeType
  <1>10. NodeType'
    <2>1. /\ phase' \in [Drivers -> {"down", "idle", "change"}]
          /\ next_event' \in [Drivers -> Nat]
          /\ unscheduled' \in [Drivers -> BOOLEAN]
      BY <1>1 DEF NodeType
    <2>2. UNCHANGED <<catching_up, calls, owed>>
      BY <1>1
    <2> QED
      BY <2>1, <2>2, <1>6, <1>7, <1>8 DEF NodeType
  <1>11. \A m \in Drivers \ {n} : NodeSame(m)
    BY <1>1, <1>6, <1>7, <1>8 DEF NodeType, NodeSame
  <1>12. EventsSeen(n)'
    <2>1. EpochAt(view[n].at) <= EpochAt(view'[n].at) /\ EpochAt(view[n].at) \in Nat
          /\ EpochAt(view'[n].at) \in Nat
      BY <1>3, <1>6, EpochMonotone, EventAt
    <2>2. tracked'[n] <= EpochAt(view'[n].at)
      BY <2>1, <1>4, <1>8
    <2> QED
      BY <1>3, <1>4, <1>5, <1>6, <1>9, <2>2 DEF EventsSeen
  <1>13. FinisherOK(n)'
    BY <1>3, <1>4, <1>7, <1>9 DEF FinisherOK
  <1>14. CallsSeen(n)'
    BY <1>3, <1>6, <1>9, CallsKept
  <1>15. Follows(n)'
    <2>1. next_event'[n] - 1 = k /\ next_event'[n] = 3 * e
      BY <1>3, <1>4, <1>9
    <2> QED
      BY <1>4, <1>8, <2>1 DEF Follows, e
  <1>16. Pending(n)'
    <2>1. next_event'[n] = Position + 1 => k = Position
      BY <1>3, <1>9
    <2> QED
      BY <1>4, <1>5, <2>1 DEF Pending
  <1>17. Attesting(n)'
    <2>1. next_event'[n] >= 3 * epoch => e = epoch
      BY <1>3, <1>4, <1>9
    <2> QED
      BY <1>5, <1>7, <2>1 DEF Attesting, Members
  <1> QED
    BY <1>1, <1>6, <1>10, <1>11, <1>12, <1>13, <1>14, <1>15, <1>16, <1>17 DEF NodeStep, NodeOK

(* A node that catches up tracks the committee that it has just read.      *)
LEMMA CatchingUpStep ==
  ASSUME ChainInv, NodeType, NEW n \in Drivers, NodeOK(n), NEW v \in 0 .. Position,
         NEW ongoing \in BOOLEAN, ExecuteEpochChangeCatchingUp(n, v, ongoing)
  PROVE  NodeStep(n)
  <1> DEFINE k == next_event[n]
             e == EpochAt(k)
             w == EpochAt(v)
  <1>1. /\ phase[n] = "change" /\ finishing[n] = NoTask /\ Read(n, v)
        /\ phase' = [phase EXCEPT ![n] = "idle"]
        /\ next_event' = [next_event EXCEPT ![n] = @ + 1]
        /\ unscheduled' = [unscheduled EXCEPT ![n] = FALSE]
        /\ tracked' = [tracked EXCEPT ![n] = w]
        /\ transitioning' = [transitioning EXCEPT ![n] = StateAt(v) = "sync"]
        /\ catching_up' = [catching_up EXCEPT ![n] = e < w]
        /\ UNCHANGED <<epochVars, calls, owed, failure>>
    BY DEF ExecuteEpochChangeCatchingUp, BeginChange, Handled
  <1>2. \/ e < w /\ UNCHANGED <<finishing, syncing, lost>>
        \/ StartFinisher(n, ongoing)
        \/ MayBeOutside(n, e) /\ UNCHANGED <<finishing, syncing, lost>>
    BY DEF ExecuteEpochChangeCatchingUp
  <1>3. /\ k \in Nat /\ view[n].at \in Nat /\ view[n].stale \in Nat /\ tracked[n] \in Nat
        /\ Position \in Nat /\ epoch \in Nat /\ v \in Nat /\ v <= Position
        /\ EpochAt(Position) = epoch
    BY NodeValues, PositionFacts
  <1>4. /\ e \in Nat /\ e >= 1 /\ k = 3 * e - 1
        /\ k <= view[n].at /\ view[n].at <= Position
        /\ e <= EpochAt(view[n].at) /\ e <= epoch
        /\ k = Position => epoch_state = "sync"
    BY <1>1, ChangeFacts
  <1>5. /\ Position' = Position /\ epoch' = epoch /\ epoch_state' = epoch_state
        /\ committee' = committee /\ last_epoch_sync_done' = last_epoch_sync_done
    BY <1>1, SameChain
  <1>6. /\ view' \in [Drivers -> [at: Nat, stale: Nat]]
        /\ \A m \in Drivers \ {n} : view'[m] = view[m]
        /\ view'[n].at \in {view[n].at, v}
        /\ view'[n].at >= view[n].at /\ view'[n].at >= v
        /\ view'[n].stale = 0 => view[n].stale = 0 /\ view[n].at <= v
    BY <1>1, <1>3, ReadFacts
  <1>7. w \in Nat /\ w <= epoch /\ (StateAt(v) = "sync" => v = 3 * w - 1)
    BY <1>3, EventAt, EpochMonotone
  <1>8. /\ finishing' \in [Drivers -> [event: Nat, sync_done: Nat]]
        /\ syncing' \in [Drivers -> Nat]
        /\ lost' \in [Drivers -> SUBSET Nat]
        /\ \A m \in Drivers \ {n} :
             finishing'[m] = finishing[m] /\ syncing'[m] = syncing[m] /\ lost'[m] = lost[m]
        /\ \/ finishing'[n] = NoTask
           \/ finishing'[n].event = k /\ finishing'[n].sync_done \in {0, e}
        /\ e = epoch /\ n \in Members(committee) =>
             finishing'[n].sync_done = e \/ syncing'[n] = e \/ e \in lost'[n]
    <2>1. CASE e < w /\ UNCHANGED <<finishing, syncing, lost>>
      BY <1>1, <1>3, <1>4, <1>7, <2>1 DEF NodeType
    <2>2. CASE StartFinisher(n, ongoing)
      BY <1>4, <2>2, StartFinisherFacts
    <2>3. CASE MayBeOutside(n, e) /\ UNCHANGED <<finishing, syncing, lost>>
      BY <1>1, <1>3, <1>4, <2>3 DEF NodeType, MayBeOutside
    <2> QED
      BY <1>2, <2>1, <2>2, <2>3
  <1> HIDE DEF e, w
  <1>9. /\ phase'[n] = "idle" /\ next_event'[n] = k + 1 /\ calls'[n] = calls[n] /\ owed'[n] = owed[n]
        /\ tracked'[n] = w /\ transitioning'[n] = (StateAt(v) = "sync")
    BY <1>1 DEF NodeType
  <1>10. NodeType'
    <2>1. /\ phase' \in [Drivers -> {"down", "idle", "change"}]
          /\ next_event' \in [Drivers -> Nat]
          /\ unscheduled' \in [Drivers -> BOOLEAN]
      BY <1>1 DEF NodeType
    <2>2. /\ tracked' \in [Drivers -> Nat] /\ transitioning' \in [Drivers -> BOOLEAN]
          /\ catching_up' \in [Drivers -> BOOLEAN]
      BY <1>1, <1>7 DEF NodeType
    <2>3. UNCHANGED <<calls, owed>>
      BY <1>1
    <2> QED
      BY <2>1, <2>2, <2>3, <1>6, <1>8 DEF NodeType
  <1>11. \A m \in Drivers \ {n} : NodeSame(m)
    BY <1>1, <1>6, <1>8 DEF NodeType, NodeSame
  <1>12. EventsSeen(n)'
    <2>1. tracked'[n] <= EpochAt(view'[n].at)
      BY <1>3, <1>6, <1>9, EpochMonotone DEF w
    <2> QED
      BY <1>3, <1>4, <1>5, <1>6, <1>9, <2>1 DEF EventsSeen
  <1>13. FinisherOK(n)'
    <2>1. CASE finishing'[n] = NoTask
      BY <2>1 DEF FinisherOK, NoTask
    <2>2. CASE finishing'[n].event = k /\ finishing'[n].sync_done \in {0, e}
      BY <1>3, <1>4, <1>9, <2>2 DEF FinisherOK
    <2> QED
      BY <1>8, <2>1, <2>2
  <1>14. CallsSeen(n)'
    BY <1>3, <1>6, <1>9, CallsKept
  <1>15. Follows(n)'
    <2> SUFFICES ASSUME view'[n].stale = 0
                 PROVE  /\ w >= EpochAt(k)
                        /\ StateAt(v) = "sync" => k + 1 <= 3 * w
      <3>1. next_event'[n] - 1 = k
        BY <1>3, <1>9
      <3> QED
        BY <1>9, <3>1 DEF Follows
    <2>1. k <= v
      BY <1>3, <1>4, <1>6
    <2>2. EpochAt(k) <= w
      BY <1>3, <2>1, EpochMonotone DEF w
    <2> QED
      BY <1>3, <1>4, <1>7, <2>1, <2>2 DEF e
  <1>16. Pending(n)'
    <2>1. next_event'[n] = Position + 1 => k = Position
      BY <1>3, <1>9
    <2> QED
      BY <1>4, <1>5, <2>1 DEF Pending
  <1>17. Attesting(n)'
    <2>1. next_event'[n] >= 3 * epoch => e = epoch
      BY <1>3, <1>4, <1>9
    <2> QED
      BY <1>5, <1>8, <2>1 DEF Attesting, Members
  <1> QED
    BY <1>1, <1>6, <1>10, <1>11, <1>12, <1>13, <1>14, <1>15, <1>16, <1>17 DEF NodeStep, NodeOK

(* A node stops: of what it has promised, the finisher's attestation is    *)
(* repeated with the event, and only that of a sync task is lost.          *)
LEMMA StopFacts ==
  ASSUME ChainInv, NodeType, NEW n \in Drivers, NodeOK(n), Stop(n), UNCHANGED epochVars,
         view' \in [Drivers -> [at: Nat, stale: Nat]],
         \A m \in Drivers \ {n} : view'[m] = view[m],
         view'[n].at >= view[n].at, view'[n].at <= Position,
         view'[n].stale = 0 => view[n].stale = 0
  PROVE  NodeType' /\ NodeOK(n)' /\ \A m \in Drivers \ {n} : NodeSame(m)
  <1> DEFINE k == next_event[n]
             f == FirstIncomplete(n)
  <1>1. /\ phase' = [phase EXCEPT ![n] = "down"]
        /\ next_event' = [next_event EXCEPT ![n] = f]
        /\ finishing' = [finishing EXCEPT ![n] = NoTask]
        /\ calls' = [calls EXCEPT ![n] = NoCalls]
        /\ owed' = [owed EXCEPT ![n] = {}]
        /\ lost' = [lost EXCEPT ![n] = @ \cup owed[n]]
        /\ UNCHANGED <<tracked, transitioning, catching_up, syncing, unscheduled>>
    BY DEF Stop
  <1>2. /\ k \in Nat /\ view[n].at \in Nat /\ view'[n].at \in Nat /\ tracked[n] \in Nat
        /\ finishing[n].event \in Nat /\ finishing[n].sync_done \in Nat
        /\ owed[n] \in SUBSET Nat /\ lost[n] \in SUBSET Nat
        /\ Position \in Nat /\ epoch \in Nat
    BY NodeValues, PositionFacts
  <1>3. /\ k >= 1 /\ k <= view[n].at + 1 /\ tracked[n] <= EpochAt(view[n].at)
        /\ finishing[n] = NoTask \/ (finishing[n].event >= 1 /\ finishing[n].event < k)
        /\ finishing[n].sync_done # 0 => finishing[n].event = 3 * finishing[n].sync_done - 1
    BY DEF NodeOK, EventsSeen, FinisherOK
  <1>4. f \in Nat /\ f >= 1 /\ f <= k
    BY <1>2, <1>3 DEF FirstIncomplete
  <1>5. finishing[n].sync_done # 0 => f = 3 * finishing[n].sync_done - 1
    BY <1>2, <1>3 DEF FirstIncomplete, NoTask
  <1> HIDE DEF f
  <1>6. /\ phase'[n] = "down" /\ next_event'[n] = f /\ finishing'[n] = NoTask
        /\ calls'[n] = NoCalls /\ owed'[n] = {} /\ lost'[n] = lost[n] \cup owed[n]
        /\ tracked'[n] = tracked[n] /\ syncing'[n] = syncing[n]
    BY <1>1 DEF NodeType
  <1>7. /\ Position' = Position /\ epoch' = epoch /\ epoch_state' = epoch_state
        /\ committee' = committee /\ last_epoch_sync_done' = last_epoch_sync_done
    BY SameChain
  <1>8. NodeType'
    <2>1. /\ phase' \in [Drivers -> {"down", "idle", "change"}]
          /\ next_event' \in [Drivers -> Nat]
          /\ finishing' \in [Drivers -> [event: Nat, sync_done: Nat]]
      BY <1>1, <1>4 DEF NodeType, NoTask
    <2>2. /\ calls' \in [Drivers -> [Kinds -> [epoch: Nat, stage: Stages]]]
          /\ owed' \in [Drivers -> SUBSET Nat]
          /\ lost' \in [Drivers -> SUBSET Nat]
      BY <1>1, <1>2, CallTypes DEF NodeType
    <2>3. UNCHANGED <<tracked, transitioning, catching_up, syncing, unscheduled>>
      BY <1>1
    <2> QED
      BY <2>1, <2>2, <2>3 DEF NodeType
  <1>9. \A m \in Drivers \ {n} : NodeSame(m)
    BY <1>1 DEF NodeType, NodeSame
  <1>10. EventsSeen(n)'
    <2>1. EpochAt(view[n].at) <= EpochAt(view'[n].at) /\ EpochAt(view[n].at) \in Nat
          /\ EpochAt(view'[n].at) \in Nat
      BY <1>2, EpochMonotone, EventAt
    <2>2. tracked'[n] <= EpochAt(view'[n].at)
      BY <2>1, <1>2, <1>3, <1>6
    <2> QED
      BY <1>2, <1>3, <1>4, <1>6, <1>7, <2>2 DEF EventsSeen
  <1>11. FinisherOK(n)'
    BY <1>6 DEF FinisherOK, NoTask
  <1>12. CallsSeen(n)'
    BY <1>6, CallTypes DEF CallsSeen
  <1>13. Follows(n)' /\ Pending(n)'
    BY <1>6 DEF Follows, Pending
  <1>14. Attesting(n)'
    <2> SUFFICES ASSUME view[n].stale = 0, n \in Members(committee), f >= 3 * epoch,
                        epoch \notin lost[n], epoch \notin owed[n]
                 PROVE  last_epoch_sync_done[n] = epoch \/ syncing[n] = epoch
      BY <1>6, <1>7 DEF Attesting, Members
    <2>1. k >= 3 * epoch
      BY <1>2, <1>4
    <2>2. last_epoch_sync_done[n] = epoch \/ finishing[n].sync_done = epoch \/ syncing[n] = epoch
      BY <2>1 DEF NodeOK, Attesting
    <2>3. CASE epoch = 0
      BY <2>3, DriversAssumption DEF ChainInv, EpochInv, EpochType, SyncDoneNotAhead
    <2>4. CASE epoch # 0
      BY <1>2, <1>5, <2>2, <2>4
    <2> QED
      BY <2>3, <2>4
  <1> QED
    BY <1>8, <1>9, <1>10, <1>11, <1>12, <1>13, <1>14 DEF NodeOK

(* A panic or an error after a read that goes back.                        *)
LEMMA FailStep ==
  ASSUME ChainInv, NodeType, NEW n \in Drivers, NodeOK(n), NEW v \in 0 .. Position, NEW why,
         Fail(n, why, v), view[n].stale # 0 \/ v < view[n].at
  PROVE  NodeStep(n)
  <1>1. Read(n, v) /\ Stop(n) /\ UNCHANGED epochVars
    BY DEF Fail
  <1>2. v \in Nat /\ v <= Position /\ view[n].at \in Nat /\ view[n].at <= Position
    BY PositionFacts, NodeValues DEF NodeOK, EventsSeen
  <1>3. /\ view' \in [Drivers -> [at: Nat, stale: Nat]]
        /\ \A m \in Drivers \ {n} : view'[m] = view[m]
        /\ view'[n].at \in {view[n].at, v}
        /\ view'[n].at >= view[n].at
        /\ view'[n].stale = 0 => view[n].stale = 0 /\ view[n].at <= v
    BY <1>1, <1>2, ReadFacts
  <1>4. view'[n].stale # 0
    BY <1>2, <1>3
  <1>5. view'[n].at <= Position
    BY <1>2, <1>3
  <1>6. NodeType' /\ NodeOK(n)' /\ \A m \in Drivers \ {n} : NodeSame(m)
    BY <1>1, <1>3, <1>5, StopFacts
  <1> QED
    BY <1>4, <1>6 DEF NodeStep

(* The errors of begin_committee_change.                                   *)
LEMMA FailChangeStep ==
  ASSUME ChainInv, NodeType, NEW n \in Drivers, NodeOK(n), NEW v \in 0 .. Position,
         FailEpochChange(n, v)
  PROVE  NodeStep(n)
  <1> DEFINE k == next_event[n]
             e == EpochAt(k)
  <1>1. /\ phase[n] = "change" /\ e # tracked[n]
        /\ EpochAt(v) < e \/ (EpochAt(v) = e /\ e # tracked[n] + 1)
        /\ Fail(n, "begin_committee_change", v)
    BY DEF FailEpochChange
  <1>2. /\ e \in Nat /\ e <= EpochAt(view[n].at)
        /\ view[n].stale = 0 => tracked[n] >= e - 1
    BY <1>1, ChangeFacts
  <1>3. v \in Nat /\ view[n].at \in Nat /\ view[n].stale \in Nat /\ tracked[n] \in Nat
    BY PositionFacts, NodeValues
  <1>4. EpochAt(v) \in Nat /\ EpochAt(view[n].at) \in Nat /\ tracked[n] <= EpochAt(view[n].at)
    BY <1>3, EventAt DEF NodeOK, EventsSeen
  <1>5. view[n].at <= v => EpochAt(view[n].at) <= EpochAt(v)
    BY <1>3, EpochMonotone
  <1> HIDE DEF e
  <1>6. view[n].stale # 0 \/ v < view[n].at
    BY <1>1, <1>2, <1>3, <1>4, <1>5
  <1> QED
    BY <1>1, <1>6, FailStep

(* An epoch change is only skipped after a read that went back.            *)
LEMMA SkipStep ==
  ASSUME ChainInv, NodeType, NEW n \in Drivers, NodeOK(n), NEW v \in 0 .. Position,
         SkipEpochChange(n, v)
  PROVE  NodeStep(n)
  <1> DEFINE k == next_event[n]
             e == EpochAt(k)
  <1>1. /\ phase[n] = "change" /\ Read(n, v) /\ e = tracked[n] + 1 /\ transitioning[n]
        /\ phase' = [phase EXCEPT ![n] = "idle"]
        /\ next_event' = [next_event EXCEPT ![n] = @ + 1]
        /\ unscheduled' = [unscheduled EXCEPT ![n] = FALSE]
        /\ UNCHANGED <<epochVars, tracked, transitioning, catching_up, calls, finishing, syncing,
                       owed, lost>>
    BY DEF SkipEpochChange, BeginChange, Handled
  <1>2. /\ k \in Nat /\ view[n].at \in Nat /\ view[n].stale \in Nat /\ tracked[n] \in Nat
        /\ finishing[n].event \in Nat
        /\ Position \in Nat /\ epoch \in Nat /\ v \in Nat
    BY NodeValues, PositionFacts
  <1>3. /\ e \in Nat /\ e >= 1 /\ k = 3 * e - 1
        /\ k <= view[n].at /\ view[n].at <= Position
    BY <1>1, ChangeFacts
  <1>4. view[n].stale # 0
    BY <1>1, <1>2, <1>3 DEF NodeOK, Follows
  <1>5. /\ view' \in [Drivers -> [at: Nat, stale: Nat]]
        /\ \A m \in Drivers \ {n} : view'[m] = view[m]
        /\ view'[n].at \in {view[n].at, v}
        /\ view'[n].at >= view[n].at /\ view'[n].at >= v
        /\ view'[n].stale = 0 => view[n].stale = 0 /\ view[n].at <= v
    BY <1>1, <1>2, ReadFacts
  <1>6. Position' = Position
    BY <1>1, SameChain
  <1>7. /\ phase'[n] = "idle" /\ next_event'[n] = k + 1 /\ tracked'[n] = tracked[n]
        /\ calls'[n] = calls[n] /\ finishing'[n] = finishing[n]
    BY <1>1 DEF NodeType
  <1>8. NodeType'
    <2>1. /\ phase' \in [Drivers -> {"down", "idle", "change"}]
          /\ next_event' \in [Drivers -> Nat]
          /\ unscheduled' \in [Drivers -> BOOLEAN]
      BY <1>1 DEF NodeType
    <2>2. UNCHANGED <<tracked, transitioning, catching_up, calls, finishing, syncing, owed, lost>>
      BY <1>1
    <2> QED
      BY <2>1, <2>2, <1>5 DEF NodeType
  <1>9. \A m \in Drivers \ {n} : NodeSame(m)
    BY <1>1, <1>5 DEF NodeType, NodeSame
  <1>10. EventsSeen(n)'
    <2>1. EpochAt(view[n].at) <= EpochAt(view'[n].at) /\ EpochAt(view[n].at) \in Nat
          /\ EpochAt(view'[n].at) \in Nat
      BY <1>2, <1>5, EpochMonotone, EventAt
    <2>2. tracked'[n] <= EpochAt(view'[n].at)
      BY <2>1, <1>2, <1>7 DEF NodeOK, EventsSeen
    <2> QED
      BY <1>2, <1>3, <1>5, <1>6, <1>7, <2>2 DEF EventsSeen
  <1>11. FinisherOK(n)'
    BY <1>2, <1>7 DEF NodeOK, FinisherOK
  <1>12. CallsSeen(n)'
    BY <1>2, <1>5, <1>7, CallsKept
  <1>13. Follows(n)' /\ Pending(n)' /\ Attesting(n)'
    BY <1>4, <1>5 DEF Follows, Pending, Attesting
  <1> QED
    BY <1>4, <1>5, <1>8, <1>9, <1>10, <1>11, <1>12, <1>13 DEF NodeStep, NodeOK

(* EpochChangeDone: voting for the next epoch may end from here on.  When  *)
(* it is the contract's last event, it is of the tracked epoch.            *)
LEMMA DoneStep ==
  ASSUME ChainInv, NodeType, NEW n \in Drivers, NodeOK(n), NEW v \in 0 .. Position,
         HandleEpochChangeDone(n, v)
  PROVE  NodeStep(n)
  <1> DEFINE k == next_event[n]
             e == EpochAt(k)
             c == [calls[n] EXCEPT !["end_voting"] = Scheduled(e + 1)]
  <1>1. /\ phase[n] = "idle" /\ k <= Position /\ StateAt(k) = "done"
        /\ Read(n, v) /\ WaitForEpochState(k, v) /\ e <= tracked[n]
        /\ transitioning' = [transitioning EXCEPT ![n] = @ /\ e # tracked[n]]
        /\ phase' = [phase EXCEPT ![n] = "idle"]
        /\ next_event' = [next_event EXCEPT ![n] = @ + 1]
        /\ unscheduled' = [unscheduled EXCEPT ![n] = FALSE]
        /\ UNCHANGED <<epochVars, tracked, catching_up, finishing, syncing, owed, lost, failure>>
    BY DEF HandleEpochChangeDone, Event, Handled
  <1>2. \/ e = tracked[n] /\ calls' = [calls EXCEPT ![n] = c]
        \/ e # tracked[n] /\ UNCHANGED calls
    BY DEF HandleEpochChangeDone, EndsChange
  <1>3. /\ k \in Nat /\ view[n].at \in Nat /\ view[n].stale \in Nat /\ tracked[n] \in Nat
        /\ transitioning[n] \in BOOLEAN
        /\ calls[n] \in [Kinds -> [epoch: Nat, stage: Stages]]
        /\ Position \in Nat /\ epoch \in Nat /\ v \in Nat
        /\ EpochAt(Position) = epoch /\ StateAt(Position) = epoch_state
    BY NodeValues, PositionFacts
  <1>4. e \in Nat /\ k = 3 * e /\ k <= v
    BY <1>1, <1>3, EventAt, WaitFacts
  <1>5. /\ Position' = Position /\ epoch' = epoch /\ epoch_state' = epoch_state
        /\ committee' = committee /\ last_epoch_sync_done' = last_epoch_sync_done
    BY <1>1, SameChain
  <1>6. /\ view' \in [Drivers -> [at: Nat, stale: Nat]]
        /\ \A m \in Drivers \ {n} : view'[m] = view[m]
        /\ view'[n].at \in {view[n].at, v}
        /\ view'[n].at >= view[n].at /\ view'[n].at >= v
        /\ view'[n].stale = 0 => view[n].stale = 0 /\ view[n].at <= v
    BY <1>1, <1>3, ReadFacts
  <1>7. /\ c \in [Kinds -> [epoch: Nat, stage: Stages]]
        /\ c["end_voting"] = Scheduled(e + 1)
        /\ c["epoch_change_start"] = calls[n]["epoch_change_start"]
    BY <1>3, <1>4, CallTypes DEF Kinds
  <1> HIDE DEF c, e
  <1>8. /\ calls' \in [Drivers -> [Kinds -> [epoch: Nat, stage: Stages]]]
        /\ \A m \in Drivers \ {n} : calls'[m] = calls[m]
        /\ calls'[n] = calls[n] \/ calls'[n] = c
        /\ e = tracked[n] => calls'[n] = c
    <2>1. CASE e = tracked[n] /\ calls' = [calls EXCEPT ![n] = c]
      BY <1>7, <2>1 DEF NodeType
    <2>2. CASE e # tracked[n] /\ UNCHANGED calls
      BY <2>2 DEF NodeType
    <2> QED
      BY <1>2, <2>1, <2>2
  <1>9. /\ phase'[n] = "idle" /\ next_event'[n] = k + 1 /\ tracked'[n] = tracked[n]
        /\ transitioning'[n] = (transitioning[n] /\ e # tracked[n])
        /\ finishing'[n] = finishing[n]
        /\ syncing'[n] = syncing[n] /\ owed'[n] = owed[n] /\ lost'[n] = lost[n]
    BY <1>1 DEF NodeType
  <1>10. NodeType'
    <2>1. /\ phase' \in [Drivers -> {"down", "idle", "change"}]
          /\ next_event' \in [Drivers -> Nat]
          /\ unscheduled' \in [Drivers -> BOOLEAN]
          /\ transitioning' \in [Drivers -> BOOLEAN]
      BY <1>1 DEF NodeType
    <2>2. UNCHANGED <<tracked, catching_up, finishing, syncing, owed, lost>>
      BY <1>1
    <2> QED
      BY <2>1, <2>2, <1>6, <1>8 DEF NodeType
  <1>11. \A m \in Drivers \ {n} : NodeSame(m)
    BY <1>1, <1>6, <1>8 DEF NodeType, NodeSame
  <1>12. EventsSeen(n)'
    <2>1. EpochAt(view[n].at) <= EpochAt(view'[n].at) /\ EpochAt(view[n].at) \in Nat
          /\ EpochAt(view'[n].at) \in Nat
      BY <1>3, <1>6, EpochMonotone, EventAt
    <2>2. tracked'[n] <= EpochAt(view'[n].at)
      BY <2>1, <1>3, <1>9 DEF NodeOK, EventsSeen
    <2> QED
      BY <1>3, <1>4, <1>5, <1>6, <1>9, <2>2 DEF NodeOK, EventsSeen
  <1>13. FinisherOK(n)'
    BY <1>3, <1>9, NodeValues DEF NodeOK, FinisherOK
  <1>14. CallsSeen(n)'
    <2>1. CASE calls'[n] = calls[n]
      BY <1>3, <1>6, <2>1, CallsKept
    <2>2. CASE calls'[n] = c
      <3>1. view'[n].at \in Nat /\ k <= view'[n].at /\ view[n].at <= view'[n].at
        BY <1>3, <1>4, <1>6
      <3>2. \/ calls[n]["epoch_change_start"] = NoCall
            \/ /\ calls[n]["epoch_change_start"].epoch \in Nat
               /\ calls[n]["epoch_change_start"].epoch >= 1
               /\ DueAt("epoch_change_start", calls[n]["epoch_change_start"].epoch) <= view[n].at
        BY <1>3, CallTypes DEF NodeOK, CallsSeen
      <3>3. \/ c["epoch_change_start"] = NoCall
            \/ /\ c["epoch_change_start"].epoch >= 1
               /\ DueAt("epoch_change_start", c["epoch_change_start"].epoch) <= view'[n].at
        BY <1>3, <1>7, <3>1, <3>2 DEF DueAt
      <3>4. DueAt("end_voting", e + 1) = k
        BY <1>4 DEF DueAt
      <3>5. /\ c["end_voting"].epoch >= 1
            /\ DueAt("end_voting", c["end_voting"].epoch) <= view'[n].at
        BY <1>4, <1>7, <3>1, <3>4, CallTypes
      <3> QED
        BY <2>2, <3>3, <3>5 DEF CallsSeen, Kinds
    <2> QED
      BY <1>8, <2>1, <2>2
  <1>15. Follows(n)'
    <2>1. next_event'[n] - 1 = k
      BY <1>3, <1>9
    <2>2. tracked[n] >= EpochAt(k)
      BY <1>1, <1>3, <1>4 DEF e
    <2>3. e <= tracked[n] /\ tracked[n] \in Nat /\ e \in Nat /\ k = 3 * e
      BY <1>1, <1>3, <1>4
    <2>4. e # tracked[n] => k + 1 <= 3 * tracked[n]
      <3> HIDE DEF e, k
      <3> QED
        BY <2>3
    <2> QED
      BY <1>9, <2>1, <2>2, <2>4 DEF Follows
  <1>16. Pending(n)'
    <2>1. next_event'[n] = Position + 1 => k = Position
      BY <1>3, <1>9
    <2>2. EpochAt(view[n].at) <= epoch /\ EpochAt(view[n].at) \in Nat
          /\ tracked[n] <= EpochAt(view[n].at)
      BY <1>3, EpochMonotone, EventAt DEF NodeOK, EventsSeen
    <2>3. k = Position => epoch_state = "done" /\ e = epoch /\ e = tracked[n]
      BY <1>1, <1>3, <2>2 DEF e
    <2> QED
      BY <1>5, <1>3, <1>7, <1>8, <1>9, <2>1, <2>3, CallTypes DEF Pending
  <1>17. Attesting(n)'
    <2>1. next_event'[n] >= 3 * epoch => next_event[n] >= 3 * epoch
      BY <1>3, <1>4, <1>9
    <2> QED
      BY <1>5, <1>6, <1>9, <2>1 DEF NodeOK, Attesting, Members
  <1> QED
    BY <1>1, <1>6, <1>10, <1>11, <1>12, <1>13, <1>14, <1>15, <1>16, <1>17 DEF NodeStep, NodeOK

(* EpochChangeDone of an epoch that is not tracked yet.                    *)
LEMMA FailDoneStep ==
  ASSUME ChainInv, NodeType, NEW n \in Drivers, NodeOK(n), NEW v \in 0 .. Position,
         FailEpochChangeDone(n, v)
  PROVE  NodeStep(n)
  <1> DEFINE k == next_event[n]
             e == EpochAt(k)
  <1>1. /\ phase[n] = "idle" /\ StateAt(k) = "done" /\ e > tracked[n]
        /\ Fail(n, "end_committee_change", v)
    BY DEF FailEpochChangeDone
  <1>2. k \in Nat /\ tracked[n] \in Nat /\ k >= 1
    BY NodeValues DEF NodeOK, EventsSeen
  <1>3. e \in Nat /\ k = 3 * e
    BY <1>1, <1>2, EventAt
  <1>4. e >= 1 /\ k - 1 = 3 * e - 1
    BY <1>2, <1>3
  <1>5. EpochAt(3 * e - 1) = e
    BY <1>3, <1>4, EpochOf
  <1>6. view[n].stale # 0
    BY <1>1, <1>2, <1>3, <1>4, <1>5 DEF NodeOK, Follows
  <1> QED
    BY <1>1, <1>6, FailStep

-----------------------------------------------------------------------------
(* Tasks.                                                                  *)

(* epoch_sync_done takes effect, or it has before, unless it is too late.  *)
LEMMA SyncDoneFacts ==
  ASSUME ChainInv, NodeType, NEW n \in Drivers, NodeOK(n), NEW e \in Nat, CallEpochSyncDone(n, e)
  PROVE  /\ EpochNext \/ UNCHANGED epochVars
         /\ ChainInv' /\ ChainStep
         /\ epoch' = epoch /\ committee' = committee
         /\ e = epoch => last_epoch_sync_done'[n] = epoch
  <1>1. /\ n \in Nodes /\ epoch \in Nat /\ last_epoch_sync_done \in [Nodes -> Nat]
        /\ last_epoch_sync_done[n] <= epoch
    BY DriversAssumption DEF ChainInv, EpochInv, EpochType, SyncDoneNotAhead
  <1>2. tracked[n] \in Nat /\ tracked[n] <= epoch
    <2>1. /\ view[n].at \in Nat /\ tracked[n] \in Nat /\ view[n].at <= Position
          /\ tracked[n] <= EpochAt(view[n].at)
          /\ Position \in Nat /\ EpochAt(Position) = epoch
      BY NodeValues, PositionFacts DEF NodeOK, EventsSeen
    <2>2. EpochAt(view[n].at) <= epoch /\ EpochAt(view[n].at) \in Nat
      BY <2>1, EpochMonotone, EventAt
    <2> QED
      BY <1>1, <2>1, <2>2
  <1>3. CASE EpochSyncDone(n, e)
    <2>1. /\ e = epoch /\ epoch' = epoch /\ committee' = committee
          /\ last_epoch_sync_done' = [last_epoch_sync_done EXCEPT ![n] = epoch]
      BY <1>3 DEF EpochSyncDone, RememberSyncDone
    <2>2. EpochNext
      BY <1>1, <1>3, <2>1 DEF EpochNext
    <2>3. ChainInv' /\ ChainStep
      BY <2>2, ChainStepHolds
    <2> QED
      BY <1>1, <2>1, <2>2, <2>3
  <1>4. CASE /\ e < tracked[n] \/ e < epoch \/ e <= last_epoch_sync_done[n]
             /\ UNCHANGED epochVars
    <2>1. ChainInv' /\ ChainStep
      BY <1>4, ChainStepHolds
    <2>2. epoch' = epoch /\ committee' = committee /\ last_epoch_sync_done' = last_epoch_sync_done
      BY <1>4, SameChain
    <2>3. e = epoch => last_epoch_sync_done[n] = epoch
      BY <1>1, <1>2, <1>4
    <2> QED
      BY <1>4, <2>1, <2>2, <2>3
  <1> QED
    BY <1>3, <1>4 DEF CallEpochSyncDone

(* The finisher task has attested.                                         *)
LEMMA FinisherStep ==
  ASSUME ChainInv, NodeType, NEW n \in Drivers, NodeOK(n), FinisherSyncDone(n)
  PROVE  ChainInv' /\ ChainStep /\ NodeStep(n)
  <1> DEFINE d == finishing[n].sync_done
  <1>1. /\ d # 0 /\ CallEpochSyncDone(n, d)
        /\ finishing' = [finishing EXCEPT ![n].sync_done = 0]
        /\ UNCHANGED <<phase, next_event, view, tracked, transitioning, catching_up, calls, syncing,
                       owed, unscheduled, lost, failure>>
    BY DEF FinisherSyncDone
  <1>2. d \in Nat /\ finishing[n].event \in Nat /\ finishing[n] \in [event: Nat, sync_done: Nat]
    BY NodeValues
  <1>3. /\ ChainInv' /\ ChainStep /\ epoch' = epoch /\ committee' = committee
        /\ d = epoch => last_epoch_sync_done'[n] = epoch
    BY <1>1, <1>2, SyncDoneFacts
  <1>4. /\ finishing' \in [Drivers -> [event: Nat, sync_done: Nat]]
        /\ finishing'[n].event = finishing[n].event /\ finishing'[n].sync_done = 0
        /\ \A m \in Drivers \ {n} : finishing'[m] = finishing[m]
    BY <1>1, <1>2 DEF NodeType
  <1>5. NodeType'
    BY <1>1, <1>4 DEF NodeType
  <1>6. \A m \in Drivers \ {n} : NodeSame(m)
    BY <1>1, <1>4 DEF NodeSame
  <1>7. EventsSeen(n)' /\ CallsSeen(n)' /\ Follows(n)' /\ Pending(n)'
    BY <1>1, <1>3, DriverKept
  <1>8. FinisherOK(n)'
    BY <1>1, <1>4 DEF NodeOK, FinisherOK, NoTask
  <1>9. Attesting(n)'
    BY <1>1, <1>3, <1>4, DriversAssumption DEF NodeOK, Attesting, Members, ChainStep
  <1> QED
    BY <1>1, <1>3, <1>5, <1>6, <1>7, <1>8, <1>9 DEF NodeStep, NodeOK

(* The finisher task is done.                                              *)
LEMMA FinishChangeStep ==
  ASSUME ChainInv, NodeType, NEW n \in Drivers, NodeOK(n), FinishEpochChange(n)
  PROVE  NodeStep(n)
  <1>1. /\ finishing[n].sync_done = 0
        /\ finishing' = [finishing EXCEPT ![n] = NoTask]
        /\ UNCHANGED <<epochVars, phase, next_event, view, tracked, transitioning, catching_up,
                       calls, syncing, owed, unscheduled, lost, failure>>
    BY DEF FinishEpochChange
  <1>2. /\ finishing' \in [Drivers -> [event: Nat, sync_done: Nat]]
        /\ finishing'[n] = NoTask
        /\ \A m \in Drivers \ {n} : finishing'[m] = finishing[m]
    BY <1>1 DEF NodeType, NoTask
  <1>3. ChainInv' /\ ChainStep
    BY <1>1, ChainStepHolds
  <1>4. /\ epoch' = epoch /\ committee' = committee
        /\ last_epoch_sync_done' = last_epoch_sync_done
    BY <1>1, SameChain
  <1>5. NodeType'
    BY <1>1, <1>2 DEF NodeType
  <1>6. \A m \in Drivers \ {n} : NodeSame(m)
    BY <1>1, <1>2 DEF NodeSame
  <1>7. EventsSeen(n)' /\ CallsSeen(n)' /\ Follows(n)' /\ Pending(n)'
    BY <1>1, <1>3, DriverKept
  <1>8. FinisherOK(n)'
    BY <1>2 DEF FinisherOK, NoTask
  <1>9. Attesting(n)'
    BY <1>1, <1>2, <1>4 DEF NodeOK, Attesting, Members, NoTask
  <1> QED
    BY <1>1, <1>5, <1>6, <1>7, <1>8, <1>9 DEF NodeStep, NodeOK

(* The last shard is synced.                                               *)
LEMMA FinishSyncStep ==
  ASSUME ChainInv, NodeType, NEW n \in Drivers, NodeOK(n), FinishSync(n)
  PROVE  NodeStep(n)
  <1>1. /\ syncing[n] # 0
        /\ owed' = [owed EXCEPT ![n] = @ \cup {syncing[n]}]
        /\ syncing' = [syncing EXCEPT ![n] = 0]
        /\ UNCHANGED <<epochVars, phase, next_event, view, tracked, transitioning, catching_up,
                       calls, finishing, unscheduled, lost, failure>>
    BY DEF FinishSync
  <1>2. /\ owed' \in [Drivers -> SUBSET Nat] /\ syncing' \in [Drivers -> Nat]
        /\ owed'[n] = owed[n] \cup {syncing[n]}
        /\ \A m \in Drivers \ {n} : owed'[m] = owed[m] /\ syncing'[m] = syncing[m]
    <2>1. owed[n] \cup {syncing[n]} \in SUBSET Nat
      BY NodeValues
    <2> QED
      BY <1>1, <2>1 DEF NodeType
  <1>3. ChainInv' /\ ChainStep
    BY <1>1, ChainStepHolds
  <1>4. /\ epoch' = epoch /\ committee' = committee
        /\ last_epoch_sync_done' = last_epoch_sync_done
    BY <1>1, SameChain
  <1>5. NodeType'
    BY <1>1, <1>2 DEF NodeType
  <1>6. \A m \in Drivers \ {n} : NodeSame(m)
    BY <1>1, <1>2 DEF NodeSame
  <1>7. EventsSeen(n)' /\ CallsSeen(n)' /\ Follows(n)' /\ Pending(n)'
    BY <1>1, <1>3, DriverKept
  <1>8. FinisherOK(n)'
    BY <1>1 DEF NodeOK, FinisherOK
  <1>9. Attesting(n)'
    BY <1>1, <1>2, <1>4 DEF NodeOK, Attesting, Members
  <1> QED
    BY <1>1, <1>5, <1>6, <1>7, <1>8, <1>9 DEF NodeStep, NodeOK

(* The task of the last shard has attested.                                *)
LEMMA SyncTaskStep ==
  ASSUME ChainInv, NodeType, NEW n \in Drivers, NodeOK(n), NEW e \in Nat, SyncTaskSyncDone(n, e)
  PROVE  ChainInv' /\ ChainStep /\ NodeStep(n)
  <1>1. /\ CallEpochSyncDone(n, e)
        /\ owed' = [owed EXCEPT ![n] = @ \ {e}]
        /\ UNCHANGED <<phase, next_event, view, tracked, transitioning, catching_up, calls,
                       finishing, syncing, unscheduled, lost, failure>>
    BY DEF SyncTaskSyncDone
  <1>2. /\ owed' \in [Drivers -> SUBSET Nat]
        /\ owed'[n] = owed[n] \ {e}
        /\ \A m \in Drivers \ {n} : owed'[m] = owed[m]
    BY <1>1 DEF NodeType
  <1>3. /\ ChainInv' /\ ChainStep /\ epoch' = epoch /\ committee' = committee
        /\ e = epoch => last_epoch_sync_done'[n] = epoch
    BY <1>1, SyncDoneFacts
  <1>4. NodeType'
    BY <1>1, <1>2 DEF NodeType
  <1>5. \A m \in Drivers \ {n} : NodeSame(m)
    BY <1>1, <1>2 DEF NodeSame
  <1>6. EventsSeen(n)' /\ CallsSeen(n)' /\ Follows(n)' /\ Pending(n)'
    BY <1>1, <1>3, DriverKept
  <1>7. FinisherOK(n)'
    BY <1>1 DEF NodeOK, FinisherOK
  <1>8. Attesting(n)'
    BY <1>1, <1>2, <1>3, DriversAssumption DEF NodeOK, Attesting, Members, ChainStep
  <1> QED
    BY <1>1, <1>3, <1>4, <1>5, <1>6, <1>7, <1>8 DEF NodeStep, NodeOK

-----------------------------------------------------------------------------
(* Scheduled calls, crashes and restarts.                                  *)

(* The contract waits for this call.                                       *)
Required(n, kind) == calls[n][kind].epoch = epoch + 1 /\ epoch_state = ReadyIn(kind)

(* A call moves on to another stage, or ends when it is not needed.        *)
LEMMA StageStep ==
  ASSUME ChainInv, NodeType, NEW n \in Drivers, NodeOK(n), NEW kind \in Kinds,
         view' \in [Drivers -> [at: Nat, stale: Nat]],
         \A m \in Drivers \ {n} : view'[m] = view[m],
         view'[n].at >= view[n].at, view'[n].at <= Position,
         view'[n].stale = 0 => view[n].stale = 0,
         NEW c \in [epoch: Nat, stage: Stages],
         calls' = [calls EXCEPT ![n] = [calls[n] EXCEPT ![kind] = c]],
         \/ calls[n][kind] # NoCall /\ c.epoch = calls[n][kind].epoch
         \/ c = NoCall /\ ~ Required(n, kind),
         UNCHANGED <<epochVars, phase, next_event, tracked, transitioning, catching_up, finishing,
                     syncing, owed, unscheduled, lost, failure>>
  PROVE  NodeStep(n)
  <1>1. /\ next_event[n] \in Nat /\ view[n].at \in Nat /\ view'[n].at \in Nat /\ tracked[n] \in Nat
        /\ calls[n] \in [Kinds -> [epoch: Nat, stage: Stages]]
        /\ Position \in Nat /\ epoch \in Nat
    BY NodeValues, PositionFacts
  <1>2. /\ Position' = Position /\ epoch' = epoch /\ epoch_state' = epoch_state
        /\ committee' = committee /\ last_epoch_sync_done' = last_epoch_sync_done
    BY SameChain
  <1>3. /\ calls' \in [Drivers -> [Kinds -> [epoch: Nat, stage: Stages]]]
        /\ \A m \in Drivers \ {n} : calls'[m] = calls[m]
        /\ calls'[n][kind] = c
        /\ \A other \in Kinds \ {kind} : calls'[n][other] = calls[n][other]
    <2>1. [calls[n] EXCEPT ![kind] = c] \in [Kinds -> [epoch: Nat, stage: Stages]]
      BY <1>1
    <2>2. calls'[n] = [calls[n] EXCEPT ![kind] = c]
      BY DEF NodeType
    <2> QED
      BY <1>1, <2>1, <2>2 DEF NodeType
  <1>4. NodeType'
    BY <1>3 DEF NodeType
  <1>5. \A m \in Drivers \ {n} : NodeSame(m)
    BY <1>3 DEF NodeSame
  <1>6. EventsSeen(n)'
    <2>1. EpochAt(view[n].at) <= EpochAt(view'[n].at) /\ EpochAt(view[n].at) \in Nat
          /\ EpochAt(view'[n].at) \in Nat
      BY <1>1, EpochMonotone, EventAt
    <2>2. tracked[n] <= EpochAt(view'[n].at)
      BY <2>1, <1>1 DEF NodeOK, EventsSeen
    <2> QED
      BY <1>1, <1>2, <2>2 DEF NodeOK, EventsSeen
  <1>7. FinisherOK(n)'
    BY DEF NodeOK, FinisherOK
  <1>8. CallsSeen(n)'
    BY <1>1, <1>3, CallsKept
  <1>9. Follows(n)'
    BY DEF NodeOK, Follows
  <1>10. Pending(n)'
    <2> SUFFICES ASSUME view[n].stale = 0, phase[n] # "down", ~ unscheduled[n],
                        next_event[n] = Position + 1, epoch > 0
                 PROVE  /\ epoch_state = "done" => calls'[n]["end_voting"].epoch = epoch + 1
                        /\ epoch_state = "selected" =>
                             calls'[n]["epoch_change_start"].epoch = epoch + 1
      BY <1>2 DEF Pending
    <2>1. /\ epoch_state = "done" => calls[n]["end_voting"].epoch = epoch + 1
          /\ epoch_state = "selected" => calls[n]["epoch_change_start"].epoch = epoch + 1
      BY DEF NodeOK, Pending
    <2>2. ASSUME NEW k \in Kinds, calls[n][k].epoch = epoch + 1, epoch_state = ReadyIn(k)
          PROVE  calls'[n][k].epoch = epoch + 1
      <3>1. CASE k # kind
        BY <1>3, <2>2, <3>1
      <3>2. CASE k = kind
        BY <1>3, <2>2, <3>2 DEF Required
      <3> QED
        BY <3>1, <3>2
    <2> QED
      BY <2>1, <2>2, CallTypes DEF ReadyIn
  <1>11. Attesting(n)'
    BY <1>2 DEF NodeOK, Attesting, Members
  <1> QED
    BY <1>4, <1>5, <1>6, <1>7, <1>8, <1>9, <1>10, <1>11 DEF NodeStep, NodeOK

(* A call that the contract waits for is not complete in any state so far. *)
LEMMA NotComplete ==
  ASSUME ChainInv, NodeType, NEW n \in Drivers, NEW kind \in Kinds, NEW v \in 0 .. Position,
         IsComplete(kind, calls[n][kind].epoch, v)
  PROVE  ~ Required(n, kind)
  <1> DEFINE e == calls[n][kind].epoch
             w == EpochAt(v)
  <1> SUFFICES ASSUME e = epoch + 1, epoch_state = ReadyIn(kind)
               PROVE  FALSE
    BY DEF Required
  <1>1. /\ Position \in Nat /\ epoch \in Nat /\ v \in Nat /\ v <= Position
        /\ EpochAt(Position) = epoch /\ StateAt(Position) = epoch_state
    BY PositionFacts
  <1>2. w \in Nat /\ w <= epoch
    BY <1>1, EventAt, EpochMonotone
  <1>3. kind = "end_voting" /\ w + 1 = e /\ StateAt(v) = "selected"
    BY <1>1, <1>2 DEF IsComplete
  <1>4. w = epoch
    BY <1>1, <1>2, <1>3
  <1>5. v = 3 * epoch + 1
    BY <1>1, <1>3, <1>4, EventAt
  <1>6. epoch_state = "done"
    BY <1>3 DEF ReadyIn
  <1>7. Position = 3 * epoch
    BY <1>1, <1>6, EventAt
  <1> QED
    BY <1>1, <1>5, <1>7

(* A call that is due is complete or ready in every later state.           *)
LEMMA DueFacts ==
  ASSUME NEW kind \in Kinds, NEW e \in Nat, e >= 1, NEW v \in Nat, DueAt(kind, e) <= v
  PROVE  IsComplete(kind, e, v) \/ (EpochAt(v) + 1 = e /\ StateAt(v) = ReadyIn(kind))
  <1> DEFINE w == EpochAt(v)
  <1>1. /\ w \in Nat
        /\ \/ v = 3 * w - 1 /\ StateAt(v) = "sync"
           \/ v = 3 * w /\ StateAt(v) = "done"
           \/ v = 3 * w + 1 /\ StateAt(v) = "selected"
    BY EventAt
  <1>2. kind = "end_voting" \/ kind = "epoch_change_start"
    BY DEF Kinds
  <1> HIDE DEF w
  <1>3. CASE kind = "end_voting"
    <2>1. 3 * e - 3 <= v
      BY <1>3 DEF DueAt
    <2>2. w >= e \/ (w + 1 = e /\ StateAt(v) \in {"done", "selected"})
      BY <1>1, <2>1
    <2> QED
      BY <1>3, <2>2 DEF IsComplete, ReadyIn, w
  <1>4. CASE kind = "epoch_change_start"
    <2>1. 3 * e - 2 <= v
      BY <1>4 DEF DueAt
    <2>2. w >= e \/ (w + 1 = e /\ StateAt(v) = "selected")
      BY <1>1, <2>1
    <2> QED
      BY <1>4, <2>2 DEF IsComplete, ReadyIn, w
  <1> QED
    BY <1>2, <1>3, <1>4

(* The epoch state is read for a call.                                     *)
LEMMA ReadyStep ==
  ASSUME ChainInv, NodeType, NEW n \in Drivers, NodeOK(n), NEW kind \in Kinds,
         NEW v \in 0 .. Position, TimeUntilReady(n, kind, v)
  PROVE  NodeStep(n)
  <1> DEFINE call == calls[n][kind]
             e == call.epoch
  <1>1. /\ call \in [epoch: Nat, stage: Stages] /\ e \in Nat
        /\ calls[n] \in [Kinds -> [epoch: Nat, stage: Stages]]
        /\ v \in Nat /\ v <= Position /\ view[n].at \in Nat /\ view[n].at <= Position
    BY NodeValues, PositionFacts DEF NodeOK, EventsSeen
  <1>2. call.stage = "read" /\ call # NoCall
    BY DEF TimeUntilReady, NoCall
  <1>3. e >= 1 /\ DueAt(kind, e) <= view[n].at
    BY <1>2 DEF NodeOK, CallsSeen
  <1>4. ASSUME /\ Read(n, v)
               /\ IF IsComplete(kind, e, v) THEN EndCall(n, kind) ELSE SetStage(n, kind, "sleep")
               /\ UNCHANGED <<epochVars, phase, next_event, tracked, transitioning, catching_up,
                              finishing, syncing, owed, unscheduled, lost, failure>>
        PROVE  NodeStep(n)
    <2>1. /\ view' \in [Drivers -> [at: Nat, stale: Nat]]
          /\ \A m \in Drivers \ {n} : view'[m] = view[m]
          /\ view'[n].at \in {view[n].at, v}
          /\ view'[n].at >= view[n].at
          /\ view'[n].stale = 0 => view[n].stale = 0
      BY <1>1, <1>4, ReadFacts
    <2>2. view'[n].at <= Position
      BY <1>1, <2>1
    <2>3. CASE IsComplete(kind, e, v)
      <3>1. ~ Required(n, kind)
        BY <2>3, NotComplete
      <3>2. calls' = [calls EXCEPT ![n] = [calls[n] EXCEPT ![kind] = NoCall]]
        BY <1>4, <2>3 DEF EndCall
      <3>3. NoCall \in [epoch: Nat, stage: Stages]
        BY CallTypes
      <3> QED
        BY <1>4, <2>1, <2>2, <3>1, <3>2, <3>3, StageStep
    <2>4. CASE ~ IsComplete(kind, e, v)
      <3> DEFINE c == [call EXCEPT !.stage = "sleep"]
      <3>1. calls' = [calls EXCEPT ![n] = [calls[n] EXCEPT ![kind] = c]]
        BY <1>4, <2>4 DEF SetStage
      <3>2. c \in [epoch: Nat, stage: Stages] /\ c.epoch = e
        BY <1>1 DEF Stages
      <3> HIDE DEF c
      <3> QED
        BY <1>2, <1>4, <2>1, <2>2, <3>1, <3>2, StageStep
    <2> QED
      BY <2>3, <2>4
  <1>5. ASSUME /\ ~ IsComplete(kind, e, v)
               /\ EpochAt(v) + 1 # e \/ StateAt(v) # ReadyIn(kind)
               /\ Fail(n, "panic", v)
        PROVE  NodeStep(n)
    <2>1. DueAt(kind, e) \in Int
      BY <1>1 DEF DueAt
    <2>2. ~ DueAt(kind, e) <= v
      BY <1>1, <1>3, <1>5, DueFacts
    <2>3. v < view[n].at
      BY <1>1, <1>3, <2>1, <2>2
    <2> QED
      BY <1>5, <2>3, FailStep
  <1> QED
    BY <1>4, <1>5 DEF TimeUntilReady

(* No epoch is tracked that has not begun.                                 *)
LEMMA TrackedFacts ==
  ASSUME ChainInv, NodeType, NEW n \in Drivers, NodeOK(n)
  PROVE  tracked[n] \in Nat /\ epoch \in Nat /\ tracked[n] <= epoch
  <1>1. /\ tracked[n] \in Nat /\ view[n].at \in Nat /\ Position \in Nat /\ epoch \in Nat
        /\ EpochAt(Position) = epoch
        /\ view[n].at <= Position /\ tracked[n] <= EpochAt(view[n].at)
    BY NodeValues, PositionFacts DEF NodeOK, EventsSeen
  <1>2. EpochAt(view[n].at) \in Nat /\ EpochAt(view[n].at) <= EpochAt(Position)
    BY <1>1, EventAt, EpochMonotone
  <1> QED
    BY <1>1, <1>2

(* The last check before a call is sent.                                   *)
LEMMA InvokeStep ==
  ASSUME ChainInv, NodeType, NEW n \in Drivers, NodeOK(n), NEW kind \in Kinds,
         NEW v \in 0 .. Position, Invoke(n, kind, v)
  PROVE  NodeStep(n)
  <1> DEFINE call == calls[n][kind]
             e == call.epoch
             over == IF kind = "end_voting" THEN IsComplete(kind, e, v) ELSE tracked[n] >= e
  <1>1. /\ call \in [epoch: Nat, stage: Stages] /\ e \in Nat
        /\ calls[n] \in [Kinds -> [epoch: Nat, stage: Stages]]
        /\ v \in Nat /\ v <= Position /\ view[n].at \in Nat /\ view[n].at <= Position
    BY NodeValues, PositionFacts DEF NodeOK, EventsSeen
  <1>2. /\ call.stage = "sleep" /\ call # NoCall
        /\ Read(n, v)
        /\ IF over THEN EndCall(n, kind) ELSE SetStage(n, kind, "call")
        /\ UNCHANGED <<epochVars, phase, next_event, tracked, transitioning, catching_up,
                       finishing, syncing, owed, unscheduled, lost, failure>>
    BY DEF Invoke, NoCall
  <1>3. /\ view' \in [Drivers -> [at: Nat, stale: Nat]]
        /\ \A m \in Drivers \ {n} : view'[m] = view[m]
        /\ view'[n].at \in {view[n].at, v}
        /\ view'[n].at >= view[n].at
        /\ view'[n].stale = 0 => view[n].stale = 0
    BY <1>1, <1>2, ReadFacts
  <1>4. view'[n].at <= Position
    BY <1>1, <1>3
  <1>5. CASE over
    <2>1. ~ Required(n, kind)
      <3>1. CASE kind = "end_voting"
        <4>1. IsComplete(kind, e, v)
          BY <1>5, <3>1
        <4> QED
          BY <4>1, NotComplete
      <3>2. CASE kind # "end_voting"
        <4>1. tracked[n] >= e
          BY <1>5, <3>2
        <4>2. tracked[n] \in Nat /\ epoch \in Nat /\ tracked[n] <= epoch
          BY TrackedFacts
        <4>3. e # epoch + 1
          BY <1>1, <4>1, <4>2
        <4> QED
          BY <4>3 DEF Required
      <3> QED
        BY <3>1, <3>2
    <2>2. calls' = [calls EXCEPT ![n] = [calls[n] EXCEPT ![kind] = NoCall]]
      BY <1>2, <1>5 DEF EndCall
    <2>3. NoCall \in [epoch: Nat, stage: Stages]
      BY CallTypes
    <2> HIDE DEF over
    <2> QED
      BY <1>2, <1>3, <1>4, <2>1, <2>2, <2>3, StageStep
  <1>6. CASE ~ over
    <2> DEFINE c == [call EXCEPT !.stage = "call"]
    <2>1. calls' = [calls EXCEPT ![n] = [calls[n] EXCEPT ![kind] = c]]
      BY <1>2, <1>6 DEF SetStage
    <2>2. c \in [epoch: Nat, stage: Stages] /\ c.epoch = e
      BY <1>1 DEF Stages
    <2> HIDE DEF c, over
    <2> QED
      BY <1>2, <1>3, <1>4, <2>1, <2>2, StageStep
  <1> QED
    BY <1>5, <1>6

(* A call that failed starts again.                                        *)
LEMMA RetryStep ==
  ASSUME ChainInv, NodeType, NEW n \in Drivers, NodeOK(n), NEW kind \in Kinds, Retry(n, kind)
  PROVE  NodeStep(n)
  <1> DEFINE call == calls[n][kind]
             c == [call EXCEPT !.stage = "read"]
  <1>1. /\ call \in [epoch: Nat, stage: Stages]
        /\ view[n].at \in Nat /\ view[n].at <= Position
    BY NodeValues DEF NodeOK, EventsSeen
  <1>2. /\ call # NoCall
        /\ calls' = [calls EXCEPT ![n] = [calls[n] EXCEPT ![kind] = c]]
        /\ UNCHANGED <<epochVars, phase, next_event, view, tracked, transitioning, catching_up,
                       finishing, syncing, owed, unscheduled, lost, failure>>
    BY DEF Retry, SetStage, NoCall
  <1>3. c \in [epoch: Nat, stage: Stages] /\ c.epoch = call.epoch
    BY <1>1 DEF Stages
  <1> HIDE DEF c
  <1>4. /\ view' \in [Drivers -> [at: Nat, stale: Nat]]
        /\ \A m \in Drivers \ {n} : view'[m] = view[m]
        /\ view'[n].at >= view[n].at /\ view'[n].at <= Position
        /\ view'[n].stale = 0 => view[n].stale = 0
    BY <1>1, <1>2 DEF NodeType
  <1> QED
    BY <1>2, <1>3, <1>4, StageStep

(* A call that succeeds is followed by an event that is not handled yet.   *)
LEMMA ExecuteStep ==
  ASSUME ChainInv, NodeType, NEW n \in Drivers, NodeOK(n), NEW kind \in Kinds, Execute(n, kind)
  PROVE  ChainInv' /\ ChainStep /\ NodeStep(n)
  <1>1. /\ (\E c \in Committees : VotingEnd(c)) \/ InitiateEpochChange
        /\ calls' = [calls EXCEPT ![n] = [calls[n] EXCEPT ![kind] = NoCall]]
        /\ UNCHANGED <<phase, next_event, view, tracked, transitioning, catching_up, finishing,
                       syncing, owed, unscheduled, lost, failure>>
    BY DEF Execute, EndCall
  <1>2. ChainInv' /\ ChainStep
    BY <1>1, ChainStepHolds DEF EpochNext
  <1>3. /\ Position \in Nat /\ Position' \in Nat /\ epoch \in Nat /\ epoch' \in Nat
        /\ Position <= Position'
        /\ Position' = Position => epoch_state' = epoch_state
    BY <1>2, Chain
  <1>4. epoch_state' # epoch_state
    BY <1>1 DEF VotingEnd, InitiateEpochChange
  <1>5. /\ next_event[n] \in Nat /\ view[n].at \in Nat /\ view[n].at <= Position
        /\ next_event[n] <= view[n].at + 1 /\ calls[n] \in [Kinds -> [epoch: Nat, stage: Stages]]
    BY NodeValues DEF NodeOK, EventsSeen
  <1>6. /\ calls' \in [Drivers -> [Kinds -> [epoch: Nat, stage: Stages]]]
        /\ \A m \in Drivers \ {n} : calls'[m] = calls[m]
        /\ \A k \in Kinds : calls'[n][k] \in {NoCall, calls[n][k]}
    <2>1. [calls[n] EXCEPT ![kind] = NoCall] \in [Kinds -> [epoch: Nat, stage: Stages]]
      BY <1>5, CallTypes
    <2>2. calls'[n] = [calls[n] EXCEPT ![kind] = NoCall]
      BY <1>1 DEF NodeType
    <2> QED
      BY <1>1, <1>5, <2>1, <2>2 DEF NodeType
  <1>7. NodeType'
    BY <1>1, <1>6 DEF NodeType
  <1>8. \A m \in Drivers \ {n} : NodeSame(m)
    BY <1>1, <1>6 DEF NodeSame
  <1>9. EventsSeen(n)'
    BY <1>1, <1>3, <1>5 DEF NodeOK, EventsSeen
  <1>10. FinisherOK(n)'
    BY <1>1 DEF NodeOK, FinisherOK
  <1>11. CallsSeen(n)'
    BY <1>1, <1>5, <1>6, CallsKept
  <1>12. Follows(n)'
    BY <1>1 DEF NodeOK, Follows
  <1>13. Pending(n)'
    <2>1. next_event[n] # Position' + 1
      BY <1>3, <1>4, <1>5
    <2> QED
      BY <1>1, <2>1 DEF Pending
  <1>14. Attesting(n)'
    <2>1. CASE epoch' = epoch
      BY <1>1, <1>2, <2>1, DriversAssumption DEF NodeOK, Attesting, ChainStep, Members
    <2>2. CASE epoch' # epoch
      <3>1. next_event[n] < 3 * epoch'
        BY <1>2, <2>2, NotYetHandled
      <3> QED
        BY <1>1, <1>3, <1>5, <3>1 DEF Attesting
    <2> QED
      BY <2>1, <2>2
  <1> QED
    BY <1>1, <1>2, <1>7, <1>8, <1>9, <1>10, <1>11, <1>12, <1>13, <1>14 DEF NodeStep, NodeOK

(* A crash.                                                                *)
LEMMA CrashStep ==
  ASSUME ChainInv, NodeType, NEW n \in Drivers, NodeOK(n), Crash(n)
  PROVE  NodeStep(n)
  <1>1. Stop(n) /\ UNCHANGED epochVars /\ view' = view /\ failure' = failure
    BY DEF Crash
  <1>2. /\ view' \in [Drivers -> [at: Nat, stale: Nat]]
        /\ \A m \in Drivers \ {n} : view'[m] = view[m]
        /\ view'[n].at >= view[n].at /\ view'[n].at <= Position
        /\ view'[n].stale = 0 => view[n].stale = 0
    BY <1>1, NodeValues DEF NodeType, NodeOK, EventsSeen
  <1>3. NodeType' /\ NodeOK(n)' /\ \A m \in Drivers \ {n} : NodeSame(m)
    BY <1>1, <1>2, StopFacts
  <1> QED
    BY <1>1, <1>2, <1>3 DEF NodeStep

(* The calls that are scheduled at startup are due in the state that was   *)
(* read, and they are those that the contract waits for in that state.     *)
LEMMA RelevantFacts ==
  ASSUME NEW v \in Nat
  PROVE  /\ RelevantCalls(v) \in [Kinds -> [epoch: Nat, stage: Stages]]
         /\ \A kind \in Kinds :
              \/ RelevantCalls(v)[kind] = NoCall
              \/ /\ RelevantCalls(v)[kind].epoch >= 1
                 /\ DueAt(kind, RelevantCalls(v)[kind].epoch) <= v
         /\ EpochAt(v) > 0 => \A kind \in Kinds :
              StateAt(v) = ReadyIn(kind) => RelevantCalls(v)[kind].epoch = EpochAt(v) + 1
  <1> DEFINE w == EpochAt(v)
  <1>1. /\ w \in Nat
        /\ \/ v = 3 * w - 1 /\ StateAt(v) = "sync"
           \/ v = 3 * w /\ StateAt(v) = "done"
           \/ v = 3 * w + 1 /\ StateAt(v) = "selected"
    BY EventAt
  <1>2. \A kind \in Kinds : RelevantCalls(v)[kind] =
          IF w > 0 /\ StateAt(v) = ReadyIn(kind) THEN Scheduled(w + 1) ELSE NoCall
    BY DEF RelevantCalls, IsRelevant, NextEpoch
  <1>3. RelevantCalls(v) \in [Kinds -> [epoch: Nat, stage: Stages]]
    <2>1. Scheduled(w + 1) \in [epoch: Nat, stage: Stages] /\ NoCall \in [epoch: Nat, stage: Stages]
      BY <1>1, CallTypes
    <2> HIDE DEF w
    <2> QED
      BY <2>1 DEF RelevantCalls, NextEpoch, w
  <1>4. Scheduled(w + 1).epoch = w + 1
    BY <1>1, CallTypes
  <1> HIDE DEF w
  <1>5. ASSUME NEW kind \in Kinds, StateAt(v) = ReadyIn(kind)
        PROVE  DueAt(kind, w + 1) <= v
    <2>1. CASE kind = "end_voting"
      BY <1>1, <1>5, <2>1 DEF DueAt, ReadyIn
    <2>2. CASE kind = "epoch_change_start"
      BY <1>1, <1>5, <2>2 DEF DueAt, ReadyIn
    <2> QED
      BY <2>1, <2>2 DEF Kinds
  <1>6. \A kind \in Kinds :
          \/ RelevantCalls(v)[kind] = NoCall
          \/ /\ RelevantCalls(v)[kind].epoch >= 1
             /\ DueAt(kind, RelevantCalls(v)[kind].epoch) <= v
    <2> TAKE kind \in Kinds
    <2>1. CASE w > 0 /\ StateAt(v) = ReadyIn(kind)
      <3>1. RelevantCalls(v)[kind].epoch = w + 1
        BY <1>2, <1>4, <2>1
      <3> QED
        BY <1>1, <1>5, <2>1, <3>1
    <2>2. CASE ~ (w > 0 /\ StateAt(v) = ReadyIn(kind))
      BY <1>2, <2>2
    <2> QED
      BY <2>1, <2>2
  <1>7. w > 0 => \A kind \in Kinds :
          StateAt(v) = ReadyIn(kind) => RelevantCalls(v)[kind].epoch = w + 1
    BY <1>2, <1>4
  <1> QED
    BY <1>3, <1>6, <1>7 DEF w

(* After a restart, the node is again where its last read took it.         *)
LEMMA RestartStep ==
  ASSUME ChainInv, NodeType, NEW n \in Drivers, NodeOK(n), NEW v0 \in 0 .. Position,
         NEW v1 \in 0 .. Position, NEW ok \in BOOLEAN, Restart(n, v0, v1, ok)
  PROVE  NodeStep(n)
  <1> DEFINE k == next_event[n]
             a == view[n].at
             b == view'[n].at
             E == EpochAt(v0)
             c == IF ok THEN RelevantCalls(v1) ELSE NoCalls
  <1>1. /\ k \in Nat /\ a \in Nat /\ view[n].stale \in Nat /\ tracked[n] \in Nat
        /\ k >= 1 /\ k <= a + 1 /\ a <= Position
    BY NodeValues DEF NodeOK, EventsSeen
  <1>2. /\ Position \in Nat /\ epoch \in Nat /\ v0 \in Nat /\ v1 \in Nat
        /\ v0 <= Position /\ v1 <= Position
        /\ EpochAt(Position) = epoch /\ StateAt(Position) = epoch_state
    BY PositionFacts
  <1>3. /\ Position' = Position /\ epoch' = epoch /\ epoch_state' = epoch_state
        /\ committee' = committee /\ last_epoch_sync_done' = last_epoch_sync_done
    BY SameChain DEF Restart
  <1>4. /\ ReadBoth(n, v0, v1)
        /\ phase' = [phase EXCEPT ![n] = "idle"]
        /\ tracked' = [tracked EXCEPT ![n] = E]
        /\ transitioning' = [transitioning EXCEPT ![n] = StateAt(v0) = "sync"]
        /\ calls' = [calls EXCEPT ![n] = c]
        /\ unscheduled' = [unscheduled EXCEPT ![n] = ~ ok]
        /\ syncing' = syncing \/ syncing' = [syncing EXCEPT ![n] = E]
        /\ UNCHANGED <<next_event, catching_up, finishing, owed, lost, failure>>
    BY DEF Restart, RestartSyncs
  <1>5. /\ view' \in [Drivers -> [at: Nat, stale: Nat]]
        /\ \A m \in Drivers \ {n} : view'[m] = view[m]
        /\ b \in {a, v0, v1}
        /\ b >= a /\ b >= v0 /\ b >= v1
        /\ view'[n].stale = 0 => view[n].stale = 0 /\ a <= v0 /\ v0 <= v1
    BY <1>2, <1>4, ReadBothFacts
  <1>6. E \in Nat /\ b \in Nat /\ b <= Position
    BY <1>1, <1>2, <1>5, EventAt
  <1>7. /\ c \in [Kinds -> [epoch: Nat, stage: Stages]]
        /\ \A kind \in Kinds :
             \/ c[kind] = NoCall
             \/ c[kind].epoch >= 1 /\ DueAt(kind, c[kind].epoch) <= v1
        /\ ok /\ EpochAt(v1) > 0 => \A kind \in Kinds :
             StateAt(v1) = ReadyIn(kind) => c[kind].epoch = EpochAt(v1) + 1
    <2>1. CASE ok
      BY <1>2, <2>1, RelevantFacts
    <2>2. CASE ~ ok
      BY <2>2, CallTypes
    <2> QED
      BY <2>1, <2>2
  <1> HIDE DEF c, E
  <1>8. /\ phase'[n] = "idle" /\ next_event'[n] = k /\ tracked'[n] = E
        /\ transitioning'[n] = (StateAt(v0) = "sync")
        /\ calls'[n] = c /\ unscheduled'[n] = ~ ok
        /\ finishing'[n] = finishing[n] /\ owed'[n] = owed[n] /\ lost'[n] = lost[n]
        /\ syncing'[n] \in {syncing[n], E}
    BY <1>4 DEF NodeType
  <1>9. /\ syncing' \in [Drivers -> Nat]
        /\ \A m \in Drivers \ {n} : syncing'[m] = syncing[m]
    <2>1. CASE syncing' = syncing
      BY <2>1 DEF NodeType
    <2>2. CASE syncing' = [syncing EXCEPT ![n] = E]
      BY <1>6, <2>2 DEF NodeType
    <2> QED
      BY <1>4, <2>1, <2>2
  <1>10. NodeType'
    <2>1. /\ phase' \in [Drivers -> {"down", "idle", "change"}]
          /\ tracked' \in [Drivers -> Nat]
          /\ calls' \in [Drivers -> [Kinds -> [epoch: Nat, stage: Stages]]]
      BY <1>4, <1>6, <1>7 DEF NodeType
    <2>2. /\ transitioning' \in [Drivers -> BOOLEAN]
          /\ unscheduled' \in [Drivers -> BOOLEAN]
      BY <1>4 DEF NodeType
    <2>3. UNCHANGED <<next_event, catching_up, finishing, owed, lost>>
      BY <1>4
    <2> QED
      BY <1>5, <1>9, <2>1, <2>2, <2>3 DEF NodeType
  <1>11. \A m \in Drivers \ {n} : NodeSame(m)
    BY <1>4, <1>5, <1>9 DEF NodeType, NodeSame
  <1>12. EventsSeen(n)'
    <2>1. E <= EpochAt(b)
      BY <1>2, <1>5, <1>6, EpochMonotone DEF E
    <2> QED
      BY <1>1, <1>2, <1>3, <1>5, <1>6, <1>8, <2>1 DEF EventsSeen
  <1>13. FinisherOK(n)'
    BY <1>8 DEF NodeOK, FinisherOK
  <1>14. CallsSeen(n)'
    <2> SUFFICES ASSUME NEW kind \in Kinds
                 PROVE  c[kind] = NoCall \/ (c[kind].epoch >= 1 /\ DueAt(kind, c[kind].epoch) <= b)
      BY <1>8 DEF CallsSeen
    <2>1. c[kind].epoch \in Nat
      BY <1>7
    <2>2. DueAt(kind, c[kind].epoch) \in Int
      BY <2>1 DEF DueAt
    <2>3. DueAt(kind, c[kind].epoch) <= v1 => DueAt(kind, c[kind].epoch) <= b
      BY <1>2, <1>5, <1>6, <2>2
    <2> QED
      BY <1>7, <2>3
  <1>15. Follows(n)'
    <2> SUFFICES ASSUME view'[n].stale = 0
                 PROVE  E >= EpochAt(k - 1) /\ (StateAt(v0) = "sync" => k <= 3 * E)
      BY <1>8 DEF Follows
    <2>1. k - 1 \in Nat /\ k - 1 <= v0
      BY <1>1, <1>2, <1>5
    <2>2. EpochAt(k - 1) <= E /\ EpochAt(k - 1) \in Nat
      BY <1>2, <2>1, EpochMonotone, EventAt DEF E
    <2>3. StateAt(v0) = "sync" => v0 = 3 * E - 1
      BY <1>2, EventAt DEF E
    <2> QED
      BY <1>1, <1>2, <1>6, <2>1, <2>2, <2>3
  <1>16. Pending(n)'
    <2> SUFFICES ASSUME view'[n].stale = 0, ok, k = Position + 1, epoch > 0
                 PROVE  /\ epoch_state = "done" => c["end_voting"].epoch = epoch + 1
                        /\ epoch_state = "selected" => c["epoch_change_start"].epoch = epoch + 1
      BY <1>3, <1>8 DEF Pending
    <2>1. v1 = Position
      BY <1>1, <1>2, <1>5
    <2>2. \A kind \in Kinds : epoch_state = ReadyIn(kind) => c[kind].epoch = epoch + 1
      BY <1>2, <1>7, <2>1
    <2> QED
      BY <2>2, CallTypes DEF ReadyIn
  <1>17. Attesting(n)'
    <2> SUFFICES ASSUME view'[n].stale = 0, n \in Members(committee), k >= 3 * epoch,
                        epoch \notin lost[n]
                 PROVE  \/ last_epoch_sync_done[n] = epoch
                        \/ finishing[n].sync_done = epoch
                        \/ syncing'[n] = epoch
                        \/ epoch \in owed[n]
      BY <1>3, <1>8 DEF Attesting, Members
    <2>1. \/ last_epoch_sync_done[n] = epoch \/ finishing[n].sync_done = epoch
          \/ syncing[n] = epoch \/ epoch \in owed[n]
      BY <1>5 DEF NodeOK, Attesting
    <2>2. E <= epoch
      BY <1>2, EpochMonotone DEF E
    <2>3. E >= epoch
      <3>1. CASE epoch = 0
        BY <1>6, <3>1
      <3>2. CASE epoch # 0
        <4>1. 3 * epoch - 1 \in Nat /\ 3 * epoch - 1 <= v0
          BY <1>1, <1>2, <1>5, <3>2
        <4>2. EpochAt(3 * epoch - 1) <= E
          BY <1>2, <4>1, EpochMonotone DEF E
        <4>3. EpochAt(3 * epoch - 1) = epoch
          BY <1>2, <3>2, EpochOf
        <4> QED
          BY <1>2, <1>6, <4>2, <4>3
      <3> QED
        BY <3>1, <3>2
    <2>4. E = epoch
      BY <1>2, <1>6, <2>2, <2>3
    <2> QED
      BY <1>8, <2>1, <2>4
  <1> QED
    BY <1>4, <1>5, <1>10, <1>11, <1>12, <1>13, <1>14, <1>15, <1>16, <1>17 DEF NodeStep, NodeOK

-----------------------------------------------------------------------------
(* The invariant.                                                          *)

(* Genesis: all nodes are up, with nothing handled and nothing to handle.  *)
LEMMA DriverInit == Init => DriverInv
  <1> SUFFICES ASSUME Init
               PROVE  DriverInv
    OBVIOUS
  <1>1. epoch = 0 /\ epoch_state = "done" /\ ChainInv
    BY EpochInitInv DEF Init, EpochInit, ChainInv
  <1>2. Position = 0
    BY <1>1 DEF Position
  <1>3. NodeType
    <2>1. /\ calls \in [Drivers -> [Kinds -> [epoch: Nat, stage: Stages]]]
          /\ finishing \in [Drivers -> [event: Nat, sync_done: Nat]]
      BY CallTypes DEF Init, NoTask
    <2> QED
      BY <2>1 DEF Init, NodeType
  <1>4. ASSUME NEW n \in Drivers
        PROVE  NodeOK(n)
    <2>1. /\ phase[n] = "idle" /\ next_event[n] = 1 /\ view[n].at = 0 /\ tracked[n] = 0
          /\ ~ transitioning[n] /\ calls[n] = NoCalls /\ finishing[n] = NoTask
      BY <1>4 DEF Init
    <2>2. EpochAt(0) = 0
      <3>1. EpochAt(3 * 0) = 0
        BY EpochOf
      <3> QED
        BY <3>1
    <2>3. EventsSeen(n)
      BY <1>2, <2>1, <2>2 DEF EventsSeen
    <2>4. FinisherOK(n)
      BY <2>1 DEF FinisherOK, NoTask
    <2>5. CallsSeen(n)
      BY <2>1, CallTypes DEF CallsSeen
    <2>6. Follows(n)
      BY <2>1, <2>2 DEF Follows
    <2>7. Pending(n)
      BY <1>1 DEF Pending
    <2>8. Attesting(n)
      <3>1. last_epoch_sync_done[n] = 0
        BY <1>4, DriversAssumption DEF Init, EpochInit
      <3> QED
        BY <1>1, <3>1 DEF Attesting
    <2> QED
      BY <2>3, <2>4, <2>5, <2>6, <2>7, <2>8 DEF NodeOK
  <1>5. NoFailure
    BY DEF Init, NoFailure
  <1> QED
    BY <1>1, <1>3, <1>4, <1>5 DEF DriverInv

(* A step of one node leaves the invariant of the others as it is.         *)
LEMMA OneNode ==
  ASSUME DriverInv, NEW n \in Drivers, ChainInv', ChainStep, NodeStep(n)
  PROVE  DriverInv'
  <1>1. NodeType' /\ NodeOK(n)'
    BY DEF NodeStep
  <1>2. \A m \in Drivers : NodeOK(m)'
    <2> TAKE m \in Drivers
    <2>1. CASE m = n
      BY <1>1, <2>1
    <2>2. CASE m # n
      <3>1. NodeSame(m) /\ NodeOK(m) /\ ChainInv /\ NodeType
        BY <2>2 DEF NodeStep, DriverInv
      <3> QED
        BY <3>1, OtherNode
    <2> QED
      BY <2>1, <2>2
  <1>3. NoFailure'
    <2> SUFFICES ASSUME NoStaleReads'
                 PROVE  failure' = "none"
      BY DEF NoFailure
    <2>1. \A m \in Drivers : view'[m].stale = 0
      BY DEF NoStaleReads
    <2>2. \A m \in Drivers : view[m].stale = 0
      BY <2>1 DEF NodeStep, NodeSame
    <2>3. failure' = failure
      BY <2>1 DEF NodeStep
    <2> QED
      BY <2>2, <2>3 DEF DriverInv, NoFailure, NoStaleReads
  <1> QED
    BY <1>1, <1>2, <1>3 DEF DriverInv

(* The contract's other callers and the clock touch no node.               *)
LEMMA NoNode ==
  ASSUME DriverInv, EpochNext \/ UNCHANGED epochVars, UNCHANGED nodeVars
  PROVE  DriverInv'
  <1>1. ChainInv /\ NodeType /\ NoFailure
    BY DEF DriverInv
  <1>2. ChainInv' /\ ChainStep
    BY <1>1, ChainStepHolds
  <1>3. NodeType'
    BY <1>1 DEF NodeType, nodeVars
  <1>4. \A m \in Drivers : NodeOK(m)'
    <2> TAKE m \in Drivers
    <2>1. NodeSame(m) /\ NodeOK(m)
      BY DEF NodeSame, nodeVars, DriverInv
    <2> QED
      BY <1>1, <1>2, <2>1, OtherNode
  <1>5. NoFailure'
    BY <1>1 DEF NoFailure, NoStaleReads, nodeVars
  <1> QED
    BY <1>2, <1>3, <1>4, <1>5 DEF DriverInv

(* Every step preserves the invariant.                                     *)
LEMMA DriverStep ==
  ASSUME DriverInv, [Next]_vars
  PROVE  DriverInv'
  <1>1. ChainInv /\ NodeType /\ \A n \in Drivers : NodeOK(n)
    BY DEF DriverInv
  <1>2. ASSUME NEW n \in Drivers, UNCHANGED epochVars, NodeStep(n)
        PROVE  DriverInv'
    BY <1>1, <1>2, ChainStepHolds, OneNode
  <1>3. ASSUME NEW n \in Drivers, NEW v \in 0 .. Position,
               \/ HandleEpochParametersSelected(n, v) \/ HandleEpochChangeStart(n, v)
               \/ SkipEpochChange(n, v) \/ HandleEpochChangeDone(n, v)
        PROVE  DriverInv'
    <2>1. UNCHANGED epochVars
      BY <1>3 DEF HandleEpochParametersSelected, HandleEpochChangeStart, SkipEpochChange,
                  HandleEpochChangeDone
    <2>2. NodeStep(n)
      BY <1>1, <1>3, SelectedStep, ChangeStartStep, SkipStep, DoneStep
    <2> QED
      BY <1>2, <2>1, <2>2
  <1>4. ASSUME NEW n \in Drivers, NEW v \in 0 .. Position,
               FailEpochChange(n, v) \/ FailEpochChangeDone(n, v)
        PROVE  DriverInv'
    <2>1. UNCHANGED epochVars
      BY <1>4 DEF FailEpochChange, FailEpochChangeDone, Fail
    <2>2. NodeStep(n)
      BY <1>1, <1>4, FailChangeStep, FailDoneStep
    <2> QED
      BY <1>2, <2>1, <2>2
  <1>5. ASSUME NEW n \in Drivers, NEW v \in 0 .. Position, NEW ongoing \in BOOLEAN,
               \/ ExecuteEpochChangeInSync(n, v, ongoing)
               \/ ExecuteEpochChangeCatchingUp(n, v, ongoing)
        PROVE  DriverInv'
    <2>1. UNCHANGED epochVars
      BY <1>5 DEF ExecuteEpochChangeInSync, ExecuteEpochChangeCatchingUp
    <2>2. NodeStep(n)
      BY <1>1, <1>5, InSyncStep, CatchingUpStep
    <2> QED
      BY <1>2, <2>1, <2>2
  <1>6. ASSUME NEW n \in Drivers, FinisherSyncDone(n)
        PROVE  DriverInv'
    BY <1>1, <1>6, FinisherStep, OneNode
  <1>7. ASSUME NEW n \in Drivers, FinishEpochChange(n) \/ FinishSync(n)
        PROVE  DriverInv'
    <2>1. UNCHANGED epochVars
      BY <1>7 DEF FinishEpochChange, FinishSync
    <2>2. NodeStep(n)
      BY <1>1, <1>7, FinishChangeStep, FinishSyncStep
    <2> QED
      BY <1>2, <2>1, <2>2
  <1>8. ASSUME NEW n \in Drivers, NEW e \in 1 .. MaxEpoch, SyncTaskSyncDone(n, e)
        PROVE  DriverInv'
    <2>1. e \in Nat
      BY MaxEpochAssumption
    <2> QED
      BY <1>1, <1>8, <2>1, SyncTaskStep, OneNode
  <1>9. ASSUME NEW n \in Drivers, NEW kind \in Kinds, NEW v \in 0 .. Position,
               TimeUntilReady(n, kind, v) \/ Invoke(n, kind, v)
        PROVE  DriverInv'
    <2>1. UNCHANGED epochVars
      BY <1>9 DEF TimeUntilReady, Invoke, Fail
    <2>2. NodeStep(n)
      BY <1>1, <1>9, ReadyStep, InvokeStep
    <2> QED
      BY <1>2, <2>1, <2>2
  <1>10. ASSUME NEW n \in Drivers, NEW kind \in Kinds, Execute(n, kind)
         PROVE  DriverInv'
    BY <1>1, <1>10, ExecuteStep, OneNode
  <1>11. ASSUME NEW n \in Drivers, NEW kind \in Kinds, Retry(n, kind)
         PROVE  DriverInv'
    <2>1. UNCHANGED epochVars
      BY <1>11 DEF Retry
    <2>2. NodeStep(n)
      BY <1>1, <1>11, RetryStep
    <2> QED
      BY <1>2, <2>1, <2>2
  <1>12. ASSUME NEW n \in Drivers, Crash(n)
         PROVE  DriverInv'
    <2>1. UNCHANGED epochVars
      BY <1>12 DEF Crash
    <2>2. NodeStep(n)
      BY <1>1, <1>12, CrashStep
    <2> QED
      BY <1>2, <2>1, <2>2
  <1>13. ASSUME NEW n \in Drivers, NEW v0 \in 0 .. Position, NEW v1 \in 0 .. Position,
                NEW ok \in BOOLEAN, Restart(n, v0, v1, ok)
         PROVE  DriverInv'
    <2>1. UNCHANGED epochVars
      BY <1>13 DEF Restart
    <2>2. NodeStep(n)
      BY <1>1, <1>13, RestartStep
    <2> QED
      BY <1>2, <2>1, <2>2
  <1>14. CASE Time \/ OthersEndVoting \/ OthersInitiate
    <2>1. EpochNext /\ UNCHANGED nodeVars
      BY <1>14 DEF Time, OthersEndVoting, OthersInitiate, EpochNext
    <2> QED
      BY <2>1, NoNode
  <1>15. ASSUME NEW n \in Nodes \ Drivers, OthersSyncDone(n)
         PROVE  DriverInv'
    <2>1. EpochNext /\ UNCHANGED nodeVars
      BY <1>15 DEF OthersSyncDone, EpochNext
    <2> QED
      BY <2>1, NoNode
  <1>16. CASE UNCHANGED vars
    <2>1. UNCHANGED epochVars /\ UNCHANGED nodeVars
      BY <1>16 DEF vars
    <2> QED
      BY <2>1, NoNode
  <1>17. ASSUME NEW n \in Drivers, Events(n) \/ Tasks(n) \/ Crash(n) \/ Restarts(n)
         PROVE  DriverInv'
    <2>1. CASE Events(n)
      BY <1>3, <1>4, <1>5, <2>1 DEF Events
    <2>2. CASE Tasks(n)
      BY <1>6, <1>7, <1>8, <2>2 DEF Tasks
    <2>3. CASE Crash(n)
      BY <1>12, <2>3
    <2>4. CASE Restarts(n)
      BY <1>13, <2>4 DEF Restarts
    <2> QED
      BY <1>17, <2>1, <2>2, <2>3, <2>4
  <1>18. ASSUME NEW n \in Drivers, NEW kind \in Kinds, Calls(n, kind)
         PROVE  DriverInv'
    BY <1>9, <1>10, <1>11, <1>18 DEF Calls
  <1> QED
    BY <1>14, <1>15, <1>16, <1>17, <1>18 DEF Next

(* The inductive invariant holds in every state that nodes and contract    *)
(* can reach, however calls, events, crashes and lagging reads interleave. *)
THEOREM DriverInvHolds == Spec => []DriverInv
  <1>1. Init => DriverInv
    BY DriverInit
  <1>2. DriverInv /\ [Next]_vars => DriverInv'
    BY DriverStep
  <1> QED
    BY <1>1, <1>2, PTL DEF Spec

(* Without a read that goes back, a storage node never panics on the epoch *)
(* state, never stops with an error that "should not happen" and skips no  *)
(* epoch change: time_until_ready, begin_committee_change and              *)
(* end_committee_change find what they assert.                             *)
THEOREM NodesNeverFail == Spec => []NoFailure
  <1>1. DriverInv => NoFailure
    BY DEF DriverInv
  <1> QED
    BY <1>1, DriverInvHolds, PTL

(* Whatever a node reads, it has no call scheduled before the contract is  *)
(* in the state for it.                                                    *)
THEOREM CallsNeverEarly == Spec => []NeverEarly
  <1>1. DriverInv => NeverEarly
    <2> SUFFICES ASSUME DriverInv, NEW n \in Drivers, NEW kind \in Kinds, calls[n][kind] # NoCall
                 PROVE  \/ calls[n][kind].epoch <= epoch
                        \/ epoch_state = "selected"
                        \/ kind = "end_voting" /\ epoch_state = "done"
      BY DEF NeverEarly
    <2> DEFINE e == calls[n][kind].epoch
    <2>1. ChainInv /\ NodeType /\ NodeOK(n)
      BY DEF DriverInv
    <2>2. /\ Position \in Nat /\ epoch \in Nat
          /\ \/ Position = 3 * epoch - 1 /\ epoch_state = "sync"
             \/ Position = 3 * epoch /\ epoch_state = "done"
             \/ Position = 3 * epoch + 1 /\ epoch_state = "selected"
      BY <2>1, PositionFacts, EventAt
    <2>3. view[n].at \in Nat /\ view[n].at <= Position /\ e \in Nat
      BY <2>1, NodeValues DEF NodeOK, EventsSeen
    <2>4. DueAt(kind, e) <= view[n].at
      BY <2>1 DEF NodeOK, CallsSeen
    <2> HIDE DEF e
    <2>5. CASE kind = "end_voting"
      <3>1. 3 * e - 3 <= view[n].at
        BY <2>4, <2>5 DEF DueAt
      <3>2. e <= epoch \/ epoch_state = "selected" \/ epoch_state = "done"
        BY <2>2, <2>3, <3>1
      <3> QED
        BY <2>5, <3>2 DEF e
    <2>6. CASE kind = "epoch_change_start"
      <3>1. 3 * e - 2 <= view[n].at
        BY <2>4, <2>6 DEF DueAt
      <3>2. e <= epoch \/ epoch_state = "selected"
        BY <2>2, <2>3, <3>1
      <3> QED
        BY <3>2 DEF e
    <2> QED
      BY <2>5, <2>6 DEF Kinds
  <1> QED
    BY <1>1, DriverInvHolds, PTL

(* A node that has handled all events has the call scheduled that the      *)
(* contract waits for, whether it got there by events, by a restart or by  *)
(* catching up, unless the read at startup failed.                         *)
THEOREM CallsAreScheduled == Spec => []CaughtUpIsScheduled
  <1>1. DriverInv => CaughtUpIsScheduled
    <2> SUFFICES ASSUME DriverInv, NEW n \in Drivers, CaughtUp(n), epoch > 0, ~ unscheduled[n],
                        NoStaleReads
                 PROVE  /\ epoch_state = "done" => calls[n]["end_voting"].epoch = epoch + 1
                        /\ epoch_state = "selected" =>
                             calls[n]["epoch_change_start"].epoch = epoch + 1
      BY DEF CaughtUpIsScheduled
    <2>1. ChainInv /\ NodeType /\ NodeOK(n)
      BY DEF DriverInv
    <2>2. /\ Position \in Nat /\ next_event[n] \in Nat /\ view[n].at \in Nat
          /\ next_event[n] <= view[n].at + 1 /\ view[n].at <= Position
      BY <2>1, PositionFacts, NodeValues DEF NodeOK, EventsSeen
    <2>3. next_event[n] = Position + 1 /\ phase[n] # "down" /\ view[n].stale = 0
      BY <2>2 DEF CaughtUp, NoStaleReads
    <2> QED
      BY <2>1, <2>3 DEF NodeOK, Pending
  <1> QED
    BY <1>1, DriverInvHolds, PTL

(* A member that has handled EpochChangeStart has attested or some task    *)
(* still will, except after a crash between the last sync and its call, or *)
(* when the sync of an earlier epoch ends last.                            *)
THEOREM AttestationsPending == Spec => []AttestationPending
  <1>1. DriverInv => AttestationPending
    <2> SUFFICES ASSUME DriverInv, NEW n \in Drivers, n \in Members(committee),
                        next_event[n] > 3 * epoch - 1, epoch \notin lost[n], NoStaleReads
                 PROVE  \/ last_epoch_sync_done[n] = epoch
                        \/ finishing[n].sync_done = epoch
                        \/ syncing[n] = epoch
                        \/ epoch \in owed[n]
      BY DEF AttestationPending
    <2>1. ChainInv /\ NodeType /\ NodeOK(n)
      BY DEF DriverInv
    <2>2. next_event[n] \in Nat /\ epoch \in Nat
      BY <2>1, PositionFacts, NodeValues
    <2>3. next_event[n] >= 3 * epoch /\ view[n].stale = 0
      BY <2>2 DEF NoStaleReads
    <2> QED
      BY <2>1, <2>3 DEF NodeOK, Attesting
  <1> QED
    BY <1>1, DriverInvHolds, PTL

-----------------------------------------------------------------------------
(***************************************************************************)
(* Commission and slashing.                                                *)
(*                                                                         *)
(* The argument for the slashing window: what a node earned with the last  *)
(* epoch change is part of what is blocked until voting ends, and what is  *)
(* blocked is in the pool.  The argument for slashing: a proposal is never *)
(* of a later epoch, so an epoch change leaves none that is current, and   *)
(* every vote adds the shards of a node that has not voted.                *)
(***************************************************************************)

(* Until voting ends, what was earned with the last epoch is blocked.      *)
EarnedIsBlocked ==
  epoch_state # "selected" => \A n \in Nodes : earned[n] <= blocked[n]

(* No proposal is of a later epoch.                                        *)
ProposalsNotAhead == \A n \in Nodes : proposals[n].epoch <= epoch

CommissionInv ==
  /\ CommissionType
  /\ EpochInv
  /\ BlockedIsHeld
  /\ EarnedIsBlocked
  /\ ReleasedAfterVote
  /\ ProposalsNotAhead
  /\ VotesAreDistinct
  /\ SlashedByQuorum

USE ShardsAssumption, MaxEpochAssumption, AmountsAssumption, SubsidyAssumption

(* The absence of a proposal is typed like a proposal.                      *)
LEMMA NoProposalType == NoProposal \in Proposals
  <1>1. -1 \in -1 .. MaxEpoch
    OBVIOUS
  <1>2. 0 \in 0 .. Cardinality(Shards)
    BY NumShards
  <1> QED
    BY <1>1, <1>2, Zenon DEF NoProposal, Proposals

(* The initial state satisfies the invariant.                               *)
LEMMA CommissionInitInv == CommissionInit => CommissionInv
  <1> SUFFICES ASSUME CommissionInit
               PROVE  CommissionInv
    OBVIOUS
  <1>1. EpochInv
    BY EpochInitInv DEF CommissionInit
  <1>2. CommissionType
    BY <1>1, NoProposalType DEF CommissionInit, EpochInv, CommissionType
  <1>3. epoch = 0 /\ epoch_state = "done"
    BY DEF CommissionInit, EpochInit
  <1> QED
    BY <1>1, <1>2, <1>3 DEF CommissionInit, CommissionInv, BlockedIsHeld, EarnedIsBlocked, ReleasedAfterVote,
       ProposalsNotAhead, VotesAreDistinct, SlashedByQuorum, NoProposal

(* The part of the invariant that is about votes.                          *)
VotesInv ==
  /\ proposals \in [Nodes -> Proposals]
  /\ slashings \subseteq SUBSET Shards
  /\ ProposalsNotAhead
  /\ VotesAreDistinct
  /\ SlashedByQuorum

(* The part of the invariant that is about balances.                       *)
PoolsInv ==
  /\ commission \in [Nodes -> Nat]
  /\ blocked \in [Nodes -> Nat]
  /\ earned \in [Nodes -> Nat]
  /\ BlockedIsHeld
  /\ EarnedIsBlocked
  /\ ReleasedAfterVote

(* The invariant falls into parts that different actions disturb.           *)
LEMMA InvParts == CommissionInv <=> EpochInv /\ VotesInv /\ PoolsInv /\ latest_epoch \in 0 .. MaxEpoch
  BY DEF CommissionInv, CommissionType, EpochInv, VotesInv, PoolsInv

(* Steps that touch neither the committee nor votes.                       *)
LEMMA VotesUntouched ==
  ASSUME VotesInv, UNCHANGED <<epoch, committee, proposals, slashings>>
  PROVE  VotesInv'
  <1>1. \A S : ShardsOf(S)' = ShardsOf(S)
    BY DEF ShardsOf
  <1>2. VotesAreDistinct'
    BY <1>1 DEF VotesInv, VotesAreDistinct, ShardsOf
  <1> QED
    BY <1>2 DEF VotesInv, ProposalsNotAhead, SlashedByQuorum, IsQuorum, Proposals

(* Votes of the ended epoch are not of the new one.                        *)
LEMMA VotesAtEpochChange ==
  ASSUME EpochInv, VotesInv, InitiateEpochChange, UNCHANGED <<proposals, slashings>>
  PROVE  VotesInv'
  <1>1. epoch \in Nat /\ epoch' = epoch + 1
    BY DEF EpochInv, EpochType, InitiateEpochChange
  <1>2. \A n \in Nodes : proposals[n].epoch \in Int
    BY DEF VotesInv, Proposals
  <1>3. ProposalsNotAhead' /\ VotesAreDistinct'
    BY <1>1, <1>2 DEF VotesInv, ProposalsNotAhead, VotesAreDistinct
  <1> QED
    BY <1>3 DEF VotesInv, SlashedByQuorum, IsQuorum, Proposals

(* A vote adds the shards of a node that has not voted in this epoch.      *)
LEMMA VoteInv ==
  ASSUME EpochInv, VotesInv, NEW voter \in Nodes, NEW candidate \in Nodes,
         VoteForSlashing(voter, candidate)
  PROVE  VotesInv'
  <1> DEFINE proposal == CurrentProposal(candidate)
             weight == proposal.voting_weight + Cardinality(committee[voter])
             voters == proposal.voters \cup {voter}
             new == [epoch |-> epoch, voting_weight |-> weight, voters |-> voters]
  <1>1. /\ voter \notin proposal.voters
        /\ proposals' = [proposals EXCEPT ![candidate] =
             [epoch |-> proposal.epoch, voting_weight |-> weight, voters |-> voters]]
        /\ UNCHANGED <<epoch, committee, slashings>>
    BY DEF VoteForSlashing, NotVoted, epochVars
  <1>2. /\ proposal.voters \in SUBSET Nodes
        /\ proposal.voting_weight = Cardinality(ShardsOf(proposal.voters))
        /\ proposal.epoch = epoch
    <2>1. CASE proposals[candidate].epoch # epoch
      BY <2>1, NoShards DEF CurrentProposal, FreshProposal
    <2>2. CASE proposals[candidate].epoch = epoch
      BY <2>2 DEF CurrentProposal, VotesInv, VotesAreDistinct, Proposals
    <2> QED
      BY <2>1, <2>2
  <1>3. weight = Cardinality(ShardsOf(voters)) /\ voters \in SUBSET Nodes
    BY <1>1, <1>2, WeightAdds DEF EpochInv
  <1>4. weight \in 0 .. Cardinality(Shards)
    BY <1>3, ShardsOfType, ShardSets
  <1>5. epoch \in -1 .. MaxEpoch /\ epoch \in Nat
    BY DEF EpochInv, EpochType
  <1> HIDE DEF proposal, weight, voters
  <1>7. new \in Proposals
    BY <1>3, <1>4, <1>5 DEF Proposals
  <1>8. proposals' \in [Nodes -> Proposals]
    BY <1>1, <1>2, <1>7 DEF VotesInv
  <1>9. proposals'[candidate] = new /\ \A n \in Nodes : n # candidate => proposals'[n] = proposals[n]
    BY <1>1, <1>2 DEF VotesInv
  <1>11. VotesAreDistinct'
    <2> SUFFICES ASSUME NEW n \in Nodes, proposals'[n].epoch = epoch'
                 PROVE  proposals'[n].voting_weight = Cardinality(ShardsOf(proposals'[n].voters))
      BY <1>1 DEF VotesAreDistinct, ShardsOf
    <2>1. CASE n = candidate
      BY <2>1, <1>3, <1>9
    <2>2. CASE n # candidate
      BY <2>2, <1>1, <1>9 DEF VotesInv, VotesAreDistinct
    <2> QED
      BY <2>1, <2>2
  <1>12. ProposalsNotAhead'
    <2>1. new.epoch = epoch
      OBVIOUS
    <2> HIDE DEF new
    <2>3. proposals'[candidate].epoch <= epoch'
      BY <1>1, <1>5, <1>9, <2>1
    <2>2. \A n \in Nodes : n # candidate => proposals'[n].epoch <= epoch'
      BY <1>1, <1>9 DEF VotesInv, ProposalsNotAhead
    <2> QED
      BY <2>2, <2>3 DEF ProposalsNotAhead
  <1> QED
    BY <1>1, <1>8, <1>11, <1>12 DEF VotesInv, SlashedByQuorum, IsQuorum

(* Removing a proposal, whether it was executed or is outdated.            *)
LEMMA RemoveProposalInv ==
  ASSUME EpochInv, VotesInv, NEW n \in Nodes, UNCHANGED <<epoch, committee>>,
         proposals' = [proposals EXCEPT ![n] = NoProposal],
         slashings' \subseteq SUBSET Shards, SlashedByQuorum'
  PROVE  VotesInv'
  <1>1. NoProposal \in Proposals
    BY NoProposalType
  <1>2. epoch \in Nat
    BY DEF EpochInv, EpochType
  <1>3. proposals' \in [Nodes -> Proposals]
    BY <1>1 DEF VotesInv
  <1>4. \A m \in Nodes : proposals'[m] = (IF m = n THEN NoProposal ELSE proposals[m])
    BY DEF VotesInv
  <1>5. ProposalsNotAhead'
    BY <1>2, <1>4 DEF VotesInv, ProposalsNotAhead, NoProposal
  <1>7. VotesAreDistinct'
    <2> SUFFICES ASSUME NEW m \in Nodes, proposals'[m].epoch = epoch'
                 PROVE  proposals'[m].voting_weight = Cardinality(ShardsOf(proposals'[m].voters))
      BY DEF VotesAreDistinct, ShardsOf
    <2>1. m # n
      BY <1>2, <1>4 DEF NoProposal
    <2> QED
      BY <2>1, <1>4 DEF VotesInv, VotesAreDistinct
  <1> QED
    BY <1>3, <1>5, <1>7 DEF VotesInv

(* An executed slashing had a quorum of distinct shards behind it.          *)
LEMMA ExecuteInv ==
  ASSUME EpochInv, VotesInv, NEW n \in Nodes, ExecuteSlashing(n)
  PROVE  VotesInv'
  <1> DEFINE shards == ShardsOf(proposals[n].voters)
  <1>1. /\ proposals[n].epoch = epoch
        /\ IsQuorum(proposals[n].voting_weight)
        /\ UNCHANGED <<epoch, committee>>
        /\ proposals' = [proposals EXCEPT ![n] = NoProposal]
        /\ slashings' = slashings \cup {shards}
    BY DEF ExecuteSlashing, epochVars
  <1>2. IsQuorum(Cardinality(shards))
    BY <1>1 DEF VotesInv, VotesAreDistinct
  <1>3. shards \in SUBSET Shards
    BY ShardsOfType
  <1>4. slashings' \subseteq SUBSET Shards
    BY <1>1, <1>3 DEF VotesInv
  <1>5. SlashedByQuorum'
    BY <1>1, <1>2 DEF VotesInv, SlashedByQuorum, IsQuorum
  <1> QED
    BY <1>1, <1>4, <1>5, RemoveProposalInv

(* Adding commission: all of it is blocked unless voting has ended.        *)
LEMMA AddCommissionInv ==
  ASSUME PoolsInv, NEW amount \in [Nodes -> Nat], AddCommission(amount, epoch_state # "selected"),
         UNCHANGED <<epoch_state, previous_committee, earned>>
  PROVE  PoolsInv'
  <1>1. \A n \in Nodes : commission[n] \in Nat /\ blocked[n] \in Nat /\ amount[n] \in Nat /\ earned[n] \in Nat
    BY DEF PoolsInv
  <1>2. \A n \in Nodes : commission'[n] = commission[n] + amount[n]
    BY DEF AddCommission
  <1>3. \A n \in Nodes :
          blocked'[n] = (IF epoch_state # "selected" THEN blocked[n] + amount[n] ELSE blocked[n])
    BY DEF AddCommission
  <1>4. commission' \in [Nodes -> Nat] /\ blocked' \in [Nodes -> Nat]
    BY <1>1 DEF AddCommission
  <1>5. BlockedIsHeld'
    BY <1>1, <1>2, <1>3 DEF PoolsInv, BlockedIsHeld
  <1>6. EarnedIsBlocked'
    BY <1>1, <1>3 DEF PoolsInv, EarnedIsBlocked
  <1>7. ReleasedAfterVote'
    BY <1>3 DEF PoolsInv, ReleasedAfterVote, Members
  <1> QED
    BY <1>4, <1>5, <1>6, <1>7 DEF PoolsInv

(* The epoch change blocks all that it pays.                                *)
LEMMA ChangeEpochPools ==
  ASSUME PoolsInv, NEW amount \in [Nodes -> Amounts \cup {0}], ChangeEpoch(amount)
  PROVE  PoolsInv'
  <1>1. \A n \in Nodes : commission[n] \in Nat /\ blocked[n] \in Nat /\ amount[n] \in Nat
    <2>1. Amounts \cup {0} \in SUBSET Nat
      BY AmountsAssumption
    <2>2. \A n \in Nodes : amount[n] \in Nat
      BY <2>1, Zenon
    <2>3. \A n \in Nodes : commission[n] \in Nat /\ blocked[n] \in Nat
      BY DEF PoolsInv
    <2> QED
      BY <2>2, <2>3
  <1>2. \A n \in Nodes : commission'[n] = commission[n] + amount[n]
    BY DEF ChangeEpoch, AddCommission
  <1>3. \A n \in Nodes : blocked'[n] = blocked[n] + amount[n]
    BY DEF ChangeEpoch, AddCommission, BlockRewards
  <1>4. commission' \in [Nodes -> Nat] /\ blocked' \in [Nodes -> Nat] /\ earned' \in [Nodes -> Nat]
    BY <1>1 DEF ChangeEpoch, AddCommission
  <1>5. BlockedIsHeld'
    BY <1>1, <1>2, <1>3 DEF PoolsInv, BlockedIsHeld
  <1>6. EarnedIsBlocked'
    BY <1>1, <1>3 DEF ChangeEpoch, EarnedIsBlocked
  <1>7. epoch_state' = "sync"
    BY DEF ChangeEpoch, InitiateEpochChange
  <1> QED
    BY <1>4, <1>5, <1>6, <1>7 DEF PoolsInv, ReleasedAfterVote

(* The end of voting releases, and never takes, commission.                 *)
LEMMA EndVotingPools ==
  ASSUME PoolsInv, NEW c \in Committees, EndVoting(c)
  PROVE  PoolsInv'
  <1>1. /\ UNCHANGED <<commission, earned, previous_committee>>
        /\ epoch_state' = "selected"
    BY DEF EndVoting, VotingEnd
  <1>2. \A n \in Nodes : blocked'[n] = (IF n \in Members(previous_committee) THEN 0 ELSE blocked[n])
    BY DEF EndVoting, ReleasedBy
  <1>3. \A n \in Nodes : commission[n] \in Nat /\ blocked[n] \in Nat
    BY DEF PoolsInv
  <1>4. blocked' \in [Nodes -> Nat]
    BY <1>3 DEF EndVoting
  <1>5. BlockedIsHeld'
    BY <1>1, <1>2, <1>3 DEF PoolsInv, BlockedIsHeld
  <1>6. ReleasedAfterVote'
    BY <1>1, <1>2 DEF ReleasedAfterVote, Members
  <1> QED
    BY <1>1, <1>4, <1>5, <1>6 DEF PoolsInv, EarnedIsBlocked

(* Collecting leaves what is blocked in the pool.                           *)
LEMMA CollectPools ==
  ASSUME PoolsInv, NEW n \in Nodes, CollectCommission(n)
  PROVE  PoolsInv'
  <1>1. /\ UNCHANGED <<blocked, earned, epoch_state, previous_committee>>
        /\ commission' = [commission EXCEPT ![n] = blocked[n]]
    BY DEF CollectCommission, epochVars
  <1>2. blocked[n] \in Nat
    BY DEF PoolsInv
  <1>3. commission' \in [Nodes -> Nat]
    BY <1>1, <1>2 DEF PoolsInv
  <1>4. BlockedIsHeld'
    BY <1>1, <1>2 DEF PoolsInv, BlockedIsHeld
  <1> QED
    BY <1>1, <1>3, <1>4 DEF PoolsInv, EarnedIsBlocked, ReleasedAfterVote, Members

(* Slashing clears the block together with the commission.                  *)
LEMMA ExecutePools ==
  ASSUME PoolsInv, NEW n \in Nodes, ExecuteSlashing(n)
  PROVE  PoolsInv'
  <1>1. /\ UNCHANGED <<epoch_state, previous_committee>>
        /\ commission' = [commission EXCEPT ![n] = 0]
        /\ blocked' = [blocked EXCEPT ![n] = 0]
        /\ earned' = [earned EXCEPT ![n] = 0]
    BY DEF ExecuteSlashing, ClearBlocked, epochVars
  <1>2. /\ commission' \in [Nodes -> Nat]
        /\ blocked' \in [Nodes -> Nat]
        /\ earned' \in [Nodes -> Nat]
    BY <1>1 DEF PoolsInv
  <1>3. BlockedIsHeld' /\ EarnedIsBlocked'
    BY <1>1 DEF PoolsInv, BlockedIsHeld, EarnedIsBlocked
  <1>4. ReleasedAfterVote'
    BY <1>1 DEF PoolsInv, ReleasedAfterVote, Members
  <1> QED
    BY <1>2, <1>3, <1>4 DEF PoolsInv

(* Steps that touch neither pools nor the end of voting.                   *)
LEMMA PoolsUntouched ==
  ASSUME PoolsInv, UNCHANGED <<commission, blocked, earned, previous_committee>>,
         epoch_state' = "selected" <=> epoch_state = "selected"
  PROVE  PoolsInv'
  BY DEF PoolsInv, BlockedIsHeld, EarnedIsBlocked, ReleasedAfterVote, Members

(* Every step preserves the invariant.                                      *)
LEMMA NextInv ==
  ASSUME CommissionInv, [CommissionNext]_commissionVars
  PROVE  CommissionInv'
  <1>1. EpochInv /\ VotesInv /\ PoolsInv /\ latest_epoch \in 0 .. MaxEpoch
    BY InvParts
  <1>2. ASSUME EpochNext \/ UNCHANGED epochVars, VotesInv', PoolsInv', latest_epoch' = latest_epoch
        PROVE  CommissionInv'
    BY <1>1, <1>2, EpochStepInv DEF CommissionInv, CommissionType, EpochInv, VotesInv, PoolsInv
  <1>3. CASE PassTime
    <2>1. VotesInv'
      BY <1>1, <1>3, VotesUntouched DEF PassTime, Tick
    <2>2. PoolsInv'
      BY <1>1, <1>3, PoolsUntouched DEF PassTime, Tick, pools
    <2> QED
      BY <1>2, <1>3, <2>1, <2>2 DEF PassTime, EpochNext
  <1>4. ASSUME NEW n \in Nodes, SyncDone(n)
        PROVE  CommissionInv'
    <2>1. VotesInv'
      BY <1>1, <1>4, VotesUntouched DEF SyncDone, EpochSyncDone
    <2>2. epoch_state' = "selected" <=> epoch_state = "selected"
      BY <1>4 DEF SyncDone, EpochSyncDone, CountSyncDone
    <2>3. PoolsInv'
      BY <1>1, <1>4, <2>2, PoolsUntouched DEF SyncDone, EpochSyncDone, pools
    <2> QED
      BY <1>2, <1>4, <2>1, <2>3 DEF SyncDone, EpochNext
  <1>5. ASSUME NEW n \in Nodes, CollectCommission(n)
        PROVE  CommissionInv'
    <2>1. VotesInv'
      BY <1>1, <1>5, VotesUntouched DEF CollectCommission, epochVars
    <2> QED
      BY <1>1, <1>2, <1>5, <2>1, CollectPools DEF CollectCommission
  <1>6. ASSUME NEW c \in Committees, EndVoting(c)
        PROVE  CommissionInv'
    <2>1. VotesInv'
      BY <1>1, <1>6, VotesUntouched DEF EndVoting, VotingEnd
    <2> QED
      BY <1>1, <1>2, <1>6, <2>1, EndVotingPools DEF EndVoting, EpochNext
  <1>7. ASSUME NEW amount \in [Nodes -> Amounts \cup {0}], ChangeEpoch(amount)
        PROVE  CommissionInv'
    <2>1. VotesInv'
      BY <1>1, <1>7, VotesAtEpochChange DEF ChangeEpoch
    <2> QED
      BY <1>1, <1>2, <1>7, <2>1, ChangeEpochPools DEF ChangeEpoch, EpochNext
  <1>8. ASSUME NEW n \in Nodes, NEW amount \in Amounts, AddCommissionToPools(n, amount)
        PROVE  CommissionInv'
    <2> DEFINE amounts == [m \in Nodes |-> IF m = n THEN amount ELSE 0]
    <2>1. amounts \in [Nodes -> Nat]
      OBVIOUS
    <2>2. AddCommission(amounts, epoch_state # "selected")
      BY <1>8 DEF AddCommissionToPools
    <2>3. UNCHANGED <<epochVars, proposals, latest_epoch, earned, slashings>>
      BY <1>8 DEF AddCommissionToPools
    <2> HIDE DEF amounts
    <2>4. PoolsInv'
      BY <1>1, <2>1, <2>2, <2>3, AddCommissionInv DEF epochVars
    <2>5. VotesInv'
      BY <1>1, <2>3, VotesUntouched DEF epochVars
    <2> QED
      BY <1>2, <2>3, <2>4, <2>5
  <1>9. CASE ProcessFixedRateSubsidies
    <2> DEFINE amounts == [n \in Nodes |-> IF n \in Members(previous_committee) THEN Subsidy ELSE 0]
    <2>1. amounts \in [Nodes -> Nat]
      OBVIOUS
    <2>2. AddCommission(amounts, epoch_state # "selected")
      BY <1>9 DEF ProcessFixedRateSubsidies
    <2>3. UNCHANGED <<epochVars, proposals, earned, slashings>>
      BY <1>9 DEF ProcessFixedRateSubsidies
    <2> HIDE DEF amounts
    <2>4. PoolsInv'
      BY <1>1, <2>1, <2>2, <2>3, AddCommissionInv DEF epochVars
    <2>5. VotesInv'
      BY <1>1, <2>3, VotesUntouched DEF epochVars
    <2>6. EpochInv'
      BY <1>1, <2>3, EpochStepInv
    <2>7. latest_epoch' \in 0 .. MaxEpoch
      BY <1>1, <1>9 DEF ProcessFixedRateSubsidies, EpochToBePaid, EpochInv, EpochType
    <2> QED
      BY <2>4, <2>5, <2>6, <2>7 DEF CommissionInv, CommissionType, EpochInv, VotesInv, PoolsInv
  <1>10. ASSUME NEW voter \in Nodes, NEW candidate \in Nodes, VoteForSlashing(voter, candidate)
         PROVE  CommissionInv'
    <2>1. UNCHANGED <<epochVars, pools, latest_epoch, earned, slashings>>
      BY <1>10 DEF VoteForSlashing
    <2>2. PoolsInv'
      BY <1>1, <2>1, PoolsUntouched DEF pools, epochVars
    <2> QED
      BY <1>1, <1>2, <1>10, <2>1, <2>2, VoteInv
  <1>11. ASSUME NEW n \in Nodes, ExecuteSlashing(n)
         PROVE  CommissionInv'
    BY <1>1, <1>2, <1>11, ExecuteInv, ExecutePools DEF ExecuteSlashing
  <1>12. ASSUME NEW n \in Nodes, CleanupSlashingProposals(n)
         PROVE  CommissionInv'
    <2>1. /\ UNCHANGED <<epochVars, pools, latest_epoch, earned, slashings>>
          /\ proposals' = [proposals EXCEPT ![n] = NoProposal]
      BY <1>12 DEF CleanupSlashingProposals
    <2>2. PoolsInv'
      BY <1>1, <2>1, PoolsUntouched DEF pools, epochVars
    <2>3. SlashedByQuorum' /\ slashings' \subseteq SUBSET Shards
      BY <1>1, <2>1 DEF VotesInv, SlashedByQuorum, IsQuorum
    <2>4. VotesInv'
      BY <1>1, <2>1, <2>3, RemoveProposalInv DEF epochVars
    <2> QED
      BY <1>2, <2>1, <2>2, <2>4
  <1>13. CASE UNCHANGED commissionVars
    <2>1. UNCHANGED <<epochVars, pools, proposals, latest_epoch, earned, slashings>>
      BY <1>13 DEF commissionVars
    <2>2. PoolsInv'
      BY <1>1, <2>1, PoolsUntouched DEF pools, epochVars
    <2>3. VotesInv'
      BY <1>1, <2>1, VotesUntouched DEF epochVars
    <2> QED
      BY <1>2, <2>1, <2>2, <2>3
  <1> QED
    BY <1>3, <1>4, <1>5, <1>6, <1>7, <1>8, <1>9, <1>10, <1>11, <1>12, <1>13 DEF CommissionNext

(* The inductive invariant holds in every reachable state of the contract.  *)
THEOREM CommissionInvariance == CommissionSpec => []CommissionInv
  <1>1. CommissionInit => CommissionInv
    BY CommissionInitInv
  <1>2. CommissionInv /\ [CommissionNext]_commissionVars => CommissionInv'
    BY NextInv
  <1> QED
    BY <1>1, <1>2, PTL DEF CommissionSpec

(* Type correctness: neither attestations nor votes ever weigh more than   *)
(* all shards, so that the u16 weights of the contract cannot overflow.    *)
THEOREM CommissionTypeCorrect == CommissionSpec => []CommissionType
  <1>1. CommissionInv => CommissionType
    BY DEF CommissionInv
  <1> QED
    BY <1>1, CommissionInvariance, PTL

(* epoch_sync_done counts distinct shards of the current committee, and an *)
(* epoch is declared done by a quorum of them only.                        *)
THEOREM EpochsDoneByQuorum == CommissionSpec => [](SyncWeightIsDistinct /\ DoneByQuorum)
  <1>1. CommissionInv => SyncWeightIsDistinct /\ DoneByQuorum
    BY DEF CommissionInv, EpochInv
  <1> QED
    BY <1>1, CommissionInvariance, PTL

(* A node cannot collect the commission of the last epoch before voting    *)
(* ends, whatever else is added, collected, burned or voted on.            *)
THEOREM SlashingWindow == CommissionSpec => []HeldForSlashing
  <1>1. CommissionInv => HeldForSlashing
    <2> SUFFICES ASSUME CommissionInv, epoch_state # "selected", NEW n \in Nodes
                 PROVE  commission[n] >= earned[n]
      BY DEF HeldForSlashing
    <2>1. commission[n] \in Nat /\ blocked[n] \in Nat /\ earned[n] \in Nat
      BY DEF CommissionInv, CommissionType
    <2>2. earned[n] <= blocked[n] /\ blocked[n] <= commission[n]
      BY DEF CommissionInv, EarnedIsBlocked, BlockedIsHeld
    <2> QED
      BY <2>1, <2>2
  <1> QED
    BY <1>1, CommissionInvariance, PTL

(* No pool has more commission blocked than it holds, and after voting has *)
(* ended the previous committee has none blocked.                          *)
THEOREM BlockedCommission == CommissionSpec => [](BlockedIsHeld /\ ReleasedAfterVote)
  <1>1. CommissionInv => BlockedIsHeld /\ ReleasedAfterVote
    BY DEF CommissionInv
  <1> QED
    BY <1>1, CommissionInvariance, PTL

(* Slashing votes count distinct shards of one committee, and commission   *)
(* is burned by a quorum of them only.                                     *)
THEOREM SlashingNeedsQuorum == CommissionSpec => [](VotesAreDistinct /\ SlashedByQuorum)
  <1>1. CommissionInv => VotesAreDistinct /\ SlashedByQuorum
    BY DEF CommissionInv
  <1> QED
    BY <1>1, CommissionInvariance, PTL
===============================================================================
