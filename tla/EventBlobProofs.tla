--------------------------- MODULE EventBlobProofs ---------------------------
(***************************************************************************)
(* Proofs about EventBlob and EventBlobWriter for every set of nodes and   *)
(* blob IDs, every finite set of shards and every number of checkpoints,   *)
(* epochs, crashes and failures.                                           *)
(*                                                                         *)
(* The argument for the contract: a node that may attest is among the      *)
(* attesters of no tracked blob (lemma FreshAttester), because its cap     *)
(* remembers the one it attested to and only blobs beyond the latest       *)
(* certified one are tracked.  So adding its shards adds exactly its       *)
(* weight.                                                                 *)
(*                                                                         *)
(* The argument for the writers has three parts.  The ID of a blob tells   *)
(* its number, so that a certification matches only the blob that was      *)
(* certified (RecordedInv).  The three tables together hold the blobs      *)
(* after the certified one up to the position of the writer, each once,    *)
(* and the blob that is sent is the first of them (LostInv).  So what is   *)
(* attested next follows the certified blob, whose ID and end determine    *)
(* the header: there is one chain of IDs, computed from the stream alone,  *)
(* that contract and writers follow (AgreeInv).                            *)
(***************************************************************************)
EXTENDS EventBlobWriter, FiniteSetTheorems, WellFoundedInduction, TLAPS

(* Every certified blob ends at or before the latest certified checkpoint. *)
CertifiedUpToLatest == \A c \in certified : c.blob.ending_checkpoint <= latest

Inv ==
  /\ TypeOK
  /\ WeightIsDistinctShards
  /\ OneOutstandingAttestation
  /\ CertifiedByQuorum
  /\ OneBlobPerCheckpoint
  /\ TrackedAreAhead
  /\ CertifiedUpToLatest

USE ShardsAssumption, MaxCheckpointAssumption, MaxEpochAssumption

(* There are finitely many shards.                                          *)
LEMMA NumShards == Cardinality(Shards) \in Nat
  BY FS_CardinalityType

(* Sets of shards are finite and no larger than the set of all shards.     *)
LEMMA ShardSets ==
  ASSUME NEW S \in SUBSET Shards
  PROVE  /\ IsFiniteSet(S)
         /\ Cardinality(S) \in 0 .. Cardinality(Shards)
  <1>1. IsFiniteSet(S) /\ Cardinality(S) <= Cardinality(Shards)
    BY FS_Subset
  <1>2. Cardinality(S) \in Nat
    BY <1>1, FS_CardinalityType
  <1> QED
    BY <1>1, <1>2, NumShards

(* The shards of one more node are its weight more.                        *)
LEMMA WeightAdds ==
  ASSUME NEW S, NEW n, n \notin S
  PROVE  Cardinality(ShardsOf(S \cup {n})) = Cardinality(ShardsOf(S)) + MemberWeight(n)
  <1>1. ShardsOf(S \cup {n}) = ShardsOf(S) \cup ShardsOf({n})
    BY DEF ShardsOf
  <1>2. ShardsOf(S) \cap ShardsOf({n}) = {}
    BY DEF ShardsOf
  <1>3. ShardsOf(S) \in SUBSET Shards /\ ShardsOf({n}) \in SUBSET Shards
    BY DEF ShardsOf
  <1>4. /\ IsFiniteSet(ShardsOf(S)) /\ IsFiniteSet(ShardsOf({n}))
        /\ Cardinality(ShardsOf(S)) \in Nat /\ Cardinality(ShardsOf({n})) \in Nat
    BY <1>3, ShardSets, NumShards
  <1>5. Cardinality(ShardsOf(S) \cup ShardsOf({n})) =
          Cardinality(ShardsOf(S)) + Cardinality(ShardsOf({n}))
            - Cardinality(ShardsOf(S) \cap ShardsOf({n}))
    BY <1>4, FS_Union
  <1>6. Cardinality(ShardsOf(S) \cap ShardsOf({n})) = 0
    BY <1>2, FS_EmptySet
  <1>7. Cardinality(ShardsOf(S \cup {n})) = Cardinality(ShardsOf(S)) + Cardinality(ShardsOf({n}))
    <2> DEFINE w == Cardinality(ShardsOf(S))
               v == Cardinality(ShardsOf({n}))
    <2>1. Cardinality(ShardsOf(S \cup {n})) = w + v - 0
      BY <1>1, <1>5, <1>6
    <2>2. w \in Nat /\ v \in Nat
      BY <1>4
    <2> HIDE DEF w, v
    <2>3. w + v - 0 = w + v
      BY <2>2
    <2> QED
      BY <2>1, <2>3 DEF w, v
  <1> QED
    BY <1>7 DEF MemberWeight

(* No attesters, no weight.                                                 *)
LEMMA NoShards == Cardinality(ShardsOf({})) = 0
  <1>1. ShardsOf({}) = {}
    BY DEF ShardsOf
  <1> QED
    BY <1>1, FS_EmptySet

(* The initial state satisfies the invariant.                               *)
LEMMA InitInv == Init => Inv
  <1> SUFFICES ASSUME Init
               PROVE  Inv
    OBVIOUS
  <1>1. TypeOK
    BY NumShards DEF Init, TypeOK, Attestations, NoAttestation
  <1>2. WeightIsDistinctShards
    BY NoShards DEF Init, WeightIsDistinctShards
  <1> QED
    BY <1>1, <1>2 DEF Init, Inv, OneOutstandingAttestation, CertifiedByQuorum,
       OneBlobPerCheckpoint, TrackedAreAhead, CertifiedUpToLatest

(* A node that may attest has no attestation that still counts.            *)
LEMMA FreshAttester ==
  ASSUME Inv, NEW n \in Nodes, NEW b \in EventBlobs, MayAttest(n, b.ending_checkpoint)
  PROVE  \A c \in EventBlobs : n \notin attesters[c]
  <1> SUFFICES ASSUME NEW c \in EventBlobs, n \in attesters[c]
               PROVE  FALSE
    OBVIOUS
  <1>1. attestation[n] = [checkpoint |-> c.ending_checkpoint, epoch |-> epoch]
    BY DEF Inv, OneOutstandingAttestation
  <1>2. c.ending_checkpoint > latest
    BY DEF Inv, TrackedAreAhead
  <1>3. epoch \in Int /\ latest \in Int /\ c.ending_checkpoint \in Int
    BY DEF Inv, TypeOK, EventBlobs, Checkpoints
  <1> QED
    BY <1>1, <1>2, <1>3 DEF MayAttest, NoOpenAttestation

(* What a call of certify_event_blob preserves whatever it decides.        *)
LEMMA CertifyInv ==
  ASSUME Inv, NEW n \in Nodes, NEW b \in EventBlobs, CertifyEventBlob(n, b)
  PROVE  Inv'
  <1> DEFINE new_weight == weight[b] + MemberWeight(n)
             new_attesters == attesters[b] \cup {n}
             certificate == [blob |-> b, epoch |-> epoch, shards |-> ShardsOf(new_attesters)]
  <1>1. \A c \in EventBlobs : n \notin attesters[c]
    BY FreshAttester DEF CertifyEventBlob
  <1>2. /\ TypeOK
        /\ b.ending_checkpoint \in Checkpoints
        /\ n \in Members
        /\ UNCHANGED <<epoch, owner>>
        /\ attestation' = [attestation EXCEPT
             ![n] = [checkpoint |-> b.ending_checkpoint, epoch |-> epoch]]
    BY DEF Inv, EventBlobs, CertifyEventBlob
  <1>3. new_weight = Cardinality(ShardsOf(new_attesters))
    BY <1>1, WeightAdds DEF Inv, WeightIsDistinctShards
  <1>4. ShardsOf(new_attesters) \in SUBSET Shards
    BY DEF ShardsOf
  <1>5. new_weight \in 0 .. Cardinality(Shards)
    BY <1>3, <1>4, ShardSets
  <1>6. \A S : ShardsOf(S)' = ShardsOf(S)
    BY <1>2 DEF ShardsOf
  <1>7. Members' = Members
    BY <1>2 DEF Members
  <1>8. attestation' \in [Nodes -> Attestations]
    BY <1>2 DEF TypeOK, Attestations, Checkpoints
  <1>9. \A m \in Nodes : m # n => attestation'[m] = attestation[m]
    BY <1>2 DEF TypeOK
  <1>10. CASE UNCHANGED <<weight, latest, attesters, certified>>
    <2>1. TypeOK'
      BY <1>2, <1>8, <1>10 DEF TypeOK
    <2>2. WeightIsDistinctShards'
      BY <1>6, <1>7, <1>10 DEF Inv, WeightIsDistinctShards
    <2>3. OneOutstandingAttestation'
      BY <1>1, <1>2, <1>9, <1>10 DEF Inv, OneOutstandingAttestation, TypeOK
    <2> QED
      BY <2>1, <2>2, <2>3, <1>10 DEF Inv, CertifiedByQuorum, OneBlobPerCheckpoint,
         TrackedAreAhead, CertifiedUpToLatest
  <1>11. CASE /\ ~ IsAlreadyCertified(b.ending_checkpoint)
              /\ ~ IsQuorum(new_weight)
              /\ weight' = [weight EXCEPT ![b] = new_weight]
              /\ attesters' = [attesters EXCEPT ![b] = new_attesters]
              /\ UNCHANGED <<latest, certified>>
    <2>1. 3 * new_weight <= 2 * Cardinality(Shards)
      BY <1>5, <1>11, NumShards DEF IsQuorum
    <2>2. TypeOK'
      BY <1>2, <1>5, <1>8, <1>11, <2>1 DEF TypeOK
    <2>3. WeightIsDistinctShards'
      BY <1>2, <1>3, <1>6, <1>7, <1>11 DEF Inv, WeightIsDistinctShards, TypeOK
    <2>4. OneOutstandingAttestation'
      BY <1>1, <1>2, <1>9, <1>11 DEF Inv, OneOutstandingAttestation, TypeOK
    <2>5. TrackedAreAhead'
      BY <1>2, <1>11 DEF Inv, TrackedAreAhead, TypeOK, IsAlreadyCertified, Checkpoints
    <2> QED
      BY <2>2, <2>3, <2>4, <2>5, <1>11 DEF Inv, CertifiedByQuorum, OneBlobPerCheckpoint,
         CertifiedUpToLatest
  <1>12. CASE /\ ~ IsAlreadyCertified(b.ending_checkpoint)
              /\ IsQuorum(new_weight)
              /\ latest' = b.ending_checkpoint
              /\ certified' = certified \cup {certificate}
              /\ weight' = Reset(weight, 0)
              /\ attesters' = Reset(attesters, {})
    <2>1. weight' = [c \in EventBlobs |-> 0] /\ attesters' = [c \in EventBlobs |-> {}]
      BY <1>12 DEF Reset
    <2>2. latest < b.ending_checkpoint
      BY <1>2, <1>12 DEF IsAlreadyCertified, TypeOK, Checkpoints
    <2>3. TypeOK'
      <3>1. certificate \in [blob: EventBlobs, epoch: 1 .. MaxEpoch, shards: SUBSET Shards]
        BY <1>2, <1>4 DEF TypeOK
      <3>2. certified' \subseteq [blob: EventBlobs, epoch: 1 .. MaxEpoch, shards: SUBSET Shards]
        BY <1>2, <1>12, <3>1 DEF TypeOK
      <3>3. weight' \in [EventBlobs -> {w \in 0 .. Cardinality(Shards) :
                                          3 * w <= 2 * Cardinality(Shards)}]
        BY <2>1, NumShards
      <3>4. latest' \in 0 .. MaxCheckpoint
        BY <1>2, <1>12 DEF Checkpoints
      <3>5. attesters' \in [EventBlobs -> SUBSET Nodes]
        BY <2>1
      <3>6. epoch' \in 1 .. MaxEpoch /\ owner' \in [Shards -> Nodes]
        BY <1>2 DEF TypeOK
      <3> QED
        BY <1>8, <3>2, <3>3, <3>4, <3>5, <3>6 DEF TypeOK
    <2>4. WeightIsDistinctShards'
      BY <1>6, <2>1, NoShards DEF WeightIsDistinctShards
    <2>5. OneOutstandingAttestation' /\ TrackedAreAhead'
      BY <2>1 DEF OneOutstandingAttestation, TrackedAreAhead
    <2>6. CertifiedByQuorum'
      BY <1>3, <1>12 DEF Inv, CertifiedByQuorum, IsQuorum
    <2>7. \A c \in certified : c.blob.ending_checkpoint < b.ending_checkpoint
      BY <1>2, <2>2 DEF Inv, CertifiedUpToLatest, TypeOK, EventBlobs, Checkpoints
    <2>8. \A c \in certified : c.blob.ending_checkpoint \in Int
      BY <1>2 DEF TypeOK, EventBlobs, Checkpoints
    <2>9. certificate.blob = b /\ b.ending_checkpoint \in Int
      BY <1>2 DEF Checkpoints
    <2>10. CertifiedUpToLatest'
      BY <1>12, <2>7, <2>8, <2>9 DEF CertifiedUpToLatest
    <2>11. OneBlobPerCheckpoint'
      <3> SUFFICES ASSUME NEW c \in certified', NEW d \in certified',
                          c.blob.ending_checkpoint = d.blob.ending_checkpoint
                   PROVE  c = d
        BY DEF OneBlobPerCheckpoint
      <3>1. CASE c \in certified /\ d \in certified
        BY <3>1 DEF Inv, OneBlobPerCheckpoint
      <3>2. CASE c = certificate \/ d = certificate
        <4> HIDE DEF certificate
        <4> QED
          BY <3>2, <1>12, <2>7, <2>8, <2>9
      <3> HIDE DEF certificate
      <3> QED
        BY <3>1, <3>2, <1>12
    <2> QED
      BY <2>3, <2>4, <2>5, <2>6, <2>10, <2>11 DEF Inv
  <1> QED
    BY <1>10, <1>11, <1>12 DEF CertifyEventBlob

(* An epoch change drops all attestations before weights change.            *)
LEMMA AdvanceEpochInv ==
  ASSUME Inv, NEW new_owner \in [Shards -> Nodes], AdvanceEpoch(new_owner)
  PROVE  Inv'
  <1>1. weight' = [c \in EventBlobs |-> 0] /\ attesters' = [c \in EventBlobs |-> {}]
    BY DEF AdvanceEpoch, Reset
  <1>2. TypeOK'
    BY <1>1, NumShards DEF AdvanceEpoch, Inv, TypeOK
  <1>3. ShardsOf({})' = {}
    BY DEF ShardsOf
  <1>4. WeightIsDistinctShards'
    BY <1>1, <1>3, FS_EmptySet DEF WeightIsDistinctShards
  <1>5. OneOutstandingAttestation' /\ TrackedAreAhead'
    BY <1>1 DEF OneOutstandingAttestation, TrackedAreAhead
  <1> QED
    BY <1>2, <1>4, <1>5 DEF AdvanceEpoch, Inv, CertifiedByQuorum, OneBlobPerCheckpoint,
       CertifiedUpToLatest

(* Every step preserves the invariant.                                      *)
LEMMA NextInv == Inv /\ [Next]_vars => Inv'
  <1> SUFFICES ASSUME Inv, [Next]_vars
               PROVE  Inv'
    OBVIOUS
  <1>1. CASE Next
    BY <1>1, CertifyInv, AdvanceEpochInv DEF Next
  <1>2. CASE UNCHANGED vars
    <2>1. \A S : ShardsOf(S)' = ShardsOf(S)
      BY <1>2 DEF ShardsOf, vars
    <2>2. Members' = Members
      BY <1>2 DEF Members, vars
    <2> QED
      BY <1>2, <2>1, <2>2 DEF vars, Inv, TypeOK, WeightIsDistinctShards,
         OneOutstandingAttestation, CertifiedByQuorum, OneBlobPerCheckpoint,
         TrackedAreAhead, CertifiedUpToLatest
  <1> QED
    BY <1>1, <1>2

(* The inductive invariant holds in every reachable state.                  *)
LEMMA SpecInv == Spec => []Inv
  BY InitInv, NextInv, PTL DEF Spec

(* Type correctness of the certification state.                            *)
THEOREM TypeCorrect == Spec => []TypeOK
  <1>1. Inv => TypeOK
    BY DEF Inv
  <1> QED
    BY <1>1, SpecInv, PTL

(* The aggregate weight of a blob counts distinct members of the current   *)
(* committee, each one with its shards and only once.                      *)
THEOREM NobodyCountsTwice == Spec => [](WeightIsDistinctShards /\ OneOutstandingAttestation)
  <1>1. Inv => WeightIsDistinctShards /\ OneOutstandingAttestation
    BY DEF Inv
  <1> QED
    BY <1>1, SpecInv, PTL

(* Every certified event blob has a quorum of distinct shards behind it.   *)
THEOREM CertifiedHasQuorum == Spec => []CertifiedByQuorum
  <1>1. Inv => CertifiedByQuorum
    BY DEF Inv
  <1> QED
    BY <1>1, SpecInv, PTL

(* No two certified event blobs end at the same checkpoint, whatever the   *)
(* nodes attest to and however the committee changes.                      *)
THEOREM NoConflictingEventBlobs == Spec => []OneBlobPerCheckpoint
  <1>1. Inv => OneBlobPerCheckpoint
    BY DEF Inv
  <1> QED
    BY <1>1, SpecInv, PTL

(* Attestations for a checkpoint that is certified already are never       *)
(* tracked, however late they come.                                        *)
THEOREM LateAttestationsIgnored == Spec => []TrackedAreAhead
  <1>1. Inv => TrackedAreAhead
    BY DEF Inv
  <1> QED
    BY <1>1, SpecInv, PTL

-----------------------------------------------------------------------------
(* Event blob writers: the stream.                                         *)

(* The number of blobs in the stream so far.                               *)
NumBlobs == Cardinality(Ends)

(* The stream is a sequence in which every blob has an end.                *)
StreamInv ==
  /\ \E S : stream \in Seq(S)
  /\ \A i \in 1 .. Len(stream) : stream[i].kind = "blob_end" => stream[i] = BlobEnd
  /\ \A k \in 1 .. NumBlobs : \E i \in Ends : BlobsBefore(i) = k

(* Blobs are numbered consecutively.                                       *)
LEMMA StreamFacts ==
  ASSUME StreamInv
  PROVE  /\ Len(stream) \in Nat /\ DOMAIN stream = 1 .. Len(stream)
         /\ Ends \subseteq 1 .. Len(stream) /\ IsFiniteSet(Ends) /\ NumBlobs \in Nat
         /\ \A i : BlobsBefore(i) \in 0 .. NumBlobs
  <1>1. Len(stream) \in Nat /\ DOMAIN stream = 1 .. Len(stream)
    BY DEF StreamInv
  <1>2. Ends \subseteq 1 .. Len(stream)
    BY <1>1 DEF Ends
  <1>3. IsFiniteSet(Ends) /\ NumBlobs \in Nat
    <2>1. IsFiniteSet(1 .. Len(stream))
      BY <1>1, FS_Interval
    <2> QED
      BY <1>2, <2>1, FS_Subset, FS_CardinalityType DEF NumBlobs
  <1>4. ASSUME NEW i
        PROVE  BlobsBefore(i) \in 0 .. NumBlobs
    <2> DEFINE B == {j \in Ends : j <= i}
    <2>1. B \subseteq Ends
      OBVIOUS
    <2>2. IsFiniteSet(B) /\ Cardinality(B) <= Cardinality(Ends)
      BY <1>3, <2>1, FS_Subset
    <2>3. Cardinality(B) \in Nat
      BY <2>2, FS_CardinalityType
    <2> QED
      BY <1>3, <2>2, <2>3 DEF BlobsBefore, NumBlobs
  <1> QED
    BY <1>1, <1>2, <1>3, <1>4

(* The end of a blob is where it is looked for.                            *)
LEMMA EndOfFacts ==
  ASSUME StreamInv, NEW k \in 0 .. NumBlobs
  PROVE  /\ EndOf(k) \in 0 .. Len(stream)
         /\ k # 0 => EndOf(k) \in Ends /\ BlobsBefore(EndOf(k)) = k
  <1>1. Len(stream) \in Nat /\ Ends \subseteq 1 .. Len(stream) /\ NumBlobs \in Nat
    BY StreamFacts
  <1>2. CASE k = 0
    BY <1>1, <1>2 DEF EndOf
  <1>3. CASE k # 0
    <2>1. \E i \in Ends : BlobsBefore(i) = k
      BY <1>1, <1>3 DEF StreamInv
    <2>2. EndOf(k) \in Ends /\ BlobsBefore(EndOf(k)) = k
      BY <1>3, <2>1 DEF EndOf
    <2>3. \A x \in 1 .. Len(stream) : x \in 0 .. Len(stream)
      BY <1>1
    <2>4. EndOf(k) \in 0 .. Len(stream)
      BY <1>1, <2>2, <2>3, Zenon
    <2> QED
      BY <2>2, <2>4
  <1> QED
    BY <1>2, <1>3

(* Reading the end of a blob, a writer knows its number.                   *)
LEMMA NextNum ==
  ASSUME StreamInv, NEW i \in 0 .. Len(stream), i < Len(stream), stream[i + 1].kind = "blob_end"
  PROVE  /\ BlobsBefore(i) + 1 \in 0 .. NumBlobs
         /\ BlobsBefore(i + 1) = BlobsBefore(i) + 1
  <1>1. /\ Len(stream) \in Nat /\ DOMAIN stream = 1 .. Len(stream)
        /\ Ends \subseteq 1 .. Len(stream) /\ IsFiniteSet(Ends) /\ NumBlobs \in Nat
        /\ BlobsBefore(i) \in 0 .. NumBlobs /\ BlobsBefore(i + 1) \in 0 .. NumBlobs
    BY StreamFacts
  <1>2. i + 1 \in Ends
    BY <1>1 DEF StreamInv, Ends
  <1> DEFINE B == {j \in Ends : j <= i}
             C == {j \in Ends : j <= i + 1}
  <1>3. C = B \cup {i + 1} /\ i + 1 \notin B
    <2>1. \A j \in Ends : j \in Nat /\ (j <= i + 1 <=> j <= i \/ j = i + 1)
      BY <1>1
    <2>2. C = B \cup {i + 1}
      BY <1>2, <2>1, Zenon
    <2>3. ~ (i + 1 <= i)
      BY <1>1
    <2> QED
      BY <2>2, <2>3
  <1>4. IsFiniteSet(B)
    BY <1>1, FS_Subset
  <1> HIDE DEF B, C
  <1>5. Cardinality(C) = Cardinality(B) + 1
    BY <1>3, <1>4, FS_AddElement
  <1>6. BlobsBefore(i + 1) = BlobsBefore(i) + 1
    BY <1>5 DEF BlobsBefore, B, C
  <1> QED
    BY <1>1, <1>6

(* The stream only grows.                                                  *)
Grows ==
  /\ Len(stream)' \in Nat /\ Len(stream) <= Len(stream)'
  /\ \A i \in 1 .. Len(stream) : stream'[i] = stream[i]
  /\ NumBlobs' \in Nat /\ NumBlobs <= NumBlobs' /\ NumBlobs' <= NumBlobs + 1
  /\ \A i \in 0 .. Len(stream) : BlobsBefore(i)' = BlobsBefore(i)
  /\ certified \subseteq certified'

(* Another element leaves the blobs before it as they are.                 *)
LEMMA AppendFacts ==
  ASSUME StreamInv, NEW e, stream' = Append(stream, e), e.kind = "blob_end" => e = BlobEnd,
         certified \subseteq certified'
  PROVE  StreamInv' /\ Grows /\ Len(stream)' = Len(stream) + 1 /\ stream'[Len(stream) + 1] = e
  <1>1. /\ Len(stream) \in Nat /\ DOMAIN stream = 1 .. Len(stream)
        /\ Ends \subseteq 1 .. Len(stream) /\ IsFiniteSet(Ends) /\ NumBlobs \in Nat
    BY StreamFacts
  <1> DEFINE l == Len(stream)
  <1>2. /\ \E S : stream' \in Seq(S)
        /\ Len(stream') = l + 1
        /\ \A i \in 1 .. l : stream'[i] = stream[i]
        /\ stream'[l + 1] = e
        /\ DOMAIN stream' = 1 .. l + 1
    <2>1. PICK S : stream \in Seq(S)
      BY DEF StreamInv
    <2>2. stream \in Seq(S \cup {e}) /\ e \in S \cup {e}
      BY <2>1
    <2>3. stream' \in Seq(S \cup {e})
      BY <2>2
    <2> QED
      BY <2>2, <2>3
  <1>3. \A i \in 1 .. Len(stream') : stream'[i].kind = "blob_end" => stream'[i] = BlobEnd
    BY <1>1, <1>2 DEF StreamInv
  <1>4. Ends' = IF e = BlobEnd THEN Ends \cup {l + 1} ELSE Ends
    BY <1>1, <1>2 DEF Ends
  <1>5. l + 1 \notin Ends
    BY <1>1
  <1>6. IsFiniteSet(Ends') /\ NumBlobs' = IF e = BlobEnd THEN NumBlobs + 1 ELSE NumBlobs
    <2>1. CASE e = BlobEnd
      BY <1>1, <1>4, <1>5, <2>1, FS_AddElement DEF NumBlobs
    <2>2. CASE e # BlobEnd
      BY <1>1, <1>4, <2>2 DEF NumBlobs
    <2> QED
      BY <2>1, <2>2
  <1>7. \A i \in 0 .. l : BlobsBefore(i)' = BlobsBefore(i)
    <2> TAKE i \in 0 .. l
    <2>1. {j \in Ends' : j <= i} = {j \in Ends : j <= i}
      BY <1>1, <1>4
    <2> QED
      BY <2>1 DEF BlobsBefore
  <1>8. e = BlobEnd => \E i \in Ends' : BlobsBefore(i)' = NumBlobs + 1
    <2> HAVE e = BlobEnd
    <2>1. PICK p \in Nat : p = l + 1
      BY <1>1
    <2>2. p \in Ends' /\ \A j \in Ends' : j <= p
      BY <1>1, <1>4, <2>1
    <2>3. {j \in Ends' : j <= p} = Ends'
      BY <2>2
    <2>4. BlobsBefore(p)' = Cardinality(Ends')
      BY <2>3 DEF BlobsBefore
    <2>5. BlobsBefore(p)' = NumBlobs + 1
      BY <1>6, <2>4 DEF NumBlobs
    <2> QED
      BY <2>2, <2>5
  <1>9. \A k \in 1 .. NumBlobs' : \E i \in Ends' : BlobsBefore(i)' = k
    <2> TAKE k \in 1 .. NumBlobs'
    <2>1. CASE k \in 1 .. NumBlobs
      <3>1. PICK i \in Ends : BlobsBefore(i) = k
        BY <2>1 DEF StreamInv
      <3>2. i \in Ends' /\ i \in 0 .. l
        BY <1>1, <1>4
      <3> QED
        BY <1>7, <3>1, <3>2
    <2>2. CASE k \notin 1 .. NumBlobs
      <3>1. e = BlobEnd /\ k = NumBlobs + 1
        BY <1>1, <1>6, <2>2
      <3> QED
        BY <1>8, <3>1
    <2> QED
      BY <2>1, <2>2
  <1>10. StreamInv'
    BY <1>2, <1>3, <1>9 DEF StreamInv
  <1>11. Grows
    BY <1>1, <1>2, <1>6, <1>7 DEF Grows
  <1> QED
    BY <1>2, <1>10, <1>11

-----------------------------------------------------------------------------
(* Event blob writers: what they record.                                   *)

(* The ID of a blob in one of the tables of outstanding blobs tells its    *)
(* number.                                                                 *)
HasNum(b) == b.num \in 0 .. NumBlobs /\ (b # NoBlob => \E x, h : b.id = <<x, b.num, h>>)

(* The same for a blob that the contract has certified.                    *)
Certificate(c) ==
  \E x, h : \E k \in 1 .. NumBlobs : c.blob = [blob_id |-> <<x, k, h>>, ending_checkpoint |-> k]

(* The blob is certified.                                                  *)
IsRecorded(b) ==
  b # NoBlob => \E c \in certified : c.blob = [blob_id |-> b.id, ending_checkpoint |-> b.num]

(* Certified blobs are blobs of the stream, and the stream tells of        *)
(* certified blobs only.                                                   *)
ContractInv ==
  /\ latest \in 0 .. NumBlobs
  /\ latest # 0 => \E c \in certified : c.blob.ending_checkpoint = latest
  /\ \A c \in certified : Certificate(c)
  /\ \A i \in 1 .. Len(stream) : stream[i].kind = "certified" =>
       \E c \in certified : c.blob.blob_id = stream[i].id

(* A writer at position i in phase ph, with these tables.                  *)
WriterOK(i, ph, p, a, f, c, t) ==
  /\ i \in 0 .. Len(stream)
  /\ ph = "removed" => i < Len(stream) /\ stream[i + 1].kind = "certified"
  /\ \A b \in p : b.num \in 0 .. NumBlobs
  /\ HasNum(a) /\ HasNum(f)
  /\ c.num \in 0 .. NumBlobs /\ IsRecorded(c)
  /\ t.blob.num \in 0 .. NumBlobs

WriterInv(n) == WriterOK(cursor[n], phase[n], pending[n], attested[n], failed_to_attest[n],
                         certified_blob[n], sent[n])

Domains ==
  /\ DOMAIN cursor = Nodes /\ DOMAIN phase = Nodes /\ DOMAIN pending = Nodes
  /\ DOMAIN attested = Nodes /\ DOMAIN failed_to_attest = Nodes
  /\ DOMAIN certified_blob = Nodes /\ DOMAIN sent = Nodes

RecordedInv ==
  /\ StreamInv
  /\ ContractInv
  /\ Domains
  /\ \A n \in Nodes : WriterInv(n)

SameWriter(n) ==
  /\ cursor'[n] = cursor[n] /\ phase'[n] = phase[n] /\ pending'[n] = pending[n]
  /\ attested'[n] = attested[n] /\ failed_to_attest'[n] = failed_to_attest[n]
  /\ certified_blob'[n] = certified_blob[n] /\ sent'[n] = sent[n]

(* Only writer n changes, to these values.                                 *)
Becomes(n, i, ph, p, a, f, c, t) ==
  /\ Domains'
  /\ \A m \in Nodes \ {n} : SameWriter(m)
  /\ cursor'[n] = i /\ phase'[n] = ph /\ pending'[n] = p /\ attested'[n] = a
  /\ failed_to_attest'[n] = f /\ certified_blob'[n] = c /\ sent'[n] = t

(* What a writer has stays right when stream and contract go on.           *)
LEMMA WriterKept ==
  ASSUME StreamInv, Grows, NEW i, NEW ph, NEW p, NEW a, NEW f, NEW c, NEW t,
         WriterOK(i, ph, p, a, f, c, t)
  PROVE  WriterOK(i, ph, p, a, f, c, t)'
  <1>1. /\ Len(stream) \in Nat /\ NumBlobs \in Nat
        /\ Len(stream)' \in Nat /\ Len(stream) <= Len(stream)'
        /\ \A j \in 1 .. Len(stream) : stream'[j] = stream[j]
        /\ NumBlobs' \in Nat /\ NumBlobs <= NumBlobs'
        /\ certified \subseteq certified'
    BY StreamFacts DEF Grows
  <1>2. \A x \in 0 .. NumBlobs : x \in 0 .. NumBlobs'
    BY <1>1
  <1>3. i \in 0 .. Len(stream)'
    BY <1>1 DEF WriterOK
  <1>4. ph = "removed" => i < Len(stream)' /\ stream'[i + 1].kind = "certified"
    BY <1>1 DEF WriterOK
  <1>5. \A b \in p : b.num \in 0 .. NumBlobs'
    BY <1>2 DEF WriterOK
  <1>6. HasNum(a)' /\ HasNum(f)'
    BY <1>2 DEF WriterOK, HasNum
  <1>7. c.num \in 0 .. NumBlobs' /\ IsRecorded(c)'
    BY <1>1, <1>2 DEF WriterOK, IsRecorded
  <1>8. t.blob.num \in 0 .. NumBlobs'
    BY <1>2 DEF WriterOK
  <1> QED
    BY <1>3, <1>4, <1>5, <1>6, <1>7, <1>8 DEF WriterOK

(* A step of one writer leaves the others as they are.                     *)
LEMMA OneWriter ==
  ASSUME RecordedInv, StreamInv', ContractInv', Grows, NEW n \in Nodes,
         NEW i, NEW ph, NEW p, NEW a, NEW f, NEW c, NEW t, WriterOK(i, ph, p, a, f, c, t),
         Becomes(n, i, ph, p, a, f, c, t)
  PROVE  RecordedInv'
  <1>1. StreamInv
    BY DEF RecordedInv
  <1>2. WriterOK(i, ph, p, a, f, c, t)'
    BY <1>1, WriterKept
  <1>3. WriterInv(n)'
    BY <1>2 DEF WriterInv, Becomes
  <1>4. ASSUME NEW m \in Nodes \ {n}
        PROVE  WriterInv(m)'
    <2>1. WriterInv(m) /\ SameWriter(m)
      BY <1>4 DEF RecordedInv, Becomes
    <2>2. PICK j, qh, q, d, g, e, u :
            /\ j = cursor[m] /\ qh = phase[m] /\ q = pending[m] /\ d = attested[m]
            /\ g = failed_to_attest[m] /\ e = certified_blob[m] /\ u = sent[m]
      OBVIOUS
    <2>3. WriterOK(j, qh, q, d, g, e, u)
      BY <2>1, <2>2 DEF WriterInv
    <2>4. WriterOK(j, qh, q, d, g, e, u)'
      BY <1>1, <2>3, WriterKept
    <2> QED
      BY <2>1, <2>2, <2>4 DEF WriterInv, SameWriter
  <1>5. Domains'
    BY DEF Becomes
  <1> QED
    BY <1>3, <1>4, <1>5 DEF RecordedInv

(* A certified blob stays a blob of the stream.                            *)
LEMMA CertificateKept ==
  ASSUME NumBlobs \in Nat, NumBlobs' \in Nat, NumBlobs <= NumBlobs', NEW c, Certificate(c)
  PROVE  Certificate(c)'
  <1>1. PICK x, h : \E k \in 1 .. NumBlobs :
          c.blob = [blob_id |-> <<x, k, h>>, ending_checkpoint |-> k]
    BY DEF Certificate
  <1>2. PICK k \in 1 .. NumBlobs : c.blob = [blob_id |-> <<x, k, h>>, ending_checkpoint |-> k]
    BY <1>1
  <1>3. k \in 1 .. NumBlobs'
    OBVIOUS
  <1> QED
    BY <1>2, <1>3, Zenon DEF Certificate

(* The contract and the stream do not move.                                *)
LEMMA ContractSame ==
  ASSUME StreamInv, ContractInv, UNCHANGED <<latest, certified, stream>>
  PROVE  StreamInv' /\ ContractInv' /\ Grows
  <1>1. Len(stream) \in Nat /\ NumBlobs \in Nat
    BY StreamFacts
  <1>2. UNCHANGED <<latest, certified, stream>>
    OBVIOUS
  <1>3. Ends' = Ends /\ NumBlobs' = NumBlobs /\ \A i : BlobsBefore(i)' = BlobsBefore(i)
    BY <1>2 DEF Ends, NumBlobs, BlobsBefore
  <1>4. StreamInv'
    BY <1>2, <1>3 DEF StreamInv
  <1>5. ContractInv'
    <2>1. \A c \in certified : Certificate(c)'
      BY <1>1, <1>3, CertificateKept DEF ContractInv
    <2> QED
      BY <1>2, <1>3, <2>1 DEF ContractInv
  <1>6. Grows
    BY <1>1, <1>2, <1>3 DEF Grows
  <1> QED
    BY <1>4, <1>5, <1>6

(* An element that tells of no certification.                              *)
LEMMA ContractGrows ==
  ASSUME StreamInv, ContractInv, NEW e, stream' = Append(stream, e),
         e.kind = "blob_end" => e = BlobEnd, e.kind # "certified", UNCHANGED <<latest, certified>>
  PROVE  StreamInv' /\ ContractInv' /\ Grows
  <1>1. StreamInv' /\ Grows /\ Len(stream)' = Len(stream) + 1 /\ stream'[Len(stream) + 1] = e
    BY AppendFacts
  <1>2. Len(stream) \in Nat /\ NumBlobs \in Nat
    BY StreamFacts
  <1>3. /\ \A j \in 1 .. Len(stream) : stream'[j] = stream[j]
        /\ NumBlobs' \in Nat /\ NumBlobs <= NumBlobs'
    BY <1>1 DEF Grows
  <1>4. latest' \in 0 .. NumBlobs'
    BY <1>2, <1>3 DEF ContractInv
  <1>5. \A c \in certified' : Certificate(c)'
    BY <1>2, <1>3, CertificateKept DEF ContractInv
  <1>6. \A i \in 1 .. Len(stream)' : stream'[i].kind = "certified" =>
          \E c \in certified' : c.blob.blob_id = stream'[i].id
    <2> TAKE i \in 1 .. Len(stream)'
    <2>1. CASE i \in 1 .. Len(stream)
      BY <1>3, <2>1 DEF ContractInv
    <2>2. CASE i = Len(stream) + 1
      BY <1>1, <2>2
    <2> QED
      BY <1>1, <1>2, <2>1, <2>2
  <1> QED
    BY <1>1, <1>4, <1>5, <1>6 DEF ContractInv

(* A non-empty set of numbered things has a first and a last one.          *)
LEMMA Extremes ==
  ASSUME NEW m \in Nat, NEW p, p # {}, \A b \in p : b.num \in 0 .. m
  PROVE  /\ Oldest(p) \in p /\ \A b \in p : Oldest(p).num <= b.num
         /\ Newest(p) \in p /\ \A b \in p : b.num <= Newest(p).num
  <1> DEFINE Less == {x \in Nat \X Nat : x[1] < x[2]}
             N == {b.num : b \in p}
             M == {m - b.num : b \in p}
  <1>1. IsWellFoundedOn(Less, Nat)
    BY NatLessThanWellFounded DEF OpToRel
  <1>2. N \subseteq Nat /\ N # {} /\ M \subseteq Nat /\ M # {}
    OBVIOUS
  <1> HIDE DEF Less
  <1>3. PICK x \in N : \A y \in N : <<y, x>> \notin Less
    <2> HIDE DEF N, M
    <2> QED
      BY <1>1, <1>2, WFMin
  <1>4. PICK x2 \in M : \A y \in M : <<y, x2>> \notin Less
    <2> HIDE DEF N, M
    <2> QED
      BY <1>1, <1>2, WFMin
  <1>5. /\ x \in Nat /\ \A y \in N : y \in Nat /\ x <= y
        /\ x2 \in Nat /\ \A y \in M : y \in Nat /\ x2 <= y
    <2>1. \A y, z \in Nat : <<y, z>> \notin Less => z <= y
      BY DEF Less
    <2> HIDE DEF N, M
    <2> QED
      BY <1>2, <1>3, <1>4, <2>1
  <1>6. PICK b \in p : x = b.num
    BY <1>3
  <1>7. \A c \in p : b.num <= c.num
    BY <1>5, <1>6
  <1>8. PICK d \in p : x2 = m - d.num
    BY <1>4
  <1>9. \A c \in p : c.num <= d.num
    <2> TAKE c \in p
    <2>1. m - c.num \in M
      OBVIOUS
    <2>2. m - d.num <= m - c.num /\ c.num \in Nat /\ d.num \in Nat
      BY <1>5, <1>8, <2>1
    <2> QED
      BY <2>2
  <1> QED
    BY <1>7, <1>9 DEF Oldest, Newest

(* The blob that comes next is a blob of the stream.                       *)
LEMMA NextBlobFacts ==
  ASSUME StreamInv, NEW n \in Nodes, WriterInv(n)
  PROVE  NextBlob(n).num \in 0 .. NumBlobs
  <1>1. NumBlobs \in Nat
    BY StreamFacts
  <1>2. /\ failed_to_attest[n].num \in 0 .. NumBlobs
        /\ \A b \in pending[n] : b.num \in 0 .. NumBlobs
    BY DEF WriterInv, WriterOK, HasNum
  <1>3. NoBlob.num \in 0 .. NumBlobs
    BY <1>1 DEF NoBlob
  <1>4. pending[n] # {} => Oldest(pending[n]) \in pending[n]
    BY <1>1, <1>2, Extremes
  <1>5. NextBlob(n) \in {NoBlob, failed_to_attest[n]} \cup pending[n]
    BY <1>4 DEF NextBlob
  <1> QED
    BY <1>2, <1>3, <1>5

(* The ID of a blob that is attested tells its number.                     *)
LEMMA WithIdFacts ==
  ASSUME NEW n \in Nodes, WriterInv(n), NEW b, b.num \in 0 .. NumBlobs
  PROVE  /\ HasNum(WithId(n, b))
         /\ b # NoBlob => \E x, h : WithId(n, b).id = <<x, b.num, h>> /\ WithId(n, b).num = b.num
  <1>1. CASE b = failed_to_attest[n]
    BY <1>1 DEF WithId, WriterInv, WriterOK, HasNum
  <1>2. CASE b # failed_to_attest[n]
    <2>1. WithId(n, b) = Blob(b.num, b.header, b.epoch, <<prev_certified[n], b.num, b.header>>)
      BY <1>2 DEF WithId
    <2>2. WithId(n, b).num = b.num /\ WithId(n, b).id = <<prev_certified[n], b.num, b.header>>
      BY <2>1 DEF Blob
    <2> QED
      BY <2>2 DEF HasNum
  <1> QED
    BY <1>1, <1>2

(* An attestation, whatever the contract makes of it.                      *)
LEMMA AttestContract ==
  ASSUME StreamInv, ContractInv, NEW n \in Nodes, NEW id, NEW k \in 0 .. NumBlobs, NEW x, NEW h,
         id = <<x, k, h>>, CertifyEventBlob(n, [blob_id |-> id, ending_checkpoint |-> k]),
         stream' = IF latest' # latest THEN Append(stream, BlobCertified(id)) ELSE stream
  PROVE  StreamInv' /\ ContractInv' /\ Grows
  <1> DEFINE b == [blob_id |-> id, ending_checkpoint |-> k]
  <1>1. NumBlobs \in Nat /\ k \in Nat /\ latest \in Nat /\ Len(stream) \in Nat
    BY StreamFacts DEF ContractInv
  <1>2. b.ending_checkpoint = k /\ b.blob_id = id
    OBVIOUS
  <1>3. CASE latest' = latest /\ certified' = certified
    <2>1. stream' = stream
      BY <1>3
    <2> QED
      BY <1>3, <2>1, ContractSame
  <1>4. ASSUME NEW d, d.blob = b, ~ (latest >= k), latest' = k, certified' = certified \cup {d}
        PROVE  StreamInv' /\ ContractInv' /\ Grows
    <2> DEFINE e == BlobCertified(id)
    <2>1. latest' # latest /\ k # 0 /\ k \in 1 .. NumBlobs
      BY <1>1, <1>4
    <2>2. stream' = Append(stream, e) /\ e.kind = "certified" /\ e.id = id
      BY <2>1 DEF BlobCertified
    <2> HIDE DEF e
    <2>3. /\ StreamInv' /\ Grows /\ Len(stream)' = Len(stream) + 1
          /\ stream'[Len(stream) + 1] = e
      BY <1>4, <2>2, AppendFacts
    <2>4. /\ \A j \in 1 .. Len(stream) : stream'[j] = stream[j]
          /\ NumBlobs' \in Nat /\ NumBlobs <= NumBlobs'
      BY <2>3 DEF Grows
    <2>5. latest' \in 0 .. NumBlobs' /\ k \in 1 .. NumBlobs'
      BY <1>1, <1>4, <2>1, <2>4
    <2>6. d \in certified' /\ d.blob.ending_checkpoint = latest' /\ d.blob.blob_id = id
      BY <1>2, <1>4
    <2>7. Certificate(d)'
      BY <1>4, <2>5, Zenon DEF Certificate
    <2>8. \A c \in certified' : Certificate(c)'
      BY <1>1, <1>4, <2>4, <2>7, CertificateKept DEF ContractInv
    <2>9. \A i \in 1 .. Len(stream)' : stream'[i].kind = "certified" =>
            \E c \in certified' : c.blob.blob_id = stream'[i].id
      <3> TAKE i \in 1 .. Len(stream)'
      <3>1. CASE i \in 1 .. Len(stream)
        BY <1>4, <2>4, <3>1 DEF ContractInv
      <3>2. CASE i = Len(stream) + 1
        BY <2>2, <2>3, <2>6, <3>2
      <3> QED
        BY <1>1, <2>3, <3>1, <3>2
    <2> QED
      BY <2>3, <2>5, <2>6, <2>8, <2>9 DEF ContractInv
  <1> DEFINE d == [blob |-> b, epoch |-> epoch, shards |-> ShardsOf(attesters[b] \cup {n})]
  <1>5. \/ latest' = latest /\ certified' = certified
        \/ ~ (latest >= k) /\ latest' = k /\ certified' = certified \cup {d}
    BY <1>2 DEF CertifyEventBlob, IsAlreadyCertified
  <1>6. d.blob = b
    OBVIOUS
  <1> HIDE DEF b, d
  <1> QED
    BY <1>3, <1>4, <1>5, <1>6

(* A step of one writer that leaves stream and contract alone.             *)
LEMMA WriterAlone ==
  ASSUME RecordedInv, UNCHANGED <<latest, certified, stream>>, NEW n \in Nodes,
         NEW i, NEW ph, NEW p, NEW a, NEW f, NEW c, NEW t, WriterOK(i, ph, p, a, f, c, t),
         Becomes(n, i, ph, p, a, f, c, t)
  PROVE  RecordedInv' /\ Grows
  <1>1. StreamInv /\ ContractInv
    BY DEF RecordedInv
  <1>2. StreamInv' /\ ContractInv' /\ Grows
    BY <1>1, ContractSame
  <1> QED
    BY <1>2, OneWriter

(* A step of the stream that leaves all writers alone.                     *)
LEMMA NoWriter ==
  ASSUME RecordedInv, StreamInv', ContractInv', Grows,
         UNCHANGED <<cursor, phase, pending, attested, failed_to_attest, certified_blob, sent>>
  PROVE  RecordedInv'
  <1>1. StreamInv
    BY DEF RecordedInv
  <1>2. ASSUME NEW m \in Nodes
        PROVE  WriterInv(m)'
    <2>1. PICK j, qh, q, d, g, e, u :
            /\ j = cursor[m] /\ qh = phase[m] /\ q = pending[m] /\ d = attested[m]
            /\ g = failed_to_attest[m] /\ e = certified_blob[m] /\ u = sent[m]
      OBVIOUS
    <2>2. WriterOK(j, qh, q, d, g, e, u)
      BY <2>1 DEF RecordedInv, WriterInv
    <2>3. WriterOK(j, qh, q, d, g, e, u)'
      BY <1>1, <2>2, WriterKept
    <2> QED
      BY <2>1, <2>3 DEF WriterInv
  <1>3. Domains'
    BY DEF RecordedInv, Domains
  <1> QED
    BY <1>2, <1>3 DEF RecordedInv

(* What the invariant says of one writer.                                  *)
LEMMA WriterFacts ==
  ASSUME RecordedInv, NEW n \in Nodes
  PROVE  /\ StreamInv /\ ContractInv /\ Domains /\ WriterInv(n)
         /\ Len(stream) \in Nat /\ NumBlobs \in Nat
         /\ cursor[n] \in 0 .. Len(stream)
         /\ \A b \in pending[n] : b.num \in 0 .. NumBlobs
         /\ HasNum(attested[n]) /\ HasNum(failed_to_attest[n])
         /\ attested[n].num \in 0 .. NumBlobs /\ failed_to_attest[n].num \in 0 .. NumBlobs
         /\ certified_blob[n].num \in 0 .. NumBlobs /\ IsRecorded(certified_blob[n])
         /\ sent[n].blob.num \in 0 .. NumBlobs
         /\ HasNum(NoBlob) /\ NotSent.blob.num \in 0 .. NumBlobs
  <1>1. StreamInv /\ ContractInv /\ Domains /\ WriterInv(n)
    BY DEF RecordedInv
  <1>2. Len(stream) \in Nat /\ NumBlobs \in Nat
    BY <1>1, StreamFacts
  <1>3. HasNum(NoBlob) /\ NotSent.blob.num \in 0 .. NumBlobs
    BY <1>2 DEF HasNum, NoBlob, NotSent
  <1> QED
    BY <1>1, <1>2, <1>3 DEF WriterInv, WriterOK, HasNum

-----------------------------------------------------------------------------
(* Event blob writers: what their actions do.                              *)

(* The contract and the stream do not move.                                *)
Quiet == UNCHANGED <<latest, certified, stream>>

(* Only position and phase of the writer change.                           *)
Moves(n, i, ph) ==
  Becomes(n, i, ph, pending[n], attested[n], failed_to_attest[n], certified_blob[n], sent[n])

CutBlob(n) == Blob(BlobsBefore(cursor[n]) + 1, header[n], current_epoch[n], <<>>)

(* A blob is cut.                                                          *)
LEMMA BlobEndEffect ==
  ASSUME Domains, NEW n \in Nodes, WriteBlobEnd(n)
  PROVE  /\ Quiet /\ cursor[n] < Len(stream) /\ stream[cursor[n] + 1].kind = "blob_end"
         /\ Becomes(n, cursor[n] + 1, "attest", pending[n] \cup {CutBlob(n)}, attested[n],
                    failed_to_attest[n], certified_blob[n], sent[n])
  <1>1. /\ cursor' = [cursor EXCEPT ![n] = @ + 1] /\ phase' = [phase EXCEPT ![n] = "attest"]
        /\ pending' = [pending EXCEPT ![n] = @ \cup {CutBlob(n)}]
        /\ UNCHANGED <<attested, failed_to_attest, certified_blob, sent>>
        /\ Quiet /\ cursor[n] < Len(stream) /\ stream[cursor[n] + 1].kind = "blob_end"
    BY DEF WriteBlobEnd, Written, vars, Reads, CutBlob, Quiet
  <1> QED
    BY <1>1 DEF Becomes, Domains, SameWriter

(* The attested blob is pending again.                                     *)
LEMMA EpochChangeEffect ==
  ASSUME Domains, NEW n \in Nodes, WriteEpochChangeStart(n)
  PROVE  /\ Quiet /\ cursor[n] < Len(stream) /\ stream[cursor[n] + 1].kind = "epoch_change_start"
         /\ Becomes(n, cursor[n] + 1, "attest", WithAttested(n), NoBlob,
                    failed_to_attest[n], certified_blob[n], sent[n])
  <1>1. /\ cursor' = [cursor EXCEPT ![n] = @ + 1] /\ phase' = [phase EXCEPT ![n] = "attest"]
        /\ pending' = [pending EXCEPT ![n] = WithAttested(n)]
        /\ attested' = [attested EXCEPT ![n] = NoBlob]
        /\ UNCHANGED <<failed_to_attest, certified_blob, sent>>
        /\ Quiet /\ cursor[n] < Len(stream)
        /\ stream[cursor[n] + 1].kind = "epoch_change_start"
    BY DEF WriteEpochChangeStart, Written, vars, Reads, Quiet
  <1> QED
    BY <1>1 DEF Becomes, Domains, SameWriter

(* Reading a certification that is none of the writer's business, removing *)
(* a file, and leaving attestations for later.                             *)
LEMMA IdleEffect ==
  ASSUME Domains, NEW n \in Nodes,
         \/ WriteUnmatched(n) \/ WriteOther(n) \/ SkipAttestation(n)
         \/ \E b \in Outstanding(n) : RemoveFile(n, b)
  PROVE  /\ Quiet /\ phase[n] \in {"idle", "attest"}
         /\ \/ /\ cursor[n] < Len(stream) /\ stream[cursor[n] + 1].kind = "certified"
               /\ Moves(n, cursor[n] + 1, "attest") \/ Moves(n, cursor[n], "removed")
            \/ Moves(n, cursor[n], "attest")
            \/ Moves(n, cursor[n], "idle")
  <1>1. CASE WriteUnmatched(n)
    <2>1. /\ cursor' = [cursor EXCEPT ![n] = @ + 1] /\ phase' = [phase EXCEPT ![n] = "attest"]
          /\ UNCHANGED <<pending, attested, failed_to_attest, certified_blob, sent>>
          /\ Quiet /\ cursor[n] < Len(stream) /\ stream[cursor[n] + 1].kind = "certified"
          /\ phase[n] = "idle"
      BY <1>1 DEF WriteUnmatched, Reads, Written, vars, tableVars, Quiet
    <2>2. Moves(n, cursor[n] + 1, "attest")
      BY <2>1 DEF Becomes, Moves, Domains, SameWriter
    <2> QED
      BY <2>1, <2>2
  <1>2. ASSUME NEW ph, phase' = [phase EXCEPT ![n] = ph],
               UNCHANGED <<cursor, pending, attested, failed_to_attest, certified_blob, sent>>
        PROVE  Moves(n, cursor[n], ph)
    BY <1>2 DEF Becomes, Moves, Domains, SameWriter
  <1>3. CASE WriteOther(n)
    <2>1. /\ phase' = [phase EXCEPT ![n] = "attest"]
          /\ UNCHANGED <<cursor, pending, attested, failed_to_attest, certified_blob, sent>>
          /\ Quiet /\ phase[n] = "idle"
      BY <1>3 DEF WriteOther, vars, tableVars, Quiet
    <2> QED
      BY <1>2, <2>1
  <1>4. CASE SkipAttestation(n)
    <2>1. /\ phase' = [phase EXCEPT ![n] = "idle"]
          /\ UNCHANGED <<cursor, pending, attested, failed_to_attest, certified_blob, sent>>
          /\ Quiet /\ phase[n] = "attest"
      BY <1>4 DEF SkipAttestation, vars, memoryVars, tableVars, Quiet
    <2> QED
      BY <1>2, <2>1
  <1>5. CASE \E b \in Outstanding(n) : RemoveFile(n, b)
    <2>1. /\ phase' = [phase EXCEPT ![n] = "removed"]
          /\ UNCHANGED <<cursor, pending, attested, failed_to_attest, certified_blob, sent>>
          /\ Quiet /\ cursor[n] < Len(stream) /\ stream[cursor[n] + 1].kind = "certified"
          /\ phase[n] = "idle"
      BY <1>5 DEF RemoveFile, Reads, vars, memoryVars, tableVars, Quiet
    <2> QED
      BY <1>2, <2>1
  <1> QED
    BY <1>1, <1>3, <1>4, <1>5

Unless(b, d) == IF b = d THEN NoBlob ELSE b

(* A certification is recorded.                                            *)
LEMMA CertificationEffect ==
  ASSUME Domains, NEW n \in Nodes, NEW b \in Outstanding(n), WriteCertified(n, b)
  PROVE  /\ Quiet /\ phase[n] = "removed" /\ b # NoBlob /\ b.id = stream[cursor[n] + 1].id
         /\ Becomes(n, cursor[n] + 1, "attest", pending[n], Unless(attested[n], b),
                    Unless(failed_to_attest[n], b), b, sent[n])
  <1>1. /\ cursor' = [cursor EXCEPT ![n] = @ + 1] /\ phase' = [phase EXCEPT ![n] = "attest"]
        /\ attested' = [attested EXCEPT ![n] = Unless(@, b)]
        /\ failed_to_attest' = [failed_to_attest EXCEPT ![n] = Unless(@, b)]
        /\ certified_blob' = [certified_blob EXCEPT ![n] = b]
        /\ UNCHANGED <<pending, sent>>
        /\ Quiet /\ phase[n] = "removed" /\ b # NoBlob /\ b.id = stream[cursor[n] + 1].id
    BY DEF WriteCertified, Written, vars, IsMatch, Unless, Quiet
  <1> QED
    BY <1>1 DEF Becomes, Domains, SameWriter

(* An attestation that goes well or not, as far as the writer knows.       *)
Sending(n, ok) ==
  \/ AttestInVain(n) /\ ok = TRUE
  \/ FailToAttest(n) /\ ok = FALSE
  \/ AttestBlob(n, ok)

(* The attestation of the next blob is under way.                          *)
LEMMA SendEffect ==
  ASSUME Domains, NEW n \in Nodes, NEW ok \in BOOLEAN, Sending(n, ok)
  PROVE  /\ phase[n] = "attest" /\ NextBlob(n) # NoBlob
         /\ Becomes(n, cursor[n], "sent", pending[n], attested[n], failed_to_attest[n],
                    certified_blob[n], [blob |-> NextBlob(n), ok |-> ok])
  <1> DEFINE t == [blob |-> NextBlob(n), ok |-> ok]
  <1>1. /\ phase' = [phase EXCEPT ![n] = "sent"] /\ sent' = [sent EXCEPT ![n] = t]
        /\ UNCHANGED <<cursor, pending, attested, failed_to_attest, certified_blob>>
        /\ phase[n] = "attest" /\ NextBlob(n) # NoBlob
    BY DEF Sending, AttestInVain, FailToAttest, AttestBlob, Sends, vars, tableVars
  <1> HIDE DEF t
  <1>2. Becomes(n, cursor[n], "sent", pending[n], attested[n], failed_to_attest[n],
                certified_blob[n], t)
    BY <1>1 DEF Becomes, Domains, SameWriter
  <1> QED
    BY <1>1, <1>2 DEF t

(* The attestation is recorded.                                            *)
LEMMA RecordEffect ==
  ASSUME Domains, NEW n \in Nodes, RecordAttestation(n), NEW b, b = WithId(n, sent[n].blob)
  PROVE  /\ Quiet /\ phase[n] = "sent"
         /\ Becomes(n, cursor[n], "idle", pending[n] \ {sent[n].blob},
                    IF sent[n].ok THEN b ELSE attested[n], IF sent[n].ok THEN NoBlob ELSE b,
                    certified_blob[n], NotSent)
  <1>1. /\ attested' = [attested EXCEPT ![n] = IF sent[n].ok THEN b ELSE attested[n]]
        /\ failed_to_attest' = [failed_to_attest EXCEPT ![n] = IF sent[n].ok THEN NoBlob ELSE b]
        /\ pending' = [pending EXCEPT ![n] = @ \ {sent[n].blob}]
        /\ phase' = [phase EXCEPT ![n] = "idle"] /\ sent' = [sent EXCEPT ![n] = NotSent]
        /\ UNCHANGED <<cursor, certified_blob>>
        /\ Quiet /\ phase[n] = "sent"
    BY DEF RecordAttestation, vars, Quiet
  <1> QED
    BY <1>1 DEF Becomes, Domains, SameWriter

(* A crash leaves the tables as they are.                                  *)
LEMMA CrashEffect ==
  ASSUME Domains, NEW n \in Nodes, Crash(n)
  PROVE  /\ Quiet
         /\ Becomes(n, 0, "down", pending[n], attested[n], failed_to_attest[n],
                    certified_blob[n], NotSent)
  <1>1. /\ cursor' = [cursor EXCEPT ![n] = 0] /\ phase' = [phase EXCEPT ![n] = "down"]
        /\ sent' = [sent EXCEPT ![n] = NotSent]
        /\ UNCHANGED <<pending, attested, failed_to_attest, certified_blob>> /\ Quiet
    BY DEF Crash, vars, tableVars, Quiet
  <1> QED
    BY <1>1 DEF Becomes, Domains, SameWriter

(* What a restart finds in the tables.                                     *)
KeptBlob(n, lookup, b) == IF b \in Cleared(n, lookup) THEN NoBlob ELSE b
KeptPending(n, lookup) == pending[n] \ Cleared(n, lookup)
KeptCertified(n, lookup) ==
  IF SkipsAhead(n, lookup) THEN ChainBlob(latest) ELSE certified_blob[n]
LastKept(n, lookup) ==
  LastBlob(KeptPending(n, lookup), KeptBlob(n, lookup, failed_to_attest[n]),
           KeptBlob(n, lookup, attested[n]), KeptCertified(n, lookup))

(* The writer starts from its tables and the latest blob on chain.         *)
LEMMA RestartEffect ==
  ASSUME Domains, NEW n \in Nodes, NEW lookup, Restart(n, lookup)
  PROVE  /\ Quiet
         /\ Becomes(n, EndOf(LastKept(n, lookup).num), "attest", KeptPending(n, lookup),
                    KeptBlob(n, lookup, attested[n]), KeptBlob(n, lookup, failed_to_attest[n]),
                    KeptCertified(n, lookup), sent[n])
  <1>1. /\ cursor' = [cursor EXCEPT ![n] = EndOf(LastKept(n, lookup).num)]
        /\ phase' = [phase EXCEPT ![n] = "attest"]
        /\ pending' = [pending EXCEPT ![n] = KeptPending(n, lookup)]
        /\ attested' = [attested EXCEPT ![n] = KeptBlob(n, lookup, attested[n])]
        /\ failed_to_attest' =
             [failed_to_attest EXCEPT ![n] = KeptBlob(n, lookup, failed_to_attest[n])]
        /\ certified_blob' = [certified_blob EXCEPT ![n] = KeptCertified(n, lookup)]
        /\ sent' = sent /\ Quiet
    BY DEF Restart, vars, Quiet, KeptBlob, KeptPending, KeptCertified, LastKept
  <1> QED
    BY <1>1 DEF Becomes, Domains, SameWriter

(* The writer is moved to the end of a certified blob.                     *)
LEMMA RepositionEffect ==
  ASSUME Domains, NEW n \in Nodes, NEW num, Reposition(n, num)
  PROVE  /\ Quiet /\ \E c \in certified : c.blob.ending_checkpoint = num
         /\ Becomes(n, EndOf(num), "idle", pending[n], attested[n], failed_to_attest[n],
                    ChainBlob(num), sent[n])
  <1>1. /\ phase[n] = "idle" /\ \E c \in certified : c.blob.ending_checkpoint = num
        /\ cursor' = [cursor EXCEPT ![n] = EndOf(num)]
        /\ certified_blob' = [certified_blob EXCEPT ![n] = ChainBlob(num)]
        /\ UNCHANGED <<phase, pending, attested, failed_to_attest, sent>> /\ Quiet
    BY DEF Reposition, vars, Quiet
  <1> QED
    BY <1>1 DEF Becomes, Domains, SameWriter

-----------------------------------------------------------------------------
(* Event blob writers: every action keeps what they have recorded right.   *)

(* Reading the end of a blob.                                              *)
LEMMA BlobEndKeeps ==
  ASSUME RecordedInv, NEW n \in Nodes, WriteBlobEnd(n)
  PROVE  RecordedInv' /\ Grows
  <1>1. StreamInv /\ Domains /\ Len(stream) \in Nat /\ cursor[n] \in 0 .. Len(stream)
    BY WriterFacts
  <1>2. /\ Quiet /\ cursor[n] < Len(stream) /\ stream[cursor[n] + 1].kind = "blob_end"
        /\ Becomes(n, cursor[n] + 1, "attest", pending[n] \cup {CutBlob(n)}, attested[n],
                   failed_to_attest[n], certified_blob[n], sent[n])
    BY <1>1, BlobEndEffect
  <1>3. BlobsBefore(cursor[n]) + 1 \in 0 .. NumBlobs
    <2>1. PICK i : i = cursor[n]
      OBVIOUS
    <2> QED
      BY <1>1, <1>2, <2>1, NextNum
  <1>4. CutBlob(n).num \in 0 .. NumBlobs
    BY <1>3 DEF CutBlob, Blob
  <1>5. WriterOK(cursor[n] + 1, "attest", pending[n] \cup {CutBlob(n)}, attested[n],
                 failed_to_attest[n], certified_blob[n], sent[n])
    BY <1>1, <1>2, <1>4, WriterFacts DEF WriterOK
  <1> QED
    BY <1>2, <1>5, WriterAlone DEF Quiet

(* Reading that the epoch changes.                                         *)
LEMMA EpochChangeKeeps ==
  ASSUME RecordedInv, NEW n \in Nodes, WriteEpochChangeStart(n)
  PROVE  RecordedInv' /\ Grows
  <1>1. Domains /\ Len(stream) \in Nat /\ cursor[n] \in 0 .. Len(stream)
    BY WriterFacts
  <1>2. /\ Quiet /\ cursor[n] < Len(stream)
        /\ Becomes(n, cursor[n] + 1, "attest", WithAttested(n), NoBlob,
                   failed_to_attest[n], certified_blob[n], sent[n])
    BY <1>1, EpochChangeEffect
  <1>3. \A b \in WithAttested(n) : b.num \in 0 .. NumBlobs
    <2>1. ToPending(attested[n]).num = attested[n].num
      BY DEF ToPending, Blob
    <2> QED
      BY <2>1, WriterFacts DEF WithAttested
  <1>4. WriterOK(cursor[n] + 1, "attest", WithAttested(n), NoBlob, failed_to_attest[n],
                 certified_blob[n], sent[n])
    BY <1>1, <1>2, <1>3, WriterFacts DEF WriterOK
  <1> QED
    BY <1>2, <1>4, WriterAlone DEF Quiet

(* Moving on.                                                              *)
LEMMA IdleKeeps ==
  ASSUME RecordedInv, NEW n \in Nodes,
         \/ WriteUnmatched(n) \/ WriteOther(n) \/ SkipAttestation(n)
         \/ \E b \in Outstanding(n) : RemoveFile(n, b)
  PROVE  RecordedInv' /\ Grows
  <1>1. Domains /\ Len(stream) \in Nat /\ cursor[n] \in 0 .. Len(stream)
    BY WriterFacts
  <1>2. /\ Quiet
        /\ \/ /\ cursor[n] < Len(stream) /\ stream[cursor[n] + 1].kind = "certified"
              /\ Moves(n, cursor[n] + 1, "attest") \/ Moves(n, cursor[n], "removed")
           \/ Moves(n, cursor[n], "attest")
           \/ Moves(n, cursor[n], "idle")
    BY <1>1, IdleEffect
  <1>3. PICK i, ph :
          /\ i \in 0 .. Len(stream) /\ Moves(n, i, ph)
          /\ ph = "removed" => i < Len(stream) /\ stream[i + 1].kind = "certified"
    <2>1. cursor[n] < Len(stream) => cursor[n] + 1 \in 0 .. Len(stream)
      BY <1>1
    <2> QED
      BY <1>1, <1>2, <2>1
  <1>4. WriterOK(i, ph, pending[n], attested[n], failed_to_attest[n], certified_blob[n], sent[n])
    BY <1>3, WriterFacts DEF WriterOK
  <1> QED
    BY <1>2, <1>3, <1>4, WriterAlone DEF Quiet, Moves

(* Recording a certification that was read: the ID in the event is that of *)
(* a certified blob, and has the number of the blob in it.                 *)
LEMMA CertificationKeeps ==
  ASSUME RecordedInv, NEW n \in Nodes, NEW b \in Outstanding(n), WriteCertified(n, b)
  PROVE  RecordedInv' /\ Grows
  <1>1. ContractInv /\ Domains /\ Len(stream) \in Nat /\ cursor[n] \in 0 .. Len(stream)
    BY WriterFacts
  <1>2. /\ Quiet /\ phase[n] = "removed" /\ b # NoBlob /\ b.id = stream[cursor[n] + 1].id
        /\ Becomes(n, cursor[n] + 1, "attest", pending[n], Unless(attested[n], b),
                   Unless(failed_to_attest[n], b), b, sent[n])
    BY <1>1, CertificationEffect
  <1>3. cursor[n] < Len(stream) /\ stream[cursor[n] + 1].kind = "certified"
    BY <1>2 DEF RecordedInv, WriterInv, WriterOK
  <1>4. HasNum(b)
    BY WriterFacts DEF Outstanding
  <1>5. PICK c \in certified : c.blob.blob_id = b.id
    <2>1. cursor[n] + 1 \in 1 .. Len(stream)
      BY <1>1, <1>3
    <2> QED
      BY <1>1, <1>2, <1>3, <2>1 DEF ContractInv
  <1>6. PICK x, h, k : c.blob = [blob_id |-> <<x, k, h>>, ending_checkpoint |-> k]
    <2>1. Certificate(c)
      BY <1>1, <1>5 DEF ContractInv
    <2>2. PICK x, h : \E k \in 1 .. NumBlobs :
            c.blob = [blob_id |-> <<x, k, h>>, ending_checkpoint |-> k]
      BY <2>1 DEF Certificate
    <2> QED
      BY <2>2, Zenon
  <1>7. PICK y, g : b.id = <<y, b.num, g>>
    BY <1>2, <1>4 DEF HasNum
  <1>8. k = b.num
    BY <1>5, <1>6, <1>7
  <1>9. IsRecorded(b)
    BY <1>5, <1>6, <1>8 DEF IsRecorded
  <1>10. HasNum(Unless(attested[n], b)) /\ HasNum(Unless(failed_to_attest[n], b))
    BY WriterFacts DEF Unless
  <1>11. WriterOK(cursor[n] + 1, "attest", pending[n], Unless(attested[n], b),
                  Unless(failed_to_attest[n], b), b, sent[n])
    BY <1>1, <1>3, <1>4, <1>9, <1>10, WriterFacts DEF WriterOK, HasNum
  <1> QED
    BY <1>2, <1>11, WriterAlone DEF Quiet

(* An attestation, whatever becomes of it.                                 *)
LEMMA AttestKeeps ==
  ASSUME RecordedInv, NEW n \in Nodes, NEW ok \in BOOLEAN, Sending(n, ok)
  PROVE  RecordedInv' /\ Grows
  <1> DEFINE t == [blob |-> NextBlob(n), ok |-> ok]
  <1>1. StreamInv /\ ContractInv /\ WriterInv(n) /\ Domains
    BY WriterFacts
  <1>2. /\ NextBlob(n) # NoBlob
        /\ Becomes(n, cursor[n], "sent", pending[n], attested[n], failed_to_attest[n],
                   certified_blob[n], t)
    BY <1>1, SendEffect
  <1>3. NextBlob(n).num \in 0 .. NumBlobs
    BY <1>1, NextBlobFacts
  <1>4. t.blob.num \in 0 .. NumBlobs
    BY <1>3
  <1> HIDE DEF t
  <1>5. WriterOK(cursor[n], "sent", pending[n], attested[n], failed_to_attest[n],
                 certified_blob[n], t)
    BY <1>4, WriterFacts DEF WriterOK
  <1>6. StreamInv' /\ ContractInv' /\ Grows
    <2>1. CASE AttestInVain(n) \/ FailToAttest(n)
      <3>1. UNCHANGED <<latest, certified, stream>>
        BY <2>1 DEF AttestInVain, FailToAttest, vars
      <3> QED
        BY <1>1, <3>1, ContractSame
    <2>2. CASE AttestBlob(n, ok)
      <3>1. PICK b : b = NextBlob(n)
        OBVIOUS
      <3>2. PICK w : w = WithId(n, b)
        OBVIOUS
      <3>3. /\ CertifyEventBlob(n, [blob_id |-> w.id, ending_checkpoint |-> w.num])
            /\ stream' = IF latest' # latest THEN Append(stream, BlobCertified(w.id)) ELSE stream
        BY <2>2, <3>1, <3>2 DEF AttestBlob
      <3>4. b.num \in 0 .. NumBlobs /\ b # NoBlob
        BY <1>2, <1>3, <3>1
      <3>5. PICK x, h : w.id = <<x, b.num, h>> /\ w.num = b.num
        BY <1>1, <3>2, <3>4, WithIdFacts
      <3>6. PICK id, k : id = w.id /\ k = w.num
        OBVIOUS
      <3>7. /\ k \in 0 .. NumBlobs /\ id = <<x, k, h>>
            /\ CertifyEventBlob(n, [blob_id |-> id, ending_checkpoint |-> k])
            /\ stream' = IF latest' # latest THEN Append(stream, BlobCertified(id)) ELSE stream
        BY <3>3, <3>4, <3>5, <3>6
      <3> QED
        BY <1>1, <3>7, AttestContract
    <2> QED
      BY <2>1, <2>2 DEF Sending
  <1> QED
    BY <1>2, <1>5, <1>6, OneWriter

(* Recording the attestation.                                              *)
LEMMA RecordKeeps ==
  ASSUME RecordedInv, NEW n \in Nodes, RecordAttestation(n)
  PROVE  RecordedInv' /\ Grows
  <1>1. WriterInv(n) /\ Domains /\ sent[n].blob.num \in 0 .. NumBlobs
    BY WriterFacts
  <1>2. PICK b : b = WithId(n, sent[n].blob)
    OBVIOUS
  <1>3. HasNum(b)
    BY <1>1, <1>2, WithIdFacts
  <1> DEFINE a == IF sent[n].ok THEN b ELSE attested[n]
             f == IF sent[n].ok THEN NoBlob ELSE b
             p == pending[n] \ {sent[n].blob}
  <1>4. Quiet /\ Becomes(n, cursor[n], "idle", p, a, f, certified_blob[n], NotSent)
    BY <1>1, <1>2, RecordEffect
  <1>5. HasNum(a) /\ HasNum(f) /\ \A d \in p : d.num \in 0 .. NumBlobs
    BY <1>3, WriterFacts
  <1> HIDE DEF a, f, p
  <1>6. WriterOK(cursor[n], "idle", p, a, f, certified_blob[n], NotSent)
    BY <1>5, WriterFacts DEF WriterOK
  <1> QED
    BY <1>4, <1>6, WriterAlone DEF Quiet

(* A crash.                                                                *)
LEMMA CrashKeeps ==
  ASSUME RecordedInv, NEW n \in Nodes, Crash(n)
  PROVE  RecordedInv' /\ Grows
  <1>1. Domains /\ Len(stream) \in Nat
    BY WriterFacts
  <1>2. /\ Quiet
        /\ Becomes(n, 0, "down", pending[n], attested[n], failed_to_attest[n],
                   certified_blob[n], NotSent)
    BY <1>1, CrashEffect
  <1>3. WriterOK(0, "down", pending[n], attested[n], failed_to_attest[n], certified_blob[n],
                 NotSent)
    BY <1>1, WriterFacts DEF WriterOK
  <1> QED
    BY <1>2, <1>3, WriterAlone DEF Quiet

(* A certified blob that is taken from the chain is recorded rightly.      *)
LEMMA ChainBlobFacts ==
  ASSUME ContractInv, NumBlobs \in Nat, NEW num, \E c \in certified : c.blob.ending_checkpoint = num
  PROVE  ChainBlob(num).num = num /\ num \in 1 .. NumBlobs /\ IsRecorded(ChainBlob(num))
  <1> DEFINE c == CHOOSE c \in certified : c.blob.ending_checkpoint = num
  <1>1. c \in certified /\ c.blob.ending_checkpoint = num
    OBVIOUS
  <1>2. ChainBlob(num).num = num /\ ChainBlob(num).id = c.blob.blob_id
    BY DEF ChainBlob, Blob
  <1> HIDE DEF c
  <1>3. Certificate(c)
    BY <1>1 DEF ContractInv
  <1>4. PICK x, h : \E k \in 1 .. NumBlobs :
          c.blob = [blob_id |-> <<x, k, h>>, ending_checkpoint |-> k]
    BY <1>3 DEF Certificate
  <1>5. PICK k \in 1 .. NumBlobs : c.blob = [blob_id |-> <<x, k, h>>, ending_checkpoint |-> k]
    BY <1>4
  <1>6. k = num /\ c.blob = [blob_id |-> c.blob.blob_id, ending_checkpoint |-> num]
    BY <1>1, <1>5
  <1>7. IsRecorded(ChainBlob(num))
    BY <1>1, <1>2, <1>6, Zenon DEF IsRecorded
  <1> QED
    BY <1>2, <1>6, <1>7

(* Restarting from the tables, and from the latest blob on chain.          *)
LEMMA RestartKeeps ==
  ASSUME RecordedInv, NEW n \in Nodes, NEW lookup, Restart(n, lookup)
  PROVE  RecordedInv' /\ Grows
  <1>1. StreamInv /\ ContractInv /\ Domains /\ NumBlobs \in Nat
    BY WriterFacts
  <1>2. PICK a, f, p, c : /\ a = KeptBlob(n, lookup, attested[n])
                          /\ f = KeptBlob(n, lookup, failed_to_attest[n])
                          /\ p = KeptPending(n, lookup) /\ c = KeptCertified(n, lookup)
    OBVIOUS
  <1>3. PICK last : last = LastKept(n, lookup)
    OBVIOUS
  <1>4. last = LastBlob(p, f, a, c)
    BY <1>2, <1>3 DEF LastKept
  <1>5. Quiet /\ Becomes(n, EndOf(last.num), "attest", p, a, f, c, sent[n])
    BY <1>1, <1>2, <1>3, RestartEffect
  <1>6. HasNum(a) /\ HasNum(f) /\ \A b \in p : b.num \in 0 .. NumBlobs
    BY <1>2, WriterFacts DEF KeptBlob, KeptPending
  <1>7. c.num \in 0 .. NumBlobs /\ IsRecorded(c)
    <2>1. CASE SkipsAhead(n, lookup)
      <3>1. latest # 0
        BY <1>1, <2>1, WriterFacts DEF SkipsAhead, ContractInv
      <3>2. \E d \in certified : d.blob.ending_checkpoint = latest
        BY <1>1, <3>1 DEF ContractInv
      <3>3. PICK num : num = latest
        OBVIOUS
      <3>4. ChainBlob(num).num = num /\ num \in 1 .. NumBlobs /\ IsRecorded(ChainBlob(num))
        BY <1>1, <3>2, <3>3, ChainBlobFacts
      <3>5. num \in 0 .. NumBlobs /\ c = ChainBlob(num)
        BY <1>1, <1>2, <2>1, <3>3, <3>4 DEF KeptCertified
      <3> QED
        BY <3>4, <3>5
    <2>2. CASE ~ SkipsAhead(n, lookup)
      BY <1>2, <2>2, WriterFacts DEF KeptCertified
    <2> QED
      BY <2>1, <2>2
  <1>8. last.num \in 0 .. NumBlobs
    <2>1. p # {} => Newest(p) \in p
      BY <1>1, <1>6, Extremes
    <2>2. last \in p \cup {f, a, c}
      BY <1>4, <2>1 DEF LastBlob
    <2>3. \A b \in p \cup {f, a, c} : b.num \in 0 .. NumBlobs
      BY <1>6, <1>7 DEF HasNum
    <2> QED
      BY <2>2, <2>3
  <1>9. EndOf(last.num) \in 0 .. Len(stream)
    <2>1. PICK k : k = last.num
      OBVIOUS
    <2> QED
      BY <1>1, <1>8, <2>1, EndOfFacts
  <1>10. WriterOK(EndOf(last.num), "attest", p, a, f, c, sent[n])
    BY <1>6, <1>7, <1>9, WriterFacts DEF WriterOK
  <1> QED
    BY <1>5, <1>10, WriterAlone DEF Quiet

(* Repositioning.                                                          *)
LEMMA RepositionKeeps ==
  ASSUME RecordedInv, NEW n \in Nodes, NEW num, Reposition(n, num)
  PROVE  RecordedInv' /\ Grows
  <1>1. StreamInv /\ ContractInv /\ Domains /\ NumBlobs \in Nat
    BY WriterFacts
  <1>2. /\ Quiet /\ \E c \in certified : c.blob.ending_checkpoint = num
        /\ Becomes(n, EndOf(num), "idle", pending[n], attested[n], failed_to_attest[n],
                   ChainBlob(num), sent[n])
    BY <1>1, RepositionEffect
  <1>3. ChainBlob(num).num = num /\ num \in 1 .. NumBlobs /\ IsRecorded(ChainBlob(num))
    BY <1>1, <1>2, ChainBlobFacts
  <1>4. num \in 0 .. NumBlobs
    BY <1>1, <1>3
  <1>5. EndOf(num) \in 0 .. Len(stream)
    BY <1>1, <1>4, EndOfFacts
  <1>6. WriterOK(EndOf(num), "idle", pending[n], attested[n], failed_to_attest[n], ChainBlob(num),
                 sent[n])
    BY <1>3, <1>4, <1>5, WriterFacts DEF WriterOK
  <1> QED
    BY <1>2, <1>6, WriterAlone DEF Quiet

(* Another element of the stream that tells of no certification.           *)
LEMMA StreamKeeps ==
  ASSUME RecordedInv, EndBlob \/ ChangeEpoch
  PROVE  RecordedInv' /\ Grows
  <1>1. StreamInv /\ ContractInv
    BY DEF RecordedInv
  <1>2. CASE EndBlob
    <2>1. PICK e : e = BlobEnd
      OBVIOUS
    <2>2. /\ stream' = Append(stream, e) /\ e.kind = "blob_end"
          /\ UNCHANGED <<latest, certified>>
          /\ UNCHANGED <<cursor, phase, pending, attested, failed_to_attest, certified_blob, sent>>
      BY <1>2, <2>1 DEF EndBlob, BlobEnd, vars, memoryVars, tableVars
    <2>3. StreamInv' /\ ContractInv' /\ Grows
      BY <1>1, <2>1, <2>2, ContractGrows
    <2> QED
      BY <2>2, <2>3, NoWriter
  <1>3. CASE ChangeEpoch
    <2>1. PICK e : e = EpochChangeStart(epoch + 1)
      OBVIOUS
    <2>2. /\ stream' = Append(stream, e) /\ e.kind = "epoch_change_start"
          /\ UNCHANGED <<latest, certified>>
          /\ UNCHANGED <<cursor, phase, pending, attested, failed_to_attest, certified_blob, sent>>
      BY <1>3, <2>1 DEF ChangeEpoch, AdvanceEpoch, EpochChangeStart, memoryVars, tableVars
    <2>3. StreamInv' /\ ContractInv' /\ Grows
      BY <1>1, <2>2, ContractGrows
    <2> QED
      BY <2>2, <2>3, NoWriter
  <1> QED
    BY <1>2, <1>3

(* Nothing is recorded at first.                                           *)
LEMMA RecordedInit == WriterInit => RecordedInv
  <1> HAVE WriterInit
  <1>1. stream = <<>> /\ Len(stream) = 0 /\ Ends = {}
    BY DEF WriterInit, Ends
  <1>2. NumBlobs = 0
    BY <1>1, FS_EmptySet DEF NumBlobs
  <1>3. StreamInv
    BY <1>1, <1>2 DEF StreamInv
  <1>4. ContractInv
    BY <1>1, <1>2 DEF WriterInit, Init, ContractInv
  <1>5. Domains
    BY DEF WriterInit, Domains
  <1>6. HasNum(NoBlob) /\ NoBlob.num \in 0 .. NumBlobs /\ NotSent.blob.num \in 0 .. NumBlobs
    BY <1>2 DEF HasNum, NoBlob, NotSent
  <1>7. \A n \in Nodes : WriterInv(n)
    <2> TAKE n \in Nodes
    <2>1. WriterOK(0, "idle", {}, NoBlob, NoBlob, NoBlob, NotSent)
      BY <1>1, <1>6 DEF WriterOK, IsRecorded
    <2>2. /\ cursor[n] = 0 /\ phase[n] = "idle" /\ pending[n] = {} /\ attested[n] = NoBlob
          /\ failed_to_attest[n] = NoBlob /\ certified_blob[n] = NoBlob /\ sent[n] = NotSent
      BY DEF WriterInit
    <2> QED
      BY <2>1, <2>2 DEF WriterInv
  <1> QED
    BY <1>3, <1>4, <1>5, <1>7 DEF RecordedInv

(* Every step keeps what writers have recorded right.                      *)
LEMMA RecordedStep == RecordedInv /\ [WriterNext]_writerVars => RecordedInv' /\ Grows
  <1> HAVE RecordedInv /\ [WriterNext]_writerVars
  <1>1. CASE EndBlob \/ ChangeEpoch
    BY <1>1, StreamKeeps
  <1>2. ASSUME NEW n \in Nodes, Write(n)
        PROVE  RecordedInv' /\ Grows
    BY <1>2, BlobEndKeeps, EpochChangeKeeps, IdleKeeps, CertificationKeeps DEF Write
  <1>3. ASSUME NEW n \in Nodes, WriteOther(n) \/ Attest(n)
        PROVE  RecordedInv' /\ Grows
    <2>1. CASE WriteOther(n) \/ SkipAttestation(n)
      BY <2>1, IdleKeeps
    <2>2. ASSUME NEW ok \in BOOLEAN, Sending(n, ok)
          PROVE  RecordedInv' /\ Grows
      BY <2>2, AttestKeeps
    <2> QED
      BY <1>3, <2>1, <2>2 DEF Attest, Sending
  <1>4. ASSUME NEW n \in Nodes, RecordAttestation(n) \/ Crash(n)
        PROVE  RecordedInv' /\ Grows
    BY <1>4, RecordKeeps, CrashKeeps
  <1>5. ASSUME NEW n \in Nodes, \/ \E lookup \in Lookups : Restart(n, lookup)
                                \/ \E num \in 1 .. FirstKept : Reposition(n, num)
        PROVE  RecordedInv' /\ Grows
    BY <1>5, RestartKeeps, RepositionKeeps
  <1>6. CASE UNCHANGED writerVars
    <2>1. /\ UNCHANGED <<latest, certified, stream>>
          /\ UNCHANGED <<cursor, phase, pending, attested, failed_to_attest, certified_blob, sent>>
      BY <1>6 DEF writerVars, vars, memoryVars, tableVars
    <2>2. StreamInv /\ ContractInv
      BY DEF RecordedInv
    <2>3. StreamInv' /\ ContractInv' /\ Grows
      BY <2>1, <2>2, ContractSame
    <2> QED
      BY <2>1, <2>3, NoWriter
  <1> QED
    BY <1>1, <1>2, <1>3, <1>4, <1>5, <1>6 DEF WriterNext

(* Whatever crashes, resets and repositioning did to a writer: the blob    *)
(* that its table holds as certified was certified by the contract under   *)
(* the number that the writer gives it.                                    *)
THEOREM RecordedBlobsCertified == WriterSpec => []RecordedAreCertified
  <1>1. RecordedInv => RecordedAreCertified
    BY WriterFacts DEF RecordedAreCertified, IsRecorded
  <1>2. RecordedInv /\ [WriterNext]_writerVars => RecordedInv'
    BY RecordedStep
  <1> QED
    BY <1>1, <1>2, RecordedInit, PTL DEF WriterSpec

-----------------------------------------------------------------------------
(* Event blob writers: the tables.                                         *)

(* The blobs of three tables.                                              *)
InTables(p, a, f) == p \cup ({a, f} \ {NoBlob})

(* The tables of pending, attested and failed blobs hold the blobs after   *)
(* number c up to number top, each once, at most one of them is not        *)
(* pending, and that one is the first.                                     *)
TablesOK(p, a, f, c, top) ==
  /\ c \in Nat /\ top \in Nat /\ c <= top
  /\ \A b \in InTables(p, a, f) : b.num \in c + 1 .. top
  /\ \A k \in c + 1 .. top : \E b \in InTables(p, a, f) : b.num = k
  /\ \A b, d \in InTables(p, a, f) : b.num = d.num => b = d
  /\ a = NoBlob \/ f = NoBlob
  /\ \A b \in {a, f} \ {NoBlob}, q \in p : b.num < q.num

(* Cutting a blob.                                                         *)
LEMMA TablesAdd ==
  ASSUME NEW p, NEW a, NEW f, NEW c, NEW top, TablesOK(p, a, f, c, top), NEW b, b.num = top + 1
  PROVE  TablesOK(p \cup {b}, a, f, c, top + 1)
  <1>1. c \in Nat /\ top \in Nat /\ c <= top
    BY DEF TablesOK
  <1>2. InTables(p \cup {b}, a, f) = InTables(p, a, f) \cup {b}
    BY DEF InTables
  <1>3. \A d \in InTables(p, a, f) : d.num \in c + 1 .. top
    BY DEF TablesOK
  <1>4. \A d \in InTables(p, a, f) \cup {b} : d.num \in c + 1 .. top + 1
    BY <1>1, <1>3
  <1>5. \A k \in c + 1 .. top + 1 : \E d \in InTables(p, a, f) \cup {b} : d.num = k
    <2> TAKE k \in c + 1 .. top + 1
    <2>1. k \in c + 1 .. top \/ k = top + 1
      BY <1>1
    <2> QED
      BY <2>1 DEF TablesOK
  <1>6. \A d, e \in InTables(p, a, f) \cup {b} : d.num = e.num => d = e
    <2>1. \A d \in InTables(p, a, f) : d.num # top + 1
      BY <1>1, <1>3
    <2> QED
      BY <2>1 DEF TablesOK
  <1>7. \A d \in {a, f} \ {NoBlob}, q \in p \cup {b} : d.num < q.num
    <2>1. \A d \in {a, f} \ {NoBlob} : d.num \in c + 1 .. top
      BY <1>3 DEF InTables
    <2> QED
      BY <1>1, <2>1 DEF TablesOK
  <1>8. top + 1 \in Nat /\ c <= top + 1 /\ (a = NoBlob \/ f = NoBlob)
    BY <1>1 DEF TablesOK
  <1> QED
    BY <1>1, <1>2, <1>4, <1>5, <1>6, <1>7, <1>8, Zenon DEF TablesOK

(* The two tables of outstanding blobs are alike.                          *)
LEMMA TablesSwap ==
  ASSUME NEW p, NEW a, NEW f, NEW c, NEW top, TablesOK(p, a, f, c, top)
  PROVE  TablesOK(p, f, a, c, top)
  <1>1. InTables(p, f, a) = InTables(p, a, f) /\ {a, f} = {f, a}
    BY DEF InTables
  <1> QED
    BY <1>1 DEF TablesOK

(* A blob is replaced by another one with its number; it comes first if it *)
(* is not pending.                                                         *)
LEMMA TablesReplace ==
  ASSUME NEW p, NEW a, NEW f, NEW c, NEW top, TablesOK(p, a, f, c, top),
         NEW p2, NEW a2, NEW f2, NEW b \in InTables(p, a, f), NEW d, d.num = b.num,
         InTables(p2, a2, f2) = (InTables(p, a, f) \ {b}) \cup {d},
         a2 = NoBlob \/ f2 = NoBlob,
         \A e \in {a2, f2} \ {NoBlob}, q \in p2 : e.num < q.num
  PROVE  TablesOK(p2, a2, f2, c, top)
  <1> DEFINE u == InTables(p, a, f)
  <1>1. /\ c \in Nat /\ top \in Nat /\ c <= top
        /\ \A e \in u : e.num \in c + 1 .. top
        /\ \A k \in c + 1 .. top : \E e \in u : e.num = k
        /\ \A e, g \in u : e.num = g.num => e = g
    BY DEF TablesOK
  <1>2. InTables(p2, a2, f2) = (u \ {b}) \cup {d} /\ b \in u
    OBVIOUS
  <1> HIDE DEF u
  <1>3. \A e \in (u \ {b}) \cup {d} : e.num \in c + 1 .. top
    BY <1>1, <1>2
  <1>4. \A k \in c + 1 .. top : \E e \in (u \ {b}) \cup {d} : e.num = k
    <2> TAKE k \in c + 1 .. top
    <2>1. PICK e \in u : e.num = k
      BY <1>1
    <2>2. CASE e = b
      BY <2>1, <2>2
    <2>3. CASE e # b
      BY <2>1, <2>3
    <2> QED
      BY <2>2, <2>3
  <1>5. \A e, g \in (u \ {b}) \cup {d} : e.num = g.num => e = g
    BY <1>1, <1>2
  <1> QED
    BY <1>1, <1>2, <1>3, <1>4, <1>5 DEF TablesOK

(* The blob that is next if none is attested.                              *)
NextOf(p, a, f) ==
  CASE a # NoBlob -> NoBlob
    [] a = NoBlob /\ f # NoBlob -> f
    [] OTHER -> IF p = {} THEN NoBlob ELSE Oldest(p)

(* The next blob is the one after the certified blob.                      *)
LEMMA NextIsFirst ==
  ASSUME NEW p, NEW a, NEW f, NEW c, NEW top, TablesOK(p, a, f, c, top),
         NextOf(p, a, f) # NoBlob
  PROVE  /\ a = NoBlob /\ NextOf(p, a, f) \in InTables(p, a, f)
         /\ NextOf(p, a, f).num = c + 1 /\ c < top
         /\ f # NoBlob => NextOf(p, a, f) = f /\ f \notin p
         /\ f = NoBlob => NextOf(p, a, f) \in p /\ InTables(p, a, f) = p
         /\ \A q \in p \ {NextOf(p, a, f)} : c + 1 < q.num
  <1> DEFINE b == NextOf(p, a, f)
             u == InTables(p, a, f)
  <1>1. /\ c \in Nat /\ top \in Nat /\ c <= top
        /\ \A e \in u : e.num \in c + 1 .. top
        /\ \A k \in c + 1 .. top : \E e \in u : e.num = k
        /\ \A e, g \in u : e.num = g.num => e = g
        /\ \A e \in {a, f} \ {NoBlob}, q \in p : e.num < q.num
    BY DEF TablesOK
  <1>2. a = NoBlob
    BY DEF NextOf
  <1>3. p \subseteq u
    BY DEF InTables
  <1>4. p # {} => Oldest(p) \in p /\ \A q \in p : Oldest(p).num <= q.num
    <2>1. \A q \in p : q.num \in 0 .. top
      BY <1>1, <1>3
    <2> QED
      BY <1>1, <2>1, Extremes
  <1>5. CASE f # NoBlob
    <2>1. b = f /\ f \in u
      BY <1>2, <1>5 DEF NextOf, InTables
    <2>2. \A e \in u : f.num <= e.num
      <3>1. u = p \cup {f}
        BY <1>2, <1>5 DEF InTables
      <3>2. f.num \in Nat /\ \A e \in u : e.num \in Nat
        BY <1>1, <2>1
      <3> QED
        BY <1>1, <1>5, <3>1, <3>2
    <2>3. f.num \in c + 1 .. top
      BY <1>1, <2>1
    <2>4. PICK e \in u : e.num = c + 1
      BY <1>1, <2>3
    <2>5. f.num <= c + 1
      BY <2>2, <2>4
    <2>6. f.num = c + 1 /\ c < top
      BY <1>1, <2>3, <2>5
    <2>7. f \notin p
      <3> SUFFICES ASSUME f \in p PROVE FALSE
        OBVIOUS
      <3>1. f.num < f.num
        BY <1>1, <1>5
      <3> QED
        BY <1>1, <2>6, <3>1
    <2>8. \A q \in p : c + 1 < q.num
      BY <1>1, <1>5, <2>6
    <2> QED
      BY <1>2, <1>5, <2>1, <2>6, <2>7, <2>8
  <1>6. CASE f = NoBlob
    <2>1. p # {} /\ b = Oldest(p) /\ u = p
      BY <1>2, <1>6 DEF NextOf, InTables
    <2>2. b \in p /\ \A q \in p : b.num <= q.num
      BY <1>4, <2>1
    <2> HIDE DEF b
    <2>3. b.num \in c + 1 .. top
      BY <1>1, <2>1, <2>2
    <2>4. PICK e \in u : e.num = c + 1
      BY <1>1, <2>3
    <2>5. b.num <= c + 1
      BY <2>1, <2>2, <2>4
    <2>6. b.num = c + 1 /\ c < top
      BY <1>1, <2>3, <2>5
    <2>7. \A q \in p \ {b} : c + 1 < q.num
      <3> TAKE q \in p \ {b}
      <3>1. q.num # b.num /\ b.num <= q.num /\ q.num \in c + 1 .. top
        BY <1>1, <2>1, <2>2
      <3> QED
        BY <1>1, <2>6, <3>1
    <2> QED
      BY <1>2, <1>6, <2>1, <2>2, <2>6, <2>7 DEF b
  <1> QED
    BY <1>5, <1>6

(* The next blob is attested, or that fails.                               *)
LEMMA TablesAttest ==
  ASSUME NEW p, NEW a, NEW f, NEW c, NEW top, TablesOK(p, a, f, c, top), NEW b,
         b = NextOf(p, a, f), b # NoBlob, NEW w, w.num = b.num
  PROVE  TablesOK(p \ {b}, w, NoBlob, c, top) /\ TablesOK(p \ {b}, NoBlob, w, c, top)
  <1>1. /\ a = NoBlob /\ b \in InTables(p, a, f) /\ b.num = c + 1
        /\ f # NoBlob => b = f /\ f \notin p
        /\ f = NoBlob => b \in p /\ InTables(p, a, f) = p
        /\ \A q \in p \ {b} : c + 1 < q.num
    BY NextIsFirst
  <1>2. c \in Nat
    BY DEF TablesOK
  <1>3. w # NoBlob
    BY <1>1, <1>2 DEF NoBlob
  <1>4. InTables(p \ {b}, w, NoBlob) = (InTables(p, a, f) \ {b}) \cup {w}
    <2>1. InTables(p \ {b}, w, NoBlob) = (p \ {b}) \cup {w}
      BY <1>3 DEF InTables
    <2>2. InTables(p, a, f) \ {b} = p \ {b}
      <3>1. CASE f # NoBlob
        <4>1. InTables(p, a, f) = p \cup {b}
          BY <1>1, <3>1 DEF InTables
        <4> QED
          BY <4>1
      <3>2. CASE f = NoBlob
        BY <1>1, <3>2
      <3> QED
        BY <3>1, <3>2
    <2> QED
      BY <2>1, <2>2
  <1>5. \A e \in {w, NoBlob} \ {NoBlob}, q \in p \ {b} : e.num < q.num
    BY <1>1
  <1>6. TablesOK(p \ {b}, w, NoBlob, c, top)
    <2>1. PICK p2 : p2 = p \ {b}
      OBVIOUS
    <2>2. PICK e0 : e0 = NoBlob
      OBVIOUS
    <2>3. /\ InTables(p2, w, e0) = (InTables(p, a, f) \ {b}) \cup {w}
          /\ \A e \in {w, e0} \ {NoBlob}, q \in p2 : e.num < q.num
          /\ b \in InTables(p, a, f) /\ w.num = b.num /\ (w = NoBlob \/ e0 = NoBlob)
      BY <1>1, <1>4, <1>5, <2>1, <2>2
    <2>4. TablesOK(p2, w, e0, c, top)
      BY <2>3, TablesReplace
    <2> QED
      BY <2>1, <2>2, <2>4
  <1> QED
    BY <1>6, TablesSwap

(* The attested blob is pending again.                                     *)
LEMMA TablesRequeue ==
  ASSUME NEW p, NEW a, NEW f, NEW c, NEW top, TablesOK(p, a, f, c, top), a # NoBlob,
         NEW d, d.num = a.num
  PROVE  TablesOK(p \cup {d}, NoBlob, f, c, top)
  <1>1. f = NoBlob
    BY DEF TablesOK
  <1>2. a \notin p
    <2> SUFFICES ASSUME a \in p PROVE FALSE
      OBVIOUS
    <2>1. a.num < a.num /\ c \in Nat /\ a.num \in c + 1 .. top
      BY DEF TablesOK, InTables
    <2> QED
      BY <2>1
  <1>3. InTables(p, a, f) = p \cup {a} /\ InTables(p \cup {d}, NoBlob, f) = p \cup {d}
    BY <1>1 DEF InTables
  <1>4. InTables(p \cup {d}, NoBlob, f) = (InTables(p, a, f) \ {a}) \cup {d}
    BY <1>2, <1>3
  <1>5. PICK p2 : p2 = p \cup {d}
    OBVIOUS
  <1>6. TablesOK(p2, NoBlob, f, c, top)
    BY <1>1, <1>3, <1>4, <1>5, TablesReplace
  <1> QED
    BY <1>5, <1>6

(* The blob that is not pending is certified.                              *)
LEMMA TablesCertify ==
  ASSUME NEW p, NEW a, NEW f, NEW c, NEW top, TablesOK(p, a, f, c, top), f # NoBlob
  PROVE  a = NoBlob /\ f.num = c + 1 /\ TablesOK(p, NoBlob, NoBlob, f.num, top)
  <1>1. a = NoBlob
    BY DEF TablesOK
  <1>2. NextOf(p, a, f) = f
    BY <1>1 DEF NextOf
  <1>3. f.num = c + 1 /\ c < top /\ f \notin p /\ \A q \in p \ {f} : c + 1 < q.num
    BY <1>2, NextIsFirst
  <1>4. InTables(p, a, f) = p \cup {f} /\ InTables(p, NoBlob, NoBlob) = p
    BY <1>1 DEF InTables
  <1>5. /\ c \in Nat /\ top \in Nat /\ c <= top
        /\ \A e \in p \cup {f} : e.num \in c + 1 .. top
        /\ \A k \in c + 1 .. top : \E e \in p \cup {f} : e.num = k
        /\ \A e, g \in p \cup {f} : e.num = g.num => e = g
    BY <1>4 DEF TablesOK
  <1>6. \A e \in p : e.num \in c + 1 + 1 .. top
    BY <1>3, <1>5
  <1>7. \A k \in c + 1 + 1 .. top : \E e \in p : e.num = k
    <2> TAKE k \in c + 1 + 1 .. top
    <2>1. k \in c + 1 .. top /\ k # c + 1
      BY <1>5
    <2>2. PICK e \in p \cup {f} : e.num = k
      BY <1>5, <2>1
    <2> QED
      BY <1>3, <2>1, <2>2
  <1>8. c + 1 \in Nat /\ c + 1 <= top
    BY <1>3, <1>5
  <1>9. \A e \in {NoBlob, NoBlob} \ {NoBlob}, q \in p : e.num < q.num
    OBVIOUS
  <1>10. TablesOK(p, NoBlob, NoBlob, c + 1, top)
    BY <1>4, <1>5, <1>6, <1>7, <1>8, <1>9, Zenon DEF TablesOK
  <1> QED
    BY <1>1, <1>3, <1>10

(* The blobs after number l, and a table from which some are deleted.      *)
After(u, l) == {b \in u : b.num > l}
Without(b, gone) == IF b \in gone THEN NoBlob ELSE b

(* A reset forgets the blobs after number l.                               *)
LEMMA TablesCut ==
  ASSUME NEW p, NEW a, NEW f, NEW c, NEW top, TablesOK(p, a, f, c, top), NEW l \in Nat, NEW gone,
         gone = After(InTables(p, a, f), l)
  PROVE  \E m \in Nat : TablesOK(p \ gone, Without(a, gone), Without(f, gone), c, m) /\ m <= top
  <1> DEFINE u == InTables(p, a, f)
             a2 == Without(a, gone)
             f2 == Without(f, gone)
             m == IF top <= l THEN top ELSE IF c <= l THEN l ELSE c
  <1>1. /\ c \in Nat /\ top \in Nat /\ c <= top
        /\ \A e \in u : e.num \in c + 1 .. top
        /\ \A k \in c + 1 .. top : \E e \in u : e.num = k
        /\ \A e, g \in u : e.num = g.num => e = g
        /\ a = NoBlob \/ f = NoBlob
        /\ \A e \in {a, f} \ {NoBlob}, q \in p : e.num < q.num
    BY DEF TablesOK
  <1>2. InTables(p \ gone, a2, f2) = u \ gone
    BY DEF InTables, Without
  <1>3. \A e : e \in u \ gone <=> e \in u /\ e.num <= l
    <2>1. \A e \in u : e.num \in Nat
      BY <1>1
    <2> HIDE DEF u
    <2>2. \A e \in u : e \in gone <=> e.num > l
      BY DEF u, After
    <2> QED
      BY <2>1, <2>2
  <1>4. a2 = NoBlob \/ f2 = NoBlob
    BY <1>1 DEF Without
  <1>5. \A e \in {a2, f2} \ {NoBlob}, q \in p \ gone : e.num < q.num
    BY <1>1 DEF Without
  <1> HIDE DEF u
  <1>6. m \in Nat /\ c <= m /\ m <= top
    BY <1>1
  <1>7. \A e \in u \ gone : e.num \in c + 1 .. m
    BY <1>1, <1>3
  <1>8. \A k \in c + 1 .. m : \E e \in u \ gone : e.num = k
    <2> TAKE k \in c + 1 .. m
    <2>1. k \in c + 1 .. top /\ k <= l
      BY <1>1
    <2> QED
      BY <1>1, <1>3, <2>1
  <1>9. \A e, g \in u \ gone : e.num = g.num => e = g
    BY <1>1
  <1> HIDE DEF m
  <1>10. TablesOK(p \ gone, a2, f2, c, m)
    BY <1>1, <1>2, <1>4, <1>5, <1>6, <1>7, <1>8, <1>9, Zenon DEF TablesOK
  <1> QED
    BY <1>6, <1>10

(* A writer resumes after the last blob that it has.                       *)
LEMMA LastIsTop ==
  ASSUME NEW p, NEW a, NEW f, NEW c, NEW top, TablesOK(p, a, f, c.num, top)
  PROVE  LastBlob(p, f, a, c).num = top
  <1> DEFINE u == InTables(p, a, f)
  <1>1. /\ c.num \in Nat /\ top \in Nat /\ c.num <= top
        /\ \A e \in u : e.num \in c.num + 1 .. top
        /\ \A k \in c.num + 1 .. top : \E e \in u : e.num = k
        /\ a = NoBlob \/ f = NoBlob
        /\ \A e \in {a, f} \ {NoBlob}, q \in p : e.num < q.num
    BY DEF TablesOK
  <1>2. u # {} => \E e \in u : e.num = top
    <2> HAVE u # {}
    <2>1. top \in c.num + 1 .. top
      BY <1>1
    <2> QED
      BY <1>1, <2>1
  <1>3. CASE p # {}
    <2>1. p \subseteq u
      BY DEF InTables
    <2>2. \A q \in p : q.num \in 0 .. top
      BY <1>1, <2>1
    <2>3. Newest(p) \in p /\ \A q \in p : q.num <= Newest(p).num
      BY <1>1, <1>3, <2>2, Extremes
    <2>4. PICK e \in u : e.num = top
      BY <1>2, <1>3, <2>1
    <2>5. e \in p
      <3> SUFFICES ASSUME e \notin p PROVE FALSE
        OBVIOUS
      <3>1. e \in {a, f} \ {NoBlob}
        BY DEF InTables
      <3>2. top < Newest(p).num /\ Newest(p).num \in 0 .. top
        BY <1>1, <2>2, <2>3, <2>4, <3>1
      <3> QED
        BY <1>1, <3>2
    <2>6. top <= Newest(p).num /\ Newest(p).num \in 0 .. top
      BY <2>2, <2>3, <2>4, <2>5
    <2>7. LastBlob(p, f, a, c) = Newest(p)
      BY <1>3 DEF LastBlob
    <2> QED
      BY <1>1, <2>6, <2>7
  <1>4. CASE p = {} /\ f # NoBlob
    <2>1. u = {f}
      BY <1>1, <1>4 DEF InTables
    <2>2. f.num = top
      BY <1>2, <2>1
    <2> QED
      BY <1>4, <2>2 DEF LastBlob
  <1>5. CASE p = {} /\ f = NoBlob /\ a # NoBlob
    <2>1. u = {a}
      BY <1>1, <1>5 DEF InTables
    <2>2. a.num = top
      BY <1>2, <2>1
    <2> QED
      BY <1>5, <2>2 DEF LastBlob
  <1>6. CASE p = {} /\ f = NoBlob /\ a = NoBlob
    <2>1. u = {}
      BY <1>6 DEF InTables
    <2>2. c.num + 1 \notin c.num + 1 .. top
      BY <1>1, <2>1
    <2>3. c.num = top
      BY <1>1, <2>2
    <2> QED
      BY <1>6, <2>3 DEF LastBlob
  <1> QED
    BY <1>3, <1>4, <1>5, <1>6

(* There are as many blobs as numbers.                                     *)
LEMMA TablesCount ==
  ASSUME NEW p, NEW a, NEW f, NEW c, NEW top, TablesOK(p, a, f, c, top)
  PROVE  /\ {b.num : b \in InTables(p, a, f)} = c + 1 .. top
         /\ Cardinality(InTables(p, a, f)) = top - c
  <1> DEFINE u == InTables(p, a, f)
             g == [b \in u |-> b.num]
  <1>1. /\ c \in Nat /\ top \in Nat /\ c <= top
        /\ \A e \in u : e.num \in c + 1 .. top
        /\ \A k \in c + 1 .. top : \E e \in u : e.num = k
        /\ \A e, h \in u : e.num = h.num => e = h
    BY DEF TablesOK
  <1> HIDE DEF u
  <1>2. {b.num : b \in u} = c + 1 .. top
    BY <1>1
  <1>3. g \in [u -> c + 1 .. top]
    BY <1>1
  <1>4. g \in Injection(u, c + 1 .. top)
    BY <1>1, <1>3 DEF Injection, IsInjective
  <1>5. g \in Surjection(u, c + 1 .. top)
    BY <1>1, <1>3 DEF Surjection
  <1> HIDE DEF g
  <1>6. IsFiniteSet(c + 1 .. top) /\ Cardinality(c + 1 .. top) = top - c
    <2>1. PICK k \in Int : k = c + 1
      BY <1>1
    <2>2. top \in Int
      BY <1>1
    <2>3. IsFiniteSet(k .. top) /\ Cardinality(k .. top) = IF k > top THEN 0 ELSE top - k + 1
      BY <2>1, <2>2, FS_Interval
    <2>4. (IF k > top THEN 0 ELSE top - k + 1) = top - c
      BY <1>1, <2>1
    <2> QED
      BY <2>1, <2>3, <2>4
  <1>7. Cardinality(u) = Cardinality(c + 1 .. top)
    BY <1>4, <1>5, <1>6, FS_Injection
  <1> QED
    BY <1>2, <1>6, <1>7 DEF u

-----------------------------------------------------------------------------
(* Event blob writers: no action loses a blob.                             *)

(* The tables of a writer that was not repositioned end at its position,   *)
(* and what it sends is its next blob.                                     *)
KeptOK(i, ph, p, a, f, c, t) ==
  /\ \E top \in 0 .. NumBlobs :
       TablesOK(p, a, f, c.num, top) /\ (ph # "down" => top = BlobsBefore(i))
  /\ ph = "sent" => t.blob = NextOf(p, a, f) /\ t.blob # NoBlob

LostInv ==
  \A n \in Nodes \ moved :
    KeptOK(cursor[n], phase[n], pending[n], attested[n], failed_to_attest[n],
           certified_blob[n], sent[n])

(* The tables stay right when the stream goes on.                          *)
LEMMA KeptLonger ==
  ASSUME StreamInv, Grows, NEW i \in 0 .. Len(stream), NEW ph, NEW p, NEW a, NEW f, NEW c, NEW t,
         KeptOK(i, ph, p, a, f, c, t)
  PROVE  KeptOK(i, ph, p, a, f, c, t)'
  <1>1. NumBlobs \in Nat /\ NumBlobs' \in Nat /\ NumBlobs <= NumBlobs'
    BY StreamFacts DEF Grows
  <1>2. BlobsBefore(i)' = BlobsBefore(i)
    BY DEF Grows
  <1>3. PICK top \in 0 .. NumBlobs :
          TablesOK(p, a, f, c.num, top) /\ (ph # "down" => top = BlobsBefore(i))
    BY DEF KeptOK
  <1>4. top \in 0 .. NumBlobs'
    BY <1>1
  <1>5. \E m \in 0 .. NumBlobs' :
          TablesOK(p, a, f, c.num, m) /\ (ph # "down" => m = BlobsBefore(i)')
    BY <1>2, <1>3, <1>4
  <1>6. ph = "sent" => t.blob = NextOf(p, a, f) /\ t.blob # NoBlob
    BY DEF KeptOK
  <1> QED
    BY <1>5, <1>6 DEF KeptOK

(* The same for a writer that does not move.                               *)
LEMMA OthersKept ==
  ASSUME RecordedInv, LostInv, Grows, NEW m \in Nodes \ moved, SameWriter(m)
  PROVE  KeptOK(cursor[m], phase[m], pending[m], attested[m], failed_to_attest[m],
                certified_blob[m], sent[m])'
  <1>1. StreamInv /\ cursor[m] \in 0 .. Len(stream)
    BY WriterFacts
  <1>2. PICK j, qh, q, d, g, e, u :
          /\ j = cursor[m] /\ qh = phase[m] /\ q = pending[m] /\ d = attested[m]
          /\ g = failed_to_attest[m] /\ e = certified_blob[m] /\ u = sent[m]
    OBVIOUS
  <1>3. KeptOK(j, qh, q, d, g, e, u) /\ j \in 0 .. Len(stream)
    BY <1>1, <1>2 DEF LostInv
  <1>4. KeptOK(j, qh, q, d, g, e, u)'
    BY <1>1, <1>3, KeptLonger
  <1>5. /\ cursor'[m] = j /\ phase'[m] = qh /\ pending'[m] = q /\ attested'[m] = d
        /\ failed_to_attest'[m] = g /\ certified_blob'[m] = e /\ sent'[m] = u
    BY <1>2 DEF SameWriter
  <1> QED
    BY <1>4, <1>5

(* A step of one writer.                                                   *)
LEMMA OneKept ==
  ASSUME RecordedInv, LostInv, Grows, NEW n \in Nodes, UNCHANGED moved,
         NEW i, NEW ph, NEW p, NEW a, NEW f, NEW c, NEW t, Becomes(n, i, ph, p, a, f, c, t),
         n \notin moved => i \in 0 .. Len(stream) /\ KeptOK(i, ph, p, a, f, c, t)
  PROVE  LostInv'
  <1>1. StreamInv
    BY DEF RecordedInv
  <1>2. n \notin moved => KeptOK(i, ph, p, a, f, c, t)'
    BY <1>1, KeptLonger
  <1>3. n \notin moved => KeptOK(cursor[n], phase[n], pending[n], attested[n],
                                 failed_to_attest[n], certified_blob[n], sent[n])'
    BY <1>2 DEF Becomes
  <1>4. \A m \in Nodes \ {n} : SameWriter(m)
    BY DEF Becomes
  <1>5. \A m \in Nodes \ moved : m # n =>
          KeptOK(cursor[m], phase[m], pending[m], attested[m], failed_to_attest[m],
                 certified_blob[m], sent[m])'
    BY <1>4, OthersKept
  <1> QED
    BY <1>3, <1>5 DEF LostInv

(* An element that ends no blob.                                           *)
LEMMA SameNum ==
  ASSUME StreamInv, NEW i \in 0 .. Len(stream), i < Len(stream), stream[i + 1].kind # "blob_end"
  PROVE  i + 1 \in 0 .. Len(stream) /\ BlobsBefore(i + 1) = BlobsBefore(i)
  <1>1. Len(stream) \in Nat /\ Ends \subseteq 1 .. Len(stream)
    BY StreamFacts
  <1>2. i + 1 \notin Ends
    BY DEF Ends, BlobEnd
  <1>3. \A j \in Ends : j <= i + 1 <=> j <= i
    BY <1>1, <1>2
  <1>4. {j \in Ends : j <= i + 1} = {j \in Ends : j <= i}
    BY <1>3
  <1>5. BlobsBefore(i + 1) = BlobsBefore(i)
    BY <1>4 DEF BlobsBefore
  <1> QED
    BY <1>1, <1>5

(* What the invariant says of one writer.                                  *)
LEMMA KeptFacts ==
  ASSUME RecordedInv, LostInv, NEW n \in Nodes \ moved, phase[n] # "down"
  PROVE  /\ StreamInv /\ Len(stream) \in Nat /\ cursor[n] \in 0 .. Len(stream)
         /\ BlobsBefore(cursor[n]) \in 0 .. NumBlobs
         /\ TablesOK(pending[n], attested[n], failed_to_attest[n], certified_blob[n].num,
                     BlobsBefore(cursor[n]))
  <1>1. StreamInv /\ Len(stream) \in Nat /\ cursor[n] \in 0 .. Len(stream)
    BY WriterFacts
  <1>2. PICK top \in 0 .. NumBlobs :
          /\ TablesOK(pending[n], attested[n], failed_to_attest[n], certified_blob[n].num, top)
          /\ top = BlobsBefore(cursor[n])
    BY DEF LostInv, KeptOK
  <1> QED
    BY <1>1, <1>2

(* Reading the end of a blob.                                              *)
LEMMA BlobEndLost ==
  ASSUME RecordedInv, LostInv, Grows, NEW n \in Nodes, WriteBlobEnd(n)
  PROVE  LostInv'
  <1>1. Domains
    BY WriterFacts
  <1>2. /\ Quiet /\ cursor[n] < Len(stream) /\ stream[cursor[n] + 1].kind = "blob_end"
        /\ Becomes(n, cursor[n] + 1, "attest", pending[n] \cup {CutBlob(n)}, attested[n],
                   failed_to_attest[n], certified_blob[n], sent[n])
    BY <1>1, BlobEndEffect
  <1>3. ASSUME n \notin moved
        PROVE  /\ cursor[n] + 1 \in 0 .. Len(stream)
               /\ KeptOK(cursor[n] + 1, "attest", pending[n] \cup {CutBlob(n)}, attested[n],
                         failed_to_attest[n], certified_blob[n], sent[n])
    <2>1. phase[n] # "down"
      BY DEF WriteBlobEnd, Reads
    <2>2. /\ StreamInv /\ Len(stream) \in Nat /\ cursor[n] \in 0 .. Len(stream)
          /\ TablesOK(pending[n], attested[n], failed_to_attest[n], certified_blob[n].num,
                      BlobsBefore(cursor[n]))
      BY <1>3, <2>1, KeptFacts
    <2>3. PICK i : i = cursor[n]
      OBVIOUS
    <2>4. BlobsBefore(i) + 1 \in 0 .. NumBlobs /\ BlobsBefore(i + 1) = BlobsBefore(i) + 1
      BY <1>2, <2>2, <2>3, NextNum
    <2>5. PICK top : top = BlobsBefore(i)
      OBVIOUS
    <2>6. CutBlob(n).num = top + 1
      BY <2>3, <2>5 DEF CutBlob, Blob
    <2>7. TablesOK(pending[n] \cup {CutBlob(n)}, attested[n], failed_to_attest[n],
                   certified_blob[n].num, top + 1)
      BY <2>2, <2>3, <2>5, <2>6, TablesAdd
    <2>8. top + 1 \in 0 .. NumBlobs /\ top + 1 = BlobsBefore(cursor[n] + 1)
      BY <2>3, <2>4, <2>5
    <2>9. cursor[n] + 1 \in 0 .. Len(stream)
      BY <1>2, <2>2
    <2> QED
      BY <2>7, <2>8, <2>9 DEF KeptOK
  <1>4. UNCHANGED moved
    BY DEF WriteBlobEnd, Written, boundVars, historyVars
  <1> QED
    BY <1>2, <1>3, <1>4, OneKept

(* Reading that the epoch changes.                                         *)
LEMMA EpochChangeLost ==
  ASSUME RecordedInv, LostInv, Grows, NEW n \in Nodes, WriteEpochChangeStart(n)
  PROVE  LostInv'
  <1>1. Domains
    BY WriterFacts
  <1>2. /\ Quiet /\ cursor[n] < Len(stream) /\ stream[cursor[n] + 1].kind = "epoch_change_start"
        /\ Becomes(n, cursor[n] + 1, "attest", WithAttested(n), NoBlob,
                   failed_to_attest[n], certified_blob[n], sent[n])
    BY <1>1, EpochChangeEffect
  <1>3. ASSUME n \notin moved
        PROVE  /\ cursor[n] + 1 \in 0 .. Len(stream)
               /\ KeptOK(cursor[n] + 1, "attest", WithAttested(n), NoBlob,
                         failed_to_attest[n], certified_blob[n], sent[n])
    <2>1. phase[n] # "down"
      BY DEF WriteEpochChangeStart, Reads
    <2>2. /\ StreamInv /\ Len(stream) \in Nat /\ cursor[n] \in 0 .. Len(stream)
          /\ BlobsBefore(cursor[n]) \in 0 .. NumBlobs
          /\ TablesOK(pending[n], attested[n], failed_to_attest[n], certified_blob[n].num,
                      BlobsBefore(cursor[n]))
      BY <1>3, <2>1, KeptFacts
    <2>3. PICK i : i = cursor[n]
      OBVIOUS
    <2>4. i + 1 \in 0 .. Len(stream) /\ BlobsBefore(i + 1) = BlobsBefore(i)
      BY <1>2, <2>2, <2>3, SameNum
    <2>5. PICK top \in 0 .. NumBlobs : top = BlobsBefore(i)
      BY <2>2, <2>3
    <2>6. TablesOK(WithAttested(n), NoBlob, failed_to_attest[n], certified_blob[n].num, top)
      <3>1. CASE attested[n] = NoBlob
        BY <2>2, <2>3, <2>5, <3>1 DEF WithAttested
      <3>2. CASE attested[n] # NoBlob
        <4>1. PICK d : d = ToPending(attested[n])
          OBVIOUS
        <4>2. d.num = attested[n].num
          BY <4>1 DEF ToPending, Blob
        <4>3. WithAttested(n) = pending[n] \cup {d}
          BY <3>2, <4>1 DEF WithAttested
        <4>4. TablesOK(pending[n] \cup {d}, NoBlob, failed_to_attest[n], certified_blob[n].num,
                       top)
          BY <2>2, <2>3, <2>5, <3>2, <4>2, TablesRequeue
        <4> QED
          BY <4>3, <4>4
      <3> QED
        BY <3>1, <3>2
    <2>7. top = BlobsBefore(cursor[n] + 1) /\ cursor[n] + 1 \in 0 .. Len(stream)
      BY <2>3, <2>4, <2>5
    <2> QED
      BY <2>6, <2>7 DEF KeptOK
  <1>4. UNCHANGED moved
    BY DEF WriteEpochChangeStart, Written, boundVars, historyVars
  <1> QED
    BY <1>2, <1>3, <1>4, OneKept

(* Moving on.                                                              *)
LEMMA IdleLost ==
  ASSUME RecordedInv, LostInv, Grows, NEW n \in Nodes, UNCHANGED moved,
         \/ WriteUnmatched(n) \/ WriteOther(n) \/ SkipAttestation(n)
         \/ \E b \in Outstanding(n) : RemoveFile(n, b)
  PROVE  LostInv'
  <1>1. Domains
    BY WriterFacts
  <1>2. /\ phase[n] \in {"idle", "attest"}
        /\ \/ /\ cursor[n] < Len(stream) /\ stream[cursor[n] + 1].kind = "certified"
              /\ Moves(n, cursor[n] + 1, "attest") \/ Moves(n, cursor[n], "removed")
           \/ Moves(n, cursor[n], "attest")
           \/ Moves(n, cursor[n], "idle")
    BY <1>1, IdleEffect
  <1>3. StreamInv /\ cursor[n] \in 0 .. Len(stream)
    BY WriterFacts
  <1>4. PICK k : k = cursor[n]
    OBVIOUS
  <1>5. k < Len(stream) /\ stream[k + 1].kind = "certified" =>
          k + 1 \in 0 .. Len(stream) /\ BlobsBefore(k + 1) = BlobsBefore(k)
    BY <1>3, <1>4, SameNum
  <1>6. PICK i, ph : /\ Moves(n, i, ph) /\ ph # "sent"
                     /\ i \in 0 .. Len(stream) /\ BlobsBefore(i) = BlobsBefore(cursor[n])
    BY <1>2, <1>3, <1>4, <1>5
  <1>7. ASSUME n \notin moved
        PROVE  KeptOK(i, ph, pending[n], attested[n], failed_to_attest[n], certified_blob[n],
                      sent[n])
    <2>1. phase[n] # "down"
      BY <1>2
    <2>2. /\ BlobsBefore(cursor[n]) \in 0 .. NumBlobs
          /\ TablesOK(pending[n], attested[n], failed_to_attest[n], certified_blob[n].num,
                      BlobsBefore(cursor[n]))
      BY <1>7, <2>1, KeptFacts
    <2> QED
      BY <1>6, <2>2 DEF KeptOK
  <1> QED
    BY <1>6, <1>7, OneKept DEF Moves

(* Recording a certification: it is that of the first blob in the tables.  *)
LEMMA CertificationLost ==
  ASSUME RecordedInv, LostInv, Grows, NEW n \in Nodes, NEW b \in Outstanding(n),
         WriteCertified(n, b)
  PROVE  LostInv'
  <1>1. Domains
    BY WriterFacts
  <1>2. PICK a, f : a = Unless(attested[n], b) /\ f = Unless(failed_to_attest[n], b)
    OBVIOUS
  <1>3. /\ phase[n] = "removed" /\ b # NoBlob
        /\ Becomes(n, cursor[n] + 1, "attest", pending[n], a, f, b, sent[n])
    BY <1>1, <1>2, CertificationEffect
  <1>4. ASSUME n \notin moved
        PROVE  /\ cursor[n] + 1 \in 0 .. Len(stream)
               /\ KeptOK(cursor[n] + 1, "attest", pending[n], a, f, b, sent[n])
    <2>1. phase[n] # "down"
      BY <1>3
    <2>2. /\ StreamInv /\ Len(stream) \in Nat /\ cursor[n] \in 0 .. Len(stream)
          /\ BlobsBefore(cursor[n]) \in 0 .. NumBlobs
          /\ TablesOK(pending[n], attested[n], failed_to_attest[n], certified_blob[n].num,
                      BlobsBefore(cursor[n]))
      BY <1>4, <2>1, KeptFacts
    <2>3. PICK i : i = cursor[n]
      OBVIOUS
    <2>4. i < Len(stream) /\ stream[i + 1].kind = "certified"
      BY <1>3, <2>3 DEF RecordedInv, WriterInv, WriterOK
    <2>5. i + 1 \in 0 .. Len(stream) /\ BlobsBefore(i + 1) = BlobsBefore(i)
      BY <2>2, <2>3, <2>4, SameNum
    <2>6. PICK top \in 0 .. NumBlobs : top = BlobsBefore(i)
      BY <2>2, <2>3
    <2>7. TablesOK(pending[n], a, f, b.num, top)
      <3>1. TablesOK(pending[n], attested[n], failed_to_attest[n], certified_blob[n].num, top)
        BY <2>2, <2>3, <2>6
      <3>2. TablesOK(pending[n], failed_to_attest[n], attested[n], certified_blob[n].num, top)
        BY <3>1, TablesSwap
      <3>3. CASE b = failed_to_attest[n]
        <4>1. attested[n] = NoBlob /\ TablesOK(pending[n], NoBlob, NoBlob, b.num, top)
          BY <1>3, <3>1, <3>3, TablesCertify
        <4>2. a = NoBlob /\ f = NoBlob
          BY <1>2, <1>3, <3>3, <4>1 DEF Unless
        <4> QED
          BY <4>1, <4>2
      <3>4. CASE b = attested[n]
        <4>1. failed_to_attest[n] = NoBlob /\ TablesOK(pending[n], NoBlob, NoBlob, b.num, top)
          BY <1>3, <3>2, <3>4, TablesCertify
        <4>2. a = NoBlob /\ f = NoBlob
          BY <1>2, <1>3, <3>4, <4>1 DEF Unless
        <4> QED
          BY <4>1, <4>2
      <3> QED
        BY <3>3, <3>4 DEF Outstanding
    <2>8. top = BlobsBefore(cursor[n] + 1) /\ cursor[n] + 1 \in 0 .. Len(stream)
      BY <2>3, <2>5, <2>6
    <2> QED
      BY <2>7, <2>8 DEF KeptOK
  <1>5. UNCHANGED moved
    BY DEF WriteCertified, Written, boundVars, historyVars
  <1> QED
    BY <1>3, <1>4, <1>5, OneKept

(* Sending the next blob.                                                  *)
LEMMA AttestLost ==
  ASSUME RecordedInv, LostInv, Grows, NEW n \in Nodes, NEW ok \in BOOLEAN, Sending(n, ok)
  PROVE  LostInv'
  <1>1. Domains /\ cursor[n] \in 0 .. Len(stream)
    BY WriterFacts
  <1>2. PICK t : t = [blob |-> NextBlob(n), ok |-> ok]
    OBVIOUS
  <1>3. /\ phase[n] = "attest" /\ NextBlob(n) # NoBlob
        /\ Becomes(n, cursor[n], "sent", pending[n], attested[n], failed_to_attest[n],
                   certified_blob[n], t)
    BY <1>1, <1>2, SendEffect
  <1>4. t.blob = NextOf(pending[n], attested[n], failed_to_attest[n]) /\ t.blob # NoBlob
    BY <1>2, <1>3 DEF NextBlob, NextOf
  <1>5. ASSUME n \notin moved
        PROVE  KeptOK(cursor[n], "sent", pending[n], attested[n], failed_to_attest[n],
                      certified_blob[n], t)
    <2>1. phase[n] # "down"
      BY <1>3
    <2>2. /\ BlobsBefore(cursor[n]) \in 0 .. NumBlobs
          /\ TablesOK(pending[n], attested[n], failed_to_attest[n], certified_blob[n].num,
                      BlobsBefore(cursor[n]))
      BY <1>5, <2>1, KeptFacts
    <2> QED
      BY <1>4, <2>2 DEF KeptOK
  <1>6. UNCHANGED moved
    BY DEF Sending, AttestInVain, FailToAttest, AttestBlob, boundVars, historyVars
  <1> QED
    BY <1>1, <1>3, <1>5, <1>6, OneKept

(* Recording the attestation.                                              *)
LEMMA RecordLost ==
  ASSUME RecordedInv, LostInv, Grows, NEW n \in Nodes, RecordAttestation(n)
  PROVE  LostInv'
  <1>1. Domains /\ cursor[n] \in 0 .. Len(stream)
    BY WriterFacts
  <1>2. PICK b, w : b = sent[n].blob /\ w = WithId(n, b)
    OBVIOUS
  <1>3. PICK a, f : /\ a = IF sent[n].ok THEN w ELSE attested[n]
                    /\ f = IF sent[n].ok THEN NoBlob ELSE w
    OBVIOUS
  <1>4. /\ phase[n] = "sent"
        /\ Becomes(n, cursor[n], "idle", pending[n] \ {b}, a, f, certified_blob[n], NotSent)
    BY <1>1, <1>2, <1>3, RecordEffect
  <1>5. w.num = b.num
    BY <1>2 DEF WithId, Blob
  <1>6. ASSUME n \notin moved
        PROVE  KeptOK(cursor[n], "idle", pending[n] \ {b}, a, f, certified_blob[n], NotSent)
    <2>1. phase[n] # "down"
      BY <1>4
    <2>2. PICK top \in 0 .. NumBlobs :
            /\ top = BlobsBefore(cursor[n])
            /\ TablesOK(pending[n], attested[n], failed_to_attest[n], certified_blob[n].num, top)
      BY <1>6, <2>1, KeptFacts
    <2>3. b = NextOf(pending[n], attested[n], failed_to_attest[n]) /\ b # NoBlob
      BY <1>2, <1>4, <1>6 DEF LostInv, KeptOK
    <2>4. attested[n] = NoBlob
      BY <2>2, <2>3, NextIsFirst
    <2>5. /\ TablesOK(pending[n] \ {b}, w, NoBlob, certified_blob[n].num, top)
          /\ TablesOK(pending[n] \ {b}, NoBlob, w, certified_blob[n].num, top)
      BY <1>5, <2>2, <2>3, TablesAttest
    <2>6. TablesOK(pending[n] \ {b}, a, f, certified_blob[n].num, top)
      BY <1>3, <2>4, <2>5
    <2> QED
      BY <2>2, <2>6 DEF KeptOK
  <1>7. UNCHANGED moved
    BY DEF RecordAttestation, boundVars, historyVars
  <1> QED
    BY <1>1, <1>4, <1>6, <1>7, OneKept

(* A crash.                                                                *)
LEMMA CrashLost ==
  ASSUME RecordedInv, LostInv, Grows, NEW n \in Nodes, Crash(n)
  PROVE  LostInv'
  <1>1. Domains /\ Len(stream) \in Nat
    BY WriterFacts
  <1>2. Becomes(n, 0, "down", pending[n], attested[n], failed_to_attest[n], certified_blob[n],
                NotSent)
    BY <1>1, CrashEffect
  <1>3. n \notin moved => KeptOK(0, "down", pending[n], attested[n], failed_to_attest[n],
                                 certified_blob[n], NotSent)
    BY DEF LostInv, KeptOK
  <1>4. UNCHANGED moved /\ 0 \in 0 .. Len(stream)
    BY <1>1 DEF Crash, historyVars
  <1> QED
    BY <1>2, <1>3, <1>4, OneKept

(* Restarting.                                                             *)
LEMMA RestartLost ==
  ASSUME RecordedInv, LostInv, Grows, NEW n \in Nodes, NEW lookup, Restart(n, lookup)
  PROVE  LostInv'
  <1>1. StreamInv /\ ContractInv /\ Domains /\ NumBlobs \in Nat /\ latest \in 0 .. NumBlobs
    BY WriterFacts DEF ContractInv
  <1>2. PICK a, f, p, c : /\ a = KeptBlob(n, lookup, attested[n])
                          /\ f = KeptBlob(n, lookup, failed_to_attest[n])
                          /\ p = KeptPending(n, lookup) /\ c = KeptCertified(n, lookup)
    OBVIOUS
  <1>3. PICK last : last = LastKept(n, lookup)
    OBVIOUS
  <1>4. last = LastBlob(p, f, a, c)
    BY <1>2, <1>3 DEF LastKept
  <1>5. Becomes(n, EndOf(last.num), "attest", p, a, f, c, sent[n])
    BY <1>1, <1>2, <1>3, RestartEffect
  <1>6. ASSUME n \notin moved
        PROVE  EndOf(last.num) \in 0 .. Len(stream) /\
               KeptOK(EndOf(last.num), "attest", p, a, f, c, sent[n])
    <2>1. PICK top \in 0 .. NumBlobs :
            TablesOK(pending[n], attested[n], failed_to_attest[n], certified_blob[n].num, top)
      BY <1>6 DEF LostInv, KeptOK
    <2>2. Uncertified(n) = InTables(pending[n], attested[n], failed_to_attest[n])
      BY DEF Uncertified, InTables
    <2>3. PICK gone : gone = Cleared(n, lookup)
      OBVIOUS
    <2>4. /\ p = pending[n] \ gone /\ a = IF attested[n] \in gone THEN NoBlob ELSE attested[n]
          /\ f = IF failed_to_attest[n] \in gone THEN NoBlob ELSE failed_to_attest[n]
      BY <1>2, <2>3 DEF KeptBlob, KeptPending
    <2>5. PICK m \in 0 .. NumBlobs : TablesOK(p, a, f, c.num, m)
      <3>1. CASE SkipsAhead(n, lookup)
        <4>1. gone = Uncertified(n)
          BY <2>3, <3>1 DEF Cleared
        <4>2. p = {} /\ a = NoBlob /\ f = NoBlob
          BY <2>2, <2>4, <4>1 DEF InTables
        <4>3. c.num = latest
          BY <1>2, <3>1 DEF KeptCertified, ChainBlob, Blob
        <4>4. latest \in Nat /\ latest + 1 .. latest = {} /\ InTables({}, NoBlob, NoBlob) = {}
          BY <1>1 DEF InTables
        <4>5. TablesOK({}, NoBlob, NoBlob, latest, latest)
          BY <4>4 DEF TablesOK
        <4> QED
          BY <1>1, <4>2, <4>3, <4>5
      <3>2. CASE ~ SkipsAhead(n, lookup)
        <4>1. c = certified_blob[n]
          BY <1>2, <3>2 DEF KeptCertified
        <4>2. gone = {b \in Uncertified(n) : b.num > latest} \/ gone = {}
          BY <2>3, <3>2 DEF Cleared
        <4>3. CASE gone = {}
          BY <2>1, <2>4, <4>1, <4>3
        <4>4. CASE gone = {b \in Uncertified(n) : b.num > latest}
          <5>1. PICK l \in Nat : l = latest
            BY <1>1
          <5>2. PICK p0, a0, f0, c0 : /\ p0 = pending[n] /\ a0 = attested[n]
                                      /\ f0 = failed_to_attest[n] /\ c0 = certified_blob[n].num
            OBVIOUS
          <5>3. /\ TablesOK(p0, a0, f0, c0, top) /\ gone = After(InTables(p0, a0, f0), l)
                /\ a = Without(a0, gone) /\ f = Without(f0, gone)
            BY <2>1, <2>2, <2>4, <4>4, <5>1, <5>2 DEF After, Without
          <5>4. \E m \in Nat : TablesOK(p0 \ gone, Without(a0, gone), Without(f0, gone), c0, m)
                              /\ m <= top
            BY <5>3, TablesCut
          <5>5. PICK m \in Nat : TablesOK(p0 \ gone, a, f, c0, m) /\ m <= top
            BY <5>3, <5>4
          <5>6. m \in 0 .. NumBlobs
            BY <1>1, <5>5
          <5> QED
            BY <2>4, <4>1, <5>2, <5>5, <5>6
        <4> QED
          BY <4>2, <4>3, <4>4
      <3> QED
        BY <3>1, <3>2
    <2>6. last.num = m
      BY <1>4, <2>5, LastIsTop
    <2>7. EndOf(m) \in 0 .. Len(stream) /\ BlobsBefore(EndOf(m)) = m
      <3>1. EndOf(m) \in 0 .. Len(stream) /\ (m # 0 => BlobsBefore(EndOf(m)) = m)
        BY <1>1, <2>5, EndOfFacts
      <3>2. BlobsBefore(0) = 0
        <4>1. {j \in Ends : j <= 0} = {}
          BY <1>1, StreamFacts
        <4> QED
          BY <4>1, FS_EmptySet DEF BlobsBefore
      <3>3. m = 0 => EndOf(m) = 0
        BY DEF EndOf
      <3> QED
        BY <3>1, <3>2, <3>3
    <2> QED
      BY <2>5, <2>6, <2>7 DEF KeptOK
  <1>7. UNCHANGED moved
    BY DEF Restart
  <1> QED
    BY <1>5, <1>6, <1>7, OneKept

(* No blob is lost at first.                                               *)
LEMMA LostInit == WriterInit => LostInv
  <1> HAVE WriterInit
  <1>1. RecordedInv
    BY RecordedInit
  <1>2. SUFFICES ASSUME NEW n \in Nodes \ moved
                 PROVE  KeptOK(cursor[n], phase[n], pending[n], attested[n], failed_to_attest[n],
                               certified_blob[n], sent[n])
    BY DEF LostInv
  <1>3. StreamInv /\ NumBlobs \in Nat
    BY <1>1, WriterFacts
  <1>4. /\ cursor[n] = 0 /\ phase[n] = "idle" /\ pending[n] = {} /\ attested[n] = NoBlob
        /\ failed_to_attest[n] = NoBlob /\ certified_blob[n] = NoBlob /\ sent[n] = NotSent
    BY DEF WriterInit
  <1>5. BlobsBefore(0) = 0
    <2>1. {j \in Ends : j <= 0} = {}
      BY <1>3, StreamFacts
    <2> QED
      BY <2>1, FS_EmptySet DEF BlobsBefore
  <1>6. TablesOK({}, NoBlob, NoBlob, NoBlob.num, 0)
    <2>1. 0 + 1 .. 0 = {} /\ InTables({}, NoBlob, NoBlob) = {}
      BY DEF InTables
    <2> QED
      BY <2>1 DEF TablesOK, NoBlob
  <1>7. 0 \in 0 .. NumBlobs
    BY <1>3
  <1> QED
    BY <1>4, <1>5, <1>6, <1>7 DEF KeptOK

(* No step loses a blob.                                                   *)
LEMMA LostStep == RecordedInv /\ LostInv /\ [WriterNext]_writerVars => LostInv'
  <1> HAVE RecordedInv /\ LostInv /\ [WriterNext]_writerVars
  <1>1. Grows
    BY RecordedStep
  <1>2. ASSUME UNCHANGED <<cursor, phase, pending, attested, failed_to_attest, certified_blob,
                           sent, moved>>
        PROVE  LostInv'
    <2>1. \A m \in Nodes : SameWriter(m)
      BY <1>2 DEF SameWriter
    <2> QED
      BY <1>1, <1>2, <2>1, OthersKept DEF LostInv
  <1>3. CASE EndBlob \/ ChangeEpoch
    BY <1>2, <1>3 DEF EndBlob, ChangeEpoch, memoryVars, tableVars, boundVars, historyVars
  <1>4. ASSUME NEW n \in Nodes, Write(n)
        PROVE  LostInv'
    <2>1. CASE WriteUnmatched(n) \/ \E b \in Outstanding(n) : RemoveFile(n, b)
      <3>1. UNCHANGED moved
        BY <2>1 DEF WriteUnmatched, RemoveFile, Written, boundVars, historyVars
      <3> QED
        BY <1>1, <2>1, <3>1, IdleLost
    <2> QED
      BY <1>1, <1>4, <2>1, BlobEndLost, EpochChangeLost, CertificationLost DEF Write
  <1>5. ASSUME NEW n \in Nodes, WriteOther(n) \/ Attest(n)
        PROVE  LostInv'
    <2>1. CASE WriteOther(n) \/ SkipAttestation(n)
      <3>1. UNCHANGED moved
        BY <2>1 DEF WriteOther, SkipAttestation, boundVars, historyVars
      <3> QED
        BY <1>1, <2>1, <3>1, IdleLost
    <2>2. ASSUME NEW ok \in BOOLEAN, Sending(n, ok)
          PROVE  LostInv'
      BY <1>1, <2>2, AttestLost
    <2> QED
      BY <1>5, <2>1, <2>2 DEF Attest, Sending
  <1>6. ASSUME NEW n \in Nodes, \/ RecordAttestation(n) \/ Crash(n)
                                \/ \E lookup \in Lookups : Restart(n, lookup)
        PROVE  LostInv'
    BY <1>1, <1>6, RecordLost, CrashLost, RestartLost
  <1>7. ASSUME NEW n \in Nodes, NEW num \in 1 .. FirstKept, Reposition(n, num)
        PROVE  LostInv'
    <2>1. moved' = moved \cup {n}
      BY <1>7 DEF Reposition
    <2>2. \A m \in Nodes \ {n} : SameWriter(m)
      BY <1>7, RepositionEffect DEF RecordedInv, Becomes
    <2> QED
      BY <1>1, <2>1, <2>2, OthersKept DEF LostInv
  <1>8. CASE UNCHANGED writerVars
    BY <1>2, <1>8 DEF writerVars, memoryVars, tableVars, boundVars, historyVars
  <1> QED
    BY <1>3, <1>4, <1>5, <1>6, <1>7, <1>8 DEF WriterNext

(* Crashes between any two writes, lost responses, epoch changes and       *)
(* resets never make a writer lose a blob, keep it twice or attest blobs   *)
(* out of order, unless it was repositioned.                               *)
THEOREM BlobsNeverLost == WriterSpec => []NoBlobLost
  <1>1. RecordedInv /\ LostInv => NoBlobLost
    <2> HAVE RecordedInv /\ LostInv
    <2>1. ASSUME NEW n \in Nodes \ moved, phase[n] # "down"
          PROVE  /\ {b.num : b \in Uncertified(n)} =
                      certified_blob[n].num + 1 .. BlobsBefore(cursor[n])
                 /\ Cardinality(Uncertified(n)) = BlobsBefore(cursor[n]) - certified_blob[n].num
                 /\ attested[n] = NoBlob \/ failed_to_attest[n] = NoBlob
                 /\ \A b \in {attested[n], failed_to_attest[n]} \ {NoBlob} :
                      \A p \in pending[n] : b.num < p.num
      <3>1. TablesOK(pending[n], attested[n], failed_to_attest[n], certified_blob[n].num,
                     BlobsBefore(cursor[n]))
        BY <2>1, KeptFacts
      <3>2. Uncertified(n) = InTables(pending[n], attested[n], failed_to_attest[n])
        BY DEF Uncertified, InTables
      <3>3. /\ {b.num : b \in InTables(pending[n], attested[n], failed_to_attest[n])} =
                 certified_blob[n].num + 1 .. BlobsBefore(cursor[n])
            /\ Cardinality(InTables(pending[n], attested[n], failed_to_attest[n])) =
                 BlobsBefore(cursor[n]) - certified_blob[n].num
        BY <3>1, TablesCount
      <3>4. /\ attested[n] = NoBlob \/ failed_to_attest[n] = NoBlob
            /\ \A b \in {attested[n], failed_to_attest[n]} \ {NoBlob}, p \in pending[n] :
                 b.num < p.num
        BY <3>1 DEF TablesOK
      <3> QED
        BY <3>2, <3>3, <3>4
    <2> QED
      BY <2>1 DEF NoBlobLost
  <1>2. RecordedInv /\ [WriterNext]_writerVars => RecordedInv'
    BY RecordedStep
  <1> QED
    BY <1>1, <1>2, RecordedInit, LostInit, LostStep, PTL DEF WriterSpec

-----------------------------------------------------------------------------
(* Event blob writers: epochs in the stream.                               *)

(* The epoch in which a blob ends.                                         *)
EndEpoch(k) == EpochAt(EndOf(k))

(* Events tell the epoch, and the last one that of the contract.           *)
EpochsInv ==
  /\ epoch = EpochAt(Len(stream))
  /\ \A i \in 1 .. Len(stream) :
       stream[i].kind = "epoch_change_start" => stream[i].epoch = EpochAt(i)

UniqueEnds == \A i \in Ends : BlobsBefore(i) # 0 => EndOf(BlobsBefore(i)) = i

(* A blob has one end.                                                     *)
LEMMA EndUnique == StreamInv => UniqueEnds
  <1> SUFFICES ASSUME StreamInv, NEW i \in Ends, BlobsBefore(i) # 0
               PROVE  EndOf(BlobsBefore(i)) = i
    BY DEF UniqueEnds
  <1>1. Len(stream) \in Nat /\ Ends \subseteq 1 .. Len(stream) /\ IsFiniteSet(Ends)
    BY StreamFacts
  <1>2. ASSUME NEW a \in Ends, NEW b \in Ends, a < b
        PROVE  BlobsBefore(a) # BlobsBefore(b)
    <2> DEFINE A == {j \in Ends : j <= a}
               B == {j \in Ends : j <= b}
    <2>1. a \in Nat /\ b \in Nat /\ \A j \in Ends : j \in Nat
      BY <1>1
    <2>2. A \subseteq B /\ b \in B /\ b \notin A /\ B \subseteq Ends
      <3>1. b <= b /\ ~ (b <= a) /\ \A j \in Ends : j <= a => j <= b
        BY <1>2, <2>1
      <3> QED
        BY <3>1, Zenon
    <2>3. IsFiniteSet(B)
      BY <1>1, <2>2, FS_Subset
    <2> HIDE DEF A, B
    <2>4. Cardinality(A) # Cardinality(B)
      BY <2>2, <2>3, FS_Subset
    <2> QED
      BY <2>4 DEF BlobsBefore, A, B
  <1>3. \A j \in Ends : BlobsBefore(j) = BlobsBefore(i) => j = i
    <2> TAKE j \in Ends
    <2>1. i \in Nat /\ j \in Nat
      BY <1>1
    <2> QED
      BY <1>2, <2>1
  <1> QED
    BY <1>3 DEF EndOf

EpochsCount ==
  \A i \in Nat :
    /\ EpochAt(i) \in Nat
    /\ EpochAt(i + 1) = EpochAt(i) + IF stream[i + 1].kind = "epoch_change_start" THEN 1 ELSE 0

(* The epoch after one more element.                                       *)
LEMMA EpochAtNext == EpochsCount
  <1> SUFFICES ASSUME NEW i \in Nat
               PROVE  /\ EpochAt(i) \in Nat
                      /\ EpochAt(i + 1) = EpochAt(i) +
                           IF stream[i + 1].kind = "epoch_change_start" THEN 1 ELSE 0
    BY DEF EpochsCount
  <1> DEFINE A == {j \in 1 .. i : stream[j].kind = "epoch_change_start"}
             B == {j \in 1 .. i + 1 : stream[j].kind = "epoch_change_start"}
  <1>1. IsFiniteSet(1 .. i)
    BY FS_Interval
  <1>2. IsFiniteSet(A)
    BY <1>1, FS_Subset
  <1>3. Cardinality(A) \in Nat
    BY <1>2, FS_CardinalityType
  <1>4. i + 1 \notin A
    OBVIOUS
  <1>5. B = IF stream[i + 1].kind = "epoch_change_start" THEN A \cup {i + 1} ELSE A
    <2>1. \A j : j \in 1 .. i + 1 <=> j \in 1 .. i \/ j = i + 1
      OBVIOUS
    <2> QED
      BY <2>1
  <1>6. EpochAt(i) = 1 + Cardinality(A) /\ EpochAt(i + 1) = 1 + Cardinality(B)
    BY DEF EpochAt
  <1> HIDE DEF A, B
  <1>7. CASE stream[i + 1].kind = "epoch_change_start"
    <2>1. Cardinality(B) = Cardinality(A) + 1
      BY <1>2, <1>4, <1>5, <1>7, FS_AddElement
    <2> QED
      BY <1>3, <1>6, <1>7, <2>1
  <1>8. CASE stream[i + 1].kind # "epoch_change_start"
    BY <1>3, <1>5, <1>6, <1>8
  <1> QED
    BY <1>7, <1>8

(* An element that starts no epoch.                                        *)
LEMMA EpochSame ==
  ASSUME NEW i \in Nat, stream[i + 1].kind # "epoch_change_start"
  PROVE  EpochAt(i + 1) = EpochAt(i)
  <1>1. PICK x, y : x = EpochAt(i) /\ y = EpochAt(i + 1)
    OBVIOUS
  <1>2. x \in Nat /\ y = x + 0
    BY <1>1, EpochAtNext DEF EpochsCount
  <1> QED
    BY <1>1, <1>2

(* Epochs of the past stay.                                                *)
LEMMA EpochsKept ==
  ASSUME StreamInv, StreamInv', Grows
  PROVE  /\ \A i \in 0 .. Len(stream) : EpochAt(i)' = EpochAt(i)
         /\ \A k \in 0 .. NumBlobs : EndEpoch(k)' = EndEpoch(k)
  <1>1. /\ Len(stream) \in Nat /\ DOMAIN stream = 1 .. Len(stream) /\ NumBlobs \in Nat
        /\ Ends \subseteq 1 .. Len(stream)
    BY StreamFacts
  <1>2. /\ Len(stream)' \in Nat /\ Len(stream) <= Len(stream)'
        /\ \A j \in 1 .. Len(stream) : stream'[j] = stream[j]
        /\ \A i \in 0 .. Len(stream) : BlobsBefore(i)' = BlobsBefore(i)
    BY DEF Grows
  <1>3. \A i \in 0 .. Len(stream) : EpochAt(i)' = EpochAt(i)
    <2> TAKE i \in 0 .. Len(stream)
    <2>1. \A j \in 1 .. i : stream'[j] = stream[j]
      BY <1>1, <1>2
    <2>2. {j \in 1 .. i : stream'[j].kind = "epoch_change_start"} =
            {j \in 1 .. i : stream[j].kind = "epoch_change_start"}
      BY <2>1
    <2> QED
      BY <2>2 DEF EpochAt
  <1>4. \A k \in 0 .. NumBlobs : EndOf(k)' = EndOf(k)
    <2> TAKE k \in 0 .. NumBlobs
    <2>1. CASE k = 0
      BY <2>1 DEF EndOf
    <2>2. CASE k # 0
      <3>1. EndOf(k) \in Ends /\ BlobsBefore(EndOf(k)) = k
        BY <2>2, EndOfFacts
      <3>2. PICK i \in Ends : i = EndOf(k) /\ BlobsBefore(i) = k
        BY <3>1
      <3>3. i \in 1 .. Len(stream) /\ i \in 0 .. Len(stream) /\ i \in 1 .. Len(stream)'
        BY <1>1, <1>2
      <3>4. DOMAIN stream' = 1 .. Len(stream)'
        BY DEF StreamInv
      <3>5. stream'[i] = BlobEnd
        BY <1>2, <3>3 DEF Ends
      <3>6. i \in Ends'
        BY <3>3, <3>4, <3>5 DEF Ends, BlobEnd
      <3>7. BlobsBefore(i)' = k
        BY <1>2, <3>2, <3>3
      <3>8. (StreamInv => UniqueEnds)'
        BY EndUnique, PTL
      <3>9. \A j \in Ends' : BlobsBefore(j)' # 0 => EndOf(BlobsBefore(j))' = j
        BY <3>8 DEF UniqueEnds
      <3>10. EndOf(BlobsBefore(i))' = i
        BY <2>2, <3>6, <3>7, <3>9
      <3> QED
        BY <2>2, <3>2, <3>7, <3>10 DEF EndOf
    <2> QED
      BY <2>1, <2>2
  <1>5. \A k \in 0 .. NumBlobs : EndEpoch(k)' = EndEpoch(k)
    <2> TAKE k \in 0 .. NumBlobs
    <2>1. PICK i \in 0 .. Len(stream) : i = EndOf(k)
      BY EndOfFacts
    <2>2. EndOf(k)' = i
      BY <1>4, <2>1
    <2> QED
      BY <1>3, <2>1, <2>2 DEF EndEpoch
  <1> QED
    BY <1>3, <1>5

(* Another element.                                                        *)
LEMMA EpochsAppend ==
  ASSUME StreamInv, StreamInv', Grows, EpochsInv, Len(stream)' = Len(stream) + 1,
         NEW e, stream'[Len(stream) + 1] = e,
         epoch' = epoch + (IF e.kind = "epoch_change_start" THEN 1 ELSE 0),
         e.kind = "epoch_change_start" => e.epoch = epoch + 1
  PROVE  EpochsInv'
  <1>1. PICK l \in Nat : l = Len(stream)
    BY StreamFacts
  <1>2. \A i \in 0 .. l : EpochAt(i)' = EpochAt(i)
    BY <1>1, EpochsKept
  <1>3. EpochAt(l) \in Nat /\ epoch = EpochAt(l)
    BY <1>1, EpochAtNext DEF EpochsCount, EpochsInv
  <1>4. EpochsCount'
    BY EpochAtNext, PTL
  <1>5. EpochAt(l + 1)' =
          EpochAt(l)' + IF stream'[l + 1].kind = "epoch_change_start" THEN 1 ELSE 0
    BY <1>4 DEF EpochsCount
  <1>6. EpochAt(l)' = epoch
    BY <1>2, <1>3
  <1>7. EpochAt(l + 1)' = epoch'
    BY <1>1, <1>5, <1>6
  <1>8. epoch' = EpochAt(Len(stream))'
    <2>1. Len(stream)' = l + 1
      BY <1>1
    <2> QED
      BY <1>7, <2>1
  <1>9. ASSUME NEW i \in 1 .. l + 1, stream'[i].kind = "epoch_change_start"
        PROVE  stream'[i].epoch = EpochAt(i)'
    <2>1. CASE i \in 1 .. l
      <3>1. stream'[i] = stream[i]
        BY <1>1, <2>1 DEF Grows
      <3>2. stream[i].epoch = EpochAt(i)
        BY <1>1, <1>9, <2>1, <3>1 DEF EpochsInv
      <3> QED
        BY <1>2, <2>1, <3>1, <3>2
    <2>2. CASE i = l + 1
      BY <1>1, <1>7, <1>9, <2>2
    <2> QED
      BY <2>1, <2>2
  <1>10. \A i \in 1 .. Len(stream)' :
           stream'[i].kind = "epoch_change_start" => stream'[i].epoch = EpochAt(i)'
    BY <1>1, <1>9
  <1> QED
    BY <1>8, <1>10 DEF EpochsInv

(* Events tell the epoch of the contract.                                  *)
LEMMA EpochsStep ==
  RecordedInv /\ EpochsInv /\ [WriterNext]_writerVars => EpochsInv'
  <1> HAVE RecordedInv /\ EpochsInv /\ [WriterNext]_writerVars
  <1>1. StreamInv /\ StreamInv' /\ Grows
    BY RecordedStep DEF RecordedInv
  <1>2. ASSUME UNCHANGED <<stream, epoch>>
        PROVE  EpochsInv'
    BY <1>2 DEF EpochsInv, EpochAt
  <1>3. ASSUME NEW e, stream' = Append(stream, e), e.kind = "blob_end" => e = BlobEnd,
               epoch' = epoch + (IF e.kind = "epoch_change_start" THEN 1 ELSE 0),
               e.kind = "epoch_change_start" => e.epoch = epoch + 1
        PROVE  EpochsInv'
    <2>1. certified \subseteq certified'
      BY <1>1 DEF Grows
    <2>2. Len(stream)' = Len(stream) + 1 /\ stream'[Len(stream) + 1] = e
      BY <1>1, <1>3, <2>1, AppendFacts
    <2> QED
      BY <1>1, <1>3, <2>2, EpochsAppend
  <1>4. epoch \in Nat
    BY <1>1, StreamFacts, EpochAtNext DEF EpochsInv, EpochsCount
  <1>5. CASE EndBlob
    <2>1. PICK e : e = BlobEnd
      OBVIOUS
    <2>2. stream' = Append(stream, e) /\ e.kind = "blob_end" /\ epoch' = epoch
      BY <1>5, <2>1 DEF EndBlob, BlobEnd, vars
    <2> QED
      BY <1>3, <1>4, <2>1, <2>2
  <1>6. CASE ChangeEpoch
    <2>1. PICK e : e = EpochChangeStart(epoch + 1)
      OBVIOUS
    <2>2. /\ stream' = Append(stream, e) /\ e.kind = "epoch_change_start" /\ e.epoch = epoch + 1
          /\ epoch' = epoch + 1
      BY <1>6, <2>1 DEF ChangeEpoch, AdvanceEpoch, EpochChangeStart
    <2> QED
      BY <1>3, <1>4, <2>2
  <1>7. ASSUME NEW n \in Nodes, NEW ok \in BOOLEAN, AttestBlob(n, ok)
        PROVE  EpochsInv'
    <2>1. PICK e : e = BlobCertified(WithId(n, NextBlob(n)).id)
      OBVIOUS
    <2>2. (stream' = stream \/ stream' = Append(stream, e)) /\ epoch' = epoch
      BY <1>7, <2>1 DEF AttestBlob, CertifyEventBlob
    <2>3. e.kind = "certified"
      BY <2>1 DEF BlobCertified
    <2> QED
      BY <1>2, <1>3, <1>4, <2>2, <2>3
  <1>8. ASSUME NEW n \in Nodes, Write(n) \/ WriteOther(n)
        PROVE  UNCHANGED <<stream, epoch>>
    BY <1>8 DEF Write, WriteBlobEnd, WriteEpochChangeStart, WriteUnmatched, RemoveFile,
                WriteCertified, Written, WriteOther, vars
  <1>9. ASSUME NEW n \in Nodes, \/ SkipAttestation(n) \/ AttestInVain(n) \/ FailToAttest(n)
                                \/ RecordAttestation(n) \/ Crash(n)
                                \/ \E lookup \in Lookups : Restart(n, lookup)
                                \/ \E num \in 1 .. FirstKept : Reposition(n, num)
        PROVE  UNCHANGED <<stream, epoch>>
    BY <1>9 DEF SkipAttestation, AttestInVain, FailToAttest, RecordAttestation, Crash, Restart,
                Reposition, vars
  <1>10. CASE UNCHANGED writerVars
    BY <1>2, <1>10 DEF writerVars, vars
  <1> QED
    BY <1>2, <1>5, <1>6, <1>7, <1>8, <1>9, <1>10 DEF WriterNext, Attest

-----------------------------------------------------------------------------
(* Event blob writers: the chain of blobs.                                 *)

(* The IDs of the blobs in the stream, if their headers have the epoch in  *)
(* which they begin.                                                       *)
IsChain(ch) ==
  ch[0] = <<>> /\ \A k \in 1 .. NumBlobs : ch[k] = <<ch[k - 1], k, EndEpoch(k - 1)>>

(* A chain can be continued.                                               *)
LEMMA ChainLonger ==
  ASSUME StreamInv, StreamInv', Grows, NEW ch, IsChain(ch)
  PROVE  \E c2 : IsChain(c2)' /\ \A k \in 0 .. NumBlobs : c2[k] = ch[k]
  <1>1. PICK l \in Nat : l = NumBlobs
    BY StreamFacts
  <1> DEFINE g == [k \in 0 .. l + 1 |-> IF k <= l THEN ch[k] ELSE <<ch[l], l + 1, EndEpoch(l)>>]
  <1>2. PICK c2 : c2 = g
    OBVIOUS
  <1>3. \A k \in 0 .. l : c2[k] = ch[k]
    BY <1>2
  <1>4. c2[l + 1] = <<ch[l], l + 1, EndEpoch(l)>>
    BY <1>2
  <1> HIDE DEF g
  <1>5. PICK m \in Nat : m = NumBlobs'
    BY DEF Grows
  <1>6. m \in {l, l + 1}
    BY <1>1, <1>5 DEF Grows
  <1>7. \A k \in 0 .. l : EndEpoch(k)' = EndEpoch(k)
    BY <1>1, EpochsKept
  <1>8. ASSUME NEW k \in 1 .. m
        PROVE  c2[k] = <<c2[k - 1], k, EndEpoch(k - 1)'>>
    <2>1. k - 1 \in 0 .. l /\ (k \in 1 .. l \/ k = l + 1)
      BY <1>6
    <2>2. c2[k - 1] = ch[k - 1] /\ EndEpoch(k - 1)' = EndEpoch(k - 1)
      BY <1>3, <1>7, <2>1
    <2>3. CASE k \in 1 .. l
      <3>1. k \in 0 .. l
        BY <2>3
      <3>2. c2[k] = ch[k] /\ ch[k] = <<ch[k - 1], k, EndEpoch(k - 1)>>
        BY <1>1, <1>3, <2>3, <3>1 DEF IsChain
      <3> QED
        BY <2>2, <3>2
    <2>4. CASE k = l + 1
      <3>1. k - 1 = l
        BY <2>4
      <3> QED
        BY <1>4, <2>2, <2>4, <3>1
    <2> QED
      BY <2>1, <2>3, <2>4
  <1>9. c2[0] = <<>>
    BY <1>3 DEF IsChain
  <1>10. \A k \in 1 .. NumBlobs' : c2[k] = <<c2[k - 1], k, EndEpoch(k - 1)'>>
    BY <1>5, <1>8
  <1>11. IsChain(c2)'
    BY <1>9, <1>10 DEF IsChain
  <1> QED
    BY <1>1, <1>3, <1>11

(* A blob of the stream with the right header and epoch.                   *)
GoodBlob(b) ==
  b.num \in 1 .. NumBlobs /\ b.header = EndEpoch(b.num - 1) /\ b.epoch = EndEpoch(b.num)

(* A writer's tables and memory follow the chain.                          *)
FollowsOK(ch, i, ph, e, h, r, p, a, f, c) ==
  /\ \A b \in p : b.id = <<>> /\ GoodBlob(b)
  /\ \A b \in {a, f} \ {NoBlob} : b.id = ch[b.num] /\ GoodBlob(b)
  /\ c.id = ch[c.num] /\ c.num \in 0 .. NumBlobs /\ (c # NoBlob => c.epoch = EndEpoch(c.num))
  /\ ph # "down" => /\ i \in 0 .. Len(stream) /\ e = EpochAt(i)
                    /\ h = EndEpoch(BlobsBefore(i)) /\ r = c.id

(* It goes on doing so.                                                    *)
LEMMA FollowsLonger ==
  ASSUME StreamInv, StreamInv', Grows, NEW ch, NEW c2, \A k \in 0 .. NumBlobs : c2[k] = ch[k],
         NEW i, NEW ph, NEW e, NEW h, NEW r, NEW p, NEW a, NEW f, NEW c,
         FollowsOK(ch, i, ph, e, h, r, p, a, f, c)
  PROVE  FollowsOK(c2, i, ph, e, h, r, p, a, f, c)'
  <1>1. /\ Len(stream) \in Nat /\ NumBlobs \in Nat /\ Len(stream)' \in Nat /\ NumBlobs' \in Nat
        /\ Len(stream) <= Len(stream)' /\ NumBlobs <= NumBlobs'
        /\ \A j : BlobsBefore(j) \in 0 .. NumBlobs
        /\ \A j \in 0 .. Len(stream) : BlobsBefore(j)' = BlobsBefore(j)
    BY StreamFacts DEF Grows
  <1>2. /\ \A j \in 0 .. Len(stream) : EpochAt(j)' = EpochAt(j)
        /\ \A k \in 0 .. NumBlobs : EndEpoch(k)' = EndEpoch(k)
    BY EpochsKept
  <1>3. ASSUME NEW b, GoodBlob(b)
        PROVE  GoodBlob(b)' /\ c2[b.num] = ch[b.num]
    <2>1. b.num \in 1 .. NumBlobs
      BY <1>3 DEF GoodBlob
    <2>2. PICK k \in 1 .. NumBlobs : k = b.num
      BY <2>1
    <2>3. k \in 1 .. NumBlobs' /\ k \in 0 .. NumBlobs /\ k - 1 \in 0 .. NumBlobs
      BY <1>1, <2>2
    <2>4. EndEpoch(k)' = EndEpoch(k) /\ EndEpoch(k - 1)' = EndEpoch(k - 1)
      BY <1>2, <2>3
    <2>5. b.header = EndEpoch(k - 1) /\ b.epoch = EndEpoch(k)
      BY <1>3, <2>2 DEF GoodBlob
    <2> QED
      BY <2>2, <2>3, <2>4, <2>5 DEF GoodBlob
  <1>4. \A b \in p : b.id = <<>> /\ GoodBlob(b)'
    BY <1>3 DEF FollowsOK
  <1>5. \A b \in {a, f} \ {NoBlob} : b.id = c2[b.num] /\ GoodBlob(b)'
    BY <1>3 DEF FollowsOK
  <1>6. c.id = c2[c.num] /\ c.num \in 0 .. NumBlobs' /\ (c # NoBlob => c.epoch = EndEpoch(c.num)')
    <2>1. PICK k \in 0 .. NumBlobs : k = c.num
      BY DEF FollowsOK
    <2>2. k \in 0 .. NumBlobs' /\ EndEpoch(k)' = EndEpoch(k) /\ c2[k] = ch[k]
      BY <1>1, <1>2
    <2>3. c.id = ch[k] /\ (c # NoBlob => c.epoch = EndEpoch(k))
      BY <2>1 DEF FollowsOK
    <2> QED
      BY <2>1, <2>2, <2>3
  <1>7. ASSUME ph # "down"
        PROVE  /\ i \in 0 .. Len(stream)' /\ e = EpochAt(i)'
               /\ h = EndEpoch(BlobsBefore(i))' /\ r = c.id
    <2>1. i \in 0 .. Len(stream) /\ e = EpochAt(i) /\ h = EndEpoch(BlobsBefore(i)) /\ r = c.id
      BY <1>7 DEF FollowsOK
    <2>2. PICK k \in 0 .. NumBlobs : k = BlobsBefore(i)
      BY <1>1
    <2>3. BlobsBefore(i)' = k /\ EpochAt(i)' = EpochAt(i) /\ EndEpoch(k)' = EndEpoch(k)
      BY <1>1, <1>2, <2>1, <2>2
    <2>4. EndEpoch(BlobsBefore(i))' = EndEpoch(k)'
      BY <2>3 DEF EndEpoch
    <2> QED
      BY <1>1, <2>1, <2>2, <2>3, <2>4
  <1> QED
    BY <1>4, <1>5, <1>6, <1>7 DEF FollowsOK

(* What a writer keeps in memory only.                                     *)
MemoryDomains ==
  DOMAIN current_epoch = Nodes /\ DOMAIN header = Nodes /\ DOMAIN prev_certified = Nodes

SameMemory(n) ==
  /\ current_epoch'[n] = current_epoch[n] /\ header'[n] = header[n]
  /\ prev_certified'[n] = prev_certified[n]

Remembers(n, e, h, r) ==
  /\ MemoryDomains'
  /\ \A m \in Nodes \ {n} : SameMemory(m)
  /\ current_epoch'[n] = e /\ header'[n] = h /\ prev_certified'[n] = r

Follows(ch, n) ==
  FollowsOK(ch, cursor[n], phase[n], current_epoch[n], header[n], prev_certified[n], pending[n],
            attested[n], failed_to_attest[n], certified_blob[n])

(* The blob on chain is that of the chain of IDs.                          *)
OnChain(ch, d) == d.ending_checkpoint \in 0 .. NumBlobs /\ d.blob_id = ch[d.ending_checkpoint]

(* Contract and writers have the same chain.                               *)
SameChain(ch) ==
  /\ IsChain(ch)
  /\ \A c \in certified : OnChain(ch, c.blob)
  /\ \A n \in Nodes : Follows(ch, n)

AgreeInv == MemoryDomains /\ (moved = {} => \E ch : SameChain(ch))

(* Nothing but a write touches the memory of a writer.                     *)
LEMMA MemoryKept ==
  ASSUME MemoryDomains, UNCHANGED <<current_epoch, header, prev_certified>>, NEW n \in Nodes
  PROVE  Remembers(n, current_epoch[n], header[n], prev_certified[n])
  BY DEF MemoryDomains, Remembers, SameMemory

(* A writer that does not move, while the chain gets longer.               *)
LEMMA OthersFollow ==
  ASSUME StreamInv, StreamInv', Grows, NEW ch, NEW c2, \A k \in 0 .. NumBlobs : c2[k] = ch[k],
         NEW m \in Nodes, Follows(ch, m), SameWriter(m), SameMemory(m)
  PROVE  Follows(c2, m)'
  <1>1. PICK j, qh, x, y, z, q, d, g, e :
          /\ j = cursor[m] /\ qh = phase[m] /\ x = current_epoch[m] /\ y = header[m]
          /\ z = prev_certified[m] /\ q = pending[m] /\ d = attested[m]
          /\ g = failed_to_attest[m] /\ e = certified_blob[m]
    OBVIOUS
  <1>2. FollowsOK(ch, j, qh, x, y, z, q, d, g, e)
    BY <1>1 DEF Follows
  <1>3. FollowsOK(c2, j, qh, x, y, z, q, d, g, e)'
    BY <1>2, FollowsLonger
  <1>4. /\ cursor'[m] = j /\ phase'[m] = qh /\ current_epoch'[m] = x /\ header'[m] = y
        /\ prev_certified'[m] = z /\ pending'[m] = q /\ attested'[m] = d
        /\ failed_to_attest'[m] = g /\ certified_blob'[m] = e
    BY <1>1 DEF SameWriter, SameMemory
  <1> QED
    BY <1>3, <1>4 DEF Follows

(* What is on chain stays there.                                           *)
LEMMA OnChainLonger ==
  ASSUME StreamInv, Grows, NEW ch, NEW c2, \A k \in 0 .. NumBlobs : c2[k] = ch[k],
         NEW d, OnChain(ch, d)
  PROVE  OnChain(c2, d)'
  <1>1. NumBlobs \in Nat /\ NumBlobs' \in Nat /\ NumBlobs <= NumBlobs'
    BY StreamFacts DEF Grows
  <1>2. d.ending_checkpoint \in 0 .. NumBlobs /\ d.blob_id = ch[d.ending_checkpoint]
    BY DEF OnChain
  <1>3. d.ending_checkpoint \in 0 .. NumBlobs' /\ d.blob_id = c2[d.ending_checkpoint]
    BY <1>1, <1>2
  <1> QED
    BY <1>3 DEF OnChain

(* A step of one writer, by which another blob of the chain may be         *)
(* certified.                                                              *)
LEMMA OneFollows ==
  ASSUME StreamInv, StreamInv', Grows, NEW ch, SameChain(ch), NEW n \in Nodes,
         NEW i, NEW ph, NEW e, NEW h, NEW r, NEW p, NEW a, NEW f, NEW c, NEW t,
         Becomes(n, i, ph, p, a, f, c, t), Remembers(n, e, h, r),
         FollowsOK(ch, i, ph, e, h, r, p, a, f, c), \A d \in certified' : OnChain(ch, d.blob)
  PROVE  \E c2 : SameChain(c2)'
  <1>1. PICK c2 : IsChain(c2)' /\ \A k \in 0 .. NumBlobs : c2[k] = ch[k]
    BY ChainLonger DEF SameChain
  <1>2. \A d \in certified' : OnChain(c2, d.blob)'
    <2> TAKE d \in certified'
    <2>1. PICK b : b = d.blob
      OBVIOUS
    <2>2. OnChain(ch, b)
      BY <2>1
    <2>3. OnChain(c2, b)'
      BY <1>1, <2>2, OnChainLonger
    <2> QED
      BY <2>1, <2>3
  <1>3. FollowsOK(c2, i, ph, e, h, r, p, a, f, c)'
    BY <1>1, FollowsLonger
  <1>4. Follows(c2, n)'
    BY <1>3 DEF Follows, Becomes, Remembers
  <1>5. ASSUME NEW m \in Nodes \ {n}
        PROVE  Follows(c2, m)'
    <2>1. Follows(ch, m) /\ SameWriter(m) /\ SameMemory(m)
      BY <1>5 DEF SameChain, Becomes, Remembers
    <2> QED
      BY <1>1, <2>1, OthersFollow
  <1>6. SameChain(c2)'
    BY <1>1, <1>2, <1>4, <1>5 DEF SameChain
  <1> QED
    BY <1>6

(* A step of none.                                                         *)
LEMMA NoneFollows ==
  ASSUME StreamInv, StreamInv', Grows, NEW ch, SameChain(ch), certified' = certified,
         \A m \in Nodes : SameWriter(m) /\ SameMemory(m)
  PROVE  \E c2 : SameChain(c2)'
  <1>1. PICK c2 : IsChain(c2)' /\ \A k \in 0 .. NumBlobs : c2[k] = ch[k]
    BY ChainLonger DEF SameChain
  <1>2. \A d \in certified' : OnChain(c2, d.blob)'
    <2> TAKE d \in certified'
    <2>1. PICK b : b = d.blob
      OBVIOUS
    <2>2. OnChain(ch, b)
      BY <2>1 DEF SameChain
    <2>3. OnChain(c2, b)'
      BY <1>1, <2>2, OnChainLonger
    <2> QED
      BY <2>1, <2>3
  <1>3. \A m \in Nodes : Follows(c2, m)'
    BY <1>1, OthersFollow DEF SameChain
  <1>4. SameChain(c2)'
    BY <1>1, <1>2, <1>3 DEF SameChain
  <1> QED
    BY <1>4

(* Reading the end of a blob: its header has the epoch in which it began,  *)
(* and the next one gets that in which it ends.                            *)
LEMMA BlobEndAgrees ==
  ASSUME RecordedInv, StreamInv', Grows, MemoryDomains, NEW ch, SameChain(ch), NEW n \in Nodes,
         WriteBlobEnd(n)
  PROVE  \E c2 : SameChain(c2)'
  <1>1. StreamInv /\ Domains
    BY WriterFacts
  <1>2. /\ Quiet /\ cursor[n] < Len(stream) /\ stream[cursor[n] + 1].kind = "blob_end"
        /\ Becomes(n, cursor[n] + 1, "attest", pending[n] \cup {CutBlob(n)}, attested[n],
                   failed_to_attest[n], certified_blob[n], sent[n])
    BY <1>1, BlobEndEffect
  <1>3. Remembers(n, current_epoch[n], current_epoch[n], prev_certified[n])
    <2>1. /\ header' = [header EXCEPT ![n] = current_epoch[n]]
          /\ UNCHANGED <<current_epoch, prev_certified>>
      BY DEF WriteBlobEnd, NextHeader
    <2> QED
      BY <2>1 DEF MemoryDomains, Remembers, SameMemory
  <1>4. PICK i, e, h, r : /\ i = cursor[n] /\ e = current_epoch[n] /\ h = header[n]
                          /\ r = prev_certified[n]
    OBVIOUS
  <1>5. phase[n] # "down"
    BY DEF WriteBlobEnd, Reads
  <1>6. /\ i \in 0 .. Len(stream) /\ e = EpochAt(i) /\ h = EndEpoch(BlobsBefore(i))
        /\ r = certified_blob[n].id
        /\ \A b \in pending[n] : b.id = <<>> /\ GoodBlob(b)
        /\ \A b \in {attested[n], failed_to_attest[n]} \ {NoBlob} :
             b.id = ch[b.num] /\ GoodBlob(b)
        /\ certified_blob[n].id = ch[certified_blob[n].num]
        /\ certified_blob[n].num \in 0 .. NumBlobs
        /\ certified_blob[n] # NoBlob =>
             certified_blob[n].epoch = EndEpoch(certified_blob[n].num)
    BY <1>4, <1>5 DEF SameChain, Follows, FollowsOK
  <1>7. BlobsBefore(i) + 1 \in 0 .. NumBlobs /\ BlobsBefore(i + 1) = BlobsBefore(i) + 1
    BY <1>1, <1>2, <1>4, <1>6, NextNum
  <1>8. Len(stream) \in Nat /\ NumBlobs \in Nat /\ DOMAIN stream = 1 .. Len(stream)
    BY <1>1, StreamFacts
  <1>9. PICK k \in Nat : k = BlobsBefore(i)
    BY <1>1, <1>8, StreamFacts
  <1>10. i + 1 \in Ends /\ i + 1 \in 0 .. Len(stream) /\ i \in Nat
    <2>1. i + 1 \in 1 .. Len(stream)
      BY <1>2, <1>4, <1>6, <1>8
    <2>2. stream[i + 1] = BlobEnd
      BY <1>1, <1>2, <1>4, <2>1 DEF StreamInv
    <2> QED
      BY <1>6, <1>8, <2>1, <2>2 DEF Ends
  <1>11. EndOf(k + 1) = i + 1
    <2>1. BlobsBefore(i + 1) = k + 1 /\ k + 1 # 0
      BY <1>7, <1>9
    <2> QED
      BY <1>1, <1>10, <2>1, EndUnique DEF UniqueEnds
  <1>12. EpochAt(i + 1) = e
    <2>1. stream[i + 1].kind # "epoch_change_start"
      BY <1>2, <1>4
    <2> QED
      BY <1>6, <1>10, <2>1, EpochSame
  <1>13. EndEpoch(k + 1) = e
    BY <1>11, <1>12 DEF EndEpoch
  <1>14. PICK d : d = CutBlob(n)
    OBVIOUS
  <1>15. d.num = k + 1 /\ d.header = h /\ d.epoch = e /\ d.id = <<>>
    BY <1>4, <1>9, <1>14 DEF CutBlob, Blob
  <1>16. GoodBlob(d)
    <2>1. k + 1 \in 1 .. NumBlobs /\ k + 1 - 1 = k
      BY <1>7, <1>8, <1>9
    <2> QED
      BY <1>6, <1>9, <1>13, <1>15, <2>1 DEF GoodBlob
  <1>17. e = EndEpoch(BlobsBefore(i + 1))
    BY <1>7, <1>9, <1>13
  <1>18. FollowsOK(ch, i + 1, "attest", e, e, r, pending[n] \cup {d}, attested[n],
                   failed_to_attest[n], certified_blob[n])
    BY <1>6, <1>10, <1>12, <1>15, <1>16, <1>17 DEF FollowsOK
  <1>19. \A c \in certified' : OnChain(ch, c.blob)
    BY <1>2 DEF Quiet, SameChain
  <1>20. /\ Becomes(n, i + 1, "attest", pending[n] \cup {d}, attested[n], failed_to_attest[n],
                    certified_blob[n], sent[n])
         /\ Remembers(n, e, e, r)
    BY <1>2, <1>3, <1>4, <1>14
  <1> QED
    BY <1>1, <1>18, <1>19, <1>20, OneFollows

(* What a running writer has.                                              *)
LEMMA FollowFacts ==
  ASSUME NEW ch, SameChain(ch), NEW n \in Nodes
  PROVE  /\ \A b \in pending[n] : b.id = <<>> /\ GoodBlob(b)
         /\ \A b \in {attested[n], failed_to_attest[n]} \ {NoBlob} :
              b.id = ch[b.num] /\ GoodBlob(b)
         /\ certified_blob[n].id = ch[certified_blob[n].num]
         /\ certified_blob[n].num \in 0 .. NumBlobs
         /\ certified_blob[n] # NoBlob =>
              certified_blob[n].epoch = EndEpoch(certified_blob[n].num)
         /\ phase[n] # "down" =>
              /\ cursor[n] \in 0 .. Len(stream) /\ current_epoch[n] = EpochAt(cursor[n])
              /\ header[n] = EndEpoch(BlobsBefore(cursor[n]))
              /\ prev_certified[n] = certified_blob[n].id
  BY DEF SameChain, Follows, FollowsOK

(* Reading that the epoch changes.                                         *)
LEMMA EpochChangeAgrees ==
  ASSUME RecordedInv, EpochsInv, StreamInv', Grows, MemoryDomains, NEW ch, SameChain(ch),
         NEW n \in Nodes, WriteEpochChangeStart(n)
  PROVE  \E c2 : SameChain(c2)'
  <1>1. StreamInv /\ Domains
    BY WriterFacts
  <1>2. /\ Quiet /\ cursor[n] < Len(stream) /\ stream[cursor[n] + 1].kind = "epoch_change_start"
        /\ Becomes(n, cursor[n] + 1, "attest", WithAttested(n), NoBlob,
                   failed_to_attest[n], certified_blob[n], sent[n])
    BY <1>1, EpochChangeEffect
  <1>3. Remembers(n, stream[cursor[n] + 1].epoch, header[n], prev_certified[n])
    <2>1. /\ current_epoch' = [current_epoch EXCEPT ![n] = stream[cursor[n] + 1].epoch]
          /\ UNCHANGED <<header, prev_certified>>
      BY DEF WriteEpochChangeStart
    <2> QED
      BY <2>1 DEF MemoryDomains, Remembers, SameMemory
  <1>4. PICK i, e, h, r : /\ i = cursor[n] /\ e = stream[i + 1].epoch /\ h = header[n]
                          /\ r = prev_certified[n]
    OBVIOUS
  <1>5. phase[n] # "down"
    BY DEF WriteEpochChangeStart, Reads
  <1>6. /\ i \in 0 .. Len(stream) /\ h = EndEpoch(BlobsBefore(i)) /\ r = certified_blob[n].id
    BY <1>4, <1>5, FollowFacts
  <1>7. i + 1 \in 0 .. Len(stream) /\ BlobsBefore(i + 1) = BlobsBefore(i)
    BY <1>1, <1>2, <1>4, <1>6, SameNum
  <1>8. e = EpochAt(i + 1)
    <2>1. i + 1 \in 1 .. Len(stream)
      BY <1>1, <1>6, <1>7, StreamFacts
    <2> QED
      BY <1>2, <1>4, <2>1 DEF EpochsInv
  <1>9. h = EndEpoch(BlobsBefore(i + 1))
    BY <1>6, <1>7
  <1>10. \A b \in WithAttested(n) : b.id = <<>> /\ GoodBlob(b)
    <2>1. CASE attested[n] = NoBlob
      BY <2>1, FollowFacts DEF WithAttested
    <2>2. CASE attested[n] # NoBlob
      <3>1. PICK b, d : b = attested[n] /\ d = ToPending(b)
        OBVIOUS
      <3>2. GoodBlob(b)
        BY <2>2, <3>1, FollowFacts
      <3>3. d.num = b.num /\ d.header = b.header /\ d.epoch = b.epoch /\ d.id = <<>>
        BY <3>1 DEF ToPending, Blob
      <3>4. GoodBlob(d)
        BY <3>2, <3>3 DEF GoodBlob
      <3>5. WithAttested(n) = pending[n] \cup {d}
        BY <2>2, <3>1 DEF WithAttested
      <3> QED
        BY <3>3, <3>4, <3>5, FollowFacts
    <2> QED
      BY <2>1, <2>2
  <1>11. FollowsOK(ch, i + 1, "attest", e, h, r, WithAttested(n), NoBlob, failed_to_attest[n],
                   certified_blob[n])
    BY <1>6, <1>7, <1>8, <1>9, <1>10, FollowFacts DEF FollowsOK
  <1>12. \A c \in certified' : OnChain(ch, c.blob)
    BY <1>2 DEF Quiet, SameChain
  <1>13. /\ Becomes(n, i + 1, "attest", WithAttested(n), NoBlob, failed_to_attest[n],
                    certified_blob[n], sent[n])
         /\ Remembers(n, e, h, r)
    BY <1>2, <1>3, <1>4
  <1> QED
    BY <1>1, <1>11, <1>12, <1>13, OneFollows

(* Moving on.                                                              *)
LEMMA IdleAgrees ==
  ASSUME RecordedInv, StreamInv', Grows, MemoryDomains, NEW ch, SameChain(ch), NEW n \in Nodes,
         UNCHANGED <<current_epoch, header, prev_certified>>,
         \/ WriteUnmatched(n) \/ WriteOther(n) \/ SkipAttestation(n)
         \/ \E b \in Outstanding(n) : RemoveFile(n, b)
  PROVE  \E c2 : SameChain(c2)'
  <1>1. StreamInv /\ Domains
    BY WriterFacts
  <1>2. /\ Quiet /\ phase[n] \in {"idle", "attest"}
        /\ \/ /\ cursor[n] < Len(stream) /\ stream[cursor[n] + 1].kind = "certified"
              /\ Moves(n, cursor[n] + 1, "attest") \/ Moves(n, cursor[n], "removed")
           \/ Moves(n, cursor[n], "attest")
           \/ Moves(n, cursor[n], "idle")
    BY <1>1, IdleEffect
  <1>3. Remembers(n, current_epoch[n], header[n], prev_certified[n])
    BY MemoryKept
  <1>4. PICK k : k = cursor[n]
    OBVIOUS
  <1>5. k \in 0 .. Len(stream) /\ k \in Nat
    BY <1>1, <1>2, <1>4, FollowFacts, StreamFacts
  <1>6. k < Len(stream) /\ stream[k + 1].kind = "certified" =>
          /\ k + 1 \in 0 .. Len(stream) /\ BlobsBefore(k + 1) = BlobsBefore(k)
          /\ EpochAt(k + 1) = EpochAt(k)
    BY <1>1, <1>5, SameNum, EpochSame
  <1>7. PICK i, ph : /\ Moves(n, i, ph) /\ i \in 0 .. Len(stream)
                     /\ BlobsBefore(i) = BlobsBefore(k) /\ EpochAt(i) = EpochAt(k)
    BY <1>2, <1>4, <1>5, <1>6
  <1>8. FollowsOK(ch, i, ph, current_epoch[n], header[n], prev_certified[n], pending[n],
                  attested[n], failed_to_attest[n], certified_blob[n])
    <2>1. /\ current_epoch[n] = EpochAt(i) /\ header[n] = EndEpoch(BlobsBefore(i))
          /\ prev_certified[n] = certified_blob[n].id
      BY <1>2, <1>4, <1>7, FollowFacts
    <2> QED
      BY <1>7, <2>1, FollowFacts DEF FollowsOK
  <1>9. \A c \in certified' : OnChain(ch, c.blob)
    BY <1>2 DEF Quiet, SameChain
  <1> QED
    BY <1>1, <1>3, <1>7, <1>8, <1>9, OneFollows DEF Moves

(* Recording a certification.                                              *)
LEMMA CertificationAgrees ==
  ASSUME RecordedInv, StreamInv', Grows, MemoryDomains, NEW ch, SameChain(ch), NEW n \in Nodes,
         NEW b \in Outstanding(n), WriteCertified(n, b)
  PROVE  \E c2 : SameChain(c2)'
  <1>1. StreamInv /\ Domains
    BY WriterFacts
  <1>2. PICK a, f : a = Unless(attested[n], b) /\ f = Unless(failed_to_attest[n], b)
    OBVIOUS
  <1>3. /\ Quiet /\ phase[n] = "removed" /\ b # NoBlob
        /\ Becomes(n, cursor[n] + 1, "attest", pending[n], a, f, b, sent[n])
    BY <1>1, <1>2, CertificationEffect
  <1>4. Remembers(n, current_epoch[n], header[n], b.id)
    <2>1. /\ prev_certified' = [prev_certified EXCEPT ![n] = b.id]
          /\ UNCHANGED <<header, current_epoch>>
      BY DEF WriteCertified
    <2> QED
      BY <2>1 DEF MemoryDomains, Remembers, SameMemory
  <1>5. PICK i : i = cursor[n]
    OBVIOUS
  <1>6. i < Len(stream) /\ stream[i + 1].kind = "certified"
    BY <1>3, <1>5 DEF RecordedInv, WriterInv, WriterOK
  <1>7. /\ i \in 0 .. Len(stream) /\ i \in Nat /\ current_epoch[n] = EpochAt(i)
        /\ header[n] = EndEpoch(BlobsBefore(i))
    BY <1>1, <1>3, <1>5, FollowFacts, StreamFacts
  <1>8. i + 1 \in 0 .. Len(stream) /\ BlobsBefore(i + 1) = BlobsBefore(i)
    BY <1>1, <1>6, <1>7, SameNum
  <1>9. EpochAt(i + 1) = EpochAt(i)
    BY <1>6, <1>7, EpochSame
  <1>10. current_epoch[n] = EpochAt(i + 1) /\ header[n] = EndEpoch(BlobsBefore(i + 1))
    BY <1>7, <1>8, <1>9
  <1>11. b.id = ch[b.num] /\ GoodBlob(b)
    BY <1>3, FollowFacts DEF Outstanding
  <1>12. b.num \in 0 .. NumBlobs /\ b.epoch = EndEpoch(b.num)
    <2>1. NumBlobs \in Nat /\ b.num \in 1 .. NumBlobs /\ b.epoch = EndEpoch(b.num)
      BY <1>1, <1>11, StreamFacts DEF GoodBlob
    <2> QED
      BY <2>1
  <1>13. \A d \in {a, f} \ {NoBlob} : d.id = ch[d.num] /\ GoodBlob(d)
    BY <1>2, FollowFacts DEF Unless
  <1>14. FollowsOK(ch, i + 1, "attest", current_epoch[n], header[n], b.id, pending[n], a, f, b)
    BY <1>8, <1>10, <1>11, <1>12, <1>13, FollowFacts DEF FollowsOK
  <1>15. \A c \in certified' : OnChain(ch, c.blob)
    BY <1>3 DEF Quiet, SameChain
  <1>16. Becomes(n, i + 1, "attest", pending[n], a, f, b, sent[n])
    BY <1>3, <1>5
  <1> QED
    BY <1>1, <1>4, <1>14, <1>15, <1>16, OneFollows

(* The blob that is attested continues the chain: it follows the certified *)
(* blob, whose ID the writer puts into its header.                         *)
LEMMA NextFollows ==
  ASSUME StreamInv, NEW ch, SameChain(ch), NEW n \in Nodes, phase[n] # "down", NEW top,
         TablesOK(pending[n], attested[n], failed_to_attest[n], certified_blob[n].num, top),
         NEW b, b = NextOf(pending[n], attested[n], failed_to_attest[n]), b # NoBlob,
         NEW w, w = WithId(n, b)
  PROVE  attested[n] = NoBlob /\ w.id = ch[w.num] /\ GoodBlob(w) /\ w.num \in 0 .. NumBlobs
  <1>1. /\ attested[n] = NoBlob /\ b.num = certified_blob[n].num + 1
        /\ failed_to_attest[n] # NoBlob => b = failed_to_attest[n]
        /\ failed_to_attest[n] = NoBlob => b \in pending[n]
    BY NextIsFirst
  <1>2. NumBlobs \in Nat
    BY StreamFacts
  <1>3. w.id = ch[w.num] /\ GoodBlob(w)
    <2>1. CASE failed_to_attest[n] # NoBlob
      <3>1. w = failed_to_attest[n]
        BY <1>1, <2>1 DEF WithId
      <3> QED
        BY <2>1, <3>1, FollowFacts
    <2>2. CASE failed_to_attest[n] = NoBlob
      <3>1. w = Blob(b.num, b.header, b.epoch, <<prev_certified[n], b.num, b.header>>)
        BY <2>2 DEF WithId
      <3>2. /\ w.num = b.num /\ w.header = b.header /\ w.epoch = b.epoch
            /\ w.id = <<prev_certified[n], b.num, b.header>>
        BY <3>1 DEF Blob
      <3>3. GoodBlob(b)
        BY <1>1, <2>2, FollowFacts
      <3>4. PICK k \in 1 .. NumBlobs : k = b.num
        BY <3>3 DEF GoodBlob
      <3>5. b.header = EndEpoch(k - 1)
        BY <3>3, <3>4 DEF GoodBlob
      <3>6. certified_blob[n].num = k - 1
        BY <1>1, <1>2, <3>4, FollowFacts
      <3>7. prev_certified[n] = ch[k - 1]
        BY <3>6, FollowFacts
      <3>8. ch[k] = <<ch[k - 1], k, EndEpoch(k - 1)>>
        BY <3>4 DEF SameChain, IsChain
      <3>9. w.id = ch[w.num]
        BY <3>2, <3>4, <3>5, <3>7, <3>8
      <3>10. GoodBlob(w)
        BY <3>2, <3>3 DEF GoodBlob
      <3> QED
        BY <3>9, <3>10
    <2> QED
      BY <2>1, <2>2
  <1>4. w.num \in 0 .. NumBlobs
    BY <1>2, <1>3 DEF GoodBlob
  <1> QED
    BY <1>1, <1>3, <1>4

(* An attestation, whatever the contract makes of it.                      *)
LEMMA AttestAgrees ==
  ASSUME RecordedInv, LostInv, moved = {}, StreamInv', Grows, MemoryDomains, NEW ch,
         SameChain(ch), NEW n \in Nodes, NEW ok \in BOOLEAN, Sending(n, ok)
  PROVE  \E c2 : SameChain(c2)'
  <1>1. StreamInv /\ Domains
    BY WriterFacts
  <1>2. PICK t : t = [blob |-> NextBlob(n), ok |-> ok]
    OBVIOUS
  <1>3. /\ phase[n] = "attest" /\ NextBlob(n) # NoBlob
        /\ Becomes(n, cursor[n], "sent", pending[n], attested[n], failed_to_attest[n],
                   certified_blob[n], t)
    BY <1>1, <1>2, SendEffect
  <1>4. Remembers(n, current_epoch[n], header[n], prev_certified[n])
    <2>1. UNCHANGED <<current_epoch, header, prev_certified>>
      BY DEF Sending, AttestInVain, FailToAttest, AttestBlob
    <2> QED
      BY <2>1, MemoryKept
  <1>5. FollowsOK(ch, cursor[n], "sent", current_epoch[n], header[n], prev_certified[n],
                  pending[n], attested[n], failed_to_attest[n], certified_blob[n])
    BY <1>3, FollowFacts DEF FollowsOK
  <1>6. \A c \in certified' : OnChain(ch, c.blob)
    <2>1. CASE certified' = certified
      BY <2>1 DEF SameChain
    <2>2. CASE certified' # certified
      <3>1. AttestBlob(n, ok)
        BY <2>2 DEF Sending, AttestInVain, FailToAttest, vars
      <3>2. PICK b, w : b = NextBlob(n) /\ w = WithId(n, b)
        OBVIOUS
      <3>3. PICK v : v = [blob_id |-> w.id, ending_checkpoint |-> w.num]
        OBVIOUS
      <3>4. CertifyEventBlob(n, v)
        BY <3>1, <3>2, <3>3 DEF AttestBlob
      <3>5. PICK d : certified' = certified \cup {d} /\ d.blob = v
        <4>1. PICK x : x = [blob |-> v, epoch |-> epoch, shards |-> ShardsOf(attesters[v] \cup {n})]
          OBVIOUS
        <4>2. certified' = certified \cup {x}
          BY <2>2, <3>4, <4>1 DEF CertifyEventBlob
        <4>3. x.blob = v
          BY <4>1
        <4> QED
          BY <4>2, <4>3
      <3>6. b = NextOf(pending[n], attested[n], failed_to_attest[n]) /\ b # NoBlob
        BY <1>3, <3>2 DEF NextBlob, NextOf
      <3>7. TablesOK(pending[n], attested[n], failed_to_attest[n], certified_blob[n].num,
                     BlobsBefore(cursor[n]))
        BY <1>3, KeptFacts
      <3>8. w.id = ch[w.num] /\ w.num \in 0 .. NumBlobs
        BY <1>1, <1>3, <3>2, <3>6, <3>7, NextFollows
      <3>9. OnChain(ch, v)
        BY <3>3, <3>8 DEF OnChain
      <3> QED
        BY <3>5, <3>9 DEF SameChain
    <2> QED
      BY <2>1, <2>2
  <1> QED
    BY <1>1, <1>3, <1>4, <1>5, <1>6, OneFollows

(* Recording the attestation.                                              *)
LEMMA RecordAgrees ==
  ASSUME RecordedInv, LostInv, moved = {}, StreamInv', Grows, MemoryDomains, NEW ch,
         SameChain(ch), NEW n \in Nodes, RecordAttestation(n)
  PROVE  \E c2 : SameChain(c2)'
  <1>1. StreamInv /\ Domains
    BY WriterFacts
  <1>2. PICK b, w : b = sent[n].blob /\ w = WithId(n, b)
    OBVIOUS
  <1>3. PICK a, f : /\ a = IF sent[n].ok THEN w ELSE attested[n]
                    /\ f = IF sent[n].ok THEN NoBlob ELSE w
    OBVIOUS
  <1>4. /\ Quiet /\ phase[n] = "sent"
        /\ Becomes(n, cursor[n], "idle", pending[n] \ {b}, a, f, certified_blob[n], NotSent)
    BY <1>1, <1>2, <1>3, RecordEffect
  <1>5. Remembers(n, current_epoch[n], header[n], prev_certified[n])
    <2>1. UNCHANGED <<current_epoch, header, prev_certified>>
      BY DEF RecordAttestation
    <2> QED
      BY <2>1, MemoryKept
  <1>6. b = NextOf(pending[n], attested[n], failed_to_attest[n]) /\ b # NoBlob
    BY <1>2, <1>4 DEF LostInv, KeptOK
  <1>7. TablesOK(pending[n], attested[n], failed_to_attest[n], certified_blob[n].num,
                 BlobsBefore(cursor[n]))
    BY <1>4, KeptFacts
  <1>8. attested[n] = NoBlob /\ w.id = ch[w.num] /\ GoodBlob(w)
    BY <1>1, <1>2, <1>4, <1>6, <1>7, NextFollows
  <1>9. \A d \in {a, f} \ {NoBlob} : d.id = ch[d.num] /\ GoodBlob(d)
    BY <1>3, <1>8
  <1>10. FollowsOK(ch, cursor[n], "idle", current_epoch[n], header[n], prev_certified[n],
                   pending[n] \ {b}, a, f, certified_blob[n])
    BY <1>4, <1>9, FollowFacts DEF FollowsOK
  <1>11. \A c \in certified' : OnChain(ch, c.blob)
    BY <1>4 DEF Quiet, SameChain
  <1> QED
    BY <1>1, <1>4, <1>5, <1>10, <1>11, OneFollows

(* A crash.                                                                *)
LEMMA CrashAgrees ==
  ASSUME RecordedInv, StreamInv', Grows, MemoryDomains, NEW ch, SameChain(ch), NEW n \in Nodes,
         Crash(n)
  PROVE  \E c2 : SameChain(c2)'
  <1>1. StreamInv /\ Domains
    BY WriterFacts
  <1>2. /\ Quiet
        /\ Becomes(n, 0, "down", pending[n], attested[n], failed_to_attest[n],
                   certified_blob[n], NotSent)
    BY <1>1, CrashEffect
  <1>3. Remembers(n, 1, 1, <<>>)
    BY DEF Crash, MemoryDomains, Remembers, SameMemory
  <1>4. FollowsOK(ch, 0, "down", 1, 1, <<>>, pending[n], attested[n], failed_to_attest[n],
                  certified_blob[n])
    BY FollowFacts DEF FollowsOK
  <1>5. \A c \in certified' : OnChain(ch, c.blob)
    BY <1>2 DEF Quiet, SameChain
  <1> QED
    BY <1>1, <1>2, <1>3, <1>4, <1>5, OneFollows

(* The number of blobs at the end of a blob.                               *)
LEMMA EndHasNum ==
  ASSUME StreamInv, NEW k \in 0 .. NumBlobs
  PROVE  EndOf(k) \in 0 .. Len(stream) /\ BlobsBefore(EndOf(k)) = k
  <1>1. EndOf(k) \in 0 .. Len(stream) /\ (k # 0 => BlobsBefore(EndOf(k)) = k)
    BY EndOfFacts
  <1>2. BlobsBefore(0) = 0
    <2>1. {j \in Ends : j <= 0} = {}
      BY StreamFacts
    <2> QED
      BY <2>1, FS_EmptySet DEF BlobsBefore
  <1>3. k = 0 => EndOf(k) = 0
    BY DEF EndOf
  <1> QED
    BY <1>1, <1>2, <1>3

(* The first epoch.                                                        *)
LEMMA FirstEpoch == EndEpoch(0) = 1 /\ EpochAt(0) = 1
  <1>1. {j \in 1 .. 0 : stream[j].kind = "epoch_change_start"} = {}
    OBVIOUS
  <1>2. EpochAt(0) = 1
    BY <1>1, FS_EmptySet DEF EpochAt
  <1> QED
    BY <1>2 DEF EndEpoch, EndOf

(* Restarting: the last blob in the tables, or the latest one on chain,    *)
(* tells the position and the epoch.                                       *)
LEMMA RestartAgrees ==
  ASSUME RecordedInv, StreamInv', Grows, MemoryDomains, NEW ch, SameChain(ch), NEW n \in Nodes,
         NEW lookup, Restart(n, lookup)
  PROVE  \E c2 : SameChain(c2)'
  <1>1. StreamInv /\ ContractInv /\ Domains /\ NumBlobs \in Nat
    BY WriterFacts
  <1>2. PICK a, f, p, c : /\ a = KeptBlob(n, lookup, attested[n])
                          /\ f = KeptBlob(n, lookup, failed_to_attest[n])
                          /\ p = KeptPending(n, lookup) /\ c = KeptCertified(n, lookup)
    OBVIOUS
  <1>3. PICK last : last = LastKept(n, lookup)
    OBVIOUS
  <1>4. last = LastBlob(p, f, a, c)
    BY <1>2, <1>3 DEF LastKept
  <1>5. Quiet /\ Becomes(n, EndOf(last.num), "attest", p, a, f, c, sent[n])
    BY <1>1, <1>2, <1>3, RestartEffect
  <1>6. PICK e : e = IF last = NoBlob THEN 1 ELSE last.epoch
    OBVIOUS
  <1>7. Remembers(n, e, e, c.id)
    <2>1. /\ current_epoch' = [current_epoch EXCEPT ![n] = e]
          /\ header' = [header EXCEPT ![n] = e]
          /\ prev_certified' = [prev_certified EXCEPT ![n] = c.id]
      BY <1>2, <1>3, <1>6 DEF Restart, KeptBlob, KeptPending, KeptCertified, LastKept
    <2> QED
      BY <2>1 DEF MemoryDomains, Remembers, SameMemory
  <1>8. \A b \in p : b.id = <<>> /\ GoodBlob(b)
    BY <1>2, FollowFacts DEF KeptPending
  <1>9. \A b \in {a, f} \ {NoBlob} : b.id = ch[b.num] /\ GoodBlob(b)
    BY <1>2, FollowFacts DEF KeptBlob
  <1>10. c.id = ch[c.num] /\ c.num \in 0 .. NumBlobs /\ (c # NoBlob => c.epoch = EndEpoch(c.num))
    <2>1. CASE SkipsAhead(n, lookup)
      <3>1. PICK l : l = latest
        OBVIOUS
      <3>2. l # 0 /\ l \in 0 .. NumBlobs
        BY <1>1, <2>1, <3>1, WriterFacts DEF SkipsAhead, ContractInv
      <3>3. \E d \in certified : d.blob.ending_checkpoint = l
        BY <1>1, <3>1, <3>2 DEF ContractInv
      <3>4. PICK d \in certified :
              /\ d.blob.ending_checkpoint = l
              /\ ChainBlob(l) = Blob(l, 0, EpochAt(EndOf(l)), d.blob.blob_id)
        BY <3>3 DEF ChainBlob
      <3>5. c = Blob(l, 0, EpochAt(EndOf(l)), d.blob.blob_id)
        BY <1>2, <2>1, <3>1, <3>4 DEF KeptCertified
      <3>6. c.num = l /\ c.epoch = EndEpoch(l) /\ c.id = d.blob.blob_id
        BY <3>5 DEF Blob, EndEpoch
      <3>7. d.blob.blob_id = ch[l]
        BY <3>4 DEF SameChain, OnChain
      <3> QED
        BY <3>2, <3>6, <3>7
    <2>2. CASE ~ SkipsAhead(n, lookup)
      <3>1. c = certified_blob[n]
        BY <1>2, <2>2 DEF KeptCertified
      <3> QED
        BY <3>1, FollowFacts
    <2> QED
      BY <2>1, <2>2
  <1>11. \A b \in (p \cup {f, a}) \ {NoBlob} : b.num \in 0 .. NumBlobs /\ b.epoch = EndEpoch(b.num)
    <2>1. \A b \in (p \cup {f, a}) \ {NoBlob} : GoodBlob(b)
      BY <1>8, <1>9
    <2>2. \A b : GoodBlob(b) => b.num \in 0 .. NumBlobs /\ b.epoch = EndEpoch(b.num)
      BY <1>1 DEF GoodBlob
    <2> QED
      BY <2>1, <2>2
  <1>12. last.num \in 0 .. NumBlobs /\ e = EndEpoch(last.num)
    <2>1. p # {} => Newest(p) \in p
      <3>1. NoBlob \notin p
        BY <1>8 DEF GoodBlob, NoBlob
      <3>2. \A b \in p : b.num \in 0 .. NumBlobs
        BY <1>11, <3>1
      <3> QED
        BY <1>1, <3>2, Extremes
    <2>2. last \in p \cup {f, a, c}
      BY <1>4, <2>1 DEF LastBlob
    <2>3. CASE last = NoBlob
      <3>1. last.num = 0 /\ e = 1
        BY <1>6, <2>3 DEF NoBlob
      <3> QED
        BY <1>1, <3>1, FirstEpoch
    <2>4. CASE last # NoBlob
      <3>1. e = last.epoch
        BY <1>6, <2>4
      <3> QED
        BY <1>10, <1>11, <2>2, <2>4, <3>1
    <2> QED
      BY <2>3, <2>4
  <1>13. PICK k \in 0 .. NumBlobs : k = last.num
    BY <1>12
  <1>14. PICK i : i = EndOf(k)
    OBVIOUS
  <1>15. i \in 0 .. Len(stream) /\ BlobsBefore(i) = k
    BY <1>1, <1>14, EndHasNum
  <1>16. e = EpochAt(i) /\ e = EndEpoch(BlobsBefore(i))
    BY <1>12, <1>13, <1>14, <1>15 DEF EndEpoch
  <1>17. FollowsOK(ch, i, "attest", e, e, c.id, p, a, f, c)
    BY <1>8, <1>9, <1>10, <1>15, <1>16 DEF FollowsOK
  <1>18. \A d \in certified' : OnChain(ch, d.blob)
    BY <1>5 DEF Quiet, SameChain
  <1>19. Becomes(n, i, "attest", p, a, f, c, sent[n])
    BY <1>5, <1>13, <1>14
  <1> QED
    BY <1>1, <1>7, <1>17, <1>18, <1>19, OneFollows

(* All writers start with the empty chain.                                 *)
LEMMA AgreeInit == WriterInit => AgreeInv /\ EpochsInv
  <1> HAVE WriterInit
  <1>1. stream = <<>> /\ Len(stream) = 0 /\ Ends = {} /\ epoch = 1 /\ certified = {}
    BY DEF WriterInit, Init, Ends
  <1>2. NumBlobs = 0
    BY <1>1, FS_EmptySet DEF NumBlobs
  <1>3. EpochsInv
    BY <1>1, FirstEpoch DEF EpochsInv
  <1>4. MemoryDomains
    BY DEF WriterInit, MemoryDomains
  <1>5. PICK ch : ch = [k \in {0} |-> <<>>]
    OBVIOUS
  <1>6. IsChain(ch)
    <2>1. ch[0] = <<>> /\ 1 .. 0 = {}
      BY <1>5
    <2> QED
      BY <1>2, <2>1 DEF IsChain
  <1>7. ASSUME NEW n \in Nodes
        PROVE  Follows(ch, n)
    <2>1. /\ cursor[n] = 0 /\ phase[n] = "idle" /\ pending[n] = {} /\ attested[n] = NoBlob
          /\ failed_to_attest[n] = NoBlob /\ certified_blob[n] = NoBlob
          /\ current_epoch[n] = 1 /\ header[n] = 1 /\ prev_certified[n] = <<>>
      BY <1>7 DEF WriterInit
    <2>2. BlobsBefore(0) = 0
      <3>1. {j \in Ends : j <= 0} = {}
        BY <1>1
      <3> QED
        BY <3>1, FS_EmptySet DEF BlobsBefore
    <2>3. NoBlob.num = 0 /\ NoBlob.id = <<>> /\ ch[0] = <<>>
      BY <1>5 DEF NoBlob
    <2>4. FollowsOK(ch, 0, "idle", 1, 1, <<>>, {}, NoBlob, NoBlob, NoBlob)
      BY <1>1, <1>2, <2>2, <2>3, FirstEpoch DEF FollowsOK
    <2> QED
      BY <2>1, <2>4 DEF Follows
  <1>8. SameChain(ch)
    BY <1>1, <1>6, <1>7 DEF SameChain
  <1> QED
    BY <1>3, <1>4, <1>8 DEF AgreeInv

(* Every step of a writer sets its memory or leaves it alone.              *)
LEMMA MemoryStep == MemoryDomains /\ [WriterNext]_writerVars => MemoryDomains'
  <1> HAVE MemoryDomains /\ [WriterNext]_writerVars
  <1>1. ASSUME UNCHANGED <<current_epoch, header, prev_certified>>
        PROVE  MemoryDomains'
    BY <1>1 DEF MemoryDomains
  <1>2. ASSUME NEW n \in Nodes, Write(n) \/ WriteOther(n)
        PROVE  MemoryDomains'
    BY <1>2 DEF MemoryDomains, Write, WriteBlobEnd, WriteEpochChangeStart, WriteUnmatched,
                RemoveFile, WriteCertified, WriteOther, memoryVars
  <1>3. ASSUME NEW n \in Nodes, Attest(n) \/ RecordAttestation(n)
        PROVE  UNCHANGED <<current_epoch, header, prev_certified>>
    BY <1>3 DEF Attest, SkipAttestation, AttestInVain, AttestBlob, FailToAttest,
                RecordAttestation, memoryVars
  <1>4. ASSUME NEW n \in Nodes, Crash(n)
        PROVE  MemoryDomains'
    BY <1>4 DEF MemoryDomains, Crash
  <1>5. ASSUME NEW n \in Nodes, NEW lookup, Restart(n, lookup)
        PROVE  MemoryDomains'
    <2>1. PICK e, r : /\ current_epoch' = [current_epoch EXCEPT ![n] = e]
                      /\ header' = [header EXCEPT ![n] = e]
                      /\ prev_certified' = [prev_certified EXCEPT ![n] = r]
      BY <1>5 DEF Restart
    <2> QED
      BY <2>1 DEF MemoryDomains
  <1>6. ASSUME NEW n \in Nodes, NEW num, Reposition(n, num)
        PROVE  MemoryDomains'
    BY <1>6 DEF MemoryDomains, Reposition
  <1>7. CASE EndBlob \/ ChangeEpoch \/ UNCHANGED writerVars
    BY <1>1, <1>7 DEF EndBlob, ChangeEpoch, writerVars, memoryVars
  <1> QED
    BY <1>1, <1>2, <1>3, <1>4, <1>5, <1>6, <1>7 DEF WriterNext

(* Every step keeps contract and writers on the same chain, as long as no  *)
(* writer is repositioned.                                                 *)
LEMMA AgreeStep ==
  RecordedInv /\ LostInv /\ EpochsInv /\ AgreeInv /\ [WriterNext]_writerVars => AgreeInv'
  <1> HAVE RecordedInv /\ LostInv /\ EpochsInv /\ AgreeInv /\ [WriterNext]_writerVars
  <1>1. StreamInv /\ StreamInv' /\ Grows /\ Domains
    BY RecordedStep DEF RecordedInv
  <1>2. MemoryDomains /\ MemoryDomains'
    BY MemoryStep DEF AgreeInv
  <1>3. SUFFICES ASSUME moved' = {}
                 PROVE  \E c2 : SameChain(c2)'
    BY <1>2 DEF AgreeInv
  <1>4. moved = {} /\ \A n \in Nodes : \A num : ~ Reposition(n, num)
    <2>1. \A n \in Nodes : \A num : Reposition(n, num) => n \in moved'
      BY DEF Reposition
    <2>2. ASSUME NEW n \in Nodes, Write(n) \/ WriteOther(n)
          PROVE  UNCHANGED moved
      BY <2>2 DEF Write, WriteBlobEnd, WriteEpochChangeStart, WriteUnmatched, RemoveFile,
                  WriteCertified, Written, WriteOther, boundVars, historyVars
    <2>3. ASSUME NEW n \in Nodes, Attest(n) \/ RecordAttestation(n) \/ Crash(n)
          PROVE  UNCHANGED moved
      BY <2>3 DEF Attest, SkipAttestation, AttestInVain, AttestBlob, FailToAttest,
                  RecordAttestation, Crash, boundVars, historyVars
    <2>4. ASSUME NEW n \in Nodes, NEW lookup, Restart(n, lookup)
          PROVE  UNCHANGED moved
      BY <2>4 DEF Restart
    <2>5. CASE EndBlob \/ ChangeEpoch \/ UNCHANGED writerVars
      BY <1>3, <2>1, <2>5 DEF EndBlob, ChangeEpoch, writerVars, boundVars, historyVars
    <2> QED
      BY <1>3, <2>1, <2>2, <2>3, <2>4, <2>5 DEF WriterNext
  <1>5. PICK ch : SameChain(ch)
    BY <1>4 DEF AgreeInv
  <1>6. ASSUME UNCHANGED <<cursor, phase, pending, attested, failed_to_attest, certified_blob,
                           sent, current_epoch, header, prev_certified, certified>>
        PROVE  \E c2 : SameChain(c2)'
    <2>1. \A m \in Nodes : SameWriter(m) /\ SameMemory(m)
      BY <1>6 DEF SameWriter, SameMemory
    <2> QED
      BY <1>1, <1>5, <1>6, <2>1, NoneFollows
  <1>7. CASE EndBlob \/ ChangeEpoch
    BY <1>6, <1>7 DEF EndBlob, ChangeEpoch, AdvanceEpoch, vars, memoryVars, tableVars
  <1>8. CASE UNCHANGED writerVars
    BY <1>6, <1>8 DEF writerVars, vars, memoryVars, tableVars
  <1>9. ASSUME NEW n \in Nodes, Write(n)
        PROVE  \E c2 : SameChain(c2)'
    <2>1. CASE WriteUnmatched(n) \/ \E b \in Outstanding(n) : RemoveFile(n, b)
      <3>1. UNCHANGED <<current_epoch, header, prev_certified>>
        BY <2>1 DEF WriteUnmatched, RemoveFile, memoryVars
      <3> QED
        BY <1>1, <1>2, <1>5, <2>1, <3>1, IdleAgrees
    <2> QED
      BY <1>1, <1>2, <1>5, <1>9, <2>1, BlobEndAgrees, EpochChangeAgrees, CertificationAgrees
         DEF Write
  <1>10. ASSUME NEW n \in Nodes, WriteOther(n) \/ Attest(n)
         PROVE  \E c2 : SameChain(c2)'
    <2>1. CASE WriteOther(n) \/ SkipAttestation(n)
      <3>1. UNCHANGED <<current_epoch, header, prev_certified>>
        BY <2>1 DEF WriteOther, SkipAttestation, memoryVars
      <3> QED
        BY <1>1, <1>2, <1>5, <2>1, <3>1, IdleAgrees
    <2>2. ASSUME NEW ok \in BOOLEAN, Sending(n, ok)
          PROVE  \E c2 : SameChain(c2)'
      BY <1>1, <1>2, <1>4, <1>5, <2>2, AttestAgrees
    <2> QED
      BY <1>10, <2>1, <2>2 DEF Attest, Sending
  <1>11. ASSUME NEW n \in Nodes, \/ RecordAttestation(n) \/ Crash(n)
                                 \/ \E lookup \in Lookups : Restart(n, lookup)
         PROVE  \E c2 : SameChain(c2)'
    BY <1>1, <1>2, <1>4, <1>5, <1>11, RecordAgrees, CrashAgrees, RestartAgrees
  <1> QED
    BY <1>4, <1>7, <1>8, <1>9, <1>10, <1>11 DEF WriterNext

(* Honest writers never fork unless one was repositioned: all that they    *)
(* attest to or take for certified at a checkpoint is the same blob, and   *)
(* the contract has certified no other, across crashes, restarts, resets,  *)
(* lost responses and epochs.                                              *)
THEOREM WritersNeverFork == WriterSpec => []WritersAgree
  <1>1. AgreeInv => WritersAgree
    <2> HAVE AgreeInv
    <2> DEFINE ids == UNION {{b \in Uncertified(n) \cup {certified_blob[n]} : b.id # <<>>} :
                             n \in Nodes}
    <2>1. SUFFICES ASSUME moved = {}
                   PROVE  /\ \A b, c \in ids : b.num = c.num => b.id = c.id
                          /\ \A b \in ids, c \in certified :
                               c.blob.ending_checkpoint = b.num => c.blob.blob_id = b.id
      BY DEF WritersAgree
    <2>2. PICK ch : SameChain(ch)
      BY <2>1 DEF AgreeInv
    <2>3. ASSUME NEW b \in ids
          PROVE  b.id = ch[b.num]
      <3>1. PICK n \in Nodes : b \in Uncertified(n) \cup {certified_blob[n]} /\ b.id # <<>>
        BY <2>3
      <3>2. CASE b = certified_blob[n]
        BY <2>2, <3>2, FollowFacts
      <3>3. CASE b \in Uncertified(n)
        <4>1. b \in pending[n] \/ b \in {attested[n], failed_to_attest[n]} \ {NoBlob}
          BY <3>3 DEF Uncertified
        <4> QED
          BY <2>2, <3>1, <4>1, FollowFacts
      <3> QED
        BY <3>1, <3>2, <3>3
    <2>4. \A c \in certified : c.blob.blob_id = ch[c.blob.ending_checkpoint]
      BY <2>2 DEF SameChain, OnChain
    <2> HIDE DEF ids
    <2> QED
      BY <2>3, <2>4
  <1>2. RecordedInv /\ [WriterNext]_writerVars => RecordedInv'
    BY RecordedStep
  <1> QED
    BY <1>1, <1>2, RecordedInit, LostInit, LostStep, AgreeInit, EpochsStep, AgreeStep, PTL
       DEF WriterSpec
=============================================================================
