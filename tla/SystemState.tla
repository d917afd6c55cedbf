----------------------------- MODULE SystemState -----------------------------
(***************************************************************************)
(* Storage resources and blobs of the system contract, on top of the       *)
(* accounting of module StorageAccounting.  A storage resource is a        *)
(* reservation of some bytes for the epochs [start, end); its owner may    *)
(* split and fuse it, register a blob with it, extend the blob and, for a  *)
(* deletable blob, get the resource back.  Every action is one transaction *)
(* of some user, of the staking contract or of the committee.              *)
(*                                                                         *)
(* Objects live in the slots of Ids.  Encoded sizes are the members of     *)
(* Sizes (the number of shards, on which they depend, never changes).      *)
(* Certificates are external: any registered blob may get one.             *)
(***************************************************************************)
EXTENDS StorageAccounting

CONSTANT Ids  \* object slots, a bound on the number of objects

ASSUME IdsAssumption == IsFiniteSet(Ids)

VARIABLE objects

vars == <<accounting, objects>>

Free == [kind |-> "free"]

Storage(start, end, size) == [kind |-> "storage", start |-> start, end |-> end, size |-> size]

\* blob::new; certified is the certified_epoch, -1 if there is none.
Blob(storage, bytes, deletable) ==
  [kind |-> "blob", start |-> storage.start, end |-> storage.end, size |-> storage.size,
   bytes |-> bytes, deletable |-> deletable, certified |-> -1]

\* What a slot may hold, apart from storage pools.
Objects ==
  {Free}
  \cup [kind: {"storage"}, start: Nat, end: Nat, size: Nat]
  \cup [kind: {"blob"}, start: Nat, end: Nat, size: Nat,
        bytes: Nat, deletable: BOOLEAN, certified: Nat \cup {-1}]

Is(id, kind) == objects[id].kind = kind

\* The storage resource in a blob.
ResourceOf(object) == Storage(object.start, object.end, object.size)

Put(id, object) == objects' = [objects EXCEPT ![id] = object]

Init == AccountingInit /\ objects = [id \in Ids |-> Free]

-----------------------------------------------------------------------------
(* Storage resources.                                                      *)

\* reserve_space_for_epochs, and reserve_space, where start is the current epoch.
ReserveSpace(id, size, start_epoch, end_epoch) ==
  LET start == IF start_epoch < epoch THEN epoch ELSE start_epoch IN
  /\ Is(id, "free")
  /\ BuyCapacity(size, start - epoch, end_epoch - epoch)
  /\ Put(id, Storage(start, end_epoch, size))

\* EInvalidEpoch of split_by_epoch.
StrictlyInside(s, split_epoch) == split_epoch > s.start /\ split_epoch < s.end

\* split_by_epoch.
SplitByEpoch(id, new, split_epoch) ==
  LET s == objects[id] IN
  /\ Is(id, "storage") /\ Is(new, "free")
  /\ StrictlyInside(s, split_epoch)
  /\ objects' = [objects EXCEPT ![id].end = split_epoch,
                                ![new] = Storage(split_epoch, s.end, s.size)]
  /\ UNCHANGED accounting

\* split_by_size; either part may be empty.
SplitBySize(id, new, split_size) ==
  LET s == objects[id] IN
  /\ Is(id, "storage") /\ Is(new, "free")
  /\ split_size <= s.size
  /\ objects' = [objects EXCEPT ![id].size = split_size,
                                ![new] = Storage(s.start, s.end, s.size - split_size)]
  /\ UNCHANGED accounting

\* The result of fuse_periods, for adjacent periods.
FusedPeriods(first, second) ==
  IF first.end = second.start THEN [first EXCEPT !.end = second.end]
                              ELSE [first EXCEPT !.start = second.start]

\* fuse_periods, also through fuse.
FusePeriods(id, other) ==
  LET first == objects[id]
      second == objects[other]
  IN
  /\ id # other /\ Is(id, "storage") /\ Is(other, "storage")
  /\ first.size = second.size
  /\ first.end = second.start \/ first.start = second.end
  /\ objects' = [objects EXCEPT ![id] = FusedPeriods(first, second), ![other] = Free]
  /\ UNCHANGED accounting

\* EIncompatibleEpochs of fuse_amount.
SamePeriod(first, second) == first.start = second.start /\ first.end = second.end

\* fuse_amount, also through fuse.
FuseAmount(id, other) ==
  LET first == objects[id]
      second == objects[other]
  IN
  /\ id # other /\ Is(id, "storage") /\ Is(other, "storage")
  /\ SamePeriod(first, second)
  /\ objects' = [objects EXCEPT ![id].size = @ + second.size, ![other] = Free]
  /\ UNCHANGED accounting

\* storage_resource::destroy; the capacity stays booked.
DestroyStorage(id) ==
  /\ Is(id, "storage")
  /\ Put(id, Free)
  /\ UNCHANGED accounting

-----------------------------------------------------------------------------
(* Blobs.                                                                  *)

\* Mutant: a resource that has not started yet is accepted.
EndsLater(object) == epoch < object.end

\* EResourceBounds: the resource covers the current epoch.
CoversNow(object) == object.start <= epoch /\ epoch < object.end

\* register_blob.
RegisterBlob(id, bytes, deletable) ==
  /\ Is(id, "storage")
  /\ CoversNow(objects[id])
  /\ bytes <= objects[id].size
  /\ PayWritePrice(bytes)
  /\ Put(id, Blob(objects[id], bytes, deletable))
  /\ UNCHANGED <<epoch, committee, current_index, slot_epoch, slot_used,
                 total_capacity_size, used_capacity_size, prices, deny_list_sizes,
                 event_bytes>>

\* certify_blob, with a certificate of a quorum of the current committee.
CertifyBlob(id) ==
  /\ Is(id, "blob")
  /\ objects[id].certified = -1
  /\ epoch < objects[id].end
  /\ objects' = [objects EXCEPT ![id].certified = epoch]
  /\ UNCHANGED accounting

\* delete_blob: the owner of a deletable blob gets the resource back.
DeleteBlob(id) ==
  /\ Is(id, "blob")
  /\ objects[id].deletable
  /\ objects[id].end > epoch
  /\ Put(id, ResourceOf(objects[id]))
  /\ UNCHANGED accounting

\* blob::burn.
BurnBlob(id) ==
  /\ Is(id, "blob")
  /\ Put(id, Free)
  /\ UNCHANGED accounting

\* assert_certified_not_expired.
CertifiedNotExpired(blob) == blob.certified # -1 /\ epoch < blob.end

\* extend_blob_with_resource.
ExtendBlobWithResource(id, other) ==
  LET blob == objects[id]
      extension == objects[other]
  IN
  /\ Is(id, "blob") /\ Is(other, "storage")
  /\ CertifiedNotExpired(blob)
  /\ extension.end > blob.end
  /\ blob.size = extension.size
  /\ blob.end = extension.start \/ blob.start = extension.end
  /\ objects' = [objects EXCEPT ![id] = FusedPeriods(blob, extension), ![other] = Free]
  /\ UNCHANGED accounting

\* extend_blob.
ExtendBlob(id, extended_epochs) ==
  LET start == objects[id].end - epoch IN
  /\ Is(id, "blob")
  /\ CertifiedNotExpired(objects[id])
  /\ BuyCapacity(objects[id].size, start, start + extended_epochs)
  /\ objects' = [objects EXCEPT ![id].end = @ + extended_epochs]

\* The last part of certify_event_blob.
CertifyEventBlob(size) ==
  /\ ReserveEventBlob(size)
  /\ UNCHANGED objects

-----------------------------------------------------------------------------
StorageNext ==
  \/ \E id \in Ids, size \in Sizes, start, end \in 0 .. (epoch + Length) :
       ReserveSpace(id, size, start, end)
  \/ \E id, new \in Ids : \E e \in 0 .. (MaxEpoch + Length) : SplitByEpoch(id, new, e)
  \/ \E id, new \in Ids : \E size \in Sizes \cup {0} : SplitBySize(id, new, size)
  \/ \E id, other \in Ids : FusePeriods(id, other) \/ FuseAmount(id, other)
  \/ \E id \in Ids : DestroyStorage(id)

BlobNext ==
  \/ \E id \in Ids, bytes \in Sizes, deletable \in BOOLEAN : RegisterBlob(id, bytes, deletable)
  \/ \E id \in Ids : CertifyBlob(id) \/ DeleteBlob(id) \/ BurnBlob(id)
  \/ \E id, other \in Ids : ExtendBlobWithResource(id, other)
  \/ \E id \in Ids, n \in 1 .. Length : ExtendBlob(id, n)
  \/ \E size \in Sizes : CertifyEventBlob(size)

SystemNext ==
  /\ \/ \E subsidy \in Subsidies, n \in 1 .. Length : AddSubsidy(subsidy, n)
     \/ \E subsidies \in [Slots -> Subsidies \cup {0}] : AddPerEpochSubsidies(subsidies)
     \/ \E storage, write \in Prices : SetPrices(storage, write)
     \/ \E n \in Nodes, size \in DenySizes : UpdateDenyList(n, size)
     \/ \E c \in Committees, capacity \in Capacities, storage, write \in Prices :
          AdvanceEpoch(c, capacity, storage, write)
  /\ UNCHANGED objects

Next == StorageNext \/ BlobNext \/ SystemNext

Spec == Init /\ [][Next]_vars

-----------------------------------------------------------------------------
(* The accounts by epoch, and the capacity that objects claim.             *)

Epochs == 0 .. (MaxEpoch + Length)

IsOpen(e) == epoch <= e /\ e < epoch + Length

UsedIn(e) == IF IsOpen(e) THEN slot_used[Slot(e - epoch)] ELSE 0

RewardsIn(e) == IF IsOpen(e) THEN slot_rewards[Slot(e - epoch)] ELSE 0

Covers(object, e) == object.kind # "free" /\ object.start <= e /\ e < object.end

Claim(object, e) == IF Covers(object, e) THEN object.size ELSE 0

Claimed(e) == SumFunction([id \in Ids |-> Claim(objects[id], e)])

Ledger == INSTANCE FutureLedger WITH
  used <- [e \in Epochs |-> UsedIn(e)],
  rewards <- [e \in Epochs |-> RewardsIn(e)],
  total <- total_capacity_size

Resources == {objects[id] : id \in {i \in Ids : ~ Is(i, "free")}}

-----------------------------------------------------------------------------
AccountingType ==
  /\ epoch \in 0 .. MaxEpoch
  /\ committee \in [Nodes -> Nat]
  /\ current_index \in Slots
  /\ slot_epoch \in [Slots -> Nat]
  /\ slot_used \in [Slots -> Nat]
  /\ slot_rewards \in [Slots -> Nat]
  /\ total_capacity_size \in Nat
  /\ used_capacity_size \in Nat
  /\ storage_price \in Nat
  /\ write_price \in Nat
  /\ deny_list_sizes \in [Nodes -> Nat]
  /\ event_bytes \in Nat

(* Type correctness of the accounting and of the objects: rewards never go *)
(* negative and no resource has an empty period.                           *)
TypeOK ==
  /\ AccountingType
  /\ objects \in [Ids -> Objects]
  /\ \A id \in Ids : ~ Is(id, "free") => objects[id].start < objects[id].end

(* The slot that ring_lookup finds for the i-th epoch ahead is the account *)
(* of that epoch, however often the ring has wrapped around.  In           *)
(* particular advance_epoch always pops the account of the ending epoch,   *)
(* so its EInvalidAccountingEpoch assertion cannot stop an epoch change.   *)
SlotsMatchEpochs == \A i \in Slots : slot_epoch[Slot(i)] = epoch + i

(* The cached used_capacity_size is the used capacity of the current       *)
(* epoch's account after every operation.                                  *)
CachedUsedCapacity == used_capacity_size = slot_used[current_index]

(* The capacity in use in the current epoch exceeds the total capacity at  *)
(* most by the event blobs that were certified in this epoch, whatever     *)
(* capacity the nodes vote for and however far ahead storage was sold.     *)
WithinTotalCapacity == used_capacity_size <= total_capacity_size + event_bytes

(* Nobody can claim more storage than was booked: in every epoch from the  *)
(* current one on, the resources in circulation, inside blobs or not, add  *)
(* up to no more than the used capacity of that epoch, and no resource     *)
(* reaches beyond the accounts.                                            *)
ClaimsAreBooked ==
  \A e \in Epochs : e >= epoch => Claimed(e) <= UsedIn(e)

(* WAL is conserved: all that was paid in is in some account, was paid out *)
(* to nodes or was burned.                                                 *)
WalConserved == wal.paid_in = SumFunction(slot_rewards) + wal.paid_out + wal.burned

(* advance_epoch never aborts: the nodes' rewards, each rounded down, add  *)
(* up to no more than what there is to distribute, for every deny list.    *)
RewardsAreCovered ==
  LET distributable == slot_rewards[current_index] - BurnAmount(slot_rewards[current_index])
  IN CommitteeRewards(distributable) \in 0 .. distributable

(* A blob that is not expired has a resource that covers the current epoch *)
(* and the blob's encoded size, through any splits, fusions, extensions    *)
(* and epoch changes; it was certified within its period.                  *)
BlobsAreBacked ==
  \A b \in Resources : b.kind = "blob" =>
    /\ b.start <= epoch
    /\ b.bytes <= b.size
    /\ b.certified # -1 => b.start <= b.certified /\ b.certified < b.end

(* The ring buffer implements one account per epoch.                       *)
ImplementsLedger == Ledger!Spec
=============================================================================
