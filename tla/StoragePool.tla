----------------------------- MODULE StoragePool -----------------------------
(***************************************************************************)
(* Storage pools (storage_pool.move and the pool operations of             *)
(* system_state_inner.move): one storage resource that backs many blobs.   *)
(* A pool's capacity can be bought, absorbed from other resources, split   *)
(* off again and extended while blobs are in it; its blobs live as long as *)
(* the pool.  Everything of module SystemState may happen in between.      *)
(***************************************************************************)
EXTENDS SystemState

CONSTANT BlobIds  \* IDs of the blobs in pools

\* storage_pool::create.
Pool(storage) ==
  [kind |-> "pool", start |-> storage.start, end |-> storage.end, size |-> storage.size,
   used |-> 0, count |-> 0, blobs |-> {}]

PooledBlob(blob_id, bytes, deletable) ==
  [blob_id |-> blob_id, bytes |-> bytes, deletable |-> deletable, certified |-> -1]

\* Mutant: the last epoch of a pool counts as expired.
EndsAfterNext(pool) == pool.end > epoch + 1

\* The pool has not expired.
IsActive(pool) == pool.end > epoch

\* create_storage_pool.
CreateStoragePool(id, size, epochs_ahead) ==
  /\ Is(id, "free")
  /\ BuyCapacity(size, 0, epochs_ahead)
  /\ Put(id, Pool(Storage(epoch, epoch + epochs_ahead, size)))

\* create_storage_pool_with_storage.
CreateStoragePoolWithStorage(id) ==
  /\ Is(id, "storage")
  /\ objects[id].size > 0
  /\ CoversNow(objects[id])
  /\ Put(id, Pool(objects[id]))
  /\ UNCHANGED accounting

\* EInsufficientCapacity of add_blob.
Fits(pool, bytes) == pool.used + bytes <= pool.size

\* The pool with one more blob.
AddBlob(pool, blob) ==
  [pool EXCEPT !.count = @ + 1, !.used = @ + blob.bytes, !.blobs = @ \cup {blob}]

\* remove_blob.
RemoveBlob(pool, blob) ==
  [pool EXCEPT !.count = @ - 1, !.used = @ - blob.bytes, !.blobs = @ \ {blob}]

\* register_pooled_blob; the table holds a blob ID at most once.
RegisterPooledBlob(id, blob_id, bytes, deletable) ==
  LET pool == objects[id] IN
  /\ Is(id, "pool")
  /\ CoversNow(pool)
  /\ Fits(pool, bytes)
  /\ \A blob \in pool.blobs : blob.blob_id # blob_id
  /\ PayWritePrice(bytes)
  /\ Put(id, AddBlob(pool, PooledBlob(blob_id, bytes, deletable)))
  /\ UNCHANGED <<epoch, committee, current_index, slot_epoch, slot_used,
                 total_capacity_size, used_capacity_size, prices, deny_list_sizes,
                 event_bytes>>

\* delete_pooled_blob.
DeletePooledBlob(id, blob) ==
  /\ IsActive(objects[id])
  /\ blob.deletable
  /\ Put(id, RemoveBlob(objects[id], blob))
  /\ UNCHANGED accounting

\* burn_expired_pooled_blob, for blobs of any kind.
BurnExpiredPooledBlob(id, blob) ==
  /\ ~ IsActive(objects[id])
  /\ Put(id, RemoveBlob(objects[id], blob))
  /\ UNCHANGED accounting

\* certify_pooled_blob, with a certificate of a quorum of the current committee.
CertifyPooledBlob(id, blob) ==
  /\ IsActive(objects[id])
  /\ blob.certified = -1
  /\ objects' = [objects EXCEPT
       ![id].blobs = (@ \ {blob}) \cup {[blob EXCEPT !.certified = epoch]}]
  /\ UNCHANGED accounting

\* extend_storage_pool.
ExtendStoragePool(id, extended_epochs) ==
  LET start == objects[id].end - epoch IN
  /\ Is(id, "pool")
  /\ IsActive(objects[id])
  /\ BuyCapacity(objects[id].size, start, start + extended_epochs)
  /\ objects' = [objects EXCEPT ![id].end = @ + extended_epochs]

\* increase_storage_pool_capacity.
IncreaseStoragePoolCapacity(id, size) ==
  /\ Is(id, "pool")
  /\ IsActive(objects[id])
  /\ BuyCapacity(size, 0, objects[id].end - epoch)
  /\ objects' = [objects EXCEPT ![id].size = @ + size]

\* Mutant: a resource that ends earlier is absorbed.
EndsInTime(pool, other) == other.start <= epoch /\ other.end <= pool.end

\* EResourceBounds and EIncompatibleEndEpoch of increase_capacity_with_storage.
MayAbsorb(pool, other) == other.start <= epoch /\ other.end = pool.end

\* increase_storage_pool_capacity_with_storage.
IncreaseCapacityWithStorage(id, other) ==
  /\ Is(id, "pool") /\ Is(other, "storage")
  /\ IsActive(objects[id])
  /\ MayAbsorb(objects[id], objects[other])
  /\ objects' = [objects EXCEPT ![id].size = @ + objects[other].size, ![other] = Free]
  /\ UNCHANGED accounting

\* Mutant: capacity that blobs use may be split off.
SomeLeft(pool, size) == pool.size >= size

\* EInsufficientCapacity of decrease_capacity_by_size.
Unused(pool, size) == pool.size - pool.used >= size

\* decrease_storage_pool_capacity_by_size, and by percent for the same sizes.
DecreaseCapacity(id, new, size) ==
  LET pool == objects[id] IN
  /\ Is(id, "pool") /\ Is(new, "free")
  /\ IsActive(pool)
  /\ Unused(pool, size)
  /\ objects' = [objects EXCEPT ![id].size = @ - size,
                                ![new] = Storage(pool.start, pool.end, size)]
  /\ UNCHANGED accounting

\* storage_pool::destroy: the resource of an empty pool is returned.
DestroyStoragePool(id) ==
  /\ Is(id, "pool")
  /\ objects[id].count = 0
  /\ objects[id].blobs = {}
  /\ Put(id, ResourceOf(objects[id]))
  /\ UNCHANGED accounting

PoolNext ==
  \/ \E id \in Ids, size \in Sizes, n \in 1 .. Length : CreateStoragePool(id, size, n)
  \/ \E id \in Ids : CreateStoragePoolWithStorage(id) \/ DestroyStoragePool(id)
  \/ \E id \in Ids, blob_id \in BlobIds, bytes \in Sizes, deletable \in BOOLEAN :
       RegisterPooledBlob(id, blob_id, bytes, deletable)
  \/ \E id \in {i \in Ids : Is(i, "pool")} : \E blob \in objects[id].blobs :
       \/ DeletePooledBlob(id, blob)
       \/ BurnExpiredPooledBlob(id, blob)
       \/ CertifyPooledBlob(id, blob)
  \/ \E id \in Ids, n \in 1 .. Length : ExtendStoragePool(id, n)
  \/ \E id \in Ids, size \in Sizes :
       \/ IncreaseStoragePoolCapacity(id, size)
       \/ \E new \in Ids : DecreaseCapacity(id, new, size)
  \/ \E id, other \in Ids : IncreaseCapacityWithStorage(id, other)

PoolSpec == Init /\ [][PoolNext \/ Next]_vars

-----------------------------------------------------------------------------
BytesOf(blobs) == SumFunction([blob \in blobs |-> blob.bytes])

(* used_encoded_bytes and blob_count, which are only ever adjusted, are    *)
(* the encoded sizes and the number of the blobs in the pool, and the      *)
(* blobs fit into the pool, however its capacity was split and merged.     *)
PoolsAreExact ==
  \A pool \in Resources : pool.kind = "pool" =>
    /\ pool.used = BytesOf(pool.blobs)
    /\ pool.count = Cardinality(pool.blobs)
    /\ pool.used <= pool.size

(* A blob that is not deletable stays in its pool until the pool expires,  *)
(* the pool cannot go away under it or be shortened, and its certificate   *)
(* is kept.                                                                *)
PermanentBlobsStay ==
  [][\A id \in Ids :
       Is(id, "pool") /\ objects[id].end > epoch =>
         \A blob \in objects[id].blobs : ~ blob.deletable =>
           /\ objects'[id].kind = "pool"
           /\ objects'[id].end >= objects[id].end
           /\ \E same \in objects'[id].blobs :
                /\ same.blob_id = blob.blob_id /\ same.bytes = blob.bytes
                /\ ~ same.deletable
                /\ blob.certified # -1 => same.certified = blob.certified]_vars
=============================================================================
