------------------------------ MODULE BlobInfo ------------------------------
(***************************************************************************)
(* The blob-info tables of a storage node, for one blob id: the aggregate  *)
(* that is updated by merge operands, the tables of blob objects, pooled   *)
(* blob objects and storage pools, and what reads and rewrites them: the   *)
(* events of the chain (also replayed after a crash, or with the oldest    *)
(* ones missing), the two phases of garbage collection, the immediate      *)
(* deletion of data, and uploads of metadata.                              *)
(*                                                                         *)
(* The registrations of the blob id on chain that were not deleted are the *)
(* reference for what the aggregate says. The owner of a blob may also     *)
(* burn it; that emits no event, so no node can know, and the registration *)
(* stands until it expires. An epoch is a positive number, 0 is None.      *)
(***************************************************************************)
EXTENDS Naturals, FiniteSets

CONSTANTS
  Objects,       \* objects that carry the blob id
  Pools,         \* storage pools
  Kinds,         \* the kinds of blob that are registered
  MaxEpoch,      \* bound on epochs
  MaxAhead,      \* max_epochs_ahead of the system
  MaxEvents,     \* bound on the events about the blob and the pools
  MaxFaults,     \* bound on crashes
  EpochsAtStart  \* epochs in which a node may start without all of the history, or 0

ASSUME ObjectsAssumption == IsFiniteSet(Objects)

ASSUME KindsAssumption == Kinds \subseteq {"deletable", "permanent", "pooled"}

ASSUME EpochAssumption ==
  /\ {MaxEpoch, MaxAhead, MaxEvents, MaxFaults} \subseteq Nat
  /\ MaxAhead > 0
  /\ EpochsAtStart \subseteq {0} \cup (MaxAhead .. MaxEpoch)

VARIABLES
  epoch,       \* epoch of the events read so far
  objects,     \* the registrations on chain, burned or not
  pools,       \* the end epochs of the pools on chain, 0 before creation
  info,        \* aggregate_blob_info of the blob id
  table,       \* per_object_blob_info and per_object_pooled_blob_info
  poolTable,   \* storage_pool_info
  handled,     \* latest_handled_event_index
  last,        \* the event of that index
  replay,      \* the node has restarted and reads that event again
  gc,          \* phase 1 of garbage collection: the table it is working on
  task,        \* epoch of the running data deletion task, or 0
  txn,         \* transaction that deletes the data
  deletions,   \* epoch of a Deleted event that the worker has yet to handle, or 0
  upload,      \* an upload of metadata has seen that the blob is registered
  metadata,    \* the metadata is stored
  faults,      \* crashes so far
  epochAtStart,  \* epoch at the start of a recovery with incomplete history, or 0
  since        \* history variable: epoch since which the blob has been certified on chain

chain == <<epoch, objects, pools>>
tables == <<info, table, poolTable, handled, last>>
deleting == <<gc, task, txn, deletions>>
vars == <<chain, tables, replay, deleting, upload, metadata, faults, epochAtStart, since>>

-----------------------------------------------------------------------------
(* The aggregate *)

NoPermanent == [count |-> 0, end |-> 0]

\* The aggregate without any object. Fields of V1 that V2 lacks stay 0 there.
Default(version) ==
  [version |-> version, metadata |-> FALSE, initial |-> 0,
   deletable |-> 0, deletableCertified |-> 0,
   permanent |-> NoPermanent, permanentCertified |-> NoPermanent,
   latestRegistered |-> 0, latestCertified |-> 0,
   pooled |-> 0, pooledCertified |-> 0]

NoInfo == Default("None")
Valid(i) == i.version \in {"V1", "V2"}

Later(e, f) == IF e > f THEN e ELSE f

\* V1 only counts deletable objects while the latest end epoch it has seen is not over.
AnyDeletable(i, e) ==
  i.deletable > 0 /\ (i.version = "V1" => i.latestRegistered > e)
AnyDeletableCertified(i, e) ==
  i.deletableCertified > 0 /\ (i.version = "V1" => i.latestCertified > e)

IsCertified(i, e) ==
  /\ Valid(i)
  /\ i.initial \in 1 .. e
  /\ \/ i.permanentCertified.end > e
     \/ AnyDeletableCertified(i, e)
     \/ i.pooledCertified > 0

IsRegistered(i, e) ==
  /\ Valid(i)
  /\ \/ i.permanent.end > e
     \/ AnyDeletable(i, e)
     \/ i.pooled > 0

CanDataBeDeleted(i, e) == ~IsRegistered(i, e)

CanBlobInfoBeDeleted(i, e) ==
  /\ Valid(i)
  /\ i.deletable = 0 /\ i.permanent = NoPermanent /\ i.pooled = 0
  /\ CanDataBeDeleted(i, e)

\* One more permanent object with this end epoch; `more` is 0 for an extension.
UpdatePermanent(p, end, more) == [count |-> p.count + more, end |-> Later(p.end, end)]
Decrement(p) == IF p.count <= 1 THEN NoPermanent ELSE [p EXCEPT !.count = @ - 1]

\* A pooled operand turns V1 into V2, which forgets the latest end epochs.
ToV2(i) == [i EXCEPT !.version = "V2", !.latestRegistered = 0, !.latestCertified = 0]

\* The epochs of V1 are only kept as long as the counter is positive.
Seen(i, seen, end) == IF i.version = "V1" THEN Later(seen, end) ELSE 0
Kept(count, seen) == IF count = 0 THEN 0 ELSE seen
Less(count, n) == IF count < n THEN 0 ELSE count - n

MergeRegister(i, op) ==
  CASE op.kind = "deletable" ->
         [i EXCEPT !.deletable = @ + 1, !.latestRegistered = Seen(i, @, op.end)]
    [] op.kind = "permanent" -> [i EXCEPT !.permanent = UpdatePermanent(@, op.end, 1)]
    [] op.kind = "pooled" -> [ToV2(i) EXCEPT !.pooled = @ + 1]

\* An object may only be counted as certified if one more is registered.
MayCertify(i, op) ==
  CASE op.kind = "deletable" -> i.deletable > i.deletableCertified
    [] op.kind = "permanent" -> /\ i.permanent.count > i.permanentCertified.count
                                /\ op.end <= i.permanent.end
    [] op.kind = "pooled" -> i.pooled > i.pooledCertified

\* The first epoch of the certification: kept only if the blob was certified already.
InitialCertified(i, op) ==
  IF ~IsCertified(i, op.epoch) \/ i.initial = 0 \/ i.initial > op.epoch THEN op.epoch ELSE i.initial

MergeCertify(j, op) ==
  LET i == IF op.kind = "pooled" THEN ToV2(j) ELSE j
      c == [i EXCEPT !.initial = InitialCertified(i, op)]
  IN  IF ~MayCertify(i, op) THEN i
      ELSE CASE op.kind = "deletable" ->
                  [c EXCEPT !.deletableCertified = @ + 1,
                            !.latestCertified = Seen(i, @, op.end)]
             [] op.kind = "permanent" ->
                  [c EXCEPT !.permanentCertified = UpdatePermanent(@, op.end, 1)]
             [] op.kind = "pooled" -> [c EXCEPT !.pooledCertified = @ + 1]

MergeExtend(i, op) ==
  CASE op.kind = "deletable" ->
         [i EXCEPT !.latestRegistered = Seen(i, @, op.end),
                   !.latestCertified = Seen(i, @, op.end)]
    [] op.kind = "permanent" /\ i.permanent # NoPermanent ->
         [i EXCEPT !.permanent = UpdatePermanent(@, op.end, 0),
                   !.permanentCertified =
                      IF @ = NoPermanent THEN @ ELSE UpdatePermanent(@, op.end, 0)]
    [] OTHER -> i

UnsetWithoutDeletable(i) == IF i.deletableCertified = 0 THEN [i EXCEPT !.initial = 0] ELSE i

UnsetInitial(i) ==
  IF i.deletableCertified = 0 /\ i.permanentCertified = NoPermanent /\ i.pooledCertified = 0
  THEN [i EXCEPT !.initial = 0] ELSE i

\* One object less: deleted on chain or, at an epoch change, expired.
MergeRemove(j, op) ==
  LET n == IF op.wasCertified THEN 1 ELSE 0
      i == IF op.kind = "pooled" THEN ToV2(j) ELSE j
      total == Less(i.deletable, 1)
      certified == Less(i.deletableCertified, n)
  IN  CASE op.kind = "deletable" ->
             UnsetInitial([i EXCEPT !.deletable = total, !.deletableCertified = certified,
                                    !.latestRegistered = Kept(total, @),
                                    !.latestCertified = Kept(certified, @)])
        [] op.kind = "permanent" ->
             UnsetInitial([i EXCEPT !.permanent = Decrement(@),
                                    !.permanentCertified =
                                       IF op.wasCertified THEN Decrement(@) ELSE @])
        [] op.kind = "pooled" ->
             IF i.pooled = 0 THEN i
             ELSE UnsetInitial([i EXCEPT !.pooled = @ - 1, !.pooledCertified = Less(@, n)])

\* The first operand for an untracked blob id.
MergeNew(op) ==
  CASE op.type = "Register" -> MergeRegister(Default("V1"), op)
    [] op.type = "MarkMetadataStored" -> [Default("V1") EXCEPT !.metadata = TRUE]
    [] op.type = "MarkInvalid" -> Default("Invalid")
    [] OTHER -> NoInfo

MergeWith(i, op) ==
  CASE i.version = "Invalid" -> i
    [] i.version # "Invalid" /\ op.type = "MarkInvalid" -> Default("Invalid")
    [] i.version # "Invalid" /\ op.type = "MarkMetadataStored" -> [i EXCEPT !.metadata = TRUE]
    [] i.version # "Invalid" /\ op.type = "Register" -> MergeRegister(i, op)
    [] i.version # "Invalid" /\ op.type = "Certify" -> MergeCertify(i, op)
    [] i.version # "Invalid" /\ op.type = "Extend" -> MergeExtend(i, op)
    [] i.version # "Invalid" /\ op.type \in {"Delete", "Expired"} -> MergeRemove(i, op)

Merge(i, op) == IF i = NoInfo THEN MergeNew(op) ELSE MergeWith(i, op)

-----------------------------------------------------------------------------
(* The events and the other tables *)

NoObject == [status |-> "new", kind |-> "none", pool |-> "none", end |-> 0, certified |-> 0]
NoEntry == NoObject
NoEvent == [type |-> "None"]
NoTxn == [by |-> "none", does |-> "nothing"]

\* A pooled object lives as long as its pool.
EndOf(o, ps) == IF o.kind = "pooled" THEN ps[o.pool] ELSE o.end

\* The objects that were registered, have not been deleted and have not expired; a burned one
\* is among them.
LiveObjects == {o \in Objects : objects[o].status = "live" /\ EndOf(objects[o], pools) > epoch}
LiveCertified == {o \in LiveObjects : objects[o].certified > 0}

\* An event about an object of the blob id, with what its operand carries. The epoch of an
\* extension is the one in which the object was certified.
BlobEvent(type, o, obj) ==
  [type |-> type, object |-> o, kind |-> obj.kind, pool |-> obj.pool,
   epoch |-> IF type = "Extend" THEN obj.certified ELSE epoch,
   end |-> obj.end, wasCertified |-> obj.certified > 0]
PoolEvent(type, p, end) == [type |-> type, pool |-> p, end |-> end]

IsPoolEvent(e) == e.type \in {"StoragePoolCreated", "StoragePoolExtended"}

\* The first epoch all events of which are available; earlier events are skipped.
FirstCompleteEpoch == IF epochAtStart = 0 THEN 0 ELSE epochAtStart + 1 - MaxAhead

\* With incomplete history, objects that end before the start are left out, ...
IsIgnored(e) ==
  /\ epochAtStart > 0
  /\ \/ epoch < FirstCompleteEpoch
     \/ /\ ~IsPoolEvent(e)
        /\ e.type # "MarkInvalid"
        /\ e.kind # "pooled"
        /\ e.end <= epochAtStart

NeverUntracked(e) == FALSE

\* ... so the first event of an object may be an extension.
IsUntrackedExtension(e) ==
  epochAtStart > 0 /\ e.type = "Extend" /\ table[e.object] = NoEntry

IsBeforeLatest(index) == index < handled

HasEventBeenHandled(index) == handled > 0 /\ index <= handled

MergeOperands(i, e) ==
  IF IsUntrackedExtension(e)
  THEN Merge(Merge(i, [e EXCEPT !.type = "Register"]), [e EXCEPT !.type = "Certify"])
  ELSE Merge(i, e)

MergePerObject(t, e) ==
  CASE e.type = "Register" \/ IsUntrackedExtension(e) ->
         [status |-> "live", kind |-> e.kind, pool |-> e.pool, end |-> e.end,
          certified |-> IF e.type = "Extend" THEN e.epoch ELSE 0]
    [] e.type = "Certify" -> [t EXCEPT !.certified = e.epoch]
    [] e.type = "Extend" /\ ~IsUntrackedExtension(e) -> [t EXCEPT !.end = e.end]
    [] e.type = "Delete" -> NoEntry

IgnoreConflict == UNCHANGED txn

\* A write to the aggregate makes the commit of an open transaction fail.
TouchInfo == txn' = [txn EXCEPT !.does = "nothing"]

UpdateStoragePoolInfo(e) ==
  /\ poolTable' = [poolTable EXCEPT ![e.pool] = Later(@, e.end)]
  /\ UNCHANGED <<info, table, txn>>

UpdateBlobInfo(e) ==
  /\ info' = MergeOperands(info, e)
  /\ table' = IF e.type = "MarkInvalid" THEN table
              ELSE [table EXCEPT ![e.object] = MergePerObject(@, e)]
  /\ TouchInfo
  /\ UNCHANGED poolTable

\* One batch updates the tables and the index of the latest handled event.
HandleEvent(index, e) ==
  IF HasEventBeenHandled(index) \/ IsIgnored(e)
  THEN UNCHANGED <<tables, txn>>
  ELSE /\ IF IsPoolEvent(e) THEN UpdateStoragePoolInfo(e) ELSE UpdateBlobInfo(e)
       /\ handled' = index
       /\ last' = e

-----------------------------------------------------------------------------
(* Reading events: what happened on chain, and how the node handles it *)

Init ==
  /\ epoch = 1
  /\ objects = [o \in Objects |-> NoObject]
  /\ pools = [p \in Pools |-> 0]
  /\ info = NoInfo
  /\ table = [o \in Objects |-> NoEntry]
  /\ poolTable = [p \in Pools |-> 0]
  /\ handled = 0 /\ last = NoEvent /\ replay = FALSE
  /\ gc = "idle" /\ task = 0 /\ txn = NoTxn /\ deletions = 0
  /\ upload = FALSE /\ metadata = FALSE
  /\ faults = 0 /\ epochAtStart \in EpochsAtStart /\ since = 0

\* Events are read in order, and not while an epoch change is being handled.
Read(e) ==
  /\ gc = "idle" /\ ~replay /\ handled < MaxEvents
  /\ HandleEvent(handled + 1, e)
  /\ UNCHANGED <<epoch, replay, gc, task, upload, metadata, faults>>

\* End epochs that the system accepts.
Ends == (epoch + 1) .. (epoch + MaxAhead)

Register(o, k, end) ==
  LET obj == [status |-> "live", kind |-> k, pool |-> "none", end |-> end, certified |-> 0]
  IN  /\ objects[o].status = "new" /\ k # "pooled"
      /\ objects' = [objects EXCEPT ![o] = obj]
      /\ Read(BlobEvent("Register", o, obj))
      /\ UNCHANGED <<pools, deletions>>

RegisterPooled(o, p) ==
  LET obj == [status |-> "live", kind |-> "pooled", pool |-> p, end |-> 0, certified |-> 0]
  IN  /\ objects[o].status = "new" /\ pools[p] > epoch
      /\ objects' = [objects EXCEPT ![o] = obj]
      /\ Read(BlobEvent("Register", o, obj))
      /\ UNCHANGED <<pools, deletions>>

Certify(o) ==
  /\ o \in LiveObjects \ LiveCertified
  /\ objects' = [objects EXCEPT ![o].certified = epoch]
  /\ Read(BlobEvent("Certify", o, objects[o]))
  /\ UNCHANGED <<pools, deletions>>

Extend(o, end) ==
  /\ o \in LiveCertified /\ objects[o].kind # "pooled" /\ end > objects[o].end
  /\ objects' = [objects EXCEPT ![o].end = end]
  /\ Read(BlobEvent("Extend", o, objects'[o]))
  /\ UNCHANGED <<pools, deletions>>

\* The tables are updated at once, the data is left to the worker.
Delete(o) ==
  /\ o \in LiveObjects /\ objects[o].kind # "permanent"
  /\ objects' = [objects EXCEPT ![o].status = "gone"]
  /\ Read(BlobEvent("Delete", o, objects[o]))
  /\ deletions' = IF epoch < FirstCompleteEpoch THEN deletions ELSE epoch
  /\ UNCHANGED pools

Invalidate ==
  /\ info.version # "Invalid"
  /\ Read([type |-> "MarkInvalid"])
  /\ UNCHANGED <<objects, pools, deletions>>

CreatePool(p, end) ==
  /\ pools[p] = 0
  /\ pools' = [pools EXCEPT ![p] = end]
  /\ Read(PoolEvent("StoragePoolCreated", p, end))
  /\ UNCHANGED <<objects, deletions>>

ExtendPool(p, end) ==
  /\ pools[p] > epoch /\ end > pools[p]
  /\ pools' = [pools EXCEPT ![p] = end]
  /\ Read(PoolEvent("StoragePoolExtended", p, end))
  /\ UNCHANGED <<objects, deletions>>

\* After a restart the events since the persisted cursor are read again.
Replay ==
  /\ replay
  /\ replay' = FALSE
  /\ HandleEvent(handled, last)
  /\ UNCHANGED <<chain, gc, task, deletions, upload, metadata, faults>>

-----------------------------------------------------------------------------
(* Garbage collection *)

\* An epoch change is handled once the workers have handled all earlier events.
EpochChangeStart ==
  /\ gc = "idle" /\ ~replay /\ deletions = 0
  /\ epoch < MaxEpoch
  /\ epoch' = epoch + 1
  /\ gc' = IF epoch' < FirstCompleteEpoch THEN "idle" ELSE "pools"
  /\ UNCHANGED <<objects, pools, tables, replay, task, txn, deletions, upload, metadata, faults>>

ProcessExpiredStoragePools ==
  /\ gc = "pools"
  /\ poolTable' = [p \in Pools |-> IF poolTable[p] <= epoch THEN 0 ELSE poolTable[p]]
  /\ gc' = "regular"
  /\ UNCHANGED <<chain, info, table, handled, last, replay, task, txn, deletions, upload,
                 metadata, faults>>

\* A pool that is not in its table any more has expired.
Expired(t) == t # NoEntry /\ EndOf(t, poolTable) <= epoch

\* The table an entry belongs to.
Phase(t) == IF t.kind = "pooled" THEN "pooled" ELSE "regular"

ExpiredObjects == {o \in Objects : Expired(table[o]) /\ gc = Phase(table[o])}

ProcessMaybeExpiredBlobObject(o) ==
  /\ o \in ExpiredObjects
  /\ table' = [table EXCEPT ![o] = NoEntry]
  /\ info' = Merge(info, [type |-> "Expired", kind |-> table[o].kind,
                          wasCertified |-> table[o].certified > 0])
  /\ TouchInfo
  /\ UNCHANGED <<chain, poolTable, handled, last, replay, gc, task, deletions, upload, metadata,
                 faults>>

\* Phase 1 goes on to the pooled objects; when it is done, phase 2 starts in the background.
FinishTable ==
  /\ gc \in {"regular", "pooled"} /\ ExpiredObjects = {}
  /\ gc' = IF gc = "regular" THEN "pooled" ELSE "idle"
  /\ task' = IF gc = "pooled" THEN epoch ELSE task
  /\ UNCHANGED <<chain, tables, replay, txn, deletions, upload, metadata, faults>>

\* Phase 2 and a worker delete data in an optimistic transaction, if the blob is not
\* registered in the epoch they were started for.
BeginDeletion(by, e) ==
  /\ txn = NoTxn /\ info # NoInfo
  /\ CanDataBeDeleted(info, e)
  /\ txn' = [by |-> by, does |-> IF CanBlobInfoBeDeleted(info, e) THEN "both" ELSE "data"]
  /\ UNCHANGED <<chain, tables, replay, gc, task, deletions, upload, metadata, faults>>

DeleteExpiredBlobData == task > 0 /\ epoch >= epochAtStart /\ BeginDeletion("task", task)

AttemptToDeleteBlobData == deletions > 0 /\ BeginDeletion("worker", deletions)

\* Immediate deletion is disabled, or the data is still needed.
KeepBlobData ==
  /\ deletions > 0 /\ txn.by # "worker"
  /\ deletions' = 0
  /\ UNCHANGED <<chain, tables, replay, gc, task, txn, upload, metadata, faults>>

CommitDeletion ==
  /\ txn # NoTxn
  /\ metadata' = (metadata /\ txn.does = "nothing")
  /\ info' = IF txn.does = "both" THEN NoInfo ELSE info
  /\ deletions' = IF txn.by = "worker" THEN 0 ELSE deletions
  /\ txn' = NoTxn
  /\ UNCHANGED <<chain, table, poolTable, handled, last, replay, gc, task, upload, faults>>

-----------------------------------------------------------------------------
(* Metadata, and crashes *)

StoreMetadata ==
  /\ ~upload /\ ~info.metadata
  /\ IsRegistered(info, epoch)
  /\ upload' = TRUE
  /\ UNCHANGED <<chain, tables, replay, deleting, metadata, faults>>

PutMetadata ==
  /\ upload
  /\ upload' = FALSE
  /\ metadata' = TRUE
  /\ info' = Merge(info, [type |-> "MarkMetadataStored"])
  /\ TouchInfo
  /\ UNCHANGED <<chain, table, poolTable, handled, last, replay, gc, task, deletions, faults>>

\* The worker that handles the event of an invalid blob deletes its data.
DeleteInvalidBlobData ==
  /\ info.version = "Invalid" /\ metadata
  /\ metadata' = FALSE
  /\ UNCHANGED <<chain, tables, replay, deleting, upload, faults>>

\* An unfinished phase 1 starts again from the first table; one that had finished may be
\* repeated. A replayed epoch change may start phase 2 again, also for an older epoch.
Crash ==
  /\ faults < MaxFaults
  /\ faults' = faults + 1
  /\ replay' = (handled > 0)
  /\ gc' \in IF gc = "idle" THEN {"idle", "pools"} ELSE {"pools"}
  /\ task' \in 0 .. (IF gc = "idle" THEN epoch ELSE epoch - 1)
  /\ txn' = NoTxn /\ upload' = FALSE
  /\ UNCHANGED <<chain, tables, deletions, metadata>>

\* Which pools a node knows that starts without all of the history is left open by the code.
PoolStep ==
  \/ \E o \in Objects, p \in Pools : "pooled" \in Kinds /\ RegisterPooled(o, p)
  \/ \E p \in Pools, end \in Ends : CreatePool(p, end) \/ ExtendPool(p, end)

Step ==
  \/ \E o \in Objects, end \in Ends :
        \/ \E k \in Kinds : Register(o, k, end)
        \/ Extend(o, end)
  \/ \E o \in Objects : Certify(o) \/ Delete(o) \/ ProcessMaybeExpiredBlobObject(o)
  \/ epochAtStart = 0 /\ PoolStep
  \/ Invalidate \/ Replay
  \/ EpochChangeStart \/ ProcessExpiredStoragePools \/ FinishTable
  \/ DeleteExpiredBlobData \/ AttemptToDeleteBlobData \/ KeepBlobData \/ CommitDeletion
  \/ StoreMetadata \/ PutMetadata \/ DeleteInvalidBlobData
  \/ Crash

TrackCertification ==
  since' = IF LiveCertified' = {} THEN 0 ELSE IF since = 0 THEN epoch' ELSE since

Next == Step /\ TrackCertification /\ UNCHANGED epochAtStart

Spec == Init /\ [][Next]_vars

-----------------------------------------------------------------------------
(* Properties *)

Entries(kinds) == {o \in Objects : table[o] # NoEntry /\ table[o].kind \in kinds}
Certified(kinds) == {o \in Entries(kinds) : table[o].certified > 0}

(* The aggregate counts exactly the entries of the tables of objects, in the middle of a     *)
(* garbage collection, after crashes and replays and across the upgrade from V1 to V2, and   *)
(* its end epochs are at least theirs: what check_invariants of the tables checks and more.  *)
AggregateMatchesTables ==
  info.version # "Invalid" =>
    /\ info.deletable = Cardinality(Entries({"deletable"}))
    /\ info.deletableCertified = Cardinality(Certified({"deletable"}))
    /\ info.permanent.count = Cardinality(Entries({"permanent"}))
    /\ info.permanentCertified.count = Cardinality(Certified({"permanent"}))
    /\ info.pooled = Cardinality(Entries({"pooled"}))
    /\ info.pooledCertified = Cardinality(Certified({"pooled"}))
    /\ info.initial > 0 <=> Certified({"deletable", "permanent", "pooled"}) # {}
    /\ \A o \in Entries({"permanent"}) : info.permanent.end >= table[o].end
    /\ info.version = "V1" => \A o \in Entries({"deletable"}) : info.latestRegistered >= table[o].end

(* After phase 1 of the garbage collection the aggregate says that the blob is registered or *)
(* certified exactly if a registration on chain was not deleted and has not expired (whether *)
(* or not its object was burned), whatever was lost before the start of a recovery with      *)
(* incomplete history; during phase 1 it may only say so too long.                           *)
StatusIsExact ==
  (info.version # "Invalid" /\ epoch >= epochAtStart) =>
    /\ LiveObjects # {} => IsRegistered(info, epoch)
    /\ LiveCertified # {} => IsCertified(info, epoch)
    /\ gc = "idle" => /\ IsRegistered(info, epoch) => LiveObjects # {}
                      /\ IsCertified(info, epoch) => LiveCertified # {}

(* The initial certified epoch, from which nodes decide whether a blob is part of a shard    *)
(* they sync, is the epoch since which some registration, burned or not, has been certified  *)
(* without a gap.                                                                            *)
InitialEpochIsExact ==
  (Valid(info) /\ gc = "idle" /\ epochAtStart = 0) => info.initial = since

(* Neither phase 2 of the garbage collection nor a worker that handles a deletion deletes    *)
(* the data of a blob with a registration that is still valid, though the epoch they were    *)
(* started for is old by then and events are handled between their check and their commit.   *)
LiveDataIsKept ==
  [][metadata /\ ~metadata' => \/ LiveObjects' = {}
                               \/ info.version = "Invalid"
                               \/ epoch < epochAtStart]_vars
=============================================================================
