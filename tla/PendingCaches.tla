---------------------------- MODULE PendingCaches ----------------------------
(***************************************************************************)
(* Uploads that reach a storage node before it has read the registration   *)
(* of their blob are buffered in two bounded caches in memory, whose       *)
(* entries expire. The buffered data is flushed to storage by the worker   *)
(* of the blob once the registration was read, by an upload that finds,    *)
(* after it has buffered its data, that the blob is registered by now, and *)
(* by a request for a storage confirmation, which may wait for the         *)
(* registration. All of them run concurrently, and each await is a point   *)
(* where another one may take a step. Slivers are counted and not measured *)
(* in bytes, and the slivers are those of the node's own shards.           *)
(***************************************************************************)
EXTENDS Naturals, FiniteSets

CONSTANTS
  Blobs, Slivers,
  Requests,        \* requests of clients
  MaxSlivers,      \* max_slivers of the sliver cache
  MaxMetadata,     \* max_entries of the metadata cache
  MaxExpiries,     \* bound on the entries that expire
  MaxFaults,       \* bound on failing writes
  MaxDisconnects   \* bound on requests that end because the client disconnects

ASSUME BoundsAssumption ==
  {MaxSlivers, MaxMetadata, MaxExpiries, MaxFaults, MaxDisconnects} \subseteq Nat

VARIABLES
  registered,      \* whether the blob info says that the blob is registered
  storedMetadata,  \* whether the metadata is in storage
  stored,          \* the slivers in storage
  metadata,        \* the entries of the metadata cache
  cache,           \* the entries of the sliver cache
  thread,          \* the requests, and for each blob the flush by its worker
  acked,           \* what was uploaded with success, by blob
  expiries, faults, disconnects,
  overflowed       \* history: whether slivers of a failed flush found no room in the cache

bounds == <<expiries, faults, disconnects, overflowed>>
storage == <<storedMetadata, stored>>
caches == <<metadata, cache>>
vars == <<registered, storage, caches, thread, acked, bounds>>

Metadata == "metadata"
Confirmation == "confirmation"
Flush == "flush"
Threads == Requests \cup Blobs

\* A request is not the worker of a blob, and what a thread is about is told
\* apart from the slivers.
ASSUME ThreadsAssumption ==
  /\ Blobs # {} /\ IsFiniteSet(Blobs) /\ IsFiniteSet(Slivers)
  /\ Requests \cap Blobs = {} /\ {Metadata, Confirmation, Flush} \cap Slivers = {}

Idle == [pc |-> "idle", blob |-> CHOOSE b \in Blobs : TRUE, item |-> Flush, flag |-> FALSE,
         held |-> {}]
Ended == [Idle EXCEPT !.pc = "ended"]
NoEntry == [slivers |-> {}, fresh |-> TRUE]

Init ==
  /\ registered = [b \in Blobs |-> FALSE]
  /\ storedMetadata = [b \in Blobs |-> FALSE]
  /\ stored = [b \in Blobs |-> {}]
  /\ metadata = [b \in Blobs |-> "none"]
  /\ cache = [b \in Blobs |-> NoEntry]
  /\ thread = [t \in Threads |-> Idle]
  /\ acked = [b \in Blobs |-> {}]
  /\ expiries = 0 /\ faults = 0 /\ disconnects = 0 /\ overflowed = FALSE

-----------------------------------------------------------------------------
(* The caches. Every operation of the metadata cache evicts what expired. *)

FreshMetadata == [b \in Blobs |-> IF metadata[b] = "expired" THEN "none" ELSE metadata[b]]
MetadataEntries == {b \in Blobs : FreshMetadata[b] = "fresh"}

FreshSlivers(c) == [b \in Blobs |-> IF c[b].fresh THEN c[b] ELSE NoEntry]
Count(c) == Cardinality(UNION {{b} \X c[b].slivers : b \in Blobs})

\* Makes room for n more slivers if there is none.
EnsureCapacity(c, n) == IF Count(c) + n > MaxSlivers THEN FreshSlivers(c) ELSE c

\* Adding to an entry renews it.
AddSlivers(c, b, slivers) ==
  [c EXCEPT ![b] = [slivers |-> @.slivers \cup slivers, fresh |-> TRUE]]

DropUnstored(b, slivers) == UNCHANGED <<cache, overflowed>>

\* What failed to be flushed is put back as far as there is room, the rest is dropped.
Reinsert(b, slivers) ==
  LET kept == IF cache[b].fresh THEN cache ELSE [cache EXCEPT ![b] = NoEntry]
      new == slivers \ kept[b].slivers
      c == EnsureCapacity(kept, Cardinality(new))
      room == MaxSlivers - Count(c)
  IN \E added \in SUBSET new :
       /\ Cardinality(added) = IF Cardinality(new) <= room THEN Cardinality(new) ELSE room
       /\ cache' = AddSlivers(c, b, added)
       /\ overflowed' = IF added = new THEN overflowed ELSE TRUE

-----------------------------------------------------------------------------
(* Threads *)

Goto(t, pc) == thread' = [thread EXCEPT ![t].pc = pc] /\ UNCHANGED acked

\* The request is over; an upload that succeeded is acknowledged.
Return(t, ok) ==
  /\ thread' = [thread EXCEPT ![t] = Ended]
  /\ acked' = IF ok /\ thread[t].item # Confirmation
                THEN [acked EXCEPT ![thread[t].blob] = @ \cup {thread[t].item}]
                ELSE acked

\* The outcome of a flush: the worker only logs an error.
FlushReturns(t, ok) ==
  IF thread[t].item = Flush THEN thread' = [thread EXCEPT ![t].pc = "flushed", ![t].held = {}]
                                 /\ UNCHANGED acked
  ELSE IF thread[t].item = Confirmation /\ ok THEN Goto(t, "confirm")
  ELSE Return(t, ok)

At(t, pc) == thread[t].pc = pc

\* A write to the database, or a check before it, fails.
Fails == faults < MaxFaults /\ faults' = faults + 1 /\ UNCHANGED <<expiries, disconnects>>
Fault == Fails /\ UNCHANGED overflowed

-----------------------------------------------------------------------------
(* store_metadata: the flag holds whether the blob was registered at first. *)

StoreMetadata(t, b) ==
  /\ At(t, "idle")
  /\ thread' = [thread EXCEPT ![t] =
                  [Idle EXCEPT !.pc = "hasMetadata", !.blob = b, !.item = Metadata,
                               !.flag = registered[b]]]
  /\ UNCHANGED <<registered, storage, caches, acked, bounds>>

HasMetadata(t, b) ==
  /\ At(t, "hasMetadata")
  /\ IF storedMetadata[b] THEN Return(t, TRUE) ELSE Goto(t, "contains")
  /\ UNCHANGED <<registered, storage, caches, bounds>>

\* Only an upload with the intent pending is buffered.
ContainsMetadata(t, b) ==
  /\ At(t, "contains")
  /\ metadata' = FreshMetadata
  /\ IF metadata'[b] = "fresh" THEN Return(t, TRUE)
     ELSE IF thread[t].flag THEN Goto(t, "persistCheck")
     ELSE Goto(t, "insertMetadata") \/ Return(t, FALSE)
  /\ UNCHANGED <<registered, storage, cache, bounds>>

PersistCheck(t, b) ==
  /\ At(t, "persistCheck")
  /\ IF storedMetadata[b] THEN Return(t, TRUE) ELSE Goto(t, "persist")
  /\ UNCHANGED <<registered, storage, caches, bounds>>

PersistVerifiedMetadata(t, b) ==
  /\ At(t, "persist")
  /\ \/ storedMetadata' = [storedMetadata EXCEPT ![b] = TRUE] /\ Goto(t, "persisted")
        /\ UNCHANGED bounds
     \/ Fault /\ Return(t, FALSE) /\ UNCHANGED storedMetadata
  /\ UNCHANGED <<registered, stored, caches>>

RemovePersisted(t, b) ==
  /\ At(t, "persisted")
  /\ metadata' = [FreshMetadata EXCEPT ![b] = "none"]
  /\ Return(t, TRUE)
  /\ UNCHANGED <<registered, storage, cache, bounds>>

InsertMetadata(t, b) ==
  /\ At(t, "insertMetadata")
  /\ IF Cardinality(MetadataEntries) >= MaxMetadata
       THEN metadata' = FreshMetadata /\ Return(t, FALSE)
       ELSE /\ metadata' = [FreshMetadata EXCEPT ![b] = "fresh"]
            /\ IF b \in MetadataEntries THEN Return(t, TRUE) ELSE Goto(t, "recheck")
  /\ UNCHANGED <<registered, storage, cache, bounds>>

NoRecheck(t, b) == Return(t, TRUE)

\* After data was buffered, here and in store_sliver.
AfterInsert(t, b) == IF registered[b] THEN Goto(t, "flush") ELSE Return(t, TRUE)

RecheckRegistration(t, b) ==
  /\ At(t, "recheck")
  /\ AfterInsert(t, b)
  /\ UNCHANGED <<registered, storage, caches, bounds>>

-----------------------------------------------------------------------------
(* store_sliver: the flag holds whether the metadata is in storage. *)

StoreSliver(t, b, s) ==
  /\ At(t, "idle")
  /\ thread' = [thread EXCEPT ![t] =
                  [Idle EXCEPT !.pc = IF storedMetadata[b] THEN "prepare" ELSE "pending",
                               !.blob = b, !.item = s, !.flag = storedMetadata[b]]]
  /\ UNCHANGED <<registered, storage, caches, acked, bounds>>

ResolvePendingMetadata(t, b) ==
  /\ At(t, "pending")
  /\ metadata' = FreshMetadata
  /\ IF metadata'[b] = "fresh" THEN Goto(t, "prepare") ELSE Return(t, FALSE)
  /\ UNCHANGED <<registered, storage, cache, bounds>>

\* The shard must be owned, and the sliver is not stored twice.
PrepareSliver(t, b) ==
  /\ At(t, "prepare")
  /\ \/ /\ IF thread[t].item \in stored[b] THEN Return(t, TRUE)
           ELSE Goto(t, IF thread[t].flag THEN "putSliver" ELSE "insertSliver")
        /\ UNCHANGED bounds
     \/ Fault /\ Return(t, FALSE)
  /\ UNCHANGED <<registered, storage, caches>>

PutSliver(t, b) ==
  /\ At(t, "putSliver")
  /\ \/ stored' = [stored EXCEPT ![b] = @ \cup {thread[t].item}] /\ Return(t, TRUE)
        /\ UNCHANGED bounds
     \/ Fault /\ Return(t, FALSE) /\ UNCHANGED stored
  /\ UNCHANGED <<registered, storedMetadata, caches>>

InsertSliver(t, b) ==
  /\ At(t, "insertSliver")
  /\ LET s == thread[t].item
         isNew == s \notin cache[b].slivers
         c == IF isNew THEN EnsureCapacity(cache, 1) ELSE cache
     IN IF isNew /\ Count(c) >= MaxSlivers
          THEN cache' = c /\ Return(t, FALSE)
          ELSE cache' = AddSlivers(c, b, {s}) /\ Goto(t, "recheck")
  /\ UNCHANGED <<registered, storage, metadata, bounds>>

-----------------------------------------------------------------------------
(* flush_pending_caches *)

FlushMetadata(t, b) ==
  /\ At(t, "flush")
  /\ Goto(t, IF storedMetadata[b] THEN "hasBlob" ELSE "removeMetadata")
  /\ UNCHANGED <<registered, storage, caches, bounds>>

\* From here on only this flush has the metadata.
RemoveMetadata(t, b) ==
  /\ At(t, "removeMetadata")
  /\ metadata' = [FreshMetadata EXCEPT ![b] = "none"]
  /\ Goto(t, IF FreshMetadata[b] = "fresh" THEN "putMetadata" ELSE "hasBlob")
  /\ UNCHANGED <<registered, storage, cache, bounds>>

PutMetadata(t, b) ==
  /\ At(t, "putMetadata")
  /\ \/ storedMetadata' = [storedMetadata EXCEPT ![b] = TRUE] /\ Goto(t, "hasBlob")
        /\ UNCHANGED bounds
     \/ Fault /\ FlushReturns(t, FALSE) /\ UNCHANGED storedMetadata
  /\ UNCHANGED <<registered, stored, caches>>

HasBlob(t, b) ==
  /\ At(t, "hasBlob")
  /\ cache' = FreshSlivers(cache)
  /\ IF cache'[b].slivers = {} THEN FlushReturns(t, TRUE) ELSE Goto(t, "getMetadata")
  /\ UNCHANGED <<registered, storage, metadata, bounds>>

GetMetadata(t, b) ==
  /\ At(t, "getMetadata")
  /\ IF storedMetadata[b] THEN Goto(t, "drain") ELSE FlushReturns(t, FALSE)
  /\ UNCHANGED <<registered, storage, caches, bounds>>

\* The slivers leave the cache before they are stored.
Drain(t, b) ==
  /\ At(t, "drain")
  /\ LET c == FreshSlivers(cache)
     IN /\ cache' = [c EXCEPT ![b] = NoEntry]
        /\ thread' = [thread EXCEPT ![t].pc = "store", ![t].held = c[b].slivers]
  /\ UNCHANGED <<registered, storage, metadata, acked, bounds>>

\* The slivers are stored one after the other.
FlushSliver(t, b) ==
  /\ At(t, "store")
  /\ \E s \in thread[t].held :
       \/ /\ stored' = [stored EXCEPT ![b] = @ \cup {s}]
          /\ thread' = [thread EXCEPT ![t].held = @ \ {s}]
          /\ UNCHANGED <<cache, acked, bounds>>
       \/ /\ Fails /\ Reinsert(b, thread[t].held) /\ FlushReturns(t, FALSE)
          /\ UNCHANGED stored
  /\ UNCHANGED <<registered, storedMetadata, metadata>>

FlushEnds(t, b) ==
  /\ At(t, "store") /\ thread[t].held = {}
  /\ FlushReturns(t, TRUE)
  /\ UNCHANGED <<registered, storage, caches, bounds>>

-----------------------------------------------------------------------------
(* Storage confirmations. The flag says that the request has yet to wait.  *)
(* Whether a blob is fully stored is decided by the storage alone and      *)
(* changes nothing here.                                                   *)

ConfirmationRequest(t, b) ==
  /\ At(t, "idle")
  /\ \E waits \in BOOLEAN :
       thread' = [thread EXCEPT ![t] =
                    [Idle EXCEPT !.pc = "compute", !.blob = b, !.item = Confirmation,
                                 !.flag = waits]]
  /\ UNCHANGED <<registered, storage, caches, acked, bounds>>

ComputeStorageConfirmation(t, b) ==
  /\ At(t, "compute")
  /\ IF registered[b] THEN Goto(t, "flush")
     ELSE IF thread[t].flag THEN Goto(t, "subscribe")
     ELSE Return(t, FALSE)
  /\ UNCHANGED <<registered, storage, caches, bounds>>

Confirm(t, b) ==
  /\ At(t, "confirm")
  /\ Return(t, storedMetadata[b] /\ stored[b] = Slivers)
  /\ UNCHANGED <<registered, storage, caches, bounds>>

\* From here on the thread is woken by a notification, which clears its flag.
Subscribe(t, b) ==
  /\ At(t, "subscribe")
  /\ Goto(t, "subscribed")
  /\ UNCHANGED <<registered, storage, caches, bounds>>

SubscribeLate == {"waiting"}

WaitingPcs == {"subscribed", "hasPending", "waiting"}

CheckBeforeWait(t, b) ==
  /\ At(t, "subscribed")
  /\ IF registered[b] THEN thread' = [thread EXCEPT ![t].pc = "compute", ![t].flag = FALSE]
     ELSE thread' = [thread EXCEPT ![t].pc = "hasPending"]
  /\ UNCHANGED <<registered, storage, caches, acked, bounds>>

\* A request does not wait for a blob of which nothing is buffered.
HasPendingData(t, b) ==
  /\ At(t, "hasPending")
  /\ cache' = FreshSlivers(cache)
  /\ IF cache'[b].slivers # {} THEN Goto(t, "waiting") /\ UNCHANGED metadata
     ELSE /\ metadata' = FreshMetadata
          /\ IF metadata'[b] = "fresh" THEN Goto(t, "waiting") ELSE Return(t, FALSE)
  /\ UNCHANGED <<registered, storage, bounds>>

Woken(t, b) ==
  /\ At(t, "waiting") /\ ~thread[t].flag
  /\ IF registered[b] THEN Goto(t, "compute") ELSE Return(t, FALSE)
  /\ UNCHANGED <<registered, storage, caches, bounds>>

Timeout(t) ==
  /\ At(t, "waiting")
  /\ Return(t, FALSE)
  /\ UNCHANGED <<registered, storage, caches, bounds>>

-----------------------------------------------------------------------------
(* The registration of a blob: the blob info is updated first. *)

UpdateBlobInfo(b) ==
  /\ ~registered[b]
  /\ registered' = [registered EXCEPT ![b] = TRUE]
  /\ UNCHANGED <<storage, caches, thread, acked, bounds>>

NotifyWaiters(b) ==
  {t \in Requests : thread[t].blob = b /\ thread[t].pc \in WaitingPcs}

\* Wakes the requests that wait, and hands the flush to the worker of the blob.
HandleRegisteredEvent(b) ==
  /\ registered[b] /\ At(b, "idle")
  /\ thread' = [t \in Threads |->
                  IF t = b THEN [Idle EXCEPT !.pc = "flush", !.blob = b]
                  ELSE IF t \in NotifyWaiters(b) THEN [thread[t] EXCEPT !.flag = FALSE]
                  ELSE thread[t]]
  /\ UNCHANGED <<registered, storage, caches, acked, bounds>>

\* The worker goes on to the certification of the blob.
ProcessCertifiedEvent(b) ==
  /\ At(b, "flushed")
  /\ thread' = [thread EXCEPT ![b] = Ended]
  /\ UNCHANGED <<registered, storage, caches, acked, bounds>>

-----------------------------------------------------------------------------
(* Time, and clients *)

Expire ==
  /\ expiries < MaxExpiries
  /\ \/ \E b \in Blobs : /\ metadata[b] = "fresh"
                         /\ metadata' = [metadata EXCEPT ![b] = "expired"]
                         /\ UNCHANGED cache
     \/ \E b \in Blobs : /\ cache[b].slivers # {} /\ cache[b].fresh
                         /\ cache' = [cache EXCEPT ![b].fresh = FALSE]
                         /\ UNCHANGED metadata
  /\ expiries' = expiries + 1
  /\ UNCHANGED <<registered, storage, thread, acked, faults, disconnects, overflowed>>

\* The server drops the request at one of its awaits. A write of metadata has
\* been handed to another thread by then, and runs to its end.
Disconnect(t) ==
  /\ disconnects < MaxDisconnects
  /\ thread[t].pc \notin {"idle", "ended", "putMetadata", "persist"}
  /\ thread' = [thread EXCEPT ![t] = Ended]
  /\ disconnects' = disconnects + 1
  /\ UNCHANGED <<registered, storage, caches, acked, expiries, faults, overflowed>>

Step(t) ==
  LET b == thread[t].blob IN
  \/ HasMetadata(t, b) \/ ContainsMetadata(t, b) \/ PersistCheck(t, b)
  \/ PersistVerifiedMetadata(t, b) \/ RemovePersisted(t, b) \/ InsertMetadata(t, b)
  \/ RecheckRegistration(t, b)
  \/ ResolvePendingMetadata(t, b) \/ PrepareSliver(t, b) \/ PutSliver(t, b) \/ InsertSliver(t, b)
  \/ FlushMetadata(t, b) \/ RemoveMetadata(t, b) \/ PutMetadata(t, b) \/ HasBlob(t, b)
  \/ GetMetadata(t, b) \/ Drain(t, b) \/ FlushSliver(t, b) \/ FlushEnds(t, b)
  \/ ComputeStorageConfirmation(t, b) \/ Confirm(t, b)
  \/ Subscribe(t, b) \/ CheckBeforeWait(t, b) \/ HasPendingData(t, b) \/ Woken(t, b)

Next ==
  \/ \E t \in Requests, b \in Blobs :
       \/ StoreMetadata(t, b) \/ ConfirmationRequest(t, b)
       \/ \E s \in Slivers : StoreSliver(t, b, s)
  \/ \E t \in Threads : Step(t)
  \/ \E t \in Requests : Timeout(t) \/ Disconnect(t)
  \/ \E b \in Blobs : UpdateBlobInfo(b) \/ HandleRegisteredEvent(b) \/ ProcessCertifiedEvent(b)
  \/ Expire

Spec == Init /\ [][Next]_vars

-----------------------------------------------------------------------------
(* Properties *)

TypeOK ==
  /\ registered \in [Blobs -> BOOLEAN] /\ storedMetadata \in [Blobs -> BOOLEAN]
  /\ stored \in [Blobs -> SUBSET Slivers]
  /\ metadata \in [Blobs -> {"none", "fresh", "expired"}]
  /\ cache \in [Blobs -> [slivers : SUBSET Slivers, fresh : BOOLEAN]]
  /\ acked \in [Blobs -> SUBSET (Slivers \cup {Metadata})]
  /\ expiries \in 0 .. MaxExpiries /\ faults \in 0 .. MaxFaults
  /\ disconnects \in 0 .. MaxDisconnects /\ overflowed \in BOOLEAN

Held(b) == UNION {thread[t].held : t \in {u \in Threads : thread[u].blob = b}}

SliversKept(b) == acked[b] \ {Metadata} \subseteq stored[b] \cup cache[b].slivers \cup Held(b)

\* The sliver cache is large enough for everything that is uploaded.
RoomForAll == Cardinality(Blobs \X Slivers) <= MaxSlivers

(* A sliver whose upload was acknowledged is in storage, in the cache, or in *)
(* the hands of a flush that still runs, whichever requests flush            *)
(* concurrently and however full the cache is, as long as no entry expires   *)
(* and no request is dropped; also if a flush fails halfway and puts the     *)
(* rest back, unless others have taken the room in the meantime, in which    *)
(* case insert_many drops slivers with a warning (store_sliver,              *)
(* flush_pending_slivers, insert_many).                                      *)
AcknowledgedSliversKept ==
  expiries = 0 /\ disconnects = 0 /\ (RoomForAll \/ ~overflowed) =>
    \A b \in Blobs : SliversKept(b)

(* If requests are dropped it does not hold: the one that has drained        *)
(* the slivers of other uploads may be dropped before it has stored them.    *)
KeptOnDisconnect == expiries = 0 => \A b \in Blobs : SliversKept(b)

(* The same for metadata: store_metadata returned Ok, and the metadata is    *)
(* persisted, or cached for later persistence, or about to be persisted. It  *)
(* does not hold if a write fails: a flush takes the metadata out of the     *)
(* cache first and does not put it back.                                     *)
AcknowledgedMetadataKept ==
  \A b \in Blobs :
    Metadata \in acked[b] =>
      \/ storedMetadata[b] \/ metadata[b] # "none"
      \/ \E t \in Threads : thread[t].blob = b /\ At(t, "putMetadata")

(* A request that waits for a registration whose event was handled has been  *)
(* woken: no notification is lost between the check of the registration and  *)
(* the wait (wait_for_registration_inner, handle_registered_event).          *)
NoLostWakeup ==
  \A t \in Requests :
    thread[t].pc \in {"hasPending", "waiting"} /\ ~At(thread[t].blob, "idle") => ~thread[t].flag

(* When the worker turns to the certification of a blob, no acknowledged     *)
(* sliver of it is pending any more (process_task). It does not hold: the    *)
(* flush of a request may have drained the slivers and be storing them when  *)
(* the worker finds the cache empty.                                         *)
CertifiedSeesFlushed ==
  [][\A b \in Blobs : ProcessCertifiedEvent(b) => acked[b] \ {Metadata} \subseteq stored[b]]_vars

\* The registration was handled, and no request or flush is under way.
AtRest(b) ==
  /\ thread[b].pc \in {"flushed", "ended"}
  /\ \A t \in Requests : thread[t].blob = b => thread[t].pc \in {"idle", "ended"}

(* Whatever races with the registration, some flush finds the slivers of an  *)
(* upload and the metadata: once all requests are over, the acknowledged     *)
(* slivers of a registered blob are stored, unless a write failed, an entry  *)
(* expired or a request was dropped (flush_pending_caches and its callers).  *)
AcknowledgedIsStored ==
  expiries = 0 /\ faults = 0 /\ disconnects = 0 =>
    \A b \in Blobs : AtRest(b) => acked[b] \ {Metadata} \subseteq stored[b]
=============================================================================
