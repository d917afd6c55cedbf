------------------------------ MODULE NodeProofs ------------------------------
(***************************************************************************)
(* Proofs about two parts of a storage node that share no state: the       *)
(* pending caches (PendingCaches), for any number of blobs, slivers and    *)
(* requests and all limits, and the event cursor (EventCursor), for every  *)
(* number of events and crashes and every first available event.           *)
(***************************************************************************)
EXTENDS PendingCaches, EventCursor, FiniteSetTheorems, TLAPS

-----------------------------------------------------------------------------
(***************************************************************************)
(* The pending caches: no waiting request misses a registration, no        *)
(* acknowledged sliver is lost, and none is left behind in the cache.      *)
(* First comes what any step of a thread does to its record, then the      *)
(* storage and the caches.                                                 *)
(***************************************************************************)

FlushPcs == {"flush", "removeMetadata", "putMetadata", "hasBlob", "getMetadata", "drain", "store"}
MetadataPcs == {"hasMetadata", "contains", "persistCheck", "persist", "persisted", "insertMetadata"}
SliverPcs == {"pending", "prepare", "putSliver", "insertSliver"}
ConfirmationPcs == {"compute", "confirm", "subscribe", "subscribed", "hasPending", "waiting"}
OtherPcs == {"idle", "recheck", "flushed", "ended"}

Records ==
  [pc : FlushPcs \cup MetadataPcs \cup SliverPcs \cup ConfirmationPcs \cup OtherPcs,
   blob : Blobs, item : Slivers \cup {Metadata, Confirmation, Flush}, flag : BOOLEAN,
   held : SUBSET Slivers]

\* What a request is about decides which awaits it can be at.
RequestRecord(r) ==
  /\ r.pc # "flushed"
  /\ r.pc \in FlushPcs => r.item # Flush
  /\ r.pc = "recheck" => r.item \in Slivers \cup {Metadata}
  /\ r.pc \in MetadataPcs => r.item = Metadata
  /\ r.pc \in SliverPcs => r.item \in Slivers
  /\ r.pc \in ConfirmationPcs => r.item = Confirmation

\* The worker of a blob only flushes, and only that blob.
WorkerRecord(b, r) ==
  /\ r.pc \in FlushPcs \cup {"idle", "flushed", "ended"}
  /\ r.pc \notin {"idle", "ended"} => r.blob = b /\ r.item = Flush

WellFormed(t, r) ==
  /\ r \in Records
  /\ r.pc # "store" => r.held = {}
  /\ t \in Requests => RequestRecord(r)
  /\ t \in Blobs => WorkerRecord(t, r)

ThreadsOK == thread \in [Threads -> Records] /\ \A t \in Threads : WellFormed(t, thread[t])

Waits == {"hasPending", "waiting"}

\* What a step of thread t, of whatever kind, does to the threads.
Moved(t) ==
  /\ thread' = [thread EXCEPT ![t] = thread'[t]]
  /\ WellFormed(t, thread'[t])
  /\ thread'[t].pc # "idle"
  /\ t \in Blobs => ~At(t, "idle")
  /\ \/ thread'[t] = Ended
     \/ At(t, "idle")
     \/ thread'[t].blob = thread[t].blob /\ thread'[t].item = thread[t].item
  /\ thread'[t].pc \in Waits =>
       /\ ~At(t, "idle") /\ thread'[t].flag = thread[t].flag
       /\ At(t, "hasPending") \/ ~registered[thread[t].blob]

-----------------------------------------------------------------------------
(* The records of the threads *)

(* A thread that is idle or has ended holds no slivers. *)
LEMMA EndedWellFormed ==
  ASSUME NEW t \in Threads
  PROVE  WellFormed(t, Idle) /\ WellFormed(t, Ended)
<1> DEFINE b0 == CHOOSE b \in Blobs : TRUE
<1>1. b0 \in Blobs
  BY ThreadsAssumption
<1>a. Idle = [pc |-> "idle", blob |-> b0, item |-> Flush, flag |-> FALSE, held |-> {}]
  BY Zenon DEF Idle
<1> HIDE DEF b0
<1>2. Idle \in Records /\ Idle.pc = "idle" /\ Idle.held = {}
  BY <1>1, <1>a DEF Records, OtherPcs
<1>3. Ended \in Records /\ Ended.pc = "ended" /\ Ended.held = {}
  BY <1>2 DEF Ended, Records, OtherPcs
<1> QED
  BY <1>2, <1>3 DEF WellFormed, RequestRecord, WorkerRecord, FlushPcs, MetadataPcs, SliverPcs,
                    ConfirmationPcs

(* The types of the fields of a thread. *)
LEMMA ThreadFields ==
  ASSUME ThreadsOK, NEW t \in Threads
  PROVE  /\ thread[t] \in Records /\ WellFormed(t, thread[t])
         /\ thread[t].blob \in Blobs /\ thread[t].flag \in BOOLEAN
         /\ thread[t].held \subseteq Slivers
         /\ thread[t].item \in Slivers \cup {Metadata, Confirmation, Flush}
BY DEF ThreadsOK, Records

(* A thread that goes on to its next await. *)
LEMMA GotoMoves ==
  ASSUME ThreadsOK, NEW t \in Threads, NEW pc, Goto(t, pc),
         WellFormed(t, [thread[t] EXCEPT !.pc = pc]), pc # "idle", ~At(t, "idle"),
         pc \in Waits => At(t, "hasPending") \/ ~registered[thread[t].blob]
  PROVE  Moved(t)
<1>1. thread[t] \in Records
  BY ThreadFields
<1>2. /\ thread' = [thread EXCEPT ![t] = [thread[t] EXCEPT !.pc = pc]]
      /\ thread'[t] = [thread[t] EXCEPT !.pc = pc]
  BY DEF Goto, ThreadsOK
<1>3. /\ thread'[t].pc = pc /\ thread'[t].blob = thread[t].blob
      /\ thread'[t].item = thread[t].item /\ thread'[t].flag = thread[t].flag
  BY <1>1, <1>2 DEF Records
<1>4. thread' = [thread EXCEPT ![t] = thread'[t]]
  BY <1>2 DEF ThreadsOK
<1>5. WellFormed(t, thread'[t])
  BY <1>2
<1> QED
  BY <1>3, <1>4, <1>5 DEF Moved

(* A thread that ends. *)
LEMMA EndsMoves ==
  ASSUME ThreadsOK, NEW t \in Threads, thread' = [thread EXCEPT ![t] = Ended], ~At(t, "idle")
  PROVE  Moved(t)
<1>1. thread'[t] = Ended
  BY DEF ThreadsOK
<1>2. thread'[t].pc = "ended"
  BY <1>1 DEF Ended, Idle
<1> QED
  BY <1>1, <1>2, EndedWellFormed DEF Moved, Waits

\* Awaits that may follow one another.
Follows(p, q) ==
  \/ p \in MetadataPcs /\ q \in MetadataPcs \cup {"recheck"}
  \/ p \in SliverPcs /\ q \in SliverPcs \cup {"recheck"}
  \/ p \in ConfirmationPcs /\ q \in ConfirmationPcs \cup FlushPcs
  \/ p \in FlushPcs \cup {"recheck"} /\ q \in FlushPcs

(* Going on within a job keeps the thread well-formed. *)
LEMMA FollowsMoves ==
  ASSUME ThreadsOK, NEW t \in Threads, NEW p, NEW q, At(t, p), p # "store", Follows(p, q),
         Goto(t, q), q \in Waits => p = "hasPending" \/ ~registered[thread[t].blob]
  PROVE  Moved(t)
<1> DEFINE r == [thread[t] EXCEPT !.pc = q]
<1>1. thread[t] \in Records /\ WellFormed(t, thread[t]) /\ thread[t].pc = p
  BY ThreadFields DEF At
<1>2. q \in FlushPcs \cup MetadataPcs \cup SliverPcs \cup ConfirmationPcs \cup OtherPcs
  BY DEF Follows, OtherPcs
<1>3. /\ r \in Records /\ r.pc = q /\ r.item = thread[t].item /\ r.blob = thread[t].blob
      /\ r.held = thread[t].held
  BY <1>1, <1>2 DEF Records
<1>4. r.held = {}
  BY <1>1, <1>3 DEF WellFormed
<1>5. t \in Requests => RequestRecord(r)
  <2>1. ASSUME t \in Requests PROVE RequestRecord(r)
    <3>1. RequestRecord(thread[t])
      BY <1>1, <2>1 DEF WellFormed
    <3> HIDE DEF r
    <3> QED
      BY <1>1, <1>3, <3>1, ThreadsAssumption
         DEF RequestRecord, Follows, FlushPcs, MetadataPcs, SliverPcs, ConfirmationPcs,
             Metadata, Confirmation, Flush
  <2> QED
    BY <2>1
<1>6. t \in Blobs => WorkerRecord(t, r)
  <2>1. ASSUME t \in Blobs PROVE WorkerRecord(t, r)
    <3>1. WorkerRecord(t, thread[t])
      BY <1>1, <2>1 DEF WellFormed
    <3> HIDE DEF r
    <3> QED
      BY <1>1, <1>3, <3>1 DEF WorkerRecord, Follows, FlushPcs, MetadataPcs, SliverPcs,
                              ConfirmationPcs
  <2> QED
    BY <2>1
<1>7. WellFormed(t, r)
  BY <1>3, <1>4, <1>5, <1>6 DEF WellFormed
<1>8. q # "idle" /\ p # "idle"
  BY DEF Follows, FlushPcs, MetadataPcs, SliverPcs, ConfirmationPcs
<1>9. ~At(t, "idle") /\ (q \in Waits => At(t, "hasPending") \/ ~registered[thread[t].blob])
  BY <1>1, <1>8 DEF At
<1> HIDE DEF r
<1> QED
  BY <1>7, <1>8, <1>9, GotoMoves DEF r

(* The end of a request, with or without success. *)
LEMMA ReturnMoves ==
  ASSUME ThreadsOK, NEW t \in Threads, NEW ok, Return(t, ok), ~At(t, "idle")
  PROVE  Moved(t)
BY EndsMoves DEF Return

(* The end of a flush: of the worker's, of a confirmation's, of an upload's. *)
LEMMA FlushReturnsMoves ==
  ASSUME ThreadsOK, NEW t \in Threads, NEW ok, FlushReturns(t, ok), thread[t].pc \in FlushPcs,
         ok => thread[t].held = {}
  PROVE  Moved(t)
<1>1. /\ thread[t] \in Records /\ WellFormed(t, thread[t]) /\ ~At(t, "idle")
  BY ThreadFields DEF At, FlushPcs
<1>2. CASE thread[t].item = Flush
  <2> DEFINE r == [thread[t] EXCEPT !.pc = "flushed", !.held = {}]
  <2>1. thread' = [thread EXCEPT ![t] = r] /\ thread'[t] = r
    BY <1>1, <1>2 DEF FlushReturns, ThreadsOK
  <2>2. /\ r \in Records /\ r.pc = "flushed" /\ r.held = {} /\ r.item = thread[t].item
        /\ r.blob = thread[t].blob
    BY <1>1 DEF Records, OtherPcs
  <2> HIDE DEF r
  <2>3. t \in Blobs /\ t \notin Requests
    BY <1>1, <1>2, ThreadsAssumption DEF WellFormed, RequestRecord, Threads
  <2>4. WorkerRecord(t, r)
    BY <1>1, <2>2, <2>3 DEF WellFormed, WorkerRecord, FlushPcs
  <2>5. WellFormed(t, r)
    BY <2>2, <2>3, <2>4 DEF WellFormed
  <2> QED
    BY <1>1, <2>1, <2>2, <2>5 DEF Moved, Waits
<1>3. CASE thread[t].item = Confirmation /\ ok
  <2> DEFINE r == [thread[t] EXCEPT !.pc = "confirm"]
  <2>1. Goto(t, "confirm") /\ thread[t].held = {}
    BY <1>3 DEF FlushReturns, Flush, Confirmation
  <2>2. /\ r \in Records /\ r.pc = "confirm" /\ r.held = {} /\ r.item = thread[t].item
    BY <1>1, <2>1 DEF Records, ConfirmationPcs
  <2> HIDE DEF r
  <2>3. t \in Requests /\ t \notin Blobs
    BY <1>1, <1>3, ThreadsAssumption DEF WellFormed, WorkerRecord, Threads, FlushPcs, Flush,
                                         Confirmation
  <2>4. RequestRecord(r)
    BY <1>3, <2>2 DEF RequestRecord, FlushPcs, MetadataPcs, SliverPcs, ConfirmationPcs
  <2>5. WellFormed(t, r)
    BY <2>2, <2>3, <2>4 DEF WellFormed
  <2> QED
    BY <1>1, <2>1, <2>5, GotoMoves DEF r, Waits
<1>4. CASE thread[t].item # Flush /\ ~(thread[t].item = Confirmation /\ ok)
  BY <1>1, <1>4, ReturnMoves DEF FlushReturns
<1> QED
  BY <1>2, <1>3, <1>4

(* Every await of a request or of a worker, one after the other. *)
LEMMA StepMoves ==
  ASSUME TypeOK, ThreadsOK, NEW t \in Threads, Step(t)
  PROVE  Moved(t)
<1> DEFINE b == thread[t].blob
<1>f. Follows("hasMetadata", "contains") /\ Follows("contains", "persistCheck")
      /\ Follows("contains", "insertMetadata") /\ Follows("persistCheck", "persist")
      /\ Follows("persist", "persisted") /\ Follows("insertMetadata", "recheck")
      /\ Follows("recheck", "flush") /\ Follows("pending", "prepare")
      /\ Follows("prepare", "putSliver") /\ Follows("prepare", "insertSliver")
      /\ Follows("insertSliver", "recheck")
  BY DEF Follows, MetadataPcs, SliverPcs, FlushPcs
<1>g. Follows("flush", "hasBlob") /\ Follows("flush", "removeMetadata")
      /\ Follows("removeMetadata", "putMetadata") /\ Follows("removeMetadata", "hasBlob")
      /\ Follows("putMetadata", "hasBlob") /\ Follows("hasBlob", "getMetadata")
      /\ Follows("getMetadata", "drain")
  BY DEF Follows, FlushPcs
<1>h. Follows("compute", "flush") /\ Follows("compute", "subscribe")
      /\ Follows("subscribe", "subscribed") /\ Follows("hasPending", "waiting")
      /\ Follows("waiting", "compute") /\ Follows("subscribed", "hasPending")
  BY DEF Follows, ConfirmationPcs, FlushPcs
<1>w. \A q : q \in {"contains", "persistCheck", "insertMetadata", "persist", "persisted",
                      "recheck", "flush", "prepare", "putSliver", "insertSliver", "hasBlob",
                      "removeMetadata", "putMetadata", "getMetadata", "drain", "subscribe",
                      "subscribed", "compute"} => q \notin Waits
  BY DEF Waits
<1>r. \A ok : Return(t, ok) /\ ~At(t, "idle") => Moved(t)
  BY ReturnMoves
<1>m. \A p, q : At(t, p) /\ p # "store" /\ Follows(p, q) /\ Goto(t, q) /\ q \notin Waits
                 => Moved(t)
  BY FollowsMoves
<1> HIDE DEF b
<1>1. CASE HasMetadata(t, b)
  BY <1>1, <1>f, <1>w, <1>r, <1>m DEF HasMetadata, At
<1>2. CASE ContainsMetadata(t, b)
  BY <1>2, <1>f, <1>w, <1>r, <1>m DEF ContainsMetadata, At
<1>3. CASE PersistCheck(t, b)
  BY <1>3, <1>f, <1>w, <1>r, <1>m DEF PersistCheck, At
<1>4. CASE PersistVerifiedMetadata(t, b)
  BY <1>4, <1>f, <1>w, <1>r, <1>m DEF PersistVerifiedMetadata, At
<1>5. CASE RemovePersisted(t, b)
  BY <1>5, <1>f, <1>w, <1>r, <1>m DEF RemovePersisted, At
<1>6. CASE InsertMetadata(t, b)
  BY <1>6, <1>f, <1>w, <1>r, <1>m DEF InsertMetadata, At
<1>7. CASE RecheckRegistration(t, b)
  BY <1>7, <1>f, <1>w, <1>r, <1>m DEF RecheckRegistration, At, AfterInsert
<1>8. CASE ResolvePendingMetadata(t, b)
  BY <1>8, <1>f, <1>w, <1>r, <1>m DEF ResolvePendingMetadata, At
<1>9. CASE PrepareSliver(t, b)
  BY <1>9, <1>f, <1>w, <1>r, <1>m DEF PrepareSliver, At
<1>10. CASE PutSliver(t, b)
  BY <1>10, <1>f, <1>w, <1>r, <1>m DEF PutSliver, At
<1>11. CASE InsertSliver(t, b)
  BY <1>11, <1>f, <1>w, <1>r, <1>m DEF InsertSliver, At
<1>12. CASE FlushMetadata(t, b)
  BY <1>12, <1>g, <1>w, <1>r, <1>m DEF FlushMetadata, At
<1>13. CASE RemoveMetadata(t, b)
  BY <1>13, <1>g, <1>w, <1>r, <1>m DEF RemoveMetadata, At
<1>14. CASE ComputeStorageConfirmation(t, b)
  BY <1>14, <1>h, <1>w, <1>r, <1>m DEF ComputeStorageConfirmation, At
<1>15. CASE Confirm(t, b)
  BY <1>15, <1>h, <1>w, <1>r, <1>m DEF Confirm, At
<1>16. CASE Subscribe(t, b)
  BY <1>16, <1>h, <1>w, <1>r, <1>m DEF Subscribe, At
<1>17. CASE Woken(t, b)
  BY <1>17, <1>h, <1>w, <1>r, <1>m DEF Woken, At
<1>18. CASE PutMetadata(t, b)
  <2>1. thread[t].pc = "putMetadata" /\ thread[t].pc \in FlushPcs /\ thread[t].held = {}
    BY <1>18, ThreadFields DEF PutMetadata, At, FlushPcs, WellFormed
  <2>2. \A ok : FlushReturns(t, ok) => Moved(t)
    BY <2>1, FlushReturnsMoves
  <2> QED
    BY <1>18, <2>2, <1>g, <1>w, <1>m DEF PutMetadata, At
<1>19. CASE HasBlob(t, b)
  <2>1. thread[t].pc = "hasBlob" /\ thread[t].pc \in FlushPcs /\ thread[t].held = {}
    BY <1>19, ThreadFields DEF HasBlob, At, FlushPcs, WellFormed
  <2>2. \A ok : FlushReturns(t, ok) => Moved(t)
    BY <2>1, FlushReturnsMoves
  <2> QED
    BY <1>19, <2>2, <1>g, <1>w, <1>m DEF HasBlob, At
<1>20. CASE GetMetadata(t, b)
  <2>1. thread[t].pc = "getMetadata" /\ thread[t].pc \in FlushPcs /\ thread[t].held = {}
    BY <1>20, ThreadFields DEF GetMetadata, At, FlushPcs, WellFormed
  <2>2. \A ok : FlushReturns(t, ok) => Moved(t)
    BY <2>1, FlushReturnsMoves
  <2> QED
    BY <1>20, <2>2, <1>g, <1>w, <1>m DEF GetMetadata, At
<1>21. CASE Drain(t, b)
  <2> DEFINE h == FreshSlivers(cache)[b].slivers
             r == [thread[t] EXCEPT !.pc = "store", !.held = h]
  <2>0. thread[t].pc = "drain" /\ thread[t] \in Records /\ WellFormed(t, thread[t])
    BY <1>21, ThreadFields DEF Drain, At
  <2>1. thread' = [thread EXCEPT ![t] = r] /\ thread'[t] = r
    BY <1>21, <2>0 DEF Drain, ThreadsOK
  <2>2. h \in SUBSET Slivers
    BY ThreadFields DEF TypeOK, FreshSlivers, NoEntry, b
  <2> HIDE DEF h
  <2>3. /\ r \in Records /\ r.pc = "store" /\ r.item = thread[t].item
        /\ r.blob = thread[t].blob
    BY <2>0, <2>2 DEF Records, FlushPcs
  <2> HIDE DEF r
  <2>4. (t \in Requests => RequestRecord(r)) /\ (t \in Blobs => WorkerRecord(t, r))
    BY <2>0, <2>3 DEF WellFormed, RequestRecord, WorkerRecord, FlushPcs, MetadataPcs, SliverPcs,
                      ConfirmationPcs
  <2>5. WellFormed(t, r)
    BY <2>3, <2>4 DEF WellFormed
  <2> QED
    BY <2>0, <2>1, <2>3, <2>5 DEF Moved, Waits, At
<1>22. CASE FlushSliver(t, b)
  <2>0. thread[t].pc = "store" /\ thread[t] \in Records /\ WellFormed(t, thread[t])
    BY <1>22, ThreadFields DEF FlushSliver, At
  <2>1. ASSUME NEW s, thread' = [thread EXCEPT ![t].held = @ \ {s}]
        PROVE  Moved(t)
    <3> DEFINE r == [thread[t] EXCEPT !.held = @ \ {s}]
    <3>1. thread' = [thread EXCEPT ![t] = r] /\ thread'[t] = r
      BY <2>0, <2>1 DEF ThreadsOK
    <3>2. /\ r \in Records /\ r.pc = "store" /\ r.item = thread[t].item
          /\ r.blob = thread[t].blob
      BY <2>0 DEF Records
    <3> HIDE DEF r
    <3>3. WellFormed(t, r)
      BY <2>0, <3>2 DEF WellFormed, RequestRecord, WorkerRecord
    <3> QED
      BY <2>0, <3>1, <3>2, <3>3 DEF Moved, Waits, At
  <2>2. ASSUME FlushReturns(t, FALSE) PROVE Moved(t)
    BY <2>0, <2>2, FlushReturnsMoves DEF FlushPcs
  <2> QED
    BY <1>22, <2>1, <2>2 DEF FlushSliver
<1>23. CASE FlushEnds(t, b)
  BY <1>23, FlushReturnsMoves DEF FlushEnds, At, FlushPcs
<1>24. CASE CheckBeforeWait(t, b)
  <2>0. thread[t].pc = "subscribed" /\ thread[t] \in Records /\ WellFormed(t, thread[t])
    BY <1>24, ThreadFields DEF CheckBeforeWait, At
  <2>1. CASE registered[b]
    <3> DEFINE r == [thread[t] EXCEPT !.pc = "compute", !.flag = FALSE]
    <3>1. thread' = [thread EXCEPT ![t] = r] /\ thread'[t] = r
      BY <1>24, <2>0, <2>1 DEF CheckBeforeWait, ThreadsOK
    <3>2. /\ r \in Records /\ r.pc = "compute" /\ r.item = thread[t].item
          /\ r.blob = thread[t].blob /\ r.held = thread[t].held
      BY <2>0 DEF Records, ConfirmationPcs
    <3> HIDE DEF r
    <3>3. (t \in Requests => RequestRecord(r)) /\ (t \in Blobs => WorkerRecord(t, r))
      BY <2>0, <3>2 DEF WellFormed, RequestRecord, WorkerRecord, FlushPcs, MetadataPcs,
                        SliverPcs, ConfirmationPcs
    <3>4. WellFormed(t, r)
      BY <2>0, <3>2, <3>3 DEF WellFormed
    <3> QED
      BY <2>0, <3>1, <3>2, <3>4 DEF Moved, Waits, At
  <2>2. CASE ~registered[b]
    <3>1. Goto(t, "hasPending") /\ ~registered[thread[t].blob] /\ At(t, "subscribed")
      BY <1>24, <2>2 DEF CheckBeforeWait, Goto, b
    <3> QED
      BY <1>h, <3>1, FollowsMoves
  <2> QED
    BY <2>1, <2>2
<1>25. CASE HasPendingData(t, b)
  <2>1. At(t, "hasPending") /\ (Goto(t, "waiting") \/ Return(t, FALSE))
    BY <1>25 DEF HasPendingData
  <2>2. CASE Goto(t, "waiting")
    BY <1>h, <2>1, <2>2, FollowsMoves
  <2>3. CASE Return(t, FALSE)
    BY <2>1, <2>3, ReturnMoves DEF At
  <2> QED
    BY <2>1, <2>2, <2>3
<1> QED
  BY <1>1, <1>2, <1>3, <1>4, <1>5, <1>6, <1>7, <1>8, <1>9, <1>10, <1>11, <1>12, <1>13,
     <1>14, <1>15, <1>16, <1>17, <1>18, <1>19, <1>20, <1>21, <1>22, <1>23, <1>24, <1>25
     DEF Step, b

\* A request arrives.
Starts(t) ==
  \E b \in Blobs : \/ StoreMetadata(t, b) \/ ConfirmationRequest(t, b)
                   \/ \E s \in Slivers : StoreSliver(t, b, s)

Arrivals == {"hasMetadata", "prepare", "pending", "compute"}

Started(t) ==
  /\ Moved(t) /\ At(t, "idle") /\ thread'[t].held = {} /\ thread'[t].pc \in Arrivals
  /\ thread'[t].pc = "prepare" => storedMetadata[thread'[t].blob]

(* A request arrives with a record of its own kind. *)
LEMMA StartMoves ==
  ASSUME TypeOK, ThreadsOK, NEW t \in Requests, Starts(t)
  PROVE  Started(t)
<1>0. t \in Threads /\ t \notin Blobs
  BY ThreadsAssumption DEF Threads
<1>i. /\ Idle \in Records /\ Idle.held = {}
  BY <1>0, EndedWellFormed DEF WellFormed, Idle
<1>1. ASSUME NEW b \in Blobs, NEW pc \in Arrivals,
             NEW item \in Slivers \cup {Metadata, Confirmation}, NEW flag \in BOOLEAN,
             pc = "hasMetadata" => item = Metadata,
             pc \in {"prepare", "pending"} => item \in Slivers,
             pc = "compute" => item = Confirmation,
             thread' = [thread EXCEPT ![t] =
                          [Idle EXCEPT !.pc = pc, !.blob = b, !.item = item, !.flag = flag]],
             At(t, "idle"), pc = "prepare" => storedMetadata[b]
      PROVE  Started(t)
  <2> DEFINE r == [Idle EXCEPT !.pc = pc, !.blob = b, !.item = item, !.flag = flag]
  <2>1. thread' = [thread EXCEPT ![t] = r] /\ thread'[t] = r
    BY <1>0, <1>1 DEF ThreadsOK
  <2>2. r \in Records /\ r.pc = pc /\ r.item = item /\ r.held = {} /\ r.blob = b
    BY <1>i, <1>1 DEF Records, MetadataPcs, SliverPcs, ConfirmationPcs, Arrivals
  <2> HIDE DEF r
  <2>3. RequestRecord(r)
    BY <1>1, <2>2 DEF RequestRecord, FlushPcs, MetadataPcs, SliverPcs, ConfirmationPcs, Arrivals
  <2>4. WellFormed(t, r)
    BY <1>0, <2>2, <2>3 DEF WellFormed
  <2>5. pc \notin Waits /\ pc # "idle"
    BY DEF Waits, Arrivals
  <2> QED
    BY <1>0, <1>1, <2>1, <2>2, <2>4, <2>5 DEF Moved, Started, Arrivals
<1> PICK b \in Blobs : \/ StoreMetadata(t, b) \/ ConfirmationRequest(t, b)
                       \/ \E s \in Slivers : StoreSliver(t, b, s)
  BY DEF Starts
<1>2. CASE StoreMetadata(t, b)
  <2>1. registered[b] \in BOOLEAN
    BY DEF TypeOK
  <2>2. At(t, "idle") /\ thread' = [thread EXCEPT ![t] =
          [Idle EXCEPT !.pc = "hasMetadata", !.blob = b, !.item = Metadata,
                       !.flag = registered[b]]]
    BY <1>2 DEF StoreMetadata
  <2> QED
    BY <1>1, <2>1, <2>2 DEF Arrivals
<1>3. CASE ConfirmationRequest(t, b)
  <2>1. PICK waits \in BOOLEAN :
          thread' = [thread EXCEPT ![t] =
                       [Idle EXCEPT !.pc = "compute", !.blob = b, !.item = Confirmation,
                                    !.flag = waits]]
    BY <1>3 DEF ConfirmationRequest
  <2>2. At(t, "idle")
    BY <1>3 DEF ConfirmationRequest
  <2> QED
    BY <1>1, <2>1, <2>2 DEF Arrivals
<1>4. ASSUME NEW s \in Slivers, StoreSliver(t, b, s)
      PROVE  Started(t)
  <2> DEFINE pc == IF storedMetadata[b] THEN "prepare" ELSE "pending"
  <2>1. /\ storedMetadata[b] \in BOOLEAN /\ pc \in {"prepare", "pending"}
        /\ pc = "prepare" => storedMetadata[b]
    BY DEF TypeOK
  <2>2. At(t, "idle") /\ thread' = [thread EXCEPT ![t] =
          [Idle EXCEPT !.pc = pc, !.blob = b, !.item = s, !.flag = storedMetadata[b]]]
    BY <1>4 DEF StoreSliver
  <2> HIDE DEF pc
  <2> QED
    BY <1>1, <2>1, <2>2 DEF Arrivals
<1> QED
  BY <1>2, <1>3, <1>4

\* The steps that one thread takes.
ThreadStep(t) ==
  \/ t \in Requests /\ Starts(t)
  \/ Step(t)
  \/ t \in Requests /\ (Timeout(t) \/ Disconnect(t))
  \/ t \in Blobs /\ ProcessCertifiedEvent(t)

(* Whatever step a thread takes, only its own record changes. *)
LEMMA ThreadMoves ==
  ASSUME TypeOK, ThreadsOK, NEW t \in Threads, ThreadStep(t)
  PROVE  Moved(t)
<1>1. CASE t \in Requests /\ Starts(t)
  BY <1>1, StartMoves DEF Started
<1>2. CASE Step(t)
  BY <1>2, StepMoves
<1>3. CASE t \in Requests /\ Timeout(t)
  BY <1>3, ReturnMoves DEF Timeout, At
<1>4. CASE t \in Requests /\ Disconnect(t)
  BY <1>4, EndsMoves DEF Disconnect, At
<1>5. CASE t \in Blobs /\ ProcessCertifiedEvent(t)
  BY <1>5, EndsMoves DEF ProcessCertifiedEvent, At
<1> QED
  BY <1>1, <1>2, <1>3, <1>4, <1>5 DEF ThreadStep

(* Every step is one of a thread, or of the event processor, or of time. *)
LEMMA NextCases ==
  ASSUME Next
  PROVE  \/ \E t \in Threads : ThreadStep(t)
         \/ \E b \in Blobs : UpdateBlobInfo(b) \/ HandleRegisteredEvent(b)
         \/ Expire
BY DEF Next, ThreadStep, Starts, Threads

(* What a thread's step leaves alone. *)
LEMMA MovedOthers ==
  ASSUME ThreadsOK, NEW t \in Threads, Moved(t)
  PROVE  ThreadsOK' /\ \A u \in Threads \ {t} : thread'[u] = thread[u]
<1>1. thread' = [thread EXCEPT ![t] = thread'[t]] /\ WellFormed(t, thread'[t])
  BY DEF Moved
<1> DEFINE r == thread'[t]
<1>2. r \in Records
  BY <1>1 DEF WellFormed
<1> HIDE DEF r
<1>3. \A u \in Threads : thread'[u] = IF u = t THEN r ELSE thread[u]
  BY <1>1 DEF ThreadsOK, r
<1>4. thread' \in [Threads -> Records]
  BY <1>1, <1>2 DEF ThreadsOK, r
<1>5. \A u \in Threads : WellFormed(u, thread'[u])
  BY <1>1, <1>3 DEF ThreadsOK, r
<1> QED
  BY <1>3, <1>4, <1>5 DEF ThreadsOK, WellFormed, RequestRecord, WorkerRecord

(* The handling of a registration starts the worker and clears flags. *)
LEMMA HandledThreads ==
  ASSUME ThreadsOK, NEW b \in Blobs, HandleRegisteredEvent(b)
  PROVE  /\ ThreadsOK'
         /\ thread'[b].pc = "flush" /\ thread'[b].blob = b /\ thread'[b].held = {}
         /\ thread'[b].item = Flush /\ At(b, "idle") /\ registered[b]
         /\ \A u \in Threads \ {b} :
              /\ thread'[u].pc = thread[u].pc /\ thread'[u].blob = thread[u].blob
              /\ thread'[u].item = thread[u].item /\ thread'[u].held = thread[u].held
              /\ u \in NotifyWaiters(b) => thread'[u].flag = FALSE
              /\ u \notin NotifyWaiters(b) => thread'[u].flag = thread[u].flag
<1> DEFINE r == [Idle EXCEPT !.pc = "flush", !.blob = b]
           q(u) == [thread[u] EXCEPT !.flag = FALSE]
<1>0. b \in Threads /\ b \notin Requests
  BY ThreadsAssumption DEF Threads
<1>1. Idle \in Records /\ Idle.held = {} /\ Idle.item = Flush
  BY <1>0, EndedWellFormed DEF WellFormed, Idle
<1>2. r \in Records /\ r.pc = "flush" /\ r.blob = b /\ r.held = {} /\ r.item = Flush
  BY <1>1 DEF Records, FlushPcs
<1>3. WellFormed(b, r)
  BY <1>0, <1>2 DEF WellFormed, WorkerRecord, FlushPcs
<1>4. \A u \in Threads :
        thread'[u] = IF u = b THEN r ELSE IF u \in NotifyWaiters(b) THEN q(u) ELSE thread[u]
  BY DEF HandleRegisteredEvent
<1>d. DOMAIN thread' = Threads /\ thread' = [u \in Threads |-> thread'[u]]
  BY DEF HandleRegisteredEvent
<1>5. \A u \in Threads :
        /\ q(u) \in Records /\ q(u).pc = thread[u].pc /\ q(u).blob = thread[u].blob
        /\ q(u).item = thread[u].item /\ q(u).held = thread[u].held /\ q(u).flag = FALSE
  BY ThreadFields DEF Records
<1>6. \A u \in Threads : WellFormed(u, thread[u])
  BY DEF ThreadsOK
<1> HIDE DEF r, q
<1>7. \A u \in Threads : WellFormed(u, q(u))
  BY <1>5, <1>6 DEF WellFormed, RequestRecord, WorkerRecord
<1>8. \A u \in Threads : WellFormed(u, thread'[u]) /\ thread'[u] \in Records
  BY <1>2, <1>3, <1>4, <1>5, <1>6, <1>7, ThreadFields
<1>9. ThreadsOK'
  BY <1>d, <1>8 DEF ThreadsOK, WellFormed, RequestRecord, WorkerRecord
<1>10. At(b, "idle") /\ registered[b]
  BY DEF HandleRegisteredEvent
<1>11. thread'[b] = r
  BY <1>0, <1>4
<1>12. ASSUME NEW u \in Threads \ {b}
       PROVE  /\ thread'[u].pc = thread[u].pc /\ thread'[u].blob = thread[u].blob
              /\ thread'[u].item = thread[u].item /\ thread'[u].held = thread[u].held
              /\ u \in NotifyWaiters(b) => thread'[u].flag = FALSE
              /\ u \notin NotifyWaiters(b) => thread'[u].flag = thread[u].flag
  <2>1. CASE u \in NotifyWaiters(b)
    <3>1. thread'[u] = q(u)
      BY <1>4, <2>1
    <3> QED
      BY <1>5, <2>1, <3>1
  <2>2. CASE u \notin NotifyWaiters(b)
    <3>1. thread'[u] = thread[u]
      BY <1>4, <2>2
    <3> QED
      BY <2>2, <3>1
  <2> QED
    BY <2>1, <2>2
<1> QED
  BY <1>2, <1>9, <1>10, <1>11, <1>12

-----------------------------------------------------------------------------
(* Types, and what is acknowledged *)

\* From here on an upload has its data in the cache, or in storage.
InsertedPcs == FlushPcs \cup {"recheck"}

\* What a step of thread t acknowledges.
Acks(t) ==
  \/ acked' = acked
  \/ /\ acked' = [acked EXCEPT ![thread[t].blob] = @ \cup {thread[t].item}]
     /\ \/ thread[t].item = Metadata
        \/ /\ thread[t].item \in Slivers
           /\ \/ thread[t].item \in stored'[thread[t].blob]
              \/ thread[t].pc \in InsertedPcs

(* Only metadata is acknowledged, or a sliver that is stored or was inserted. *)
LEMMA StepAcks ==
  ASSUME TypeOK, ThreadsOK, NEW t \in Threads, Step(t)
  PROVE  Acks(t)
<1> DEFINE b == thread[t].blob
<1>t. WellFormed(t, thread[t])
      /\ thread[t].item \in Slivers \cup {Metadata, Confirmation, Flush}
  BY ThreadFields
<1>p. /\ thread[t].pc \in MetadataPcs => thread[t].item = Metadata
      /\ thread[t].pc \in SliverPcs => thread[t].item \in Slivers
      /\ thread[t].pc \in ConfirmationPcs => thread[t].item = Confirmation
      /\ thread[t].pc = "recheck" => thread[t].item \in Slivers \cup {Metadata}
  BY <1>t DEF WellFormed, WorkerRecord, RequestRecord, Threads, FlushPcs, MetadataPcs, SliverPcs,
              ConfirmationPcs
<1>g. \A q : Goto(t, q) => Acks(t)
  BY DEF Goto, Acks
<1>n. Return(t, FALSE) => Acks(t)
  BY DEF Return, Acks
<1>m. thread[t].pc \in MetadataPcs /\ Return(t, TRUE) => Acks(t)
  BY <1>p DEF Return, Acks, Metadata, Confirmation
<1>c. \A ok \in BOOLEAN : thread[t].pc \in ConfirmationPcs /\ Return(t, ok) => Acks(t)
  BY <1>p DEF Return, Acks
<1>s. thread[t].pc \in SliverPcs /\ thread[t].item \in stored'[b] /\ Return(t, TRUE) => Acks(t)
  BY <1>p DEF Return, Acks
<1>i. thread[t].pc \in InsertedPcs /\ thread[t].item \in Slivers \cup {Metadata}
        /\ Return(t, TRUE) => Acks(t)
  BY DEF Return, Acks
<1>j. \A ok \in BOOLEAN : thread[t].pc \in FlushPcs /\ FlushReturns(t, ok) => Acks(t)
  <2> SUFFICES ASSUME NEW ok \in BOOLEAN, thread[t].pc \in FlushPcs, FlushReturns(t, ok)
               PROVE  Acks(t)
    OBVIOUS
  <2>1. CASE thread[t].item = Flush
    BY <2>1 DEF FlushReturns, Acks
  <2>2. CASE thread[t].item = Confirmation
    BY <2>2, <1>g, <1>n DEF FlushReturns, Flush, Confirmation
  <2>3. CASE thread[t].item \in Slivers \cup {Metadata}
    <3>1. thread[t].item # Flush /\ thread[t].item # Confirmation
      BY <2>3, ThreadsAssumption DEF Metadata, Flush, Confirmation
    <3> QED
      BY <2>3, <3>1, <1>i, <1>n DEF FlushReturns, InsertedPcs
  <2> QED
    BY <1>t, <2>1, <2>2, <2>3
<1>a. Confirm(t, b) => Acks(t)
  BY <1>p DEF Confirm, At, Return, Acks, ConfirmationPcs
<1> HIDE DEF b
<1>1. CASE HasMetadata(t, b)
  BY <1>1, <1>g, <1>n, <1>m DEF HasMetadata, At, MetadataPcs
<1>2. CASE ContainsMetadata(t, b)
  BY <1>2, <1>g, <1>n, <1>m DEF ContainsMetadata, At, MetadataPcs
<1>3. CASE PersistCheck(t, b)
  BY <1>3, <1>g, <1>n, <1>m DEF PersistCheck, At, MetadataPcs
<1>4. CASE PersistVerifiedMetadata(t, b)
  BY <1>4, <1>g, <1>n, <1>m DEF PersistVerifiedMetadata, At, MetadataPcs
<1>5. CASE RemovePersisted(t, b)
  BY <1>5, <1>g, <1>n, <1>m DEF RemovePersisted, At, MetadataPcs
<1>6. CASE InsertMetadata(t, b)
  BY <1>6, <1>g, <1>n, <1>m DEF InsertMetadata, At, MetadataPcs
<1>7. CASE RecheckRegistration(t, b)
  BY <1>7, <1>p, <1>g, <1>i DEF RecheckRegistration, AfterInsert, At, InsertedPcs
<1>8. CASE ResolvePendingMetadata(t, b)
  BY <1>8, <1>g, <1>n DEF ResolvePendingMetadata
<1>9. CASE PrepareSliver(t, b)
  <2>1. thread[t].pc \in SliverPcs /\ stored' = stored
    BY <1>9 DEF PrepareSliver, At, SliverPcs, storage
  <2> QED
    BY <1>9, <2>1, <1>g, <1>n, <1>s DEF PrepareSliver
<1>10. CASE PutSliver(t, b)
  <2>1. thread[t].pc \in SliverPcs
    BY <1>10 DEF PutSliver, At, SliverPcs
  <2>2. CASE stored' = [stored EXCEPT ![b] = @ \cup {thread[t].item}] /\ Return(t, TRUE)
    <3>1. thread[t].item \in stored'[b]
      BY <2>2, ThreadFields DEF TypeOK, b
    <3> QED
      BY <2>1, <2>2, <3>1, <1>s
  <2> QED
    BY <1>10, <2>2, <1>n DEF PutSliver
<1>11. CASE InsertSliver(t, b)
  BY <1>11, <1>g, <1>n DEF InsertSliver
<1>12. CASE FlushMetadata(t, b)
  BY <1>12, <1>g, <1>n DEF FlushMetadata
<1>13. CASE RemoveMetadata(t, b)
  BY <1>13, <1>g, <1>n DEF RemoveMetadata
<1>14. CASE PutMetadata(t, b)
  BY <1>14, <1>g, <1>j DEF PutMetadata, At, FlushPcs
<1>15. CASE HasBlob(t, b)
  BY <1>15, <1>g, <1>j DEF HasBlob, At, FlushPcs
<1>16. CASE GetMetadata(t, b)
  BY <1>16, <1>g, <1>j DEF GetMetadata, At, FlushPcs
<1>17. CASE Drain(t, b)
  BY <1>17 DEF Drain, Acks
<1>18. CASE FlushSliver(t, b)
  BY <1>18, <1>g, <1>j DEF FlushSliver, At, FlushPcs, Acks
<1>19. CASE FlushEnds(t, b)
  BY <1>19, <1>g, <1>j DEF FlushEnds, At, FlushPcs
<1>20. CASE ComputeStorageConfirmation(t, b)
  BY <1>20, <1>g, <1>n DEF ComputeStorageConfirmation
<1>21. CASE Confirm(t, b)
  BY <1>21, <1>a
<1>22. CASE Subscribe(t, b)
  BY <1>22, <1>g, <1>n DEF Subscribe
<1>23. CASE CheckBeforeWait(t, b)
  BY <1>23 DEF CheckBeforeWait, Acks
<1>24. CASE HasPendingData(t, b)
  BY <1>24, <1>g, <1>n DEF HasPendingData
<1>25. CASE Woken(t, b)
  BY <1>25, <1>g, <1>n DEF Woken
<1> QED
  BY <1>1, <1>2, <1>3, <1>4, <1>5, <1>6, <1>7, <1>8, <1>9, <1>10, <1>11, <1>12, <1>13,
     <1>14, <1>15, <1>16, <1>17, <1>18, <1>19, <1>20, <1>21, <1>22, <1>23, <1>24, <1>25
     DEF Step, b

(* Starting and giving up acknowledge nothing. *)
LEMMA ThreadAcks ==
  ASSUME TypeOK, ThreadsOK, NEW t \in Threads, ThreadStep(t)
  PROVE  Acks(t)
<1>1. CASE Step(t)
  BY <1>1, StepAcks
<1>2. CASE t \in Requests /\ Starts(t)
  BY <1>2 DEF Starts, StoreMetadata, ConfirmationRequest, StoreSliver, Acks
<1>3. CASE t \in Requests /\ (Timeout(t) \/ Disconnect(t))
  BY <1>3 DEF Timeout, Disconnect, Return, Acks
<1>4. CASE t \in Blobs /\ ProcessCertifiedEvent(t)
  BY <1>4 DEF ProcessCertifiedEvent, Acks
<1> QED
  BY <1>1, <1>2, <1>3, <1>4 DEF ThreadStep

\* The type invariant without what was acknowledged.
DataOK ==
  /\ storedMetadata \in [Blobs -> BOOLEAN] /\ stored \in [Blobs -> SUBSET Slivers]
  /\ metadata \in [Blobs -> {"none", "fresh", "expired"}]
  /\ cache \in [Blobs -> [slivers : SUBSET Slivers, fresh : BOOLEAN]]

BoundsOK ==
  /\ expiries \in 0 .. MaxExpiries /\ faults \in 0 .. MaxFaults
  /\ disconnects \in 0 .. MaxDisconnects /\ overflowed \in BOOLEAN

\* A write fails, and what is put back into the cache may find no room.
Failed == Fails /\ overflowed' \in {overflowed, TRUE}

(* Evicting, adding and making room yield caches. *)
LEMMA CacheTypes ==
  ASSUME DataOK
  PROVE  /\ FreshMetadata \in [Blobs -> {"none", "fresh"}]
         /\ \A c \in [Blobs -> [slivers : SUBSET Slivers, fresh : BOOLEAN]] :
              /\ FreshSlivers(c) \in [Blobs -> [slivers : SUBSET Slivers, fresh : BOOLEAN]]
              /\ \A n : EnsureCapacity(c, n) \in
                          [Blobs -> [slivers : SUBSET Slivers, fresh : BOOLEAN]]
              /\ \A b \in Blobs, new \in SUBSET Slivers :
                   AddSlivers(c, b, new) \in
                     [Blobs -> [slivers : SUBSET Slivers, fresh : BOOLEAN]]
<1>1. FreshMetadata \in [Blobs -> {"none", "fresh"}]
  BY DEF DataOK, FreshMetadata
<1> DEFINE C == [Blobs -> [slivers : SUBSET Slivers, fresh : BOOLEAN]]
<1>0. NoEntry \in [slivers : SUBSET Slivers, fresh : BOOLEAN]
  BY DEF NoEntry
<1>2. ASSUME NEW c \in C PROVE FreshSlivers(c) \in C
  BY <1>0 DEF FreshSlivers
<1>3. ASSUME NEW c \in C, NEW n PROVE EnsureCapacity(c, n) \in C
  BY <1>2 DEF EnsureCapacity
<1>4. ASSUME NEW c \in C, NEW b \in Blobs, NEW new \in SUBSET Slivers
      PROVE  AddSlivers(c, b, new) \in C
  BY DEF AddSlivers
<1> QED
  BY <1>1, <1>2, <1>3, <1>4

(* The bounds only grow: a step leaves them alone or one of them counts. *)
LEMMA StepBounds ==
  ASSUME NEW t, Step(t)
  PROVE  registered' = registered /\ (UNCHANGED bounds \/ Failed)
<1>1. \A b, slivers : Reinsert(b, slivers) => overflowed' \in {overflowed, TRUE}
  BY DEF Reinsert
<1> QED
  BY <1>1 DEF Fault, Failed, Step, HasMetadata, ContainsMetadata, PersistCheck, PersistVerifiedMetadata,
     RemovePersisted, InsertMetadata, RecheckRegistration, ResolvePendingMetadata,
     PrepareSliver, PutSliver, InsertSliver, FlushMetadata, RemoveMetadata, PutMetadata,
     HasBlob, GetMetadata, Drain, FlushSliver, FlushEnds, ComputeStorageConfirmation,
     Confirm, Subscribe, CheckBeforeWait, HasPendingData, Woken

(* The caches and the storage keep their types. *)
LEMMA StepData ==
  ASSUME TypeOK, ThreadsOK, NEW t \in Threads, Step(t)
  PROVE  DataOK'
<1> DEFINE b == thread[t].blob
<1>0. b \in Blobs /\ thread[t].held \subseteq Slivers /\ WellFormed(t, thread[t])
  BY ThreadFields
<1>d. DataOK
  BY DEF TypeOK, DataOK
<1>m. FreshMetadata \in [Blobs -> {"none", "fresh"}]
  BY <1>d, CacheTypes
<1>p. thread[t].pc \in SliverPcs => thread[t].item \in Slivers
  BY <1>0 DEF WellFormed, WorkerRecord, RequestRecord, Threads, FlushPcs, SliverPcs
<1> HIDE DEF b
<1>1. CASE \/ HasMetadata(t, b) \/ PersistCheck(t, b) \/ RecheckRegistration(t, b)
           \/ PrepareSliver(t, b) \/ FlushMetadata(t, b) \/ GetMetadata(t, b) \/ FlushEnds(t, b)
           \/ ComputeStorageConfirmation(t, b) \/ Confirm(t, b) \/ Subscribe(t, b) \/ CheckBeforeWait(t, b)
           \/ Woken(t, b)
  BY <1>1, <1>d DEF DataOK, storage, caches, HasMetadata, PersistCheck,
     RecheckRegistration, PrepareSliver, FlushMetadata, GetMetadata, FlushEnds,
     ComputeStorageConfirmation, Confirm, Subscribe, CheckBeforeWait, Woken
<1>2. CASE ContainsMetadata(t, b) \/ ResolvePendingMetadata(t, b)
  BY <1>2, <1>d, <1>m DEF DataOK, storage, ContainsMetadata, ResolvePendingMetadata
<1>3. CASE RemovePersisted(t, b) \/ RemoveMetadata(t, b)
  BY <1>3, <1>d, <1>m, <1>0 DEF DataOK, storage, RemovePersisted, RemoveMetadata
<1>4. CASE InsertMetadata(t, b)
  <2>1. metadata' = FreshMetadata \/ metadata' = [FreshMetadata EXCEPT ![b] = "fresh"]
    BY <1>4 DEF InsertMetadata
  <2>2. metadata' \in [Blobs -> {"none", "fresh", "expired"}]
    BY <1>0, <1>m, <2>1
  <2> QED
    BY <1>4, <1>d, <2>2 DEF DataOK, storage, InsertMetadata
<1>5. CASE PersistVerifiedMetadata(t, b) \/ PutMetadata(t, b)
  BY <1>5, <1>d, <1>0 DEF DataOK, caches, PersistVerifiedMetadata, PutMetadata
<1>6. CASE PutSliver(t, b)
  <2>1. thread[t].item \in Slivers
    BY <1>6, <1>p DEF PutSliver, At, SliverPcs
  <2>2. stored' = stored \/ stored' = [stored EXCEPT ![b] = @ \cup {thread[t].item}]
    BY <1>6 DEF PutSliver
  <2>3. stored' \in [Blobs -> SUBSET Slivers]
    BY <1>0, <1>d, <2>1, <2>2 DEF DataOK
  <2> QED
    BY <1>6, <1>d, <2>3 DEF DataOK, caches, PutSliver
<1>7. CASE InsertSliver(t, b)
  <2>1. thread[t].item \in Slivers
    BY <1>7, <1>p DEF InsertSliver, At, SliverPcs
  <2>2. cache' \in [Blobs -> [slivers : SUBSET Slivers, fresh : BOOLEAN]]
    <3> DEFINE isNew == thread[t].item \notin cache[b].slivers
               c == IF isNew THEN EnsureCapacity(cache, 1) ELSE cache
    <3>1. c \in [Blobs -> [slivers : SUBSET Slivers, fresh : BOOLEAN]]
      BY <1>d, CacheTypes DEF DataOK
    <3>2. cache' = c \/ cache' = AddSlivers(c, b, {thread[t].item})
      BY <1>7 DEF InsertSliver
    <3> HIDE DEF c
    <3>3. {thread[t].item} \in SUBSET Slivers
      BY <2>1
    <3>4. AddSlivers(c, b, {thread[t].item}) \in
            [Blobs -> [slivers : SUBSET Slivers, fresh : BOOLEAN]]
      BY <1>0, <1>d, <3>1, <3>3, CacheTypes
    <3> QED
      BY <3>1, <3>2, <3>4
  <2> QED
    BY <1>7, <1>d, <2>2 DEF DataOK, storage, InsertSliver
<1>8. CASE HasBlob(t, b) \/ HasPendingData(t, b)
  <2>1. cache' = FreshSlivers(cache) /\ (metadata' = metadata \/ metadata' = FreshMetadata)
    BY <1>8 DEF HasBlob, HasPendingData
  <2>2. cache' \in [Blobs -> [slivers : SUBSET Slivers, fresh : BOOLEAN]]
    BY <1>d, <2>1, CacheTypes DEF DataOK
  <2> QED
    BY <1>8, <1>d, <1>m, <2>1, <2>2 DEF DataOK, storage, HasBlob, HasPendingData
<1>9. CASE Drain(t, b)
  <2>1. cache' = [FreshSlivers(cache) EXCEPT ![b] = NoEntry]
    BY <1>9 DEF Drain
  <2>2. FreshSlivers(cache) \in [Blobs -> [slivers : SUBSET Slivers, fresh : BOOLEAN]]
    BY <1>d, CacheTypes DEF DataOK
  <2>3. cache' \in [Blobs -> [slivers : SUBSET Slivers, fresh : BOOLEAN]]
    BY <1>0, <2>1, <2>2 DEF NoEntry
  <2> QED
    BY <1>9, <1>d, <2>3 DEF DataOK, storage, Drain
<1>10. CASE FlushSliver(t, b)
  <2>1. ASSUME NEW s \in thread[t].held, stored' = [stored EXCEPT ![b] = @ \cup {s}],
               cache' = cache
        PROVE  DataOK'
    BY <1>10, <1>0, <1>d, <2>1 DEF DataOK, FlushSliver
  <2>2. ASSUME Reinsert(b, thread[t].held), stored' = stored
        PROVE  DataOK'
    <3> DEFINE kept == IF cache[b].fresh THEN cache ELSE [cache EXCEPT ![b] = NoEntry]
               new == thread[t].held \ kept[b].slivers
               c == EnsureCapacity(kept, Cardinality(new))
    <3>1. kept \in [Blobs -> [slivers : SUBSET Slivers, fresh : BOOLEAN]]
      BY <1>0, <1>d DEF DataOK, NoEntry
    <3>2. \E added \in SUBSET new : cache' = AddSlivers(c, b, added)
      BY <2>2 DEF Reinsert
    <3>3. new \subseteq Slivers
      BY <1>0
    <3> HIDE DEF kept, new
    <3>4. c \in [Blobs -> [slivers : SUBSET Slivers, fresh : BOOLEAN]]
      BY <1>d, <3>1, CacheTypes
    <3> HIDE DEF c
    <3>5. PICK added \in SUBSET Slivers : cache' = AddSlivers(c, b, added)
      BY <3>2, <3>3
    <3>6. cache' \in [Blobs -> [slivers : SUBSET Slivers, fresh : BOOLEAN]]
      BY <1>0, <1>d, <3>4, <3>5, CacheTypes
    <3> QED
      BY <1>10, <1>d, <2>2, <3>6 DEF DataOK, FlushSliver
  <2> QED
    BY <1>10, <2>1, <2>2 DEF FlushSliver
<1> QED
  BY <1>1, <1>2, <1>3, <1>4, <1>5, <1>6, <1>7, <1>8, <1>9, <1>10 DEF Step, b

(* What is acknowledged is a sliver or the metadata. *)
LEMMA AcksType ==
  ASSUME TypeOK, ThreadsOK, NEW t \in Threads, Acks(t)
  PROVE  acked' \in [Blobs -> SUBSET (Slivers \cup {Metadata})]
BY ThreadFields DEF TypeOK, Acks

(* Type correctness. *)
LEMMA NextType ==
  ASSUME TypeOK, ThreadsOK, [Next]_vars
  PROVE  TypeOK' /\ ThreadsOK'
<1>d. DataOK /\ BoundsOK /\ registered \in [Blobs -> BOOLEAN]
  BY DEF TypeOK, DataOK, BoundsOK
<1>q. ASSUME DataOK', BoundsOK', registered' \in [Blobs -> BOOLEAN],
             acked' \in [Blobs -> SUBSET (Slivers \cup {Metadata})]
      PROVE  TypeOK'
  BY <1>q DEF TypeOK, DataOK, BoundsOK
<1>n. MaxExpiries \in Nat /\ MaxFaults \in Nat /\ MaxDisconnects \in Nat
  BY BoundsAssumption
<1>1. ASSUME NEW t \in Threads, ThreadStep(t)
      PROVE  TypeOK' /\ ThreadsOK'
  <2>1. ThreadsOK'
    BY <1>1, ThreadMoves, MovedOthers
  <2>2. acked' \in [Blobs -> SUBSET (Slivers \cup {Metadata})]
    BY <1>1, ThreadAcks, AcksType
  <2>3. CASE Step(t)
    <3>1. DataOK' /\ registered' = registered /\ (UNCHANGED bounds \/ Failed)
      BY <2>3, StepData, StepBounds
    <3>2. BoundsOK'
      <4>1. (overflowed \in BOOLEAN)'
        BY <1>d, <3>1, Zenon DEF BoundsOK, bounds, Failed
      <4>2. UNCHANGED <<expiries, faults, disconnects>> \/ Fails
        BY <3>1 DEF bounds, Failed
      <4>3. /\ expiries' \in 0 .. MaxExpiries /\ faults' \in 0 .. MaxFaults
            /\ disconnects' \in 0 .. MaxDisconnects
        BY <1>d, <1>n, <4>2 DEF BoundsOK, Fails
      <4> QED
        BY <4>1, <4>3 DEF BoundsOK
    <3> QED
      BY <1>d, <1>q, <2>1, <2>2, <3>1, <3>2
  <2>4. CASE ~Step(t)
    <3>1. UNCHANGED <<registered, storage, caches>>
      BY <1>1, <2>4 DEF ThreadStep, Starts, StoreMetadata, ConfirmationRequest, StoreSliver,
                        Timeout, Disconnect, ProcessCertifiedEvent
    <3>2. UNCHANGED bounds \/ Disconnect(t)
      BY <1>1, <2>4 DEF ThreadStep, Starts, StoreMetadata, ConfirmationRequest, StoreSliver,
                        Timeout, ProcessCertifiedEvent
    <3>3. BoundsOK'
      BY <1>d, <1>n, <3>2 DEF BoundsOK, bounds, Disconnect
    <3> QED
      BY <1>d, <1>q, <2>1, <2>2, <3>1, <3>3 DEF DataOK, storage, caches
  <2> QED
    BY <2>3, <2>4
<1>2. ASSUME NEW b \in Blobs, UpdateBlobInfo(b)
      PROVE  TypeOK' /\ ThreadsOK'
  BY <1>2 DEF UpdateBlobInfo, TypeOK, ThreadsOK, storage, caches, bounds, WellFormed,
              RequestRecord, WorkerRecord
<1>3. ASSUME NEW b \in Blobs, HandleRegisteredEvent(b)
      PROVE  TypeOK' /\ ThreadsOK'
  <2>1. ThreadsOK'
    BY <1>3, HandledThreads
  <2> QED
    BY <1>3, <2>1 DEF HandleRegisteredEvent, TypeOK, storage, caches, bounds
<1>4. CASE Expire
  <2>1. ThreadsOK'
    BY <1>4 DEF Expire, ThreadsOK, WellFormed, RequestRecord, WorkerRecord
  <2>2. DataOK'
    BY <1>4, <1>d DEF Expire, DataOK, storage
  <2>3. BoundsOK'
    BY <1>4, <1>d, <1>n DEF Expire, BoundsOK
  <2>4. registered' = registered /\ acked' = acked
    BY <1>4 DEF Expire
  <2> QED
    BY <1>d, <1>q, <2>1, <2>2, <2>3, <2>4 DEF TypeOK
<1>5. CASE UNCHANGED vars
  BY <1>5 DEF vars, TypeOK, ThreadsOK, storage, caches, bounds, WellFormed, RequestRecord,
              WorkerRecord
<1> QED
  BY <1>1, <1>2, <1>3, <1>4, <1>5, NextCases

(* The initial state. *)
LEMMA InitType ==
  ASSUME Init
  PROVE  /\ TypeOK /\ ThreadsOK
         /\ \A t \in Threads : thread[t] = Idle /\ thread[t].pc = "idle" /\ thread[t].held = {}
<1>1. \A t \in Threads : WellFormed(t, Idle)
  BY EndedWellFormed
<1>2. Idle.pc = "idle" /\ Idle.held = {}
  BY DEF Idle
<1>3. \A t \in Threads : thread[t] = Idle
  BY DEF Init
<1>4. \A t \in Threads : Idle \in Records
  BY <1>1 DEF WellFormed
<1>5. thread \in [Threads -> Records]
  BY <1>4 DEF Init
<1>6. ThreadsOK
  BY <1>1, <1>3, <1>5 DEF ThreadsOK
<1>7. TypeOK
  <2>1. overflowed \in BOOLEAN
    BY Zenon DEF Init
  <2>2. /\ DataOK /\ registered \in [Blobs -> BOOLEAN]
        /\ acked \in [Blobs -> SUBSET (Slivers \cup {Metadata})]
    BY DEF Init, DataOK, NoEntry
  <2>3. /\ expiries \in 0 .. MaxExpiries /\ faults \in 0 .. MaxFaults
        /\ disconnects \in 0 .. MaxDisconnects
    BY BoundsAssumption DEF Init
  <2> QED
    BY <2>1, <2>2, <2>3 DEF TypeOK, DataOK
<1> QED
  BY <1>2, <1>3, <1>6, <1>7

-----------------------------------------------------------------------------
(* Waiting for a registration *)

\* The worker of a blob starts when the registration is in the blob info.
WorkersRegistered == \A b \in Blobs : ~At(b, "idle") => registered[b]

WakeupInv == TypeOK /\ ThreadsOK /\ WorkersRegistered /\ NoLostWakeup

(* A thread that starts to wait has seen that the blob is not registered, so *)
(* that the worker of the blob has yet to notify those who wait.             *)
LEMMA MovedWakeup ==
  ASSUME WakeupInv, NEW t \in Threads, Moved(t), registered' = registered
  PROVE  WorkersRegistered' /\ NoLostWakeup'
<1>0. /\ ThreadsOK /\ WorkersRegistered /\ NoLostWakeup
      /\ \A u \in Threads \ {t} : thread'[u] = thread[u]
  BY MovedOthers DEF WakeupInv
<1>1. /\ Requests \subseteq Threads /\ Blobs \subseteq Threads /\ Requests \cap Blobs = {}
  BY ThreadsAssumption DEF Threads
<1>2. \A u \in Threads : thread[u].blob \in Blobs
  BY <1>0, ThreadFields
<1>3. /\ thread'[t].pc # "idle" /\ (t \in Blobs => ~At(t, "idle"))
      /\ thread'[t].pc \in Waits =>
           /\ ~At(t, "idle") /\ thread'[t].flag = thread[t].flag
           /\ At(t, "hasPending") \/ ~registered[thread[t].blob]
  BY DEF Moved
<1>4. WorkersRegistered'
  BY <1>0, <1>1, <1>3 DEF WorkersRegistered, At
<1>5. \A b \in Blobs : thread'[b].pc # "idle" <=> thread[b].pc # "idle"
  BY <1>0, <1>1, <1>3 DEF At
<1>6. ASSUME NEW u \in Requests, thread'[u].pc \in Waits, thread'[thread'[u].blob].pc # "idle"
      PROVE  ~thread'[u].flag
  <2>1. CASE u # t
    <3>1. thread'[u] = thread[u] /\ thread[u].blob \in Blobs
      BY <1>0, <1>1, <1>2, <2>1
    <3>2. thread[u].pc \in Waits /\ thread[thread[u].blob].pc # "idle"
      BY <1>5, <1>6, <3>1
    <3>3. ~thread[u].flag
      BY <1>0, <3>2 DEF NoLostWakeup, At, Waits
    <3> QED
      BY <3>1, <3>3
  <2>2. CASE u = t
    <3>1. /\ ~At(t, "idle") /\ thread'[t].flag = thread[t].flag
          /\ At(t, "hasPending") \/ ~registered[thread[t].blob]
      BY <1>3, <1>6, <2>2
    <3>2. thread'[t].pc # "ended"
      BY <1>6, <2>2 DEF Waits
    <3>3. thread'[t].blob = thread[t].blob
      BY <3>1, <3>2 DEF Moved, Ended, Idle
    <3>4. thread[t].blob \in Blobs /\ thread[thread[t].blob].pc # "idle"
      BY <1>1, <1>2, <1>5, <1>6, <2>2, <3>3
    <3>5. registered[thread[t].blob]
      BY <1>0, <3>4 DEF WorkersRegistered, At
    <3>6. thread[t].pc = "hasPending"
      BY <3>1, <3>5 DEF At
    <3>7. ~thread[t].flag
      BY <1>0, <2>2, <3>4, <3>6 DEF NoLostWakeup, At
    <3> QED
      BY <2>2, <3>1, <3>7
  <2> QED
    BY <2>1, <2>2
<1>7. NoLostWakeup'
  BY <1>6 DEF NoLostWakeup, At, Waits
<1> QED
  BY <1>4, <1>7

(* The registration wakes everyone who waits. *)
LEMMA HandledWakeup ==
  ASSUME WakeupInv, NEW b \in Blobs, HandleRegisteredEvent(b)
  PROVE  WorkersRegistered' /\ NoLostWakeup'
<1>0. /\ ThreadsOK /\ WorkersRegistered /\ NoLostWakeup
  BY DEF WakeupInv
<1>1. /\ Requests \subseteq Threads /\ Blobs \subseteq Threads /\ Requests \cap Blobs = {}
  BY ThreadsAssumption DEF Threads
<1>2. /\ registered' = registered /\ registered[b]
      /\ thread'[b].pc = "flush"
      /\ \A u \in Threads \ {b} :
              /\ thread'[u].pc = thread[u].pc /\ thread'[u].blob = thread[u].blob
              /\ u \in NotifyWaiters(b) => thread'[u].flag = FALSE
              /\ u \notin NotifyWaiters(b) => thread'[u].flag = thread[u].flag
  BY <1>0, HandledThreads DEF HandleRegisteredEvent
<1>3. WorkersRegistered'
  BY <1>0, <1>1, <1>2 DEF WorkersRegistered, At
<1>4. ASSUME NEW u \in Requests, thread'[u].pc \in Waits, thread'[thread'[u].blob].pc # "idle"
      PROVE  ~thread'[u].flag
  <2>1. /\ u # b /\ thread[u].pc \in Waits /\ thread'[u].blob = thread[u].blob
        /\ thread[u].blob \in Blobs
    BY <1>0, <1>1, <1>2, <1>4, ThreadFields
  <2>2. CASE u \in NotifyWaiters(b)
    BY <1>1, <1>2, <2>1, <2>2
  <2>3. CASE u \notin NotifyWaiters(b)
    <3>1. thread[u].blob # b
      BY <2>1, <2>3 DEF NotifyWaiters, Waits, WaitingPcs
    <3>2. thread[thread[u].blob].pc # "idle"
      BY <1>1, <1>2, <1>4, <2>1, <3>1
    <3>3. ~thread[u].flag
      BY <1>0, <2>1, <3>2 DEF NoLostWakeup, At, Waits
    <3> QED
      BY <1>1, <1>2, <2>1, <2>3, <3>3
  <2> QED
    BY <2>2, <2>3
<1>5. NoLostWakeup'
  BY <1>4 DEF NoLostWakeup, At, Waits
<1> QED
  BY <1>3, <1>5

(* The threads, the workers and the requests that wait, for every step. *)
LEMMA NextWakeup ==
  ASSUME WakeupInv, [Next]_vars
  PROVE  WakeupInv'
<1>0. TypeOK' /\ ThreadsOK'
  BY NextType DEF WakeupInv
<1>1. ASSUME NEW t \in Threads, ThreadStep(t)
      PROVE  WorkersRegistered' /\ NoLostWakeup'
  <2>1. Moved(t)
    BY <1>1, ThreadMoves DEF WakeupInv
  <2>2. registered' = registered
    BY <1>1, StepBounds DEF ThreadStep, Starts, StoreMetadata, ConfirmationRequest, StoreSliver,
                            Timeout, Disconnect, ProcessCertifiedEvent
  <2> QED
    BY <2>1, <2>2, MovedWakeup
<1>2. ASSUME NEW b \in Blobs, UpdateBlobInfo(b)
      PROVE  WorkersRegistered' /\ NoLostWakeup'
  <2>1. thread' = thread /\ \A c \in Blobs : registered[c] => registered'[c]
    BY <1>2 DEF UpdateBlobInfo, WakeupInv, TypeOK
  <2> QED
    BY <2>1 DEF WakeupInv, WorkersRegistered, NoLostWakeup, At
<1>3. ASSUME NEW b \in Blobs, HandleRegisteredEvent(b)
      PROVE  WorkersRegistered' /\ NoLostWakeup'
  BY <1>3, HandledWakeup
<1>4. ASSUME Expire \/ UNCHANGED vars PROVE WorkersRegistered' /\ NoLostWakeup'
  <2>1. thread' = thread /\ registered' = registered
    BY <1>4 DEF Expire, vars
  <2> QED
    BY <2>1 DEF WakeupInv, WorkersRegistered, NoLostWakeup, At
<1>5. WorkersRegistered' /\ NoLostWakeup'
  BY <1>1, <1>2, <1>3, <1>4, NextCases
<1> QED
  BY <1>0, <1>5 DEF WakeupInv

(* Initially nobody waits. *)
LEMMA InitWakeup == Init => WakeupInv
<1> SUFFICES ASSUME Init PROVE WakeupInv
  OBVIOUS
<1>1. /\ TypeOK /\ ThreadsOK /\ \A t \in Threads : thread[t].pc = "idle"
  BY InitType
<1> QED
  BY <1>1 DEF WakeupInv, WorkersRegistered, NoLostWakeup, At, Threads

(* For any number of blobs and requests: the records of requests and workers *)
(* are well-formed, workers start after the registration, and no request     *)
(* misses the notification it waits for.                                     *)
THEOREM WakeupInvHolds == Spec => []WakeupInv
BY InitWakeup, NextWakeup, PTL DEF Spec

(* No notification is lost between the check of the registration and the     *)
(* wait (wait_for_registration_inner, handle_registered_event).              *)
THEOREM WakeupNeverLost == Spec => []NoLostWakeup
<1>1. WakeupInv => NoLostWakeup
  BY DEF WakeupInv
<1> QED
  BY <1>1, WakeupInvHolds, PTL

-----------------------------------------------------------------------------
(* Acknowledged slivers are kept *)

Kept(b) == stored[b] \cup cache[b].slivers \cup Held(b)

\* Nothing happened that is allowed to lose a sliver.
Undisturbed == expiries = 0 /\ disconnects = 0 /\ (faults = 0 \/ RoomForAll \/ ~overflowed)

NothingExpired == \A b \in Blobs : cache[b].fresh = TRUE /\ metadata[b] # "expired"

\* The sliver of an upload that has inserted it but has not been acknowledged yet.
InsertedKept ==
  \A t \in Threads : thread[t].item \in Slivers /\ thread[t].pc \in InsertedPcs =>
                       thread[t].item \in Kept(thread[t].blob)

KeptInv == Undisturbed => NothingExpired /\ InsertedKept /\ \A b \in Blobs : SliversKept(b)

\* A step of thread t passes slivers on, between cache, storage and what it holds.
Passed(t) ==
  /\ \A b \in Blobs : stored[b] \subseteq stored'[b]
  /\ \A b \in Blobs : \A s \in cache[b].slivers :
       s \in cache'[b].slivers \/ (thread'[t].blob = b /\ s \in thread'[t].held)
  /\ \A s \in thread[t].held :
       \/ s \in stored'[thread[t].blob] \/ s \in cache'[thread[t].blob].slivers
       \/ thread'[t].blob = thread[t].blob /\ s \in thread'[t].held

(* What is passed on is kept. *)
LEMMA PassedKept ==
  ASSUME ThreadsOK, NEW t \in Threads, Moved(t), Passed(t)
  PROVE  \A b \in Blobs : Kept(b) \subseteq Kept(b)'
<1> SUFFICES ASSUME NEW b \in Blobs, NEW s \in Kept(b)
             PROVE  s \in Kept(b)'
  OBVIOUS
<1>0. \A u \in Threads \ {t} : thread'[u] = thread[u]
  BY MovedOthers
<1>1. \A u \in Threads : thread'[u].blob = b /\ s \in thread'[u].held => s \in Kept(b)'
  BY DEF Kept, Held
<1>2. s \in stored'[b] \/ s \in cache'[b].slivers => s \in Kept(b)'
  BY DEF Kept
<1>3. CASE s \in stored[b]
  BY <1>3, <1>2 DEF Passed
<1>4. CASE s \in cache[b].slivers
  BY <1>4, <1>1, <1>2 DEF Passed
<1>5. CASE s \in Held(b)
  <2>1. PICK u \in Threads : thread[u].blob = b /\ s \in thread[u].held
    BY <1>5 DEF Held
  <2>2. CASE u = t
    BY <2>1, <2>2, <1>1, <1>2 DEF Passed
  <2>3. CASE u # t
    BY <2>1, <2>3, <1>0, <1>1
  <2> QED
    BY <2>2, <2>3
<1> QED
  BY <1>3, <1>4, <1>5 DEF Kept

(* If nothing has expired, there is nothing to evict. *)
LEMMA FreshSame ==
  ASSUME TypeOK, NothingExpired
  PROVE  /\ FreshSlivers(cache) = cache /\ FreshMetadata = metadata
         /\ \A n : EnsureCapacity(cache, n) = cache
<1>1. FreshSlivers(cache) = cache
  BY DEF TypeOK, NothingExpired, FreshSlivers
<1>2. FreshMetadata = metadata
  BY DEF TypeOK, NothingExpired, FreshMetadata
<1> QED
  BY <1>1, <1>2 DEF EnsureCapacity

(* If the cache is large enough for everything, or no sliver was dropped, all *)
(* that a failed flush puts back is in the cache.                             *)
LEMMA ReinsertKeeps ==
  ASSUME TypeOK, NothingExpired, RoomForAll \/ ~overflowed',
         NEW b \in Blobs, NEW held \in SUBSET Slivers, Reinsert(b, held)
  PROVE  cache' = AddSlivers(cache, b, held \ cache[b].slivers)
<1> DEFINE new == held \ cache[b].slivers
           inside == UNION {{a} \X cache[a].slivers : a \in Blobs}
           outside == {b} \X new
<1>0. \A a \in Blobs : cache[a].slivers \subseteq Slivers /\ cache[a].fresh = TRUE
  BY DEF TypeOK, NothingExpired
<1>1. PICK added \in SUBSET new :
        /\ Cardinality(added) =
             IF Cardinality(new) <= MaxSlivers - Count(cache) THEN Cardinality(new)
                                                              ELSE MaxSlivers - Count(cache)
        /\ cache' = AddSlivers(cache, b, added)
        /\ overflowed' = IF added = new THEN overflowed ELSE TRUE
  BY <1>0, FreshSame DEF Reinsert
<1>2. IsFiniteSet(Blobs \X Slivers) /\ IsFiniteSet(new) /\ IsFiniteSet(added)
  <2>1. IsFiniteSet(Blobs \X Slivers)
    BY ThreadsAssumption, FS_Product
  <2>2. IsFiniteSet(new)
    BY ThreadsAssumption, FS_Subset
  <2> QED
    BY <2>1, <2>2, FS_Subset
<1>3. inside \subseteq Blobs \X Slivers /\ outside \subseteq Blobs \X Slivers
  BY <1>0
<1>4. inside \cap outside = {}
  OBVIOUS
<1>5. IsFiniteSet(inside) /\ IsFiniteSet(outside)
  BY <1>2, <1>3, FS_Subset
<1>6. Cardinality(outside) = Cardinality(new)
  <2>1. IsFiniteSet({b}) /\ Cardinality({b}) = 1
    BY FS_Singleton
  <2>2. Cardinality(outside) = Cardinality({b}) * Cardinality(new)
    BY <1>2, <2>1, FS_Product
  <2>3. Cardinality(new) \in Nat
    BY <1>2, FS_CardinalityType
  <2> QED
    BY <2>1, <2>2, <2>3
<1>7. Cardinality(inside \cup outside) = Cardinality(inside) + Cardinality(outside)
  <2>1. Cardinality(inside \cup outside) =
          Cardinality(inside) + Cardinality(outside) - Cardinality(inside \cap outside)
    BY <1>5, FS_Union
  <2>2. Cardinality(inside \cap outside) = 0
    BY <1>4, FS_EmptySet
  <2>3. Cardinality(inside) \in Nat /\ Cardinality(outside) \in Nat
    BY <1>5, FS_CardinalityType
  <2> QED
    BY <2>1, <2>2, <2>3
<1>8. Cardinality(inside \cup outside) <= Cardinality(Blobs \X Slivers)
  BY <1>2, <1>3, FS_Subset
<1>9. Count(cache) = Cardinality(inside)
  BY DEF Count
<1>10. /\ Cardinality(inside) \in Nat /\ Cardinality(new) \in Nat /\ MaxSlivers \in Nat
       /\ Cardinality(Blobs \X Slivers) \in Nat
  BY <1>2, <1>5, FS_CardinalityType, BoundsAssumption
<1> HIDE DEF inside, outside, new
<1>11. ASSUME RoomForAll PROVE added = new
  <2>1. Cardinality(new) <= MaxSlivers - Count(cache)
    BY <1>6, <1>7, <1>8, <1>9, <1>10, <1>11 DEF RoomForAll
  <2>2. Cardinality(added) = Cardinality(new)
    BY <1>1, <2>1
  <2> QED
    BY <1>2, <2>2, FS_Subset
<1>12. ASSUME ~overflowed' PROVE added = new
  BY <1>1, <1>12
<1>13. added = new
  BY <1>11, <1>12
<1> QED
  BY <1>1, <1>13 DEF new

\* The awaits at which slivers neither enter nor leave the cache, the storage or a flush.
OtherStep(t, b) ==
  \/ HasMetadata(t, b) \/ ContainsMetadata(t, b) \/ PersistCheck(t, b)
  \/ PersistVerifiedMetadata(t, b) \/ RemovePersisted(t, b) \/ InsertMetadata(t, b)
  \/ RecheckRegistration(t, b) \/ ResolvePendingMetadata(t, b)
  \/ PrepareSliver(t, b) \/ FlushMetadata(t, b) \/ RemoveMetadata(t, b)
  \/ PutMetadata(t, b) \/ HasBlob(t, b) \/ GetMetadata(t, b) \/ FlushEnds(t, b)
  \/ ComputeStorageConfirmation(t, b) \/ Confirm(t, b) \/ Subscribe(t, b)
  \/ CheckBeforeWait(t, b) \/ HasPendingData(t, b) \/ Woken(t, b)

(* At the other awaits the slivers stay where they are, and eviction finds *)
(* nothing if nothing has expired.                                         *)
LEMMA OtherSteps ==
  ASSUME TypeOK, ThreadsOK, NothingExpired, NEW t \in Threads, OtherStep(t, thread[t].blob)
  PROVE  stored' = stored /\ cache' = cache /\ thread[t].held = {} /\ NothingExpired'
<1> DEFINE b == thread[t].blob
<1>0. b \in Blobs /\ WellFormed(t, thread[t])
  BY ThreadFields
<1>f. FreshSlivers(cache) = cache /\ FreshMetadata = metadata
  BY FreshSame
<1> HIDE DEF b
<1>1. stored' = stored
  BY DEF OtherStep, storage, b, HasMetadata, ContainsMetadata, PersistCheck,
     PersistVerifiedMetadata, RemovePersisted, InsertMetadata, RecheckRegistration,
     ResolvePendingMetadata, PrepareSliver, FlushMetadata, RemoveMetadata, PutMetadata,
     HasBlob, GetMetadata, FlushEnds, ComputeStorageConfirmation, Confirm, Subscribe,
     CheckBeforeWait, HasPendingData, Woken
<1>2. cache' = cache
  BY <1>f DEF OtherStep, caches, b, HasMetadata, ContainsMetadata, PersistCheck,
     PersistVerifiedMetadata, RemovePersisted, InsertMetadata, RecheckRegistration,
     ResolvePendingMetadata, PrepareSliver, FlushMetadata, RemoveMetadata, PutMetadata,
     HasBlob, GetMetadata, FlushEnds, ComputeStorageConfirmation, Confirm, Subscribe,
     CheckBeforeWait, HasPendingData, Woken
<1>3. thread[t].held = {}
  BY <1>0 DEF OtherStep, WellFormed, At, b, HasMetadata, ContainsMetadata, PersistCheck,
     PersistVerifiedMetadata, RemovePersisted, InsertMetadata, RecheckRegistration,
     ResolvePendingMetadata, PrepareSliver, FlushMetadata, RemoveMetadata, PutMetadata,
     HasBlob, GetMetadata, FlushEnds, ComputeStorageConfirmation, Confirm, Subscribe,
     CheckBeforeWait, HasPendingData, Woken
<1>4. \/ metadata' = metadata \/ metadata' = [metadata EXCEPT ![b] = "none"]
      \/ metadata' = [metadata EXCEPT ![b] = "fresh"]
  BY <1>f DEF OtherStep, caches, b, HasMetadata, ContainsMetadata, PersistCheck,
     PersistVerifiedMetadata, RemovePersisted, InsertMetadata, RecheckRegistration,
     ResolvePendingMetadata, PrepareSliver, FlushMetadata, RemoveMetadata, PutMetadata,
     HasBlob, GetMetadata, FlushEnds, ComputeStorageConfirmation, Confirm, Subscribe,
     CheckBeforeWait, HasPendingData, Woken
<1>5. \A c \in Blobs : metadata'[c] # "expired"
  BY <1>0, <1>4 DEF NothingExpired, TypeOK
<1> QED
  BY <1>1, <1>2, <1>3, <1>5 DEF NothingExpired

(* No step of a thread loses a sliver. *)
LEMMA StepPassed ==
  ASSUME TypeOK, ThreadsOK, NothingExpired, NEW t \in Threads, Step(t), Undisturbed',
         faults \in Nat
  PROVE  Passed(t) /\ NothingExpired'
<1> DEFINE b == thread[t].blob
<1>0. b \in Blobs /\ thread[t].held \subseteq Slivers /\ WellFormed(t, thread[t])
  BY ThreadFields
<1>f. FreshSlivers(cache) = cache /\ \A n : EnsureCapacity(cache, n) = cache
  BY FreshSame
<1>c. /\ cache \in [Blobs -> [slivers : SUBSET Slivers, fresh : BOOLEAN]]
      /\ stored \in [Blobs -> SUBSET Slivers]
  BY DEF TypeOK
<1>h. thread[t].pc # "store" => thread[t].held = {}
  BY <1>0 DEF WellFormed
<1>1. CASE OtherStep(t, b)
  BY <1>1, OtherSteps DEF Passed
<1>n. ASSUME metadata' = metadata, \A c \in Blobs : cache'[c].fresh = TRUE
      PROVE  NothingExpired'
  BY <1>n DEF NothingExpired
<1>a. \A new \in SUBSET Slivers, d \in Blobs :
        /\ AddSlivers(cache, b, new)[d].fresh = TRUE
        /\ AddSlivers(cache, b, new)[d].slivers =
             IF d = b THEN cache[d].slivers \cup new ELSE cache[d].slivers
  BY <1>0, <1>c DEF AddSlivers, NothingExpired
<1> HIDE DEF b
<1>2. CASE PutSliver(t, b)
  <2>1. cache' = cache /\ metadata' = metadata /\ thread[t].held = {}
    BY <1>2, <1>h DEF PutSliver, caches, At
  <2>2. stored' = stored \/ stored' = [stored EXCEPT ![b] = @ \cup {thread[t].item}]
    BY <1>2 DEF PutSliver
  <2>3. \A c \in Blobs : stored[c] \subseteq stored'[c]
    BY <1>0, <1>c, <2>2
  <2> QED
    BY <2>1, <2>3 DEF Passed, NothingExpired
<1>3. CASE InsertSliver(t, b)
  <2>1. stored' = stored /\ metadata' = metadata /\ thread[t].held = {}
    BY <1>3, <1>h DEF InsertSliver, storage, At
  <2>2. cache' = cache \/ cache' = AddSlivers(cache, b, {thread[t].item})
    BY <1>3, <1>f DEF InsertSliver
  <2>3. thread[t].item \in Slivers
    BY <1>3, <1>0 DEF InsertSliver, At, WellFormed, RequestRecord, WorkerRecord, Threads,
                      FlushPcs, SliverPcs
  <2>5. \A c \in Blobs : cache[c].slivers \subseteq cache'[c].slivers /\ cache'[c].fresh = TRUE
    <3>1. CASE cache' = cache
      BY <3>1 DEF NothingExpired
    <3>2. CASE cache' = AddSlivers(cache, b, {thread[t].item})
      <4> DEFINE new == {thread[t].item}
      <4>1. new \in SUBSET Slivers
        BY <2>3
      <4> HIDE DEF new
      <4>2. \A c \in Blobs :
              /\ cache'[c].fresh = TRUE
              /\ cache'[c].slivers =
                   IF c = b THEN cache[c].slivers \cup new ELSE cache[c].slivers
        BY <1>a, <3>2, <4>1 DEF new
      <4> QED
        BY <4>2
    <3> QED
      BY <2>2, <3>1, <3>2
  <2> QED
    BY <1>n, <2>1, <2>5 DEF Passed
<1>4. CASE Drain(t, b)
  <2>1. stored' = stored /\ metadata' = metadata /\ thread[t].held = {}
    BY <1>4, <1>h DEF Drain, storage, At
  <2>2. /\ cache' = [cache EXCEPT ![b] = NoEntry]
        /\ thread' = [thread EXCEPT ![t].pc = "store", ![t].held = cache[b].slivers]
    BY <1>4, <1>f DEF Drain
  <2>3. thread'[t].held = cache[b].slivers /\ thread'[t].blob = b
    BY <2>2, ThreadFields DEF ThreadsOK, Records, b
  <2>4. \A c \in Blobs : cache'[c] = IF c = b THEN NoEntry ELSE cache[c]
    BY <1>0, <1>c, <2>2
  <2>5. \A c \in Blobs : cache'[c].fresh = TRUE
    BY <2>4 DEF NoEntry, NothingExpired
  <2>6. \A c \in Blobs : \A s \in cache[c].slivers :
          s \in cache'[c].slivers \/ (thread'[t].blob = c /\ s \in thread'[t].held)
    BY <2>3, <2>4
  <2> QED
    BY <1>n, <2>1, <2>5, <2>6 DEF Passed
<1>5. CASE FlushSliver(t, b)
  <2>0. metadata' = metadata
    BY <1>5 DEF FlushSliver
  <2>1. ASSUME NEW s \in thread[t].held, stored' = [stored EXCEPT ![b] = @ \cup {s}],
               thread' = [thread EXCEPT ![t].held = @ \ {s}], cache' = cache
        PROVE  Passed(t) /\ NothingExpired'
    <3>1. thread'[t].held = thread[t].held \ {s} /\ thread'[t].blob = b
      BY <2>1, ThreadFields DEF ThreadsOK, Records, b
    <3>2. (\A c \in Blobs : stored[c] \subseteq stored'[c]) /\ s \in stored'[b]
      BY <1>0, <1>c, <2>1
    <3> QED
      BY <2>0, <2>1, <3>1, <3>2 DEF Passed, NothingExpired, b
  <2>2. ASSUME Fails, Reinsert(b, thread[t].held), stored' = stored
        PROVE  Passed(t) /\ NothingExpired'
    <3>1. RoomForAll \/ ~overflowed'
      <4>1. faults' # 0
        BY <2>2 DEF Fails
      <4> QED
        BY <4>1 DEF Undisturbed, RoomForAll
    <3>2. thread[t].held \in SUBSET Slivers
      BY <1>0
    <3>3. cache' = AddSlivers(cache, b, thread[t].held \ cache[b].slivers)
      BY <1>0, <2>2, <3>1, <3>2, ReinsertKeeps
    <3>4. \A d \in Blobs :
            /\ cache'[d].fresh = TRUE /\ cache[d].slivers \subseteq cache'[d].slivers
            /\ d = b => thread[t].held \subseteq cache'[d].slivers
      <4>1. thread[t].held \ cache[b].slivers \in SUBSET Slivers
        BY <3>2
      <4> QED
        BY <1>a, <3>3, <4>1
    <3> QED
      BY <1>0, <1>n, <2>0, <2>2, <3>4 DEF Passed, b
  <2> QED
    BY <1>5, <2>1, <2>2 DEF FlushSliver
<1> QED
  BY <1>1, <1>2, <1>3, <1>4, <1>5 DEF Step, OtherStep, b

(* An upload that comes to have inserted its sliver has put it in the cache. *)
LEMMA StepInserts ==
  ASSUME TypeOK, ThreadsOK, NothingExpired, NEW t \in Threads, Step(t),
         thread'[t].pc \in InsertedPcs, thread'[t].item \in Slivers,
         thread[t].pc \notin InsertedPcs
  PROVE  /\ thread'[t].blob = thread[t].blob /\ thread'[t].item = thread[t].item
         /\ thread[t].item \in cache'[thread[t].blob].slivers
<1> DEFINE b == thread[t].blob
<1>0. /\ b \in Blobs /\ thread[t] \in Records /\ WellFormed(t, thread[t])
      /\ cache \in [Blobs -> [slivers : SUBSET Slivers, fresh : BOOLEAN]]
  BY ThreadFields DEF TypeOK
<1>1. Moved(t)
  BY StepMoves
<1>2. thread'[t].pc # "ended" /\ ~At(t, "idle")
  <2>1. thread[t].pc # "idle"
    BY DEF Step, HasMetadata, ContainsMetadata, PersistCheck, PersistVerifiedMetadata,
           RemovePersisted, InsertMetadata, RecheckRegistration, ResolvePendingMetadata,
           PrepareSliver, PutSliver, InsertSliver, FlushMetadata, RemoveMetadata, PutMetadata,
           HasBlob, GetMetadata, Drain, FlushSliver, FlushEnds, ComputeStorageConfirmation,
           Confirm, Subscribe, CheckBeforeWait, HasPendingData, Woken, At
  <2> QED
    BY <2>1 DEF At, InsertedPcs, FlushPcs
<1>3. thread'[t].blob = thread[t].blob /\ thread'[t].item = thread[t].item
  BY <1>1, <1>2 DEF Moved, Ended, Idle
<1>4. thread[t].item \in Slivers /\ thread[t].item \notin {Metadata, Confirmation, Flush}
  BY <1>3, ThreadsAssumption
<1>5. t \in Requests \/ thread[t].pc \in {"idle", "ended"}
  BY <1>0, <1>4 DEF WellFormed, WorkerRecord, Threads
<1>6. thread[t].pc \in SliverPcs \cup {"ended", "idle"}
  BY <1>0, <1>4, <1>5 DEF WellFormed, RequestRecord, Records, OtherPcs, InsertedPcs
<1> HIDE DEF b
<1>7. \/ ResolvePendingMetadata(t, b) \/ PrepareSliver(t, b) \/ PutSliver(t, b)
      \/ InsertSliver(t, b)
  BY <1>6, <1>2
     DEF Step, HasMetadata, ContainsMetadata, PersistCheck, PersistVerifiedMetadata,
         RemovePersisted, InsertMetadata, RecheckRegistration, FlushMetadata, RemoveMetadata,
         PutMetadata, HasBlob, GetMetadata, Drain, FlushSliver, FlushEnds,
         ComputeStorageConfirmation, Confirm, Subscribe, CheckBeforeWait, HasPendingData, Woken,
         At, SliverPcs, b
<1>8. \A q : Goto(t, q) => thread'[t].pc = q
  BY <1>0 DEF Goto, ThreadsOK, Records
<1>9. \A ok : Return(t, ok) => thread'[t].pc = "ended"
  BY DEF Return, ThreadsOK, Ended, Idle
<1>10. InsertSliver(t, b) /\ Goto(t, "recheck")
  BY <1>2, <1>7, <1>8, <1>9 DEF ResolvePendingMetadata, PrepareSliver, PutSliver, InsertSliver,
                                InsertedPcs, FlushPcs
<1>11. cache' = AddSlivers(cache, b, {thread[t].item})
  <2>1. ~Return(t, FALSE)
    BY <1>2, <1>9
  <2>2. \A n : EnsureCapacity(cache, n) = cache
    BY FreshSame
  <2> QED
    BY <1>10, <2>1, <2>2 DEF InsertSliver
<1>12. cache'[b].slivers = cache[b].slivers \cup {thread[t].item}
  BY <1>0, <1>11 DEF AddSlivers, b
<1> QED
  BY <1>3, <1>12 DEF b

(* Faults, expiries and dropped requests are never forgotten. *)
LEMMA BoundsGrow ==
  ASSUME TypeOK, [Next]_vars
  PROVE  /\ expiries' = 0 => expiries = 0 /\ ~Expire
         /\ faults' = 0 => faults = 0
         /\ ~overflowed' => ~overflowed
         /\ disconnects' = 0 => disconnects = 0 /\ \A t \in Requests : ~Disconnect(t)
<1>0. expiries \in Nat /\ faults \in Nat /\ disconnects \in Nat
  BY BoundsAssumption DEF TypeOK
<1>1. /\ expiries' = expiries \/ expiries' = expiries + 1
      /\ faults' = faults \/ faults' = faults + 1
      /\ disconnects' = disconnects \/ disconnects' = disconnects + 1
      /\ overflowed' \in {overflowed, TRUE}
  <2>1. CASE UNCHANGED bounds
    BY <2>1 DEF bounds
  <2>2. CASE Expire
    BY <2>2 DEF Expire
  <2>3. CASE Failed
    BY <2>3 DEF Failed, Fails
  <2>4. ASSUME NEW t, Disconnect(t) PROVE <1>1!:
    BY <2>4 DEF Disconnect
  <2>5. \/ UNCHANGED bounds \/ Expire \/ Failed \/ \E t : Disconnect(t)
    <3>1. ASSUME NEW t \in Threads, ThreadStep(t)
          PROVE  UNCHANGED bounds \/ Failed \/ Disconnect(t)
      BY <3>1, StepBounds DEF ThreadStep, Starts, StoreMetadata, ConfirmationRequest,
                              StoreSliver, Timeout, ProcessCertifiedEvent
    <3>2. ASSUME NEW b \in Blobs, UpdateBlobInfo(b) \/ HandleRegisteredEvent(b)
          PROVE  UNCHANGED bounds
      BY <3>2 DEF UpdateBlobInfo, HandleRegisteredEvent
    <3>3. CASE UNCHANGED vars
      BY <3>3 DEF vars
    <3> QED
      BY <3>1, <3>2, <3>3, NextCases
  <2> QED
    BY <2>1, <2>2, <2>3, <2>4, <2>5
<1>2. Expire => expiries' # 0
  BY <1>0 DEF Expire
<1>3. \A t : Disconnect(t) => disconnects' # 0
  BY <1>0 DEF Disconnect
<1>4. ~overflowed' => ~overflowed
  BY <1>1, Zenon
<1>5. /\ expiries' = 0 => expiries = 0
      /\ faults' = 0 => faults = 0
      /\ disconnects' = 0 => disconnects = 0
  BY <1>0, <1>1
<1> QED
  BY <1>2, <1>3, <1>4, <1>5

(* The steps of threads lose no sliver, and what they acknowledge is kept. *)
LEMMA ThreadKept ==
  ASSUME TypeOK, ThreadsOK, NothingExpired, InsertedKept, \A b \in Blobs : SliversKept(b),
         NEW t \in Threads, ThreadStep(t), Undisturbed', \A u \in Requests : ~Disconnect(u)
  PROVE  NothingExpired' /\ InsertedKept' /\ \A b \in Blobs : SliversKept(b)'
<1>0. /\ Moved(t) /\ ThreadsOK' /\ \A u \in Threads \ {t} : thread'[u] = thread[u]
  BY ThreadMoves, MovedOthers
<1>1. Passed(t) /\ NothingExpired'
  <2>1. faults \in Nat
    BY BoundsAssumption DEF TypeOK
  <2>2. CASE Step(t)
    BY <2>1, <2>2, StepPassed
  <2>3. CASE ~Step(t)
    <3>1. UNCHANGED <<storage, caches>> /\ thread[t].held = {}
      <4>1. CASE t \in Requests /\ Starts(t)
        <5>1. thread[t].pc = "idle"
          BY <4>1, StartMoves DEF Started, At
        <5> QED
          BY <4>1, <5>1, ThreadFields DEF WellFormed, Starts, StoreMetadata, ConfirmationRequest,
                                          StoreSliver
      <4>2. CASE t \in Requests /\ Timeout(t)
        BY <4>2, ThreadFields DEF WellFormed, Timeout, At
      <4>3. CASE t \in Blobs /\ ProcessCertifiedEvent(t)
        BY <4>3, ThreadFields DEF WellFormed, ProcessCertifiedEvent, At
      <4> QED
        BY <2>3, <4>1, <4>2, <4>3 DEF ThreadStep
    <3> QED
      BY <3>1 DEF Passed, NothingExpired, storage, caches
  <2> QED
    BY <2>2, <2>3
<1>2. \A b \in Blobs : Kept(b) \subseteq Kept(b)'
  BY <1>0, <1>1, PassedKept
<1>3. \A u \in Threads : thread[u].blob \in Blobs
  BY ThreadFields
<1>4. ASSUME NEW u \in Threads, thread'[u].item \in Slivers, thread'[u].pc \in InsertedPcs,
             NEW c \in Blobs, thread'[u].blob = c
      PROVE  thread'[u].item \in Kept(c)'
  <2>1. CASE u # t
    <3>1. thread'[u] = thread[u]
      BY <1>0, <2>1
    <3>2. thread[u].item \in Kept(thread[u].blob)
      BY <1>4, <3>1 DEF InsertedKept
    <3> QED
      BY <1>2, <1>4, <3>1, <3>2
  <2>2. CASE u = t /\ thread[t].pc \in InsertedPcs
    <3>1. thread'[t].blob = thread[t].blob /\ thread'[t].item = thread[t].item
      BY <1>0, <1>4, <2>2 DEF Moved, Ended, Idle, InsertedPcs, FlushPcs, At
    <3>2. thread[t].item \in Kept(thread[t].blob)
      BY <1>4, <2>2, <3>1 DEF InsertedKept
    <3> QED
      BY <1>2, <1>4, <2>2, <3>1, <3>2
  <2>3. CASE u = t /\ thread[t].pc \notin InsertedPcs
    <3>1. Step(t)
      <4>1. ~(t \in Requests /\ Starts(t))
        BY <1>4, <2>3, StartMoves DEF Started, Arrivals, InsertedPcs, FlushPcs
      <4>2. thread'[t].pc # "ended"
        BY <1>4, <2>3 DEF InsertedPcs, FlushPcs
      <4>3. ~Timeout(t) /\ ~ProcessCertifiedEvent(t)
        BY <4>2 DEF Timeout, ProcessCertifiedEvent, Return, ThreadsOK, Ended, Idle
      <4> QED
        BY <4>1, <4>3 DEF ThreadStep
    <3>2. /\ thread'[t].blob = thread[t].blob /\ thread'[t].item = thread[t].item
          /\ thread[t].item \in cache'[thread[t].blob].slivers
      BY <1>4, <2>3, <3>1, StepInserts
    <3>3. cache'[c].slivers \subseteq Kept(c)'
      BY DEF Kept
    <3> QED
      BY <1>4, <2>3, <3>2, <3>3
  <2> QED
    BY <2>1, <2>2, <2>3
<1>5. InsertedKept'
  <2>1. \A u \in Threads : thread'[u].blob \in Blobs
    BY <1>0 DEF ThreadsOK, Records
  <2> QED
    BY <1>4, <2>1 DEF InsertedKept, Kept, Held
<1>6. ASSUME NEW b \in Blobs, NEW s \in acked'[b], s # Metadata
      PROVE  s \in Kept(b)'
  <2>1. CASE s \in acked[b]
    <3>1. s \in Kept(b)
      BY <1>6, <2>1 DEF SliversKept, Kept
    <3> QED
      BY <1>2, <3>1
  <2>2. CASE s \notin acked[b]
    <3>1. Acks(t)
      BY ThreadAcks
    <3>2. /\ b = thread[t].blob /\ s = thread[t].item /\ s \in Slivers
          /\ s \in stored'[b] \/ thread[t].pc \in InsertedPcs
      BY <1>3, <1>6, <2>2, <3>1 DEF Acks, TypeOK
    <3>3. CASE s \in stored'[b]
      BY <3>3 DEF Kept
    <3>4. CASE thread[t].pc \in InsertedPcs
      BY <1>2, <3>2, <3>4 DEF InsertedKept
    <3> QED
      BY <3>2, <3>3, <3>4
  <2> QED
    BY <2>1, <2>2
<1>7. \A b \in Blobs : SliversKept(b)'
  BY <1>6 DEF SliversKept, Kept
<1> QED
  BY <1>1, <1>5, <1>7

(* The handling of a registration moves no sliver. *)
LEMMA HandledKept ==
  ASSUME TypeOK, ThreadsOK, NothingExpired, InsertedKept, \A b \in Blobs : SliversKept(b),
         NEW b \in Blobs, HandleRegisteredEvent(b)
  PROVE  NothingExpired' /\ InsertedKept' /\ \A c \in Blobs : SliversKept(c)'
<1>0. /\ thread[b].pc = "idle" /\ thread'[b].item = Flush /\ b \in Threads
      /\ \A u \in Threads \ {b} :
           /\ thread'[u].pc = thread[u].pc /\ thread'[u].blob = thread[u].blob
           /\ thread'[u].item = thread[u].item /\ thread'[u].held = thread[u].held
  BY HandledThreads DEF At, Threads
<1>1. stored' = stored /\ cache' = cache /\ metadata' = metadata /\ acked' = acked
  BY DEF HandleRegisteredEvent, storage, caches
<1>2. thread[b].held = {}
  BY <1>0, ThreadFields DEF WellFormed
<1>3. \A c \in Blobs : Kept(c) \subseteq Kept(c)'
  <2> SUFFICES ASSUME NEW c \in Blobs, NEW s \in Kept(c)
               PROVE  s \in Kept(c)'
    OBVIOUS
  <2>1. CASE s \in Held(c)
    <3>1. PICK u \in Threads : thread[u].blob = c /\ s \in thread[u].held
      BY <2>1 DEF Held
    <3>2. thread'[u].blob = c /\ s \in thread'[u].held
      BY <1>0, <1>2, <3>1
    <3>3. s \in Held(c)'
      BY <3>2 DEF Held
    <3> QED
      BY <3>3 DEF Kept
  <2> QED
    BY <1>1, <2>1 DEF Kept
<1>4. Flush \notin Slivers
  BY ThreadsAssumption
<1>5. \A u \in Threads : thread[u].blob \in Blobs
  BY ThreadFields
<1>6. ASSUME NEW u \in Threads, thread'[u].item \in Slivers, thread'[u].pc \in InsertedPcs,
             NEW c \in Blobs, thread'[u].blob = c
      PROVE  thread'[u].item \in Kept(c)'
  <2>1. /\ u # b /\ thread'[u].item = thread[u].item /\ thread[u].blob = c
        /\ thread[u].pc \in InsertedPcs
    BY <1>0, <1>4, <1>6
  <2>2. thread[u].item \in Kept(c)
    BY <1>6, <2>1 DEF InsertedKept
  <2> QED
    BY <1>3, <2>1, <2>2
<1>7. InsertedKept'
  <2>1. \A u \in Threads : thread'[u].blob \in Blobs
    BY HandledThreads DEF ThreadsOK, Records
  <2> QED
    BY <1>6, <2>1 DEF InsertedKept, Kept, Held
<1>8. \A c \in Blobs : SliversKept(c)'
  BY <1>1, <1>3 DEF SliversKept, Kept
<1>9. NothingExpired'
  BY <1>1 DEF NothingExpired
<1> QED
  BY <1>7, <1>8, <1>9

(* Undisturbed, no step loses a sliver. *)
LEMMA NextKept ==
  ASSUME TypeOK, ThreadsOK, KeptInv, [Next]_vars
  PROVE  KeptInv'
<1> SUFFICES ASSUME Undisturbed'
             PROVE  NothingExpired' /\ InsertedKept' /\ \A b \in Blobs : SliversKept(b)'
  BY DEF KeptInv
<1>1. Undisturbed /\ ~Expire /\ \A t \in Requests : ~Disconnect(t)
  BY BoundsGrow DEF Undisturbed, RoomForAll
<1>2. NothingExpired /\ InsertedKept /\ \A b \in Blobs : SliversKept(b)
  BY <1>1 DEF KeptInv
<1>3. CASE \E t \in Threads : ThreadStep(t)
  BY <1>1, <1>2, <1>3, ThreadKept
<1>4. CASE \E b \in Blobs : HandleRegisteredEvent(b)
  BY <1>2, <1>4, HandledKept
<1>5. CASE UNCHANGED vars \/ \E b \in Blobs : UpdateBlobInfo(b)
  <2>1. UNCHANGED <<thread, stored, cache, metadata, acked>>
    BY <1>5 DEF vars, UpdateBlobInfo, storage, caches
  <2> QED
    BY <1>2, <2>1 DEF NothingExpired, InsertedKept, SliversKept, Kept, Held
<1> QED
  BY <1>1, <1>3, <1>4, <1>5, NextCases

(* Initially there are no slivers. *)
LEMMA InitKept == Init => KeptInv
<1> SUFFICES ASSUME Init PROVE KeptInv
  OBVIOUS
<1>1. \A t \in Threads : thread[t].pc = "idle"
  BY InitType
<1>2. InsertedKept
  BY <1>1 DEF InsertedKept, InsertedPcs, FlushPcs
<1>3. NothingExpired
  BY DEF Init, NothingExpired, NoEntry
<1>4. \A b \in Blobs : SliversKept(b)
  BY DEF Init, SliversKept
<1> QED
  BY <1>2, <1>3, <1>4 DEF KeptInv

(* For any number of uploads, flushes and failing writes: an acknowledged    *)
(* sliver is in storage, in the cache, or held by a flush (store_sliver,     *)
(* flush_pending_slivers, insert_many).                                      *)
THEOREM SliversNeverLost == Spec => []AcknowledgedSliversKept
<1>1. KeptInv => AcknowledgedSliversKept
  BY DEF KeptInv, Undisturbed, AcknowledgedSliversKept
<1>2. WakeupInv /\ KeptInv /\ [Next]_vars => KeptInv'
  BY NextKept DEF WakeupInv
<1> QED
  BY <1>1, <1>2, InitKept, WakeupInvHolds, PTL DEF Spec

-----------------------------------------------------------------------------
(* No acknowledged sliver is left behind in the cache *)

\* No write has failed either.
Quiet == expiries = 0 /\ faults = 0 /\ disconnects = 0

\* The metadata is in storage or in the cache, or a flush is about to write it.
MetadataAvailable(b) ==
  \/ storedMetadata[b] = TRUE \/ metadata[b] = "fresh"
  \/ \E t \in Threads : thread[t].blob = b /\ At(t, "putMetadata")

\* Slivers are buffered for the blob, or may be.
Buffers(b) ==
  \/ cache[b].slivers # {}
  \/ \E t \in Threads : thread[t].blob = b /\ thread[t].pc \in {"prepare", "insertSliver"}

\* The await of a thread that will go on to drain the slivers of its blob.
Draining(pc, isStored) ==
  \/ pc \in {"recheck", "flush", "removeMetadata", "putMetadata", "drain"}
  \/ pc \in {"hasBlob", "getMetadata"} /\ isStored = TRUE

Responsible(t, b) == thread[t].blob = b /\ Draining(thread[t].pc, storedMetadata[b])

PersistedIsStored ==
  \A t \in Threads : At(t, "persisted") => storedMetadata[thread[t].blob] = TRUE

BuffersHaveMetadata == \A b \in Blobs : Buffers(b) => MetadataAvailable(b)

\* Once the worker of a blob has started, buffered slivers are someone's to flush.
SomeoneFlushes ==
  \A b \in Blobs : ~At(b, "idle") /\ cache[b].slivers # {} =>
                     \E t \in Threads : Responsible(t, b)

FlushInv == Quiet => PersistedIsStored /\ BuffersHaveMetadata /\ SomeoneFlushes

\* What a step of thread t does for the flush of slivers.
Flushes(t) ==
  /\ \A c \in Blobs : storedMetadata[c] = TRUE => storedMetadata'[c] = TRUE
  /\ thread'[t].pc = "persisted" => storedMetadata'[thread'[t].blob] = TRUE
  /\ thread[t].pc = "putMetadata" => storedMetadata'[thread[t].blob] = TRUE
  /\ \A c \in Blobs : metadata[c] = "fresh" =>
       \/ metadata'[c] = "fresh" \/ storedMetadata'[c] = TRUE
       \/ thread'[t].pc = "putMetadata" /\ thread'[t].blob = c
  /\ \A c \in Blobs : cache'[c].slivers # {} =>
       \/ cache[c].slivers # {}
       \/ /\ thread[t].pc = "insertSliver" /\ thread[t].blob = c
          /\ thread'[t].pc = "recheck" /\ thread'[t].blob = c
  /\ thread'[t].pc \in {"prepare", "insertSliver"} =>
       \/ thread[t].pc = "prepare" /\ thread[t].blob = thread'[t].blob
       \/ metadata'[thread'[t].blob] = "fresh" \/ storedMetadata'[thread'[t].blob] = TRUE
  /\ \A c \in Blobs : Responsible(t, c) /\ registered[c] /\ cache'[c].slivers # {} =>
       /\ thread'[t].blob = c
       /\ \/ Draining(thread'[t].pc, storedMetadata'[c])
          \/ /\ thread[t].pc = "removeMetadata" /\ metadata[c] # "fresh"
             /\ thread'[t].pc = "hasBlob"

(* Steps that touch neither metadata nor caches, by threads that do not flush. *)
LEMMA InertFlushes ==
  ASSUME NEW t \in Threads, storedMetadata' = storedMetadata, cache' = cache,
         metadata' = metadata, ~Draining(thread[t].pc, TRUE),
         thread'[t].pc \notin {"persisted", "prepare", "insertSliver"}
  PROVE  Flushes(t)
BY DEF Flushes, Responsible, Draining

(* Every await of a thread, if no write fails and nothing expires. *)
LEMMA StepFlushes ==
  ASSUME TypeOK, ThreadsOK, NothingExpired, PersistedIsStored, NEW t \in Threads, Step(t),
         ~Fault, ~Fails
  PROVE  Flushes(t)
<1> DEFINE b == thread[t].blob
<1>0. /\ b \in Blobs /\ thread[t] \in Records /\ WellFormed(t, thread[t])
      /\ storedMetadata \in [Blobs -> BOOLEAN] /\ registered \in [Blobs -> BOOLEAN]
      /\ metadata \in [Blobs -> {"none", "fresh", "expired"}]
      /\ cache \in [Blobs -> [slivers : SUBSET Slivers, fresh : BOOLEAN]]
  BY ThreadFields DEF TypeOK
<1>f. /\ FreshSlivers(cache) = cache /\ FreshMetadata = metadata
      /\ \A n : EnsureCapacity(cache, n) = cache
  BY FreshSame
<1>g. \A q : Goto(t, q) => thread'[t].pc = q /\ thread'[t].blob = b
  BY <1>0 DEF Goto, ThreadsOK, Records
<1>r. \A ok : Return(t, ok) => thread'[t].pc = "ended"
  BY DEF Return, ThreadsOK, Ended, Idle
<1>j. \A ok : FlushReturns(t, ok) => thread'[t].pc \in {"flushed", "confirm", "ended"}
  <2> SUFFICES ASSUME NEW ok, FlushReturns(t, ok)
               PROVE  thread'[t].pc \in {"flushed", "confirm", "ended"}
    OBVIOUS
  <2>1. CASE thread[t].item = Flush
    BY <1>0, <2>1 DEF FlushReturns, ThreadsOK, Records
  <2>2. CASE thread[t].item # Flush
    BY <1>g, <1>r, <2>2 DEF FlushReturns
  <2> QED
    BY <2>1, <2>2
<1> HIDE DEF b
<1>1. CASE HasMetadata(t, b)
  <2>1. storedMetadata' = storedMetadata /\ cache' = cache /\ metadata' = metadata
    BY <1>1, <1>f DEF HasMetadata, storage, caches
  <2>2. thread[t].pc = "hasMetadata" /\ thread'[t].pc \in {"ended", "contains"}
    BY <1>1, <1>g, <1>r DEF HasMetadata, At
  <2> QED
    BY <2>1, <2>2, InertFlushes DEF Draining
<1>2. CASE PersistCheck(t, b)
  <2>1. storedMetadata' = storedMetadata /\ cache' = cache /\ metadata' = metadata
    BY <1>2, <1>f DEF PersistCheck, storage, caches
  <2>2. thread[t].pc = "persistCheck" /\ thread'[t].pc \in {"ended", "persist"}
    BY <1>2, <1>g, <1>r DEF PersistCheck, At
  <2> QED
    BY <2>1, <2>2, InertFlushes DEF Draining
<1>3. CASE PutSliver(t, b)
  <2>1. storedMetadata' = storedMetadata /\ cache' = cache /\ metadata' = metadata
    BY <1>3, <1>f DEF PutSliver, storage, caches
  <2>2. thread[t].pc = "putSliver" /\ thread'[t].pc \in {"ended"}
    BY <1>3, <1>g, <1>r DEF PutSliver, At
  <2> QED
    BY <2>1, <2>2, InertFlushes DEF Draining
<1>4. CASE FlushEnds(t, b)
  <2>1. storedMetadata' = storedMetadata /\ cache' = cache /\ metadata' = metadata
    BY <1>4, <1>f DEF FlushEnds, storage, caches
  <2>2. /\ ~Draining(thread[t].pc, TRUE)
        /\ thread'[t].pc \notin {"persisted", "prepare", "insertSliver"}
    BY <1>4, <1>g, <1>r, <1>j DEF FlushEnds, At, Draining
  <2> QED
    BY <2>1, <2>2, InertFlushes
<1>5. CASE ComputeStorageConfirmation(t, b)
  <2>1. storedMetadata' = storedMetadata /\ cache' = cache /\ metadata' = metadata
    BY <1>5, <1>f DEF ComputeStorageConfirmation, storage, caches
  <2>2. thread[t].pc = "compute" /\ thread'[t].pc \in {"flush", "subscribe", "ended"}
    BY <1>5, <1>g, <1>r DEF ComputeStorageConfirmation, At
  <2> QED
    BY <2>1, <2>2, InertFlushes DEF Draining
<1>6. CASE Confirm(t, b)
  <2>1. storedMetadata' = storedMetadata /\ cache' = cache /\ metadata' = metadata
    BY <1>6, <1>f DEF Confirm, storage, caches
  <2>2. thread[t].pc = "confirm" /\ thread'[t].pc \in {"ended"}
    BY <1>6, <1>g, <1>r DEF Confirm, At
  <2> QED
    BY <2>1, <2>2, InertFlushes DEF Draining
<1>7. CASE Subscribe(t, b)
  <2>1. storedMetadata' = storedMetadata /\ cache' = cache /\ metadata' = metadata
    BY <1>7, <1>f DEF Subscribe, storage, caches
  <2>2. thread[t].pc = "subscribe" /\ thread'[t].pc \in {"subscribed"}
    BY <1>7, <1>g, <1>r DEF Subscribe, At
  <2> QED
    BY <2>1, <2>2, InertFlushes DEF Draining
<1>8. CASE Woken(t, b)
  <2>1. storedMetadata' = storedMetadata /\ cache' = cache /\ metadata' = metadata
    BY <1>8, <1>f DEF Woken, storage, caches
  <2>2. thread[t].pc = "waiting" /\ thread'[t].pc \in {"compute", "ended"}
    BY <1>8, <1>g, <1>r DEF Woken, At
  <2> QED
    BY <2>1, <2>2, InertFlushes DEF Draining
<1>9. CASE ContainsMetadata(t, b)
  <2>1. storedMetadata' = storedMetadata /\ cache' = cache /\ metadata' = metadata
    BY <1>9, <1>f DEF ContainsMetadata, storage, caches
  <2>2. thread[t].pc = "contains" /\ thread'[t].pc \in {"ended", "persistCheck", "insertMetadata"}
    BY <1>9, <1>g, <1>r DEF ContainsMetadata, At
  <2> QED
    BY <2>1, <2>2, InertFlushes DEF Draining
<1>10. CASE HasPendingData(t, b)
  <2>1. storedMetadata' = storedMetadata /\ cache' = cache /\ metadata' = metadata
    BY <1>10, <1>f DEF HasPendingData, storage, caches
  <2>2. thread[t].pc = "hasPending" /\ thread'[t].pc \in {"waiting", "ended"}
    BY <1>10, <1>g, <1>r DEF HasPendingData, At
  <2> QED
    BY <2>1, <2>2, InertFlushes DEF Draining
<1>11. CASE CheckBeforeWait(t, b)
  <2>1. storedMetadata' = storedMetadata /\ cache' = cache /\ metadata' = metadata
    BY <1>11 DEF CheckBeforeWait, storage, caches
  <2>2. thread[t].pc = "subscribed" /\ thread'[t].pc \in {"compute", "hasPending"}
    BY <1>11, <1>0 DEF CheckBeforeWait, At, ThreadsOK, Records
  <2> QED
    BY <2>1, <2>2, InertFlushes DEF Draining
<1>12. CASE PersistVerifiedMetadata(t, b)
  <2>1. /\ storedMetadata' = [storedMetadata EXCEPT ![b] = TRUE] /\ cache' = cache
        /\ metadata' = metadata /\ thread[t].pc = "persist" /\ thread'[t].pc = "persisted"
        /\ thread'[t].blob = b
    BY <1>12, <1>g DEF PersistVerifiedMetadata, At, caches
  <2>2. storedMetadata'[b] = TRUE /\ \A c \in Blobs : storedMetadata[c] => storedMetadata'[c] = TRUE
    BY <1>0, <2>1
  <2> QED
    BY <2>1, <2>2 DEF Flushes, Responsible, Draining
<1>13. CASE RemovePersisted(t, b)
  <2>1. /\ storedMetadata' = storedMetadata /\ cache' = cache /\ thread[t].pc = "persisted"
        /\ metadata' = [metadata EXCEPT ![b] = "none"] /\ thread'[t].pc = "ended"
    BY <1>13, <1>r, <1>f DEF RemovePersisted, At, storage
  <2>2. storedMetadata[b] = TRUE /\ \A c \in Blobs : c # b => metadata'[c] = metadata[c]
    BY <1>0, <2>1 DEF PersistedIsStored, At, b
  <2> QED
    BY <2>1, <2>2 DEF Flushes, Responsible, Draining
<1>14. CASE InsertMetadata(t, b)
  <2>1. /\ storedMetadata' = storedMetadata /\ cache' = cache /\ thread[t].pc = "insertMetadata"
        /\ metadata' = metadata \/ metadata' = [metadata EXCEPT ![b] = "fresh"]
        /\ thread'[t].pc \in {"ended", "recheck"}
    BY <1>14, <1>r, <1>g, <1>f DEF InsertMetadata, At, storage
  <2>2. \A c \in Blobs : metadata[c] = "fresh" => metadata'[c] = "fresh"
    BY <1>0, <2>1
  <2> QED
    BY <2>1, <2>2 DEF Flushes, Responsible, Draining
<1>15. CASE RecheckRegistration(t, b)
  <2>1. /\ storedMetadata' = storedMetadata /\ cache' = cache /\ metadata' = metadata
        /\ thread[t].pc = "recheck"
        /\ \/ thread'[t].pc = "flush" /\ thread'[t].blob = b
           \/ thread'[t].pc = "ended" /\ ~registered[b]
    BY <1>15, <1>r, <1>g DEF RecheckRegistration, AfterInsert, At, storage, caches
  <2> QED
    BY <2>1 DEF Flushes, Responsible, Draining, b
<1>16. CASE ResolvePendingMetadata(t, b)
  <2>1. /\ storedMetadata' = storedMetadata /\ cache' = cache /\ metadata' = metadata
        /\ thread[t].pc = "pending"
        /\ \/ thread'[t].pc = "prepare" /\ thread'[t].blob = b /\ metadata'[b] = "fresh"
           \/ thread'[t].pc = "ended"
    BY <1>16, <1>r, <1>g, <1>f DEF ResolvePendingMetadata, At, storage
  <2> QED
    BY <2>1 DEF Flushes, Responsible, Draining
<1>17. CASE PrepareSliver(t, b)
  <2>1. /\ storedMetadata' = storedMetadata /\ cache' = cache /\ metadata' = metadata
        /\ thread[t].pc = "prepare"
        /\ \/ thread'[t].pc \in {"putSliver", "insertSliver"} /\ thread'[t].blob = b
           \/ thread'[t].pc = "ended"
    BY <1>17, <1>r, <1>g DEF PrepareSliver, At, storage, caches
  <2> QED
    BY <2>1 DEF Flushes, Responsible, Draining, b
<1>18. CASE InsertSliver(t, b)
  <2>1. /\ storedMetadata' = storedMetadata /\ metadata' = metadata
        /\ thread[t].pc = "insertSliver"
        /\ \/ cache' = cache /\ thread'[t].pc = "ended"
           \/ /\ cache' = AddSlivers(cache, b, {thread[t].item})
              /\ thread'[t].pc = "recheck" /\ thread'[t].blob = b
    BY <1>18, <1>r, <1>g, <1>f DEF InsertSliver, At, storage
  <2>2. \A c \in Blobs : c # b => AddSlivers(cache, b, {thread[t].item})[c] = cache[c]
    BY <1>0 DEF AddSlivers
  <2> QED
    BY <2>1, <2>2 DEF Flushes, Responsible, Draining, b
<1>19. CASE FlushMetadata(t, b)
  <2>1. /\ storedMetadata' = storedMetadata /\ cache' = cache /\ metadata' = metadata
        /\ thread[t].pc = "flush" /\ thread'[t].blob = b
        /\ \/ thread'[t].pc = "hasBlob" /\ storedMetadata[b]
           \/ thread'[t].pc = "removeMetadata"
    BY <1>19, <1>g DEF FlushMetadata, At, storage, caches
  <2>2. storedMetadata[b] => storedMetadata[b] = TRUE
    BY <1>0
  <2> QED
    BY <2>1, <2>2 DEF Flushes, Responsible, Draining, b
<1>20. CASE RemoveMetadata(t, b)
  <2>1. /\ storedMetadata' = storedMetadata /\ cache' = cache
        /\ metadata' = [metadata EXCEPT ![b] = "none"]
        /\ thread[t].pc = "removeMetadata" /\ thread'[t].blob = b
        /\ \/ thread'[t].pc = "putMetadata" /\ metadata[b] = "fresh"
           \/ thread'[t].pc = "hasBlob" /\ metadata[b] # "fresh"
    BY <1>20, <1>g, <1>f DEF RemoveMetadata, At, storage
  <2>2. \A c \in Blobs : c # b => metadata'[c] = metadata[c]
    BY <1>0, <2>1
  <2> QED
    BY <2>1, <2>2 DEF Flushes, Responsible, Draining, b
<1>21. CASE PutMetadata(t, b)
  <2>1. /\ storedMetadata' = [storedMetadata EXCEPT ![b] = TRUE] /\ cache' = cache
        /\ metadata' = metadata /\ thread[t].pc = "putMetadata" /\ thread'[t].pc = "hasBlob"
        /\ thread'[t].blob = b
    BY <1>21, <1>g DEF PutMetadata, At, caches
  <2>2. storedMetadata'[b] = TRUE /\ \A c \in Blobs : storedMetadata[c] => storedMetadata'[c] = TRUE
    BY <1>0, <2>1
  <2> QED
    BY <2>1, <2>2 DEF Flushes, Responsible, Draining, b
<1>22. CASE HasBlob(t, b)
  <2>1. /\ storedMetadata' = storedMetadata /\ cache' = cache /\ metadata' = metadata
        /\ thread[t].pc = "hasBlob"
        /\ \/ thread'[t].pc = "getMetadata" /\ thread'[t].blob = b
           \/ thread'[t].pc \in {"flushed", "confirm", "ended"} /\ cache[b].slivers = {}
    BY <1>22, <1>g, <1>j, <1>f DEF HasBlob, At, storage
  <2> QED
    BY <2>1 DEF Flushes, Responsible, Draining, b
<1>23. CASE GetMetadata(t, b)
  <2>1. /\ storedMetadata' = storedMetadata /\ cache' = cache /\ metadata' = metadata
        /\ thread[t].pc = "getMetadata"
        /\ \/ thread'[t].pc = "drain" /\ thread'[t].blob = b
           \/ thread'[t].pc \in {"flushed", "confirm", "ended"} /\ ~storedMetadata[b]
    BY <1>23, <1>g, <1>j DEF GetMetadata, At, storage, caches
  <2> QED
    BY <2>1 DEF Flushes, Responsible, Draining, b
<1>24. CASE Drain(t, b)
  <2>1. /\ storedMetadata' = storedMetadata /\ cache' = [cache EXCEPT ![b] = NoEntry]
        /\ metadata' = metadata /\ thread[t].pc = "drain"
    BY <1>24, <1>f DEF Drain, At, storage
  <2>2. thread'[t].pc = "store"
    BY <1>24, <1>0 DEF Drain, ThreadsOK, Records
  <2>3. \A c \in Blobs : cache'[c].slivers = IF c = b THEN {} ELSE cache[c].slivers
    BY <1>0, <2>1 DEF NoEntry
  <2> QED
    BY <2>1, <2>2, <2>3 DEF Flushes, Responsible, Draining, b
<1>25. CASE FlushSliver(t, b)
  <2>1. PICK s : /\ storedMetadata' = storedMetadata /\ cache' = cache /\ metadata' = metadata
                 /\ thread[t].pc = "store" /\ thread' = [thread EXCEPT ![t].held = @ \ {s}]
    BY <1>25 DEF FlushSliver, At
  <2>2. thread'[t].pc = "store"
    BY <1>0, <2>1 DEF ThreadsOK, Records
  <2> QED
    BY <2>1, <2>2, InertFlushes DEF Draining
<1> QED
  BY <1>1, <1>2, <1>3, <1>4, <1>5, <1>6, <1>7, <1>8, <1>9, <1>10, <1>11, <1>12, <1>13,
     <1>14, <1>15, <1>16, <1>17, <1>18, <1>19, <1>20, <1>21, <1>22, <1>23, <1>24, <1>25
     DEF Step, b

(* Metadata stays available, and passes from thread to thread. *)
LEMMA FlushesAvailable ==
  ASSUME ThreadsOK, NEW t \in Threads, Moved(t), Flushes(t), NEW b \in Blobs,
         MetadataAvailable(b)
  PROVE  MetadataAvailable(b)'
<1>0. \A u \in Threads \ {t} : thread'[u] = thread[u]
  BY MovedOthers
<1>1. \A u \in Threads : thread'[u].blob = b /\ thread'[u].pc = "putMetadata"
                          => MetadataAvailable(b)'
  BY DEF MetadataAvailable, At
<1>2. storedMetadata'[b] = TRUE \/ metadata'[b] = "fresh" => MetadataAvailable(b)'
  BY DEF MetadataAvailable
<1>3. CASE storedMetadata[b] = TRUE
  BY <1>2, <1>3 DEF Flushes
<1>4. CASE metadata[b] = "fresh"
  BY <1>1, <1>2, <1>4 DEF Flushes
<1>5. ASSUME NEW u \in Threads, thread[u].blob = b, thread[u].pc = "putMetadata"
      PROVE  MetadataAvailable(b)'
  <2>1. CASE u = t
    BY <1>2, <1>5, <2>1 DEF Flushes
  <2>2. CASE u # t
    BY <1>0, <1>1, <1>5, <2>2
  <2> QED
    BY <2>1, <2>2
<1> QED
  BY <1>3, <1>4, <1>5 DEF MetadataAvailable, At

(* A step of a thread keeps the invariant of the flushes. *)
LEMMA FlushesKeep ==
  ASSUME WakeupInv, PersistedIsStored, BuffersHaveMetadata, SomeoneFlushes,
         NEW t \in Threads, Moved(t), Flushes(t)
  PROVE  PersistedIsStored' /\ BuffersHaveMetadata' /\ SomeoneFlushes'
<1>0. /\ ThreadsOK /\ WorkersRegistered /\ TypeOK
      /\ \A u \in Threads \ {t} : thread'[u] = thread[u]
  BY MovedOthers DEF WakeupInv
<1>1. \A u \in Threads : thread[u].blob \in Blobs /\ thread'[u].blob \in Blobs
  BY <1>0, MovedOthers DEF ThreadsOK, Records
<1>2. ASSUME NEW u \in Threads, thread'[u].pc = "persisted"
      PROVE  storedMetadata'[thread'[u].blob] = TRUE
  <2>1. CASE u = t
    BY <1>2, <2>1 DEF Flushes
  <2>2. CASE u # t
    BY <1>0, <1>1, <1>2, <2>2 DEF Flushes, PersistedIsStored, At
  <2> QED
    BY <2>1, <2>2
<1>3. PersistedIsStored'
  BY <1>2 DEF PersistedIsStored, At
<1>4. ASSUME NEW b \in Blobs, Buffers(b)'
      PROVE  MetadataAvailable(b)'
  <2>1. CASE Buffers(b)
    BY <1>0, <2>1, FlushesAvailable DEF BuffersHaveMetadata
  <2>2. ASSUME ~Buffers(b)
        PROVE  MetadataAvailable(b)'
    <3>1. /\ cache[b].slivers = {}
          /\ \A u \in Threads : ~(thread[u].blob = b /\ thread[u].pc \in {"prepare", "insertSliver"})
      BY <2>2 DEF Buffers
    <3>2. cache'[b].slivers = {}
      BY <3>1 DEF Flushes
    <3>3. PICK u \in Threads : thread'[u].blob = b /\ thread'[u].pc \in {"prepare", "insertSliver"}
      BY <1>4, <3>2 DEF Buffers
    <3>4. u = t
      BY <1>0, <3>1, <3>3
    <3>5. metadata'[b] = "fresh" \/ storedMetadata'[b] = TRUE
      BY <3>1, <3>3, <3>4 DEF Flushes
    <3> QED
      BY <3>5 DEF MetadataAvailable
  <2> QED
    BY <2>1, <2>2
<1>5. BuffersHaveMetadata'
  BY <1>4 DEF BuffersHaveMetadata
<1>6. ASSUME NEW b \in Blobs, thread'[b].pc # "idle", cache'[b].slivers # {}
      PROVE  \E u \in Threads : thread'[u].blob = b /\ Draining(thread'[u].pc, storedMetadata'[b])
  <2>1. CASE cache[b].slivers = {}
    <3>1. thread'[t].pc = "recheck" /\ thread'[t].blob = b
      BY <1>6, <2>1 DEF Flushes
    <3> QED
      BY <3>1 DEF Draining
  <2>2. CASE cache[b].slivers # {}
    <3>1. thread[b].pc # "idle" /\ registered[b]
      <4>1. b \in Threads
        BY DEF Threads
      <4>2. thread[b].pc # "idle"
        BY <1>0, <1>6, <4>1 DEF Moved, At
      <4> QED
        BY <1>0, <4>2 DEF WorkersRegistered, At
    <3>2. PICK u \in Threads : Responsible(u, b)
      BY <2>2, <3>1 DEF SomeoneFlushes, At
    <3>3. \A v \in Threads \ {t} : Responsible(v, b) =>
            thread'[v].blob = b /\ Draining(thread'[v].pc, storedMetadata'[b])
      BY <1>0 DEF Responsible, Draining, Flushes
    <3>4. CASE u # t
      BY <3>2, <3>3, <3>4
    <3>5. CASE u = t
      <4>1. /\ thread'[t].blob = b
            /\ \/ Draining(thread'[t].pc, storedMetadata'[b])
               \/ /\ thread[t].pc = "removeMetadata" /\ metadata[b] # "fresh"
                  /\ thread'[t].pc = "hasBlob"
        BY <1>6, <3>1, <3>2, <3>5 DEF Flushes
      <4>2. CASE Draining(thread'[t].pc, storedMetadata'[b])
        BY <4>1, <4>2
      <4>3. ASSUME thread[t].pc = "removeMetadata", metadata[b] # "fresh", thread'[t].pc = "hasBlob"
            PROVE  \E v \in Threads :
                     thread'[v].blob = b /\ Draining(thread'[v].pc, storedMetadata'[b])
        <5>1. MetadataAvailable(b)
          BY <2>2 DEF Buffers, BuffersHaveMetadata
        <5>2. CASE storedMetadata[b] = TRUE
          <6>1. Draining(thread'[t].pc, storedMetadata'[b])
            BY <4>3, <5>2 DEF Flushes, Draining
          <6> QED
            BY <4>1, <6>1
        <5>3. ASSUME NEW v \in Threads, thread[v].blob = b, thread[v].pc = "putMetadata"
              PROVE  \E w \in Threads :
                       thread'[w].blob = b /\ Draining(thread'[w].pc, storedMetadata'[b])
          <6>1. v # t /\ Responsible(v, b)
            BY <4>3, <5>3 DEF Responsible, Draining
          <6> QED
            BY <3>3, <6>1
        <5> QED
          BY <4>3, <5>1, <5>2, <5>3 DEF MetadataAvailable, At
      <4> QED
        BY <4>1, <4>2, <4>3
    <3> QED
      BY <3>4, <3>5
  <2> QED
    BY <2>1, <2>2
<1>7. SomeoneFlushes'
  BY <1>6 DEF SomeoneFlushes, Responsible, At
<1> QED
  BY <1>3, <1>5, <1>7

(* The steps of a thread, if no write fails and no request is dropped. *)
LEMMA ThreadFlushes ==
  ASSUME TypeOK, ThreadsOK, NothingExpired, PersistedIsStored, NEW t \in Threads, ThreadStep(t),
         ~Fault, ~Fails, \A u \in Requests : ~Disconnect(u)
  PROVE  Flushes(t)
<1>1. CASE Step(t)
  BY <1>1, StepFlushes
<1>2. CASE t \in Requests /\ Starts(t)
  <2>1. /\ thread[t].pc = "idle" /\ thread'[t].pc \in Arrivals
        /\ thread'[t].pc = "prepare" => storedMetadata[thread'[t].blob]
    BY <1>2, StartMoves DEF Started, At
  <2>2. storedMetadata' = storedMetadata /\ cache' = cache /\ metadata' = metadata
    BY <1>2 DEF Starts, StoreMetadata, ConfirmationRequest, StoreSliver, storage, caches
  <2>3. thread'[t].blob \in Blobs
    BY <1>2, StartMoves DEF Started, Moved, WellFormed, Records
  <2>4. storedMetadata[thread'[t].blob] => storedMetadata[thread'[t].blob] = TRUE
    BY <2>3 DEF TypeOK
  <2> QED
    BY <2>1, <2>2, <2>4 DEF Flushes, Responsible, Draining, Arrivals
<1>3. CASE t \in Requests /\ Timeout(t)
  <2>1. storedMetadata' = storedMetadata /\ cache' = cache /\ metadata' = metadata
    BY <1>3 DEF Timeout, storage, caches
  <2>2. thread[t].pc = "waiting" /\ thread'[t].pc = "ended"
    BY <1>3 DEF Timeout, At, Return, ThreadsOK, Ended, Idle
  <2> QED
    BY <2>1, <2>2, InertFlushes DEF Draining
<1>4. CASE t \in Blobs /\ ProcessCertifiedEvent(t)
  <2>1. storedMetadata' = storedMetadata /\ cache' = cache /\ metadata' = metadata
    BY <1>4 DEF ProcessCertifiedEvent, storage, caches
  <2>2. thread[t].pc = "flushed" /\ thread'[t].pc = "ended"
    BY <1>4 DEF ProcessCertifiedEvent, At, ThreadsOK, Ended, Idle
  <2> QED
    BY <2>1, <2>2, InertFlushes DEF Draining
<1> QED
  BY <1>1, <1>2, <1>3, <1>4 DEF ThreadStep

(* The worker that the registration starts will drain what is buffered. *)
LEMMA HandledFlush ==
  ASSUME TypeOK, ThreadsOK, PersistedIsStored, BuffersHaveMetadata, SomeoneFlushes,
         NEW b \in Blobs, HandleRegisteredEvent(b)
  PROVE  PersistedIsStored' /\ BuffersHaveMetadata' /\ SomeoneFlushes'
<1>0. /\ b \in Threads /\ thread'[b].pc = "flush" /\ thread'[b].blob = b /\ thread[b].pc = "idle"
      /\ \A u \in Threads \ {b} :
           thread'[u].pc = thread[u].pc /\ thread'[u].blob = thread[u].blob
  BY HandledThreads DEF At, Threads
<1>1. storedMetadata' = storedMetadata /\ cache' = cache /\ metadata' = metadata
  BY DEF HandleRegisteredEvent, storage, caches
<1>2. PersistedIsStored'
  BY <1>0, <1>1 DEF PersistedIsStored, At
<1>3. ASSUME NEW c \in Blobs, Buffers(c)'
      PROVE  MetadataAvailable(c)'
  <2>1. Buffers(c)
    BY <1>0, <1>1, <1>3 DEF Buffers
  <2>2. MetadataAvailable(c)
    BY <2>1 DEF BuffersHaveMetadata
  <2> QED
    BY <1>0, <1>1, <2>2 DEF MetadataAvailable, At
<1>4. BuffersHaveMetadata'
  BY <1>3 DEF BuffersHaveMetadata
<1>5. ASSUME NEW c \in Blobs, thread'[c].pc # "idle", cache'[c].slivers # {}
      PROVE  \E u \in Threads : thread'[u].blob = c /\ Draining(thread'[u].pc, storedMetadata'[c])
  <2>1. CASE c = b
    BY <1>0, <2>1 DEF Draining
  <2>2. CASE c # b
    <3>1. c \in Threads /\ thread[c].pc # "idle"
      BY <1>0, <1>5, <2>2 DEF Threads
    <3>2. PICK u \in Threads : Responsible(u, c)
      BY <1>1, <1>5, <3>1 DEF SomeoneFlushes, At
    <3>3. u # b
      BY <1>0, <3>2 DEF Responsible, Draining
    <3> QED
      BY <1>0, <1>1, <3>2, <3>3 DEF Responsible
  <2> QED
    BY <2>1, <2>2
<1>6. SomeoneFlushes'
  BY <1>5 DEF SomeoneFlushes, Responsible, At
<1> QED
  BY <1>2, <1>4, <1>6

(* In quiet, buffered slivers of a registered blob are always someone's to flush. *)
LEMMA NextFlush ==
  ASSUME WakeupInv, KeptInv, FlushInv, [Next]_vars
  PROVE  FlushInv'
<1> SUFFICES ASSUME Quiet'
             PROVE  PersistedIsStored' /\ BuffersHaveMetadata' /\ SomeoneFlushes'
  BY DEF FlushInv
<1>t. TypeOK /\ ThreadsOK /\ faults \in Nat
  BY BoundsAssumption DEF WakeupInv, TypeOK
<1>1. Quiet /\ ~Expire /\ ~Fault /\ ~Fails /\ \A t \in Requests : ~Disconnect(t)
  <2>1. ~Fault /\ ~Fails
    BY <1>t DEF Fault, Fails, Quiet
  <2> QED
    BY <1>t, <2>1, BoundsGrow DEF Quiet
<1>2. /\ NothingExpired /\ PersistedIsStored /\ BuffersHaveMetadata /\ SomeoneFlushes
  BY <1>1 DEF KeptInv, Undisturbed, Quiet, FlushInv
<1>3. ASSUME NEW t \in Threads, ThreadStep(t)
      PROVE  PersistedIsStored' /\ BuffersHaveMetadata' /\ SomeoneFlushes'
  BY <1>t, <1>1, <1>2, <1>3, ThreadMoves, ThreadFlushes, FlushesKeep
<1>4. CASE \E b \in Blobs : HandleRegisteredEvent(b)
  BY <1>t, <1>2, <1>4, HandledFlush
<1>5. CASE UNCHANGED vars \/ \E b \in Blobs : UpdateBlobInfo(b)
  <2>1. UNCHANGED <<thread, storedMetadata, cache, metadata>>
    BY <1>5 DEF vars, UpdateBlobInfo, storage, caches
  <2>2. PersistedIsStored'
    BY <1>2, <2>1 DEF PersistedIsStored, At
  <2>3. BuffersHaveMetadata'
    BY <1>2, <2>1 DEF BuffersHaveMetadata, Buffers, MetadataAvailable, At
  <2>4. SomeoneFlushes'
    BY <1>2, <2>1 DEF SomeoneFlushes, Responsible, At
  <2> QED
    BY <2>2, <2>3, <2>4
<1> QED
  BY <1>1, <1>3, <1>4, <1>5, NextCases

(* Initially nothing is buffered. *)
LEMMA InitFlush == Init => FlushInv
<1> SUFFICES ASSUME Init PROVE FlushInv
  OBVIOUS
<1>1. \A t \in Threads : thread[t].pc = "idle"
  BY InitType
<1>2. \A b \in Blobs : cache[b].slivers = {}
  BY DEF Init, NoEntry
<1> QED
  BY <1>1, <1>2 DEF FlushInv, PersistedIsStored, BuffersHaveMetadata, Buffers, SomeoneFlushes, At

(* Nobody holds slivers of a blob at rest, and nobody is left to flush them. *)
LEMMA RestIsFlushed ==
  ASSUME WakeupInv, KeptInv, FlushInv
  PROVE  AcknowledgedIsStored
<1> SUFFICES ASSUME Quiet, NEW b \in Blobs, AtRest(b)
             PROVE  acked[b] \ {Metadata} \subseteq stored[b]
  BY DEF AcknowledgedIsStored, Quiet
<1>1. /\ SomeoneFlushes /\ SliversKept(b) /\ ThreadsOK
  BY DEF KeptInv, Undisturbed, Quiet, FlushInv, WakeupInv
<1>2. ASSUME NEW t \in Threads, thread[t].blob = b
      PROVE  thread[t].held = {} /\ ~Responsible(t, b)
  <2>1. WellFormed(t, thread[t])
    BY <1>1, ThreadFields
  <2>2. thread[t].pc \in {"idle", "flushed", "ended"}
    <3>1. CASE t \in Requests
      BY <1>2, <3>1 DEF AtRest
    <3>2. CASE t \in Blobs
      BY <1>2, <2>1, <3>2 DEF AtRest, WellFormed, WorkerRecord
    <3> QED
      BY <3>1, <3>2 DEF Threads
  <2> QED
    BY <2>1, <2>2 DEF WellFormed, Responsible, Draining
<1>3. Held(b) = {}
  BY <1>2 DEF Held
<1>4. cache[b].slivers = {}
  <2>1. ~At(b, "idle")
    BY DEF AtRest, At
  <2>2. \A t \in Threads : ~Responsible(t, b)
    BY <1>2 DEF Responsible
  <2> QED
    BY <1>1, <2>1, <2>2 DEF SomeoneFlushes
<1> QED
  BY <1>1, <1>3, <1>4 DEF SliversKept

(* However uploads, flushes and the registration interleave: when all        *)
(* requests for a registered blob are over, its acknowledged slivers are in  *)
(* storage (flush_pending_caches and its callers).                           *)
THEOREM SliversNeverLeftBehind == Spec => []AcknowledgedIsStored
<1>1. WakeupInv /\ KeptInv /\ [Next]_vars => KeptInv'
  BY NextKept DEF WakeupInv
<1>2. WakeupInv /\ KeptInv /\ FlushInv /\ [Next]_vars => FlushInv'
  BY NextFlush
<1>3. WakeupInv /\ KeptInv /\ FlushInv => AcknowledgedIsStored
  BY RestIsFlushed
<1> QED
  BY <1>1, <1>2, <1>3, InitKept, InitFlush, WakeupInvHolds, PTL DEF Spec

-----------------------------------------------------------------------------
(***************************************************************************)
(* The event cursor.  None of the properties is inductive alone: that a    *)
(* delivered index is not repeated needs to know where the sequencer's     *)
(* head stands relative to the loop's index and to the starting index of   *)
(* this run.  LoopInv says so.                                             *)
(***************************************************************************)

(* Outside the loop nobody holds a handle.  In the loop, until the node's  *)
(* starting index is reached the head stands there and nothing is held;    *)
(* from then on the head lies between the two indices, and everything held *)
(* or queued is an index that was delivered.                               *)
LoopInv ==
  /\ phase # "running" => handles = {} /\ queue = {}
  /\ phase \in {"repositioned", "status_set"} =>
       cursor.next_event_index = FirstAvailable
  /\ phase = "running" =>
       /\ processing_starting_index <= head_index
       /\ element_index <= processing_starting_index =>
            head_index = processing_starting_index /\ handles = {} /\ queue = {}
       /\ element_index >= processing_starting_index => head_index <= element_index
       /\ \A i \in handles \cup queue : head_index <= i /\ i < element_index
       /\ handles \cap queue = {}

(* What waits in the sequencer's queue has been handled.                    *)
QueuedAreCompleted == queue \subseteq completed

CursorInv ==
  /\ CursorType
  /\ PersistedAreCompleted
  /\ NoRepeatedIndex
  /\ MemoryMatchesDisk
  /\ IndexNamesEvent
  /\ NothingLost
  /\ LoopInv
  /\ QueuedAreCompleted

USE NumEventsAssumption, FirstAvailableAssumption, MaxCrashesAssumption

(* The initial state satisfies the invariant.                               *)
LEMMA CursorInitInv == CursorInit => CursorInv
  BY DEF CursorInit, CursorInv, CursorType, PersistedAreCompleted, NoRepeatedIndex, MemoryMatchesDisk,
         IndexNamesEvent, NothingLost, LoopInv, QueuedAreCompleted, Cursors, Phases, NoEvent, NoWriter

(* A set of event indices is finite, so the number pending is a natural.   *)
LEMMA PendingIsNat ==
  ASSUME NEW S \in SUBSET (0 .. (NumEvents - 1))
  PROVE  Cardinality(S) \in Nat
  <1>1. IsFiniteSet(0 .. (NumEvents - 1))
    BY FS_Interval
  <1>2. IsFiniteSet(S)
    BY <1>1, FS_Subset
  <1>3. QED
    BY <1>2, FS_CardinalityType

(* Opening the table restores the sequencer from disk.                      *)
LEMMA ReopenInv == CursorInv /\ Reopen => CursorInv'
  BY DEF Reopen, CursorInv, CursorType, PersistedAreCompleted, NoRepeatedIndex, MemoryMatchesDisk,
         IndexNamesEvent, NothingLost, LoopInv, QueuedAreCompleted, Cursors, Phases, diskVars, streamVars,
         AddPanics

(* Resuming the stream starts the loop at or below the head.                *)
LEMMA ContinueInv == CursorInv /\ ContinueEventStream => CursorInv'
  BY DEF ContinueEventStream, StartStream, LowestNeeded, Min2, CursorInv, CursorType,
         PersistedAreCompleted, NoRepeatedIndex, MemoryMatchesDisk, IndexNamesEvent,
         NothingLost, LoopInv, QueuedAreCompleted, Cursors, Phases, diskVars, memVars, AddPanics

(* Skipping events that are no longer available moves the cursor forward.   *)
LEMMA RepositionInv == CursorInv /\ RepositionEventCursor => CursorInv'
  BY DEF RepositionEventCursor, CursorInv, CursorType, PersistedAreCompleted, NoRepeatedIndex,
         MemoryMatchesDisk, IndexNamesEvent, NothingLost, LoopInv, QueuedAreCompleted, Cursors, Phases,
         streamVars, AddPanics, NoEvent

(* Recording the incomplete history touches no cursor.                      *)
LEMMA SetIncompleteHistoryInv == CursorInv /\ SetIncompleteHistory => CursorInv'
  BY DEF SetIncompleteHistory, CursorInv, CursorType, PersistedAreCompleted, NoRepeatedIndex,
         MemoryMatchesDisk, IndexNamesEvent, NothingLost, LoopInv, QueuedAreCompleted, Cursors, Phases,
         streamVars, memVars, AddPanics

(* After the skip the loop starts at the first available event.             *)
LEMMA ContinueAfterRepositionInv == CursorInv /\ ContinueAfterReposition => CursorInv'
  BY DEF ContinueAfterReposition, StartStream, LowestNeeded, Min2, Max2, CursorInv, CursorType,
         PersistedAreCompleted, NoRepeatedIndex, MemoryMatchesDisk, IndexNamesEvent,
         NothingLost, LoopInv, QueuedAreCompleted, Cursors, Phases, memVars, AddPanics

(* A delivered event is held exactly if its index is not below the head.    *)
LEMMA ProcessEventInv == CursorInv /\ ProcessEvent => CursorInv'
  BY DEF ProcessEvent, NeededByNode, CursorInv, CursorType, PersistedAreCompleted,
         NoRepeatedIndex, MemoryMatchesDisk, IndexNamesEvent, NothingLost, LoopInv,
         QueuedAreCompleted, Cursors, Phases, diskVars, memVars, AddPanics

(* The writer's cursor is no part of the node's progress.                   *)
LEMMA WriterCommitInv == CursorInv /\ WriterCommit => CursorInv'
  BY DEF WriterCommit, CursorInv, CursorType, PersistedAreCompleted, NoRepeatedIndex,
         MemoryMatchesDisk, IndexNamesEvent, NothingLost, LoopInv, QueuedAreCompleted, Cursors, Phases,
         memVars, streamVars, AddPanics

(* A crash loses handles and the queue, but nothing persisted.              *)
LEMMA CrashInv == CursorInv /\ Crash => CursorInv'
  BY DEF Crash, CursorInv, CursorType, PersistedAreCompleted, NoRepeatedIndex, MemoryMatchesDisk,
         IndexNamesEvent, NothingLost, LoopInv, QueuedAreCompleted, Cursors, Phases, diskVars, streamVars,
         AddPanics

(* Completion advances the cursor over handled events only.                 *)
LEMMA MarkAsCompleteInv ==
  ASSUME NEW i \in handles, CursorInv, MarkAsComplete(i)
  PROVE  CursorInv'
  <1> DEFINE observed == queue \cup {i}
  <1>1. PICK gap \in head_index .. NumEvents :
          /\ head_index .. (gap - 1) \subseteq observed
          /\ gap \notin observed
          /\ cursor' = IF gap = head_index THEN cursor ELSE
               [event_id |-> gap - 1,
                next_event_index |-> cursor.next_event_index + (gap - head_index)]
          /\ queue' = observed \ (head_index .. (gap - 1))
          /\ head_index' = gap
          /\ progress' = [persisted |-> gap,
                          pending |-> Cardinality(observed \ (head_index .. (gap - 1))),
                          highest |-> Max2(progress.highest, i)]
    BY DEF MarkAsComplete, ReadyUpTo, MergedIndex
  <1>2. /\ phase = "running" /\ UNCHANGED <<status, writer_cursor, streamVars, phase, crashes>>
        /\ handles' = handles \ {i}
        /\ completed' = completed \cup {i}
        /\ i \in 0 .. (NumEvents - 1)
    BY DEF MarkAsComplete, CursorInv, CursorType
  <1>3. CursorType /\ LoopInv /\ MemoryMatchesDisk
    BY DEF CursorInv
  <1>4. cursor'.next_event_index = gap
    BY <1>1, <1>2, <1>3 DEF MemoryMatchesDisk, CursorType, Cursors
  <1>5. queue' \in SUBSET (0 .. (NumEvents - 1))
    BY <1>1, <1>2, <1>3 DEF CursorType
  <1>6. CursorType'
    <2>1. progress' \in [persisted: 0 .. NumEvents, pending: Nat, highest: Nat]
      <3>1. Cardinality(observed \ (head_index .. (gap - 1))) \in Nat
        BY <1>1, <1>5, PendingIsNat
      <3>2. Max2(progress.highest, i) \in Nat
        BY <1>2, <1>3 DEF Max2, CursorType
      <3>3. gap \in 0 .. NumEvents
        BY <1>3 DEF CursorType
      <3> QED
        BY <1>1, <3>1, <3>2, <3>3
    <2>2. cursor' \in Cursors
      BY <1>1, <1>2, <1>3 DEF MemoryMatchesDisk, CursorType, Cursors, NoEvent
    <2> QED
      BY <1>1, <1>2, <1>3, <1>5, <2>1, <2>2 DEF CursorType, streamVars
  <1>7. PersistedAreCompleted'
    <2> SUFFICES ASSUME NEW j \in 0 .. (gap - 1)
                 PROVE  j \in completed' \/ j < FirstAvailable
      BY <1>4 DEF PersistedAreCompleted
    <2>1. CASE j < head_index
      BY <2>1, <1>2, <1>3 DEF CursorInv, PersistedAreCompleted, MemoryMatchesDisk, CursorType
    <2>2. CASE j >= head_index /\ j = i
      BY <2>2, <1>2
    <2>3. CASE j >= head_index /\ j # i
      <3>1. j \in queue
        BY <2>3, <1>1, <1>3 DEF CursorType
      <3> QED
        BY <3>1, <1>2 DEF CursorInv, QueuedAreCompleted
    <2> QED
      BY <2>1, <2>2, <2>3, <1>3 DEF CursorType
  <1>8. NoRepeatedIndex' /\ LoopInv'
    BY <1>1, <1>2, <1>3 DEF LoopInv, NoRepeatedIndex, AddPanics, CursorType, streamVars
  <1>9. MemoryMatchesDisk' /\ IndexNamesEvent'
    BY <1>1, <1>2, <1>4 DEF CursorInv, MemoryMatchesDisk, IndexNamesEvent, streamVars
  <1>10. NothingLost'
    BY <1>1, <1>2, <1>3 DEF CursorInv, NothingLost, CursorType, streamVars
  <1>11. QueuedAreCompleted'
    BY <1>1, <1>2 DEF CursorInv, QueuedAreCompleted
  <1> QED
    BY <1>6, <1>7, <1>8, <1>9, <1>10, <1>11 DEF CursorInv

(* Every step preserves the invariant.                                      *)
LEMMA CursorNextInv == CursorInv /\ [CursorNext]_cursorVars => CursorInv'
  <1> SUFFICES ASSUME CursorInv, [CursorNext]_cursorVars
               PROVE  CursorInv'
    OBVIOUS
  <1>1. CASE StartUp
    BY <1>1, ReopenInv, ContinueInv, RepositionInv, SetIncompleteHistoryInv,
       ContinueAfterRepositionInv DEF StartUp
  <1>2. CASE ProcessEvent
    BY <1>2, ProcessEventInv
  <1>3. CASE \E i \in handles : MarkAsComplete(i)
    BY <1>3, MarkAsCompleteInv
  <1>4. CASE WriterCommit
    BY <1>4, WriterCommitInv
  <1>5. CASE Crash
    BY <1>5, CrashInv
  <1>6. CASE UNCHANGED cursorVars
    BY <1>6 DEF cursorVars, diskVars, memVars, streamVars, CursorInv, CursorType, PersistedAreCompleted,
      NoRepeatedIndex, MemoryMatchesDisk, IndexNamesEvent, NothingLost, LoopInv,
      QueuedAreCompleted, Cursors, AddPanics
  <1> QED
    BY <1>1, <1>2, <1>3, <1>4, <1>5, <1>6 DEF CursorNext, AwaitEvents

(* The inductive invariant holds in every reachable state.                  *)
LEMMA CursorSpecInv == CursorSpec => []CursorInv
  BY CursorInitInv, CursorNextInv, PTL DEF CursorSpec

(* Type correctness of the event cursor, the sequencer and the event loop. *)
THEOREM CursorTypeCorrect == CursorSpec => []CursorType
  <1>1. CursorInv => CursorType
    BY DEF CursorInv
  <1> QED
    BY <1>1, CursorSpecInv, PTL

(* For any number of events and crashes, an event below the persisted      *)
(* cursor was completely handled (or was never available to this node).    *)
THEOREM CursorCoversCompleted == CursorSpec => []PersistedAreCompleted
  <1>1. CursorInv => PersistedAreCompleted
    BY DEF CursorInv
  <1> QED
    BY <1>1, CursorSpecInv, PTL

(* The panic of EventSequencer::add is unreachable.                        *)
THEOREM AddNeverPanics == CursorSpec => []NoRepeatedIndex
  <1>1. CursorInv => NoRepeatedIndex
    BY DEF CursorInv
  <1> QED
    BY <1>1, CursorSpecInv, PTL

(* No delivered event is lost between the loop and the cursor, the index   *)
(* given to an element is its event's index, and memory agrees with disk.  *)
THEOREM NoEventLost == CursorSpec => [](NothingLost /\ IndexNamesEvent /\ MemoryMatchesDisk)
  <1>1. CursorInv => NothingLost /\ IndexNamesEvent /\ MemoryMatchesDisk
    BY DEF CursorInv
  <1> QED
    BY <1>1, CursorSpecInv, PTL

(* The persisted cursor never moves backwards.                             *)
THEOREM CursorNeverMovesBack == CursorSpec => CursorMonotone
  <1> DEFINE Forward == cursor'.next_event_index >= cursor.next_event_index
  <1>1. CursorInv /\ [CursorNext]_cursorVars => [Forward]_cursorVars
    <2> SUFFICES ASSUME CursorInv, CursorNext
                 PROVE  Forward
      OBVIOUS
    <2>1. cursor.next_event_index \in Nat /\ head_index \in Nat
      BY DEF CursorInv, CursorType, Cursors
    <2>2. CASE \E i \in handles : MarkAsComplete(i)
      BY <2>1, <2>2 DEF MarkAsComplete, MergedIndex
    <2>3. CASE RepositionEventCursor
      BY <2>3 DEF RepositionEventCursor
    <2>4. CASE UNCHANGED cursor
      BY <2>1, <2>4
    <2> QED
      BY <2>2, <2>3, <2>4 DEF CursorNext, StartUp, Reopen, ContinueEventStream,
         SetIncompleteHistory, ContinueAfterReposition, ProcessEvent, WriterCommit, Crash,
         AwaitEvents, diskVars, cursorVars
  <1> QED
    BY <1>1, CursorSpecInv, PTL DEF CursorSpec, CursorMonotone
===============================================================================
