-------------------------- MODULE BlobEventsProofs --------------------------
(***************************************************************************)
(* Proofs about the events of a blob: as long as neither the monitor nor   *)
(* garbage collection interferes, a certified blob that is not stored is   *)
(* being synced or will be, for any number of objects, shards, events and  *)
(* crashes.                                                                *)
(*                                                                         *)
(* The argument has two parts. EventInv is about the events alone: an      *)
(* event is in the queue, with the task of a sync, with the one who waits  *)
(* for a cancelled task, or complete, so that no event is completed while  *)
(* it waits in the queue. On top of it, SyncInv and HandleInv say that the *)
(* sync that is found in the map either has the missing slivers before it  *)
(* or has stored all of them, which is why its presence completes an event *)
(* (StartSync), and CancelInv that a sync is cancelled only if the blob is *)
(* not certified or will be synced again.                                  *)
(***************************************************************************)
EXTENDS BlobEvents, WellFoundedInduction, TLAPS

-----------------------------------------------------------------------------
(* The inductive invariant *)

Types == {"Certified", "Deleted", "Invalid"}

TypeInv ==
  /\ objects \in [Objects -> {"new", "registered", "certified", "deleted"}]
  /\ invalid \in BOOLEAN
  /\ log \in Seq(Types) /\ Len(log) <= MaxEvents
  /\ queue \in Seq(Nat) /\ completed \subseteq DOMAIN log
  /\ worker \in [pc : {"idle", "check", "start", "cancel", "join", "delete"}, erase : BOOLEAN]
  /\ sync \in [status : {"none", "running", "cancelled", "ending"}, event : Nat,
               handle : {"none", "map", "worker", "monitor"}, todo : SUBSET Shards]
  /\ joined \in [{"worker", "monitor"} -> Nat]
  /\ stored \subseteq Shards
  /\ monitored \in BOOLEAN /\ collections \in Nat /\ faults \in Nat

Distinct(q) == \A i, j \in DOMAIN q : q[i] = q[j] => i = j

\* The queue has every event at most once, and no event that is complete.
QueueInv ==
  /\ ToSet(queue) \subseteq DOMAIN log \ completed
  /\ Distinct(queue)

\* The event of a sync, and the event of a task that has ended, have left the queue.
EventsInv ==
  /\ sync.event \in {None} \cup (DOMAIN log \ ToSet(queue))
  /\ \A who \in {"worker", "monitor"} :
       joined[who] \in {None, Waiting} \cup (DOMAIN log \ ToSet(queue))

\* What the worker is doing fits the head of the queue.
WorkerInv ==
  /\ worker.pc # "idle" => queue # <<>>
  /\ worker.pc \in {"check", "start"} => log[Event] = "Certified"
  /\ worker.pc \in {"cancel", "join", "delete"} => log[Event] \in {"Deleted", "Invalid"}
  /\ worker.pc \in {"cancel", "join", "delete"} /\ log[Event] = "Invalid" => worker.erase

InvalidInv == \A i \in DOMAIN log : log[i] = "Invalid" => invalid

CertifiedWaits == \E i \in ToSet(queue) : log[i] = "Certified"

\* Who may hold the handle of the task, and what data is deleted by.
HandleInv ==
  /\ sync.handle # "monitor" /\ joined["monitor"] = None
  /\ sync.handle = "none" => sync = NoSync
  /\ sync.status = "none" => sync = NoSync
  /\ sync.handle = "worker" => worker.pc = "join"
  /\ sync.status = "cancelled" => sync.handle = "worker"
  /\ worker.pc = "join" /\ joined["worker"] # Waiting => sync = NoSync
  /\ worker.pc = "delete" /\ worker.erase => sync = NoSync

SyncInv ==
  /\ sync.status = "running" =>
       /\ Shards \ stored \subseteq sync.todo
       /\ sync.event \in DOMAIN log \ completed /\ log[sync.event] = "Certified"
  /\ sync.status = "ending" => stored = Shards

\* A sync is cancelled only if the blob is not certified, or will be synced again.
CancelInv == worker.pc = "cancel" /\ IsCertified => CertifiedWaits

Quiet == ~ monitored /\ collections = 0

EventInv == TypeInv /\ QueueInv /\ EventsInv /\ WorkerInv /\ InvalidInv
QuietInv == HandleInv /\ SyncInv /\ CancelInv /\ NotForgotten

IInv == EventInv /\ (Quiet => QuietInv)

-----------------------------------------------------------------------------
(* Queues *)

(* An event that is appended to the queue.                                 *)
LEMMA QueueAppend ==
  ASSUME NEW q \in Seq(Nat), NEW x \in Nat
  PROVE  /\ Append(q, x) \in Seq(Nat)
         /\ ToSet(Append(q, x)) = ToSet(q) \cup {x}
         /\ q # <<>> => Append(q, x) # <<>> /\ Head(Append(q, x)) = Head(q)
         /\ Distinct(q) /\ x \notin ToSet(q) => Distinct(Append(q, x))
<1>1. Append(q, x) \in Seq(Nat) /\ DOMAIN Append(q, x) = 1 .. Len(q) + 1
  OBVIOUS
<1>2. /\ DOMAIN q = 1 .. Len(q) /\ Len(q) \in Nat
      /\ \A i \in 1 .. Len(q) : Append(q, x)[i] = q[i]
      /\ Append(q, x)[Len(q) + 1] = x
  OBVIOUS
<1>3. q # <<>> => Append(q, x) # <<>> /\ Head(Append(q, x)) = Head(q)
  OBVIOUS
<1>4. ASSUME NEW y PROVE y \in ToSet(Append(q, x)) <=> y \in ToSet(q) \/ y = x
  <2>1. y \in ToSet(Append(q, x)) <=> \E i \in 1 .. Len(q) + 1 : y = Append(q, x)[i]
    BY <1>1 DEF ToSet
  <2>2. y \in ToSet(q) <=> \E i \in 1 .. Len(q) : y = q[i]
    BY <1>2 DEF ToSet
  <2> QED BY <1>2, <2>1, <2>2
<1>5. ToSet(Append(q, x)) = ToSet(q) \cup {x}
  BY <1>4
<1>6. ASSUME Distinct(q), x \notin ToSet(q) PROVE Distinct(Append(q, x))
  <2>1. \A i \in 1 .. Len(q) : q[i] # x
    BY <1>2, <1>6 DEF ToSet
  <2>2. \A i, j \in 1 .. Len(q) + 1 : Append(q, x)[i] = Append(q, x)[j] => i = j
    BY <1>2, <1>6, <2>1 DEF Distinct
  <2> QED BY <1>1, <2>2 DEF Distinct
<1> QED BY <1>1, <1>3, <1>5, <1>6

(* The head of the queue is removed.                                       *)
LEMMA QueueTail ==
  ASSUME NEW q \in Seq(Nat), q # <<>>, Distinct(q)
  PROVE  /\ Tail(q) \in Seq(Nat)
         /\ Head(q) \in ToSet(q)
         /\ ToSet(Tail(q)) = ToSet(q) \ {Head(q)}
         /\ Distinct(Tail(q))
<1>1. Tail(q) \in Seq(Nat) /\ Len(Tail(q)) = Len(q) - 1 /\ Len(q) \in Nat \ {0}
  OBVIOUS
<1>2. \A i \in 1 .. Len(q) - 1 : Tail(q)[i] = q[i + 1]
  OBVIOUS
<1>3. Head(q) = q[1]
  OBVIOUS
<1>4. ToSet(Tail(q)) \subseteq ToSet(q) \ {Head(q)}
  BY <1>1, <1>2, <1>3 DEF ToSet, Distinct
<1>5. ASSUME NEW x \in ToSet(q) \ {Head(q)} PROVE x \in ToSet(Tail(q))
  <2>1. PICK i \in 2 .. Len(q) : x = q[i]
    BY <1>1, <1>3 DEF ToSet
  <2>2. i - 1 \in DOMAIN Tail(q) /\ Tail(q)[i - 1] = x
    BY <1>1, <1>2, <2>1
  <2> QED BY <2>2 DEF ToSet
<1>6. Distinct(Tail(q))
  BY <1>1, <1>2 DEF Distinct
<1>7. Head(q) \in ToSet(q)
  BY <1>1, <1>3 DEF ToSet
<1>8. ToSet(Tail(q)) = ToSet(q) \ {Head(q)}
  BY <1>4, <1>5
<1> QED BY <1>1, <1>6, <1>7, <1>8

(* The queue of the events from some event on.                             *)
LEMMA QueueFrom ==
  ASSUME NEW c \in Nat, NEW n \in Nat, c <= n, NEW q, q = [i \in 1 .. n - c |-> c + i]
  PROVE  q \in Seq(Nat) /\ ToSet(q) = c + 1 .. n /\ Distinct(q)
<1>1. n - c \in Nat /\ q \in Seq(Nat) /\ DOMAIN q = 1 .. n - c
  OBVIOUS
<1>2. ASSUME NEW x \in c + 1 .. n PROVE x \in ToSet(q)
  <2>1. x - c \in 1 .. n - c /\ q[x - c] = x
    OBVIOUS
  <2> QED BY <1>1, <2>1 DEF ToSet
<1>3. ToSet(q) \subseteq c + 1 .. n
  BY <1>1 DEF ToSet
<1>4. ToSet(q) = c + 1 .. n
  BY <1>2, <1>3
<1>5. Distinct(q)
  BY <1>1 DEF Distinct
<1> QED BY <1>1, <1>4, <1>5

(* A set with 0 that is closed under successors has all natural numbers.   *)
LEMMA EventNumbers ==
  ASSUME NEW N \in SUBSET Nat, 0 \in N, \A n \in N : n + 1 \in N
  PROVE  N = Nat
<1> DEFINE Less == {p \in Nat \X Nat : p[1] < p[2]}
<1>1. SUFFICES ASSUME Nat \ N # {} PROVE FALSE
  OBVIOUS
<1>2. IsWellFoundedOn(Less, Nat)
  BY NatLessThanWellFounded DEF OpToRel
<1>3. PICK m \in Nat \ N : \A n \in Nat \ N : <<n, m>> \notin Less
  <2>1. Nat \ N \subseteq Nat
    OBVIOUS
  <2> HIDE DEF Less
  <2> QED BY <1>1, <1>2, <2>1, WFMin
<1>4. m # 0 /\ m - 1 \in Nat /\ <<m - 1, m>> \in Less
  OBVIOUS
<1>5. m - 1 \in N
  BY <1>3, <1>4
<1> QED BY <1>4, <1>5

(* There is a first event that is not complete, so the cursor of the node  *)
(* is what it says.                                                        *)
LEMMA CursorIsBehind ==
  ASSUME TypeInv
  PROVE  /\ Cursor \in 0 .. Len(log)
         /\ 1 .. Cursor \subseteq completed
         /\ Cursor + 1 \notin completed
<1>1. Len(log) \in Nat /\ completed \subseteq 1 .. Len(log)
  BY DEF TypeInv
<1>2. \E c \in 0 .. Len(log) : 1 .. c \subseteq completed /\ c + 1 \notin completed
  <2>1. SUFFICES ASSUME ~ \E c \in 0 .. Len(log) :
                          1 .. c \subseteq completed /\ c + 1 \notin completed
                 PROVE  FALSE
    OBVIOUS
  <2> DEFINE N == {n \in Nat : n <= Len(log) + 1 => 1 .. n \subseteq completed}
  <2>2. N \in SUBSET Nat /\ 0 \in N
    OBVIOUS
  <2>3. ASSUME NEW n \in N PROVE n + 1 \in N
    <3>1. CASE n <= Len(log)
      <4>1. 1 .. n \subseteq completed /\ n \in 0 .. Len(log)
        BY <1>1, <3>1
      <4>2. n + 1 \in completed
        BY <2>1, <4>1
      <4> QED BY <4>1, <4>2
    <3>2. CASE ~(n <= Len(log))
      BY <1>1, <3>2
    <3> QED BY <3>1, <3>2
  <2>4. N = Nat
    <3> HIDE DEF N
    <3> QED BY <2>2, <2>3, EventNumbers
  <2>5. Len(log) + 1 \in N
    BY <1>1, <2>4
  <2>6. 1 .. Len(log) + 1 \subseteq completed
    BY <1>1, <2>5
  <2> QED BY <1>1, <2>6
<1> QED BY <1>2 DEF Cursor

-----------------------------------------------------------------------------
(* Where an event is *)

(* The facts about the events that the steps below use.                    *)
LEMMA EventFacts ==
  ASSUME EventInv
  PROVE  /\ Len(log) \in Nat /\ DOMAIN log = 1 .. Len(log) /\ Len(log) <= MaxEvents
         /\ MaxEvents \in Nat
         /\ queue # <<>> => /\ Event \in ToSet(queue) /\ Event \in DOMAIN log \ completed
                            /\ log[Event] \in Types
BY QueueTail, BoundsAssumption DEF EventInv, TypeInv, QueueInv, Event

(* An event is read.                                                       *)
LEMMA EventRead ==
  ASSUME EventInv, NEW type \in Types, Dispatch(type), invalid => invalid',
         type = "Invalid" => invalid',
         objects' \in [Objects -> {"new", "registered", "certified", "deleted"}],
         invalid' \in BOOLEAN
  PROVE  /\ EventInv'
         /\ ToSet(queue') = ToSet(queue) \cup {Len(log) + 1}
         /\ log'[Len(log) + 1] = type
         /\ \A i \in DOMAIN log : i \in DOMAIN log' /\ log'[i] = log[i]
<1> DEFINE n == Len(log) + 1
<1>1. /\ n \in Nat /\ n \notin DOMAIN log /\ n <= MaxEvents /\ n # Waiting /\ n # None
      /\ Len(log) \in Nat /\ log \in Seq(Types)
  BY EventFacts DEF Dispatch, Waiting, None, EventInv, TypeInv
<1>2. /\ log' \in Seq(Types) /\ Len(log') = n /\ DOMAIN log' = DOMAIN log \cup {n}
      /\ log'[n] = type
      /\ \A i \in DOMAIN log : log'[i] = log[i]
  BY <1>1 DEF Dispatch
<1>3. queue \in Seq(Nat) /\ ToSet(queue) \subseteq DOMAIN log \ completed /\ Distinct(queue)
  BY DEF EventInv, TypeInv, QueueInv
<1> HIDE DEF n
<1>4. queue' = Append(queue, n)
  BY DEF Dispatch, n
<1>5. /\ queue' \in Seq(Nat) /\ ToSet(queue') = ToSet(queue) \cup {n} /\ Distinct(queue')
      /\ queue # <<>> => queue' # <<>> /\ Head(queue') = Head(queue)
  BY <1>1, <1>3, <1>4, QueueAppend
<1>6. UNCHANGED <<completed, worker, sync, joined, stored, bounds>>
  BY DEF Dispatch
<1>7. TypeInv'
  BY <1>1, <1>2, <1>5, <1>6 DEF EventInv, TypeInv, bounds
<1>8. QueueInv'
  BY <1>1, <1>2, <1>3, <1>5, <1>6 DEF EventInv, TypeInv, QueueInv
<1>9. EventsInv'
  BY <1>1, <1>2, <1>3, <1>5, <1>6 DEF EventInv, EventsInv
<1>10. WorkerInv'
  <2>1. queue # <<>> => Head(queue) \in DOMAIN log /\ Head(queue') = Head(queue)
    BY <1>5, EventFacts DEF Event
  <2>2. queue # <<>> => log'[Head(queue')] = log[Head(queue)]
    BY <1>2, <2>1
  <2> QED BY <1>5, <1>6, <2>2 DEF EventInv, WorkerInv, Event
<1>11. InvalidInv'
  BY <1>2 DEF EventInv, InvalidInv
<1> QED BY <1>2, <1>5, <1>7, <1>8, <1>9, <1>10, <1>11 DEF EventInv, n

(* The worker goes on with the same event.                                 *)
LEMMA WorkerContinues ==
  ASSUME EventInv, UNCHANGED <<objects, invalid, log, queue, stored, bounds>>,
         completed' \subseteq DOMAIN log \ ToSet(queue),
         NEW pc \in {"check", "start", "cancel", "join", "delete"}, NEW erase \in BOOLEAN,
         worker' = [pc |-> pc, erase |-> erase], queue # <<>>,
         pc \in {"check", "start"} => log[Event] = "Certified",
         pc \in {"cancel", "join", "delete"} => log[Event] \in {"Deleted", "Invalid"},
         pc \in {"cancel", "join", "delete"} /\ log[Event] = "Invalid" => erase,
         sync' \in [status : {"none", "running", "cancelled", "ending"}, event : Nat,
                    handle : {"none", "map", "worker", "monitor"}, todo : SUBSET Shards],
         joined' \in [{"worker", "monitor"} -> Nat],
         EventsInv'
  PROVE  EventInv'
<1>1. TypeInv'
  BY DEF EventInv, TypeInv, bounds
<1>2. QueueInv'
  BY DEF EventInv, QueueInv
<1>3. worker'.pc = pc /\ worker'.erase = erase /\ Event' = Event
  BY DEF Event
<1>4. WorkerInv'
  BY <1>3 DEF WorkerInv
<1>5. InvalidInv'
  BY DEF EventInv, InvalidInv
<1> QED BY <1>1, <1>2, <1>4, <1>5 DEF EventInv

(* The worker is done with the event.                                      *)
LEMMA WorkerFinishes ==
  ASSUME EventInv, queue # <<>>, NEW E \in SUBSET {Event}, Finish(E),
         UNCHANGED <<objects, invalid, log, joined, bounds>>, stored' \subseteq Shards,
         sync' \in [status : {"none", "running", "cancelled", "ending"}, event : Nat,
                    handle : {"none", "map", "worker", "monitor"}, todo : SUBSET Shards],
         sync'.event \in {sync.event, Event}
  PROVE  /\ EventInv'
         /\ ToSet(queue') = ToSet(queue) \ {Event}
<1>1. /\ queue \in Seq(Nat) /\ ToSet(queue) \subseteq DOMAIN log \ completed /\ Distinct(queue)
      /\ completed \subseteq DOMAIN log /\ queue' = Tail(queue) /\ worker' = Idle
  BY DEF EventInv, TypeInv, QueueInv, Finish
<1>2. /\ queue' \in Seq(Nat) /\ ToSet(queue') = ToSet(queue) \ {Event} /\ Distinct(queue')
      /\ Event \in ToSet(queue)
  BY <1>1, QueueTail DEF Event
<1>3. completed' \subseteq completed \cup {Event}
  BY DEF Finish, Done
<1>4. worker' \in [pc : {"idle", "check", "start", "cancel", "join", "delete"}, erase : BOOLEAN]
      /\ worker'.pc = "idle"
  BY <1>1 DEF Idle
<1>5. TypeInv'
  BY <1>1, <1>2, <1>3, <1>4 DEF EventInv, TypeInv, bounds
<1>6. QueueInv'
  BY <1>1, <1>2, <1>3 DEF EventInv, QueueInv
<1>7. EventsInv'
  BY <1>1, <1>2 DEF EventInv, EventsInv
<1>8. WorkerInv'
  BY <1>4 DEF WorkerInv
<1>9. InvalidInv'
  BY DEF EventInv, InvalidInv
<1> QED BY <1>2, <1>5, <1>6, <1>7, <1>8, <1>9 DEF EventInv

(* A step that leaves the worker and its queue alone.                      *)
LEMMA WorkerUnchanged ==
  ASSUME EventInv, UNCHANGED <<invalid, log, queue, worker>>,
         objects' \in [Objects -> {"new", "registered", "certified", "deleted"}],
         completed' \subseteq DOMAIN log \ ToSet(queue),
         sync' \in [status : {"none", "running", "cancelled", "ending"}, event : Nat,
                    handle : {"none", "map", "worker", "monitor"}, todo : SUBSET Shards],
         joined' \in [{"worker", "monitor"} -> Nat],
         stored' \subseteq Shards, monitored' \in BOOLEAN, {collections', faults'} \subseteq Nat,
         EventsInv'
  PROVE  EventInv'
<1>1. TypeInv'
  BY DEF EventInv, TypeInv
<1>2. QueueInv'
  BY DEF EventInv, QueueInv
<1>3. WorkerInv'
  BY DEF EventInv, WorkerInv, Event
<1>4. InvalidInv'
  BY DEF EventInv, InvalidInv
<1> QED BY <1>1, <1>2, <1>3, <1>4 DEF EventInv

-----------------------------------------------------------------------------
(* Every step keeps EventInv *)

(* The typing of the sync and of the workers, for the steps below.         *)
LEMMA Typed ==
  ASSUME EventInv
  PROVE  /\ objects \in [Objects -> {"new", "registered", "certified", "deleted"}]
         /\ invalid \in BOOLEAN
         /\ sync \in [status : {"none", "running", "cancelled", "ending"}, event : Nat,
                      handle : {"none", "map", "worker", "monitor"}, todo : SUBSET Shards]
         /\ worker = [pc |-> worker.pc, erase |-> worker.erase] /\ worker.erase \in BOOLEAN
         /\ joined \in [{"worker", "monitor"} -> Nat]
         /\ stored \subseteq Shards
         /\ monitored \in BOOLEAN /\ {collections, faults} \subseteq Nat
         /\ completed \subseteq DOMAIN log \ ToSet(queue)
         /\ MaxEvents \in Nat
BY BoundsAssumption DEF EventInv, TypeInv, QueueInv

LEMMA RegisterEvents == ASSUME EventInv, NEW o \in Objects, Register(o) PROVE EventInv'
<1>1. objects' \in [Objects -> {"new", "registered", "certified", "deleted"}]
  BY Typed DEF Register
<1>2. EventsInv'
  BY DEF EventInv, EventsInv, Register
<1> QED BY <1>1, <1>2, Typed, WorkerUnchanged DEF Register, bounds

LEMMA ReadCertifiedEvents ==
  ASSUME EventInv, NEW o \in Objects, ReadCertified(o)
  PROVE  EventInv'
<1>1. objects' \in [Objects -> {"new", "registered", "certified", "deleted"}]
  BY Typed DEF ReadCertified
<1>2. Dispatch("Certified") /\ invalid' = invalid /\ "Certified" \in Types
  BY DEF ReadCertified, Types
<1> QED BY <1>1, <1>2, Typed, EventRead

LEMMA ReadDeletedEvents ==
  ASSUME EventInv, NEW o \in Objects, ReadDeleted(o)
  PROVE  EventInv'
<1>1. objects' \in [Objects -> {"new", "registered", "certified", "deleted"}]
  BY Typed DEF ReadDeleted
<1>2. Dispatch("Deleted") /\ invalid' = invalid /\ "Deleted" \in Types
  BY DEF ReadDeleted, Types
<1> QED BY <1>1, <1>2, Typed, EventRead

LEMMA ReadInvalidEvents == ASSUME EventInv, ReadInvalid PROVE EventInv'
<1>1. Dispatch("Invalid") /\ invalid' = TRUE /\ objects' = objects /\ "Invalid" \in Types
  BY DEF ReadInvalid, Types
<1> QED BY <1>1, Typed, EventRead

(* The event of a step of the worker that does not end with the event.     *)
LEMMA ContinueEvents ==
  ASSUME EventInv, queue # <<>>, NEW pc \in {"check", "start", "cancel", "join", "delete"},
         Continue(pc), UNCHANGED <<objects, invalid, log, sync, joined, stored, bounds>>,
         pc \in {"check", "start"} => log[Event] = "Certified",
         pc \in {"cancel", "join", "delete"} => worker.pc \in {"cancel", "join", "delete"}
  PROVE  EventInv'
<1>1. worker' = [pc |-> pc, erase |-> worker.erase] /\ queue' = queue /\ completed' = completed
  BY Typed DEF Continue
<1>2. EventsInv'
  BY <1>1 DEF EventInv, EventsInv
<1>3. /\ pc \in {"cancel", "join", "delete"} => log[Event] \in {"Deleted", "Invalid"}
      /\ pc \in {"cancel", "join", "delete"} /\ log[Event] = "Invalid" => worker.erase
  BY DEF EventInv, WorkerInv
<1> QED BY <1>1, <1>2, <1>3, Typed, WorkerContinues

LEMMA ProcessBlobCertifiedEvents == ASSUME EventInv, ProcessBlobCertified PROVE EventInv'
<1>1. queue # <<>> /\ log[Event] = "Certified"
  BY DEF ProcessBlobCertified, Handles
<1>2. CASE Continue("check")
  BY <1>1, <1>2, ContinueEvents DEF ProcessBlobCertified
<1>3. CASE Finish({Event})
  BY <1>1, <1>3, Typed, WorkerFinishes DEF ProcessBlobCertified
<1> QED BY <1>2, <1>3 DEF ProcessBlobCertified

LEMMA CheckStoredEvents == ASSUME EventInv, CheckStored PROVE EventInv'
<1>1. queue # <<>> /\ log[Event] = "Certified"
  BY DEF CheckStored, Handles
<1>2. CASE Continue("start")
  BY <1>1, <1>2, ContinueEvents DEF CheckStored
<1>3. CASE Finish({Event})
  BY <1>1, <1>3, Typed, WorkerFinishes DEF CheckStored
<1> QED BY <1>2, <1>3 DEF CheckStored

LEMMA StartSyncEvents == ASSUME EventInv, StartSync PROVE EventInv'
<1>1. queue # <<>> /\ UNCHANGED <<objects, invalid, log, joined, stored, bounds>>
  BY DEF StartSync, Handles
<1>2. CASE sync = NoSync
  <2>1. sync' = [status |-> "running", event |-> Event, handle |-> "map", todo |-> Shards]
        /\ Finish({})
    BY <1>2 DEF StartSync
  <2>2. Event \in Nat
    BY <1>1, EventFacts
  <2> QED BY <1>1, <2>1, <2>2, Typed, WorkerFinishes
<1>3. CASE sync # NoSync
  <2>1. sync' = sync /\ Finish({Event})
    BY <1>3 DEF StartSync
  <2> QED BY <1>1, <2>1, Typed, WorkerFinishes
<1> QED BY <1>2, <1>3

LEMMA ProcessBlobDeletedEvents == ASSUME EventInv, ProcessBlobDeleted PROVE EventInv'
<1> DEFINE pc == IF IsCertified THEN "delete" ELSE "cancel"
<1>1. /\ UNCHANGED <<objects, invalid, log, sync, joined, stored, bounds>>
      /\ queue # <<>> /\ log[Event] = "Deleted"
      /\ \/ worker' = [pc |-> pc, erase |-> ~IsRegistered] /\ UNCHANGED <<queue, completed>>
         \/ Finish({Event})
  BY DEF ProcessBlobDeleted, Handles
<1>2. pc \in {"delete", "cancel"} /\ (~IsRegistered) \in BOOLEAN
  OBVIOUS
<1> HIDE DEF pc
<1>3. CASE worker' = [pc |-> pc, erase |-> ~IsRegistered] /\ UNCHANGED <<queue, completed>>
  <2>1. EventsInv'
    BY <1>1, <1>3 DEF EventInv, EventsInv
  <2> QED BY <1>1, <1>2, <1>3, <2>1, Typed, WorkerContinues
<1>4. CASE Finish({Event})
  BY <1>1, <1>4, Typed, WorkerFinishes
<1> QED BY <1>1, <1>3, <1>4

LEMMA ProcessBlobInvalidEvents == ASSUME EventInv, ProcessBlobInvalid PROVE EventInv'
<1>1. /\ worker' = [pc |-> "cancel", erase |-> TRUE]
      /\ UNCHANGED <<objects, invalid, log, queue, completed, sync, joined, stored, bounds>>
      /\ queue # <<>> /\ log[Event] = "Invalid"
  BY DEF ProcessBlobInvalid, Handles
<1>2. EventsInv'
  BY <1>1 DEF EventInv, EventsInv
<1> QED BY <1>1, <1>2, Typed, WorkerContinues

(* Cancelling keeps the event of the task.                                 *)
LEMMA CancelTyped ==
  ASSUME EventInv, NEW who \in {"worker", "monitor"}, Cancel(who), UNCHANGED <<log, queue>>
  PROVE  /\ sync' \in [status : {"none", "running", "cancelled", "ending"}, event : Nat,
                       handle : {"none", "map", "worker", "monitor"}, todo : SUBSET Shards]
         /\ joined' \in [{"worker", "monitor"} -> Nat]
         /\ sync'.event = sync.event /\ sync'.handle = who /\ sync'.todo = sync.todo
         /\ sync'.status = IF sync.status = "running" THEN "cancelled" ELSE sync.status
         /\ joined'[who] = Waiting
         /\ EventsInv'
<1>1. /\ sync' \in [status : {"none", "running", "cancelled", "ending"}, event : Nat,
                    handle : {"none", "map", "worker", "monitor"}, todo : SUBSET Shards]
      /\ sync'.event = sync.event /\ sync'.handle = who /\ sync'.todo = sync.todo
      /\ sync'.status = IF sync.status = "running" THEN "cancelled" ELSE sync.status
  BY Typed DEF Cancel
<1>2. /\ joined' \in [{"worker", "monitor"} -> Nat] /\ joined'[who] = Waiting
      /\ \A w \in {"worker", "monitor"} : w # who => joined'[w] = joined[w]
  BY Typed DEF Cancel, Waiting
<1>3. EventsInv'
  BY <1>1, <1>2 DEF EventInv, EventsInv, Waiting
<1> QED BY <1>1, <1>2, <1>3

LEMMA CancelSyncEvents == ASSUME EventInv, CancelSync PROVE EventInv'
<1>1. /\ queue # <<>> /\ worker.pc = "cancel" /\ UNCHANGED <<objects, invalid, log, stored, bounds>>
  BY DEF CancelSync, Handles
<1>2. CASE sync.handle = "map"
  <2>1. Cancel("worker") /\ worker' = [pc |-> "join", erase |-> worker.erase]
        /\ UNCHANGED <<queue, completed>>
    BY <1>2, Typed DEF CancelSync, Continue, AfterCancel
  <2>2. /\ sync' \in [status : {"none", "running", "cancelled", "ending"}, event : Nat,
                      handle : {"none", "map", "worker", "monitor"}, todo : SUBSET Shards]
        /\ joined' \in [{"worker", "monitor"} -> Nat]
        /\ EventsInv'
    BY <1>1, <2>1, CancelTyped
  <2>3. /\ log[Event] \in {"Deleted", "Invalid"}
        /\ log[Event] = "Invalid" => worker.erase
    BY <1>1 DEF EventInv, WorkerInv
  <2> QED BY <1>1, <2>1, <2>2, <2>3, Typed, WorkerContinues
<1>3. CASE sync.handle # "map"
  <2>1. UNCHANGED <<sync, joined>> /\ Continue("delete")
    BY <1>3 DEF CancelSync
  <2> QED BY <1>1, <2>1, ContinueEvents
<1> QED BY <1>2, <1>3

(* What a cancelled task gave back is complete, for either one who waits.  *)
LEMMA JoinTyped ==
  ASSUME EventInv, NEW who \in {"worker", "monitor"}, joined[who] # Waiting,
         Done(Returned(who)), joined' = [joined EXCEPT ![who] = None],
         UNCHANGED <<log, queue, sync>>
  PROVE  /\ completed' \subseteq DOMAIN log \ ToSet(queue)
         /\ joined' \in [{"worker", "monitor"} -> Nat]
         /\ joined'[who] = None
         /\ EventsInv'
<1>1. completed' \subseteq DOMAIN log \ ToSet(queue)
  BY Typed DEF EventInv, EventsInv, Done, Returned
<1>2. /\ joined' \in [{"worker", "monitor"} -> Nat] /\ joined'[who] = None
      /\ \A w \in {"worker", "monitor"} : w # who => joined'[w] = joined[w]
  BY Typed DEF None
<1>3. EventsInv'
  BY <1>2 DEF EventInv, EventsInv
<1> QED BY <1>1, <1>2, <1>3

LEMMA JoinSyncEvents == ASSUME EventInv, JoinSync PROVE EventInv'
<1>1. /\ worker.pc = "join" /\ joined["worker"] # Waiting
      /\ UNCHANGED <<objects, invalid, log, queue, sync, stored, bounds>>
      /\ worker' = [pc |-> "delete", erase |-> worker.erase]
      /\ Done(Returned("worker")) /\ joined' = [joined EXCEPT !["worker"] = None]
  BY Typed DEF JoinSync
<1>2. /\ completed' \subseteq DOMAIN log \ ToSet(queue)
      /\ joined' \in [{"worker", "monitor"} -> Nat]
      /\ EventsInv'
  BY <1>1, JoinTyped
<1>3. /\ queue # <<>> /\ log[Event] \in {"Deleted", "Invalid"}
      /\ log[Event] = "Invalid" => worker.erase
  BY <1>1 DEF EventInv, WorkerInv
<1> QED BY <1>1, <1>2, <1>3, Typed, WorkerContinues

LEMMA DeleteDataEvents == ASSUME EventInv, DeleteData PROVE EventInv'
<1>1. queue # <<>> /\ Finish({Event}) /\ UNCHANGED <<objects, invalid, log, sync, joined, bounds>>
  BY DEF DeleteData, Handles
<1>2. stored' \subseteq Shards
  BY Typed DEF DeleteData
<1> QED BY <1>1, <1>2, Typed, WorkerFinishes

(* A task changes its entry and keeps its event.                           *)
LEMMA RecoverShardEvents ==
  ASSUME EventInv, NEW s \in Shards, RecoverShard(s)
  PROVE  /\ EventInv'
         /\ sync'.event = sync.event /\ sync'.handle = sync.handle
         /\ sync'.status = sync.status /\ sync'.todo = sync.todo \ {s}
<1>1. /\ sync' \in [status : {"none", "running", "cancelled", "ending"}, event : Nat,
                    handle : {"none", "map", "worker", "monitor"}, todo : SUBSET Shards]
      /\ sync'.event = sync.event /\ sync'.handle = sync.handle
      /\ sync'.status = sync.status /\ sync'.todo = sync.todo \ {s}
  BY Typed DEF RecoverShard
<1>2. /\ stored' \subseteq Shards
      /\ UNCHANGED <<objects, invalid, log, queue, completed, worker, joined, bounds>>
  BY Typed DEF RecoverShard
<1>3. EventsInv'
  BY <1>1, <1>2 DEF EventInv, EventsInv
<1> QED BY <1>1, <1>2, <1>3, Typed, WorkerUnchanged DEF bounds

LEMMA UploadEvents == ASSUME EventInv, NEW s \in Shards, Upload(s) PROVE EventInv'
<1>1. EventsInv'
  BY DEF EventInv, EventsInv, Upload
<1>2. stored' \subseteq Shards
  BY Typed DEF Upload
<1> QED BY <1>1, <1>2, Typed, WorkerUnchanged DEF Upload, bounds

LEMMA FinishSyncEvents ==
  ASSUME EventInv, FinishSync
  PROVE  EventInv' /\ sync'.status = "ending" /\ sync'.handle = sync.handle
<1>1. /\ sync' \in [status : {"none", "running", "cancelled", "ending"}, event : Nat,
                    handle : {"none", "map", "worker", "monitor"}, todo : SUBSET Shards]
      /\ sync'.event = None /\ sync'.status = "ending" /\ sync'.handle = sync.handle
  BY Typed DEF FinishSync, None
<1>2. /\ completed' \subseteq DOMAIN log \ ToSet(queue)
      /\ UNCHANGED <<objects, invalid, log, queue, worker, joined, stored, bounds>>
  BY Typed DEF EventInv, EventsInv, FinishSync, Done
<1>3. EventsInv'
  BY <1>1, <1>2 DEF EventInv, EventsInv
<1> QED BY <1>1, <1>2, <1>3, Typed, WorkerUnchanged DEF bounds

LEMMA RemoveSyncHandleEvents == ASSUME EventInv, RemoveSyncHandle PROVE EventInv'
<1>1. /\ sync' \in [status : {"none", "running", "cancelled", "ending"}, event : Nat,
                    handle : {"none", "map", "worker", "monitor"}, todo : SUBSET Shards]
      /\ sync'.event = None
      /\ UNCHANGED <<objects, invalid, log, queue, completed, worker, stored, bounds>>
  BY DEF RemoveSyncHandle, NoSync, None
<1>2. /\ joined' \in [{"worker", "monitor"} -> Nat]
      /\ \A who \in {"worker", "monitor"} : joined'[who] \in {joined[who], sync.event}
  BY Typed DEF RemoveSyncHandle
<1>3. EventsInv'
  BY <1>1, <1>2 DEF EventInv, EventsInv
<1> QED BY <1>1, <1>2, <1>3, Typed, WorkerUnchanged DEF bounds

LEMMA CancelExpiredSyncEvents == ASSUME EventInv, CancelExpiredSync PROVE EventInv'
<1>1. /\ Cancel("monitor") /\ monitored' = TRUE
      /\ UNCHANGED <<objects, invalid, log, queue, completed, worker, stored, collections, faults>>
  BY DEF CancelExpiredSync
<1>2. /\ sync' \in [status : {"none", "running", "cancelled", "ending"}, event : Nat,
                    handle : {"none", "map", "worker", "monitor"}, todo : SUBSET Shards]
      /\ joined' \in [{"worker", "monitor"} -> Nat]
      /\ EventsInv'
  BY <1>1, CancelTyped
<1> QED BY <1>1, <1>2, Typed, WorkerUnchanged

LEMMA JoinExpiredSyncEvents == ASSUME EventInv, JoinExpiredSync PROVE EventInv'
<1>1. /\ joined["monitor"] # Waiting
      /\ UNCHANGED <<objects, invalid, log, queue, worker, sync, stored, bounds>>
      /\ Done(Returned("monitor")) /\ joined' = [joined EXCEPT !["monitor"] = None]
  BY DEF JoinExpiredSync
<1>2. /\ completed' \subseteq DOMAIN log \ ToSet(queue)
      /\ joined' \in [{"worker", "monitor"} -> Nat]
      /\ EventsInv'
  BY <1>1, JoinTyped
<1> QED BY <1>1, <1>2, Typed, WorkerUnchanged DEF bounds

LEMMA CollectGarbageEvents == ASSUME EventInv, CollectGarbage PROVE EventInv'
<1>1. EventsInv'
  BY DEF EventInv, EventsInv, CollectGarbage
<1>2. stored' \subseteq Shards /\ collections' \in Nat
  BY Typed DEF CollectGarbage
<1> QED BY <1>1, <1>2, Typed, WorkerUnchanged DEF CollectGarbage

(* After a crash the node reads on from the cursor.                        *)
LEMMA CrashEvents ==
  ASSUME EventInv, Crash
  PROVE  EventInv' /\ DOMAIN log \ completed \subseteq ToSet(queue')
<1>1. /\ Cursor \in 0 .. Len(log) /\ 1 .. Cursor \subseteq completed /\ Len(log) \in Nat
      /\ DOMAIN log = 1 .. Len(log)
  BY CursorIsBehind, EventFacts DEF EventInv
<1>2. PICK c \in 0 .. Len(log) : c = Cursor
  BY <1>1
<1>3. /\ completed' = 1 .. c /\ queue' = [i \in 1 .. Len(log) - c |-> c + i]
      /\ worker' = Idle /\ sync' = NoSync /\ faults' = faults + 1
      /\ joined' = [who \in DOMAIN joined |-> None]
      /\ UNCHANGED <<objects, invalid, log, stored, monitored, collections>>
  BY <1>2 DEF Crash
<1>4. queue' \in Seq(Nat) /\ ToSet(queue') = c + 1 .. Len(log) /\ Distinct(queue')
  BY <1>1, <1>2, <1>3, QueueFrom
<1>5. /\ completed' \subseteq DOMAIN log \ ToSet(queue') /\ ToSet(queue') \subseteq DOMAIN log
      /\ DOMAIN log \ completed \subseteq ToSet(queue')
  <2>1. c \in Nat /\ c <= Len(log) /\ 1 .. c \subseteq completed
    BY <1>1, <1>2
  <2>2. completed' = 1 .. c /\ ToSet(queue') = c + 1 .. Len(log)
    BY <1>3, <1>4
  <2>3. \A i \in 1 .. Len(log) : (i \in 1 .. c /\ i \notin c + 1 .. Len(log)) \/ i \in c + 1 .. Len(log)
    BY <1>1, <2>1
  <2>4. 1 .. c \subseteq 1 .. Len(log) /\ c + 1 .. Len(log) \subseteq 1 .. Len(log)
    BY <1>1, <2>1
  <2> QED BY <1>1, <2>1, <2>2, <2>3, <2>4
<1>6. joined' \in [{"worker", "monitor"} -> Nat] /\ \A w \in {"worker", "monitor"} : joined'[w] = None
  BY <1>3, Typed DEF None
<1>7. /\ sync' \in [status : {"none", "running", "cancelled", "ending"}, event : Nat,
                    handle : {"none", "map", "worker", "monitor"}, todo : SUBSET Shards]
      /\ sync'.event = None
      /\ worker' \in [pc : {"idle", "check", "start", "cancel", "join", "delete"}, erase : BOOLEAN]
      /\ worker'.pc = "idle"
  BY <1>3 DEF NoSync, Idle, None
<1>8. TypeInv'
  BY <1>3, <1>4, <1>5, <1>6, <1>7 DEF EventInv, TypeInv
<1>9. QueueInv' /\ EventsInv' /\ WorkerInv' /\ InvalidInv'
  BY <1>3, <1>4, <1>5, <1>6, <1>7 DEF EventInv, QueueInv, EventsInv, WorkerInv, InvalidInv
<1> QED BY <1>5, <1>8, <1>9 DEF EventInv

-----------------------------------------------------------------------------
(* What is invariant while neither the monitor nor garbage collection interferes *)

(* A step that leaves the blob info, the stored slivers, the queue and the *)
(* sync alone forgets no blob.                                             *)
LEMMA NotForgottenUnchanged ==
  ASSUME NotForgotten, UNCHANGED <<objects, invalid, log, queue, sync, stored>>
  PROVE  NotForgotten'
BY DEF NotForgotten, IsCertified

LEMMA RegisterQuiet ==
  ASSUME EventInv, QuietInv, NEW o \in Objects, Register(o)
  PROVE  QuietInv'
<1>1. UNCHANGED <<invalid, log, queue, completed, worker, sync, joined, stored>>
  BY DEF Register
<1>2. IsCertified' => IsCertified
  BY Typed DEF Register, IsCertified
<1>3. HandleInv' /\ SyncInv'
  BY <1>1 DEF QuietInv, HandleInv, SyncInv, NoSync
<1>4. CancelInv' /\ NotForgotten'
  BY <1>1, <1>2 DEF QuietInv, CancelInv, NotForgotten, CertifiedWaits
<1> QED BY <1>3, <1>4 DEF QuietInv

(* Reading an event does not change what the worker and the task do.       *)
LEMMA DispatchQuiet ==
  ASSUME EventInv, QuietInv, NEW type \in Types, Dispatch(type),
         ToSet(queue') = ToSet(queue) \cup {Len(log) + 1},
         log'[Len(log) + 1] = type,
         \A i \in DOMAIN log : i \in DOMAIN log' /\ log'[i] = log[i],
         type = "Certified" \/ (IsCertified' => IsCertified)
  PROVE  QuietInv'
<1>1. UNCHANGED <<completed, worker, sync, joined, stored>>
  BY DEF Dispatch
<1>2. HandleInv' /\ SyncInv'
  BY <1>1 DEF QuietInv, HandleInv, SyncInv, NoSync
<1>3. CertifiedWaits => CertifiedWaits'
  BY DEF CertifiedWaits, EventInv, QueueInv
<1>4. CASE type = "Certified"
  <2>1. CertifiedWaits'
    BY <1>4 DEF CertifiedWaits
  <2>2. CancelInv' /\ NotForgotten'
    BY <2>1 DEF CertifiedWaits, CancelInv, NotForgotten
  <2> QED BY <1>2, <2>2 DEF QuietInv
<1>5. CASE IsCertified' => IsCertified
  <2>1. CancelInv'
    BY <1>1, <1>3, <1>5 DEF QuietInv, CancelInv
  <2>2. NotForgotten'
    BY <1>1, <1>3, <1>5 DEF QuietInv, NotForgotten, CertifiedWaits
  <2> QED BY <1>2, <2>1, <2>2 DEF QuietInv
<1> QED BY <1>4, <1>5

LEMMA ReadCertifiedQuiet ==
  ASSUME EventInv, QuietInv, NEW o \in Objects, ReadCertified(o)
  PROVE  QuietInv'
<1>1. objects' \in [Objects -> {"new", "registered", "certified", "deleted"}]
  BY Typed DEF ReadCertified
<1>2. Dispatch("Certified") /\ invalid' = invalid /\ "Certified" \in Types
  BY DEF ReadCertified, Types
<1>3. /\ ToSet(queue') = ToSet(queue) \cup {Len(log) + 1}
      /\ log'[Len(log) + 1] = "Certified"
      /\ \A i \in DOMAIN log : i \in DOMAIN log' /\ log'[i] = log[i]
  BY <1>1, <1>2, Typed, EventRead
<1> QED BY <1>2, <1>3, DispatchQuiet

LEMMA ReadDeletedQuiet ==
  ASSUME EventInv, QuietInv, NEW o \in Objects, ReadDeleted(o)
  PROVE  QuietInv'
<1>1. objects' \in [Objects -> {"new", "registered", "certified", "deleted"}]
  BY Typed DEF ReadDeleted
<1>2. Dispatch("Deleted") /\ invalid' = invalid /\ "Deleted" \in Types
  BY DEF ReadDeleted, Types
<1>3. /\ ToSet(queue') = ToSet(queue) \cup {Len(log) + 1}
      /\ log'[Len(log) + 1] = "Deleted"
      /\ \A i \in DOMAIN log : i \in DOMAIN log' /\ log'[i] = log[i]
  BY <1>1, <1>2, Typed, EventRead
<1>4. IsCertified' => IsCertified
  BY Typed DEF ReadDeleted, IsCertified
<1> QED BY <1>2, <1>3, <1>4, DispatchQuiet

LEMMA ReadInvalidQuiet == ASSUME EventInv, QuietInv, ReadInvalid PROVE QuietInv'
<1>1. Dispatch("Invalid") /\ invalid' = TRUE /\ objects' = objects /\ "Invalid" \in Types
  BY DEF ReadInvalid, Types
<1>2. /\ ToSet(queue') = ToSet(queue) \cup {Len(log) + 1}
      /\ log'[Len(log) + 1] = "Invalid"
      /\ \A i \in DOMAIN log : i \in DOMAIN log' /\ log'[i] = log[i]
  BY <1>1, Typed, EventRead
<1>3. IsCertified' => IsCertified
  BY <1>1 DEF IsCertified
<1> QED BY <1>1, <1>2, <1>3, DispatchQuiet

(* The worker is done with its event and has not changed the sync: if the  *)
(* event is one that starts a sync, there is nothing left to store, or a   *)
(* task that stores it.                                                    *)
LEMMA FinishQuiet ==
  ASSUME EventInv, QuietInv, queue # <<>>, worker.pc # "join", Finish({Event}),
         UNCHANGED <<objects, invalid, log, sync, joined>>,
         ToSet(queue') = ToSet(queue) \ {Event},
         stored' = stored \/ (~IsCertified /\ sync = NoSync),
         log[Event] = "Certified" /\ IsCertified /\ stored # Shards =>
           sync.status = "running" /\ Shards \ stored \subseteq sync.todo
  PROVE  QuietInv'
<1>1. worker'.pc = "idle" /\ completed' = completed \cup ({Event} \ {None}) /\ worker'.erase = FALSE
  BY DEF Finish, Idle, Done
<1>2. HandleInv'
  BY <1>1 DEF QuietInv, HandleInv, NoSync
<1>3. SyncInv'
  <2>1. sync.status = "running" => sync.event # Event
    BY EventFacts DEF EventInv, EventsInv, None
  <2>2. sync = NoSync => sync.status = "none"
    BY DEF NoSync
  <2> QED BY <1>1, <2>1, <2>2 DEF QuietInv, SyncInv
<1>4. CancelInv'
  BY <1>1 DEF CancelInv
<1>5. NotForgotten'
  <2>1. SUFFICES ASSUME IsCertified', stored' # Shards
                 PROVE  \/ sync'.status = "running" /\ Shards \ stored' \subseteq sync'.todo
                        \/ \E i \in ToSet(queue') : log'[i] = "Certified"
    BY DEF NotForgotten
  <2>2. IsCertified /\ stored' = stored
    BY <2>1 DEF IsCertified
  <2>3. CASE log[Event] = "Certified"
    BY <2>1, <2>2, <2>3
  <2>4. CASE log[Event] # "Certified"
    BY <2>1, <2>2, <2>4 DEF QuietInv, NotForgotten
  <2> QED BY <2>3, <2>4
<1> QED BY <1>2, <1>3, <1>4, <1>5 DEF QuietInv

(* The worker goes on with its event and has not changed the sync.         *)
LEMMA ContinueQuiet ==
  ASSUME EventInv, QuietInv, worker.pc # "join",
         UNCHANGED <<objects, invalid, log, queue, completed, sync, joined, stored>>,
         worker'.pc # "join",
         worker'.pc = "delete" /\ worker'.erase => sync = NoSync,
         worker'.pc = "cancel" /\ IsCertified => CertifiedWaits
  PROVE  QuietInv'
<1>1. HandleInv' /\ SyncInv'
  BY DEF QuietInv, HandleInv, SyncInv, NoSync
<1>2. IsCertified' = IsCertified /\ CertifiedWaits' = CertifiedWaits
  BY DEF IsCertified, CertifiedWaits
<1>3. CancelInv'
  BY <1>2 DEF CancelInv
<1>4. NotForgotten'
  BY NotForgottenUnchanged DEF QuietInv
<1> QED BY <1>1, <1>3, <1>4 DEF QuietInv

LEMMA ProcessBlobCertifiedQuiet ==
  ASSUME EventInv, QuietInv, ProcessBlobCertified
  PROVE  QuietInv'
<1>1. /\ queue # <<>> /\ log[Event] = "Certified" /\ worker.pc = "idle"
      /\ UNCHANGED <<objects, invalid, log, sync, joined, stored, bounds>>
  BY DEF ProcessBlobCertified, Handles
<1>2. CASE IsCertified
  <2>1. Continue("check")
    BY <1>2 DEF ProcessBlobCertified
  <2>2. worker'.pc = "check" /\ UNCHANGED <<queue, completed>>
    BY <2>1, Typed DEF Continue
  <2> QED BY <1>1, <2>2, ContinueQuiet
<1>3. CASE ~IsCertified
  <2>1. Finish({Event})
    BY <1>3 DEF ProcessBlobCertified
  <2>2. ToSet(queue') = ToSet(queue) \ {Event}
    BY <1>1, <2>1, Typed, WorkerFinishes
  <2> QED BY <1>1, <1>3, <2>1, <2>2, FinishQuiet
<1> QED BY <1>2, <1>3

LEMMA CheckStoredQuiet ==
  ASSUME EventInv, QuietInv, CheckStored
  PROVE  QuietInv'
<1>1. /\ queue # <<>> /\ log[Event] = "Certified" /\ worker.pc = "check"
      /\ UNCHANGED <<objects, invalid, log, sync, joined, stored, bounds>>
  BY DEF CheckStored, Handles
<1>2. CASE stored # Shards
  <2>1. Continue("start")
    BY <1>2 DEF CheckStored
  <2>2. worker'.pc = "start" /\ UNCHANGED <<queue, completed>>
    BY <2>1, Typed DEF Continue
  <2> QED BY <1>1, <2>2, ContinueQuiet
<1>3. CASE stored = Shards
  <2>1. Finish({Event})
    BY <1>3 DEF CheckStored
  <2>2. ToSet(queue') = ToSet(queue) \ {Event}
    BY <1>1, <2>1, Typed, WorkerFinishes
  <2> QED BY <1>1, <1>3, <2>1, <2>2, FinishQuiet
<1> QED BY <1>2, <1>3

(* There is a sync already: it is running, or it has stored all slivers.   *)
LEMMA StartSyncQuiet ==
  ASSUME EventInv, QuietInv, StartSync
  PROVE  QuietInv'
<1>1. /\ queue # <<>> /\ log[Event] = "Certified" /\ worker.pc = "start"
      /\ UNCHANGED <<objects, invalid, log, joined, stored, bounds>>
  BY DEF StartSync, Handles
<1>2. CASE sync = NoSync
  <2>1. /\ sync' = [status |-> "running", event |-> Event, handle |-> "map", todo |-> Shards]
        /\ Finish({})
    BY <1>2 DEF StartSync
  <2>2. /\ sync'.status = "running" /\ sync'.event = Event /\ sync'.handle = "map"
        /\ sync'.todo = Shards
    BY <2>1
  <2>3. worker'.pc = "idle" /\ worker'.erase = FALSE /\ completed' = completed
    BY <2>1 DEF Finish, Idle, Done
  <2>4. HandleInv'
    BY <1>1, <2>2, <2>3 DEF QuietInv, HandleInv
  <2>5. SyncInv'
    BY <1>1, <2>2, <2>3, EventFacts DEF SyncInv
  <2>6. CancelInv'
    BY <2>3 DEF CancelInv
  <2>7. NotForgotten'
    BY <2>2 DEF NotForgotten
  <2> QED BY <2>4, <2>5, <2>6, <2>7 DEF QuietInv
<1>3. CASE sync # NoSync
  <2>1. sync' = sync /\ Finish({Event})
    BY <1>3 DEF StartSync
  <2>2. ToSet(queue') = ToSet(queue) \ {Event}
    BY <1>1, <2>1, Typed, WorkerFinishes
  <2>3. sync.status \in {"running", "ending"}
    BY <1>1, <1>3, Typed DEF QuietInv, HandleInv
  <2>4. stored # Shards => sync.status = "running" /\ Shards \ stored \subseteq sync.todo
    BY <2>3 DEF QuietInv, SyncInv
  <2> QED BY <1>1, <2>1, <2>2, <2>4, FinishQuiet
<1> QED BY <1>2, <1>3

(* A deletion cancels the sync only if no object is certified.             *)
LEMMA ProcessBlobDeletedQuiet ==
  ASSUME EventInv, QuietInv, ProcessBlobDeleted
  PROVE  QuietInv'
<1>1. /\ worker.pc = "idle" /\ queue # <<>> /\ log[Event] = "Deleted"
      /\ UNCHANGED <<objects, invalid, log, sync, joined, stored, bounds>>
      /\ \/ /\ worker'.pc = (IF IsCertified THEN "delete" ELSE "cancel")
            /\ worker'.erase = ~IsRegistered
            /\ UNCHANGED <<queue, completed>>
         \/ Finish({Event})
  BY DEF ProcessBlobDeleted, Handles
<1>2. CASE /\ worker'.pc = (IF IsCertified THEN "delete" ELSE "cancel")
           /\ worker'.erase = ~IsRegistered
           /\ UNCHANGED <<queue, completed>>
  <2>1. IsCertified => IsRegistered
    BY DEF IsCertified, IsRegistered
  <2> QED BY <1>1, <1>2, <2>1, ContinueQuiet DEF bounds
<1>3. CASE Finish({Event})
  <2>1. ToSet(queue') = ToSet(queue) \ {Event}
    BY <1>1, <1>3, Typed, WorkerFinishes
  <2> QED BY <1>1, <1>3, <2>1, FinishQuiet
<1> QED BY <1>1, <1>2, <1>3

LEMMA ProcessBlobInvalidQuiet ==
  ASSUME EventInv, QuietInv, ProcessBlobInvalid
  PROVE  QuietInv'
<1>1. /\ worker.pc = "idle" /\ queue # <<>> /\ log[Event] = "Invalid"
      /\ UNCHANGED <<objects, invalid, log, queue, completed, sync, joined, stored>>
      /\ worker'.pc = "cancel"
  BY DEF ProcessBlobInvalid, Handles, bounds
<1>2. ~IsCertified
  BY <1>1, EventFacts DEF EventInv, InvalidInv, IsCertified
<1> QED BY <1>1, <1>2, ContinueQuiet

LEMMA CancelSyncQuiet ==
  ASSUME EventInv, QuietInv, CancelSync
  PROVE  QuietInv'
<1>1. /\ queue # <<>> /\ worker.pc = "cancel"
      /\ UNCHANGED <<objects, invalid, log, stored>>
  BY DEF CancelSync, Handles
<1>2. CASE sync.handle = "map"
  <2>1. Cancel("worker") /\ worker'.pc = "join" /\ UNCHANGED <<queue, completed>>
    BY <1>2, Typed DEF CancelSync, Continue, AfterCancel
  <2>2. /\ sync'.handle = "worker" /\ joined'["worker"] = Waiting
        /\ sync'.status = IF sync.status = "running" THEN "cancelled" ELSE sync.status
    BY <1>1, <2>1, CancelTyped
  <2>3. joined'["monitor"] = None
    BY <2>1, Typed DEF Cancel, QuietInv, HandleInv
  <2>4. sync.status \in {"running", "ending"}
    BY <1>2, Typed DEF QuietInv, HandleInv, NoSync
  <2>5. HandleInv'
    BY <2>1, <2>2, <2>3, <2>4 DEF HandleInv
  <2>6. SyncInv'
    BY <1>1, <2>2, <2>4 DEF QuietInv, SyncInv
  <2>7. CancelInv'
    BY <2>1 DEF CancelInv
  <2>8. NotForgotten'
    <3>1. IsCertified => CertifiedWaits
      BY <1>1 DEF QuietInv, CancelInv
    <3> QED BY <1>1, <2>1, <3>1 DEF NotForgotten, IsCertified, CertifiedWaits
  <2> QED BY <2>5, <2>6, <2>7, <2>8 DEF QuietInv
<1>3. CASE sync.handle # "map"
  <2>1. /\ UNCHANGED <<sync, joined, queue, completed>> /\ worker'.pc = "delete"
    BY <1>3, Typed DEF CancelSync, Continue
  <2>2. sync = NoSync
    BY <1>1, <1>3, Typed DEF QuietInv, HandleInv
  <2> QED BY <1>1, <2>1, <2>2, ContinueQuiet
<1> QED BY <1>2, <1>3

LEMMA JoinSyncQuiet ==
  ASSUME EventInv, QuietInv, JoinSync
  PROVE  QuietInv'
<1>1. /\ worker.pc = "join" /\ joined["worker"] # Waiting
      /\ UNCHANGED <<objects, invalid, log, queue, sync, stored>>
      /\ worker'.pc = "delete"
      /\ joined' = [joined EXCEPT !["worker"] = None]
  BY Typed DEF JoinSync
<1>2. sync = NoSync /\ sync.status = "none" /\ sync.handle = "none"
  BY <1>1 DEF QuietInv, HandleInv, NoSync
<1>3. joined'["monitor"] = None
  BY <1>1, Typed DEF QuietInv, HandleInv
<1>4. HandleInv' /\ SyncInv'
  BY <1>1, <1>2, <1>3 DEF HandleInv, SyncInv, NoSync
<1>5. CancelInv'
  BY <1>1 DEF CancelInv
<1>6. NotForgotten'
  BY <1>1, NotForgottenUnchanged DEF QuietInv
<1> QED BY <1>4, <1>5, <1>6 DEF QuietInv

(* Data is deleted only if the blob is not certified and has no task.      *)
LEMMA DeleteDataQuiet ==
  ASSUME EventInv, QuietInv, DeleteData
  PROVE  QuietInv'
<1>1. /\ queue # <<>> /\ Finish({Event}) /\ worker.pc = "delete"
      /\ log[Event] \in {"Deleted", "Invalid"}
      /\ UNCHANGED <<objects, invalid, log, sync, joined, bounds>>
  BY DEF DeleteData, Handles
<1>2. stored' \subseteq Shards
  BY Typed DEF DeleteData
<1>3. ToSet(queue') = ToSet(queue) \ {Event}
  BY <1>1, <1>2, Typed, WorkerFinishes
<1>4. stored' = stored \/ (~IsCertified /\ worker.erase)
  <2>1. CASE log[Event] = "Invalid"
    BY <1>1, <2>1, EventFacts DEF EventInv, WorkerInv, InvalidInv, IsCertified
  <2>2. CASE log[Event] # "Invalid"
    BY <2>2 DEF DeleteData, IsCertified, IsRegistered
  <2> QED BY <2>1, <2>2
<1>5. worker.erase => sync = NoSync
  BY <1>1 DEF QuietInv, HandleInv
<1> QED BY <1>1, <1>3, <1>4, <1>5, FinishQuiet

LEMMA RecoverShardQuiet ==
  ASSUME EventInv, QuietInv, NEW s \in Shards, RecoverShard(s)
  PROVE  QuietInv'
<1>1. /\ sync.status = "running" /\ stored' = stored \cup {s}
      /\ UNCHANGED <<objects, invalid, log, queue, completed, worker, joined>>
  BY DEF RecoverShard
<1>2. /\ sync'.event = sync.event /\ sync'.handle = sync.handle
      /\ sync'.status = sync.status /\ sync'.todo = sync.todo \ {s}
  BY RecoverShardEvents
<1>3. sync # NoSync /\ sync.handle # "none"
  BY <1>1 DEF QuietInv, HandleInv, NoSync
<1>4. HandleInv'
  BY <1>1, <1>2, <1>3 DEF QuietInv, HandleInv
<1>5. SyncInv'
  BY <1>1, <1>2 DEF QuietInv, SyncInv
<1>6. CancelInv'
  BY <1>1 DEF QuietInv, CancelInv, CertifiedWaits, IsCertified
<1>7. NotForgotten'
  BY <1>1, <1>2, <1>5 DEF NotForgotten, SyncInv
<1> QED BY <1>4, <1>5, <1>6, <1>7 DEF QuietInv

LEMMA UploadQuiet ==
  ASSUME EventInv, QuietInv, NEW s \in Shards, Upload(s)
  PROVE  QuietInv'
<1>1. /\ stored' = stored \cup {s}
      /\ UNCHANGED <<objects, invalid, log, queue, completed, worker, sync, joined>>
  BY DEF Upload
<1>2. stored' \subseteq Shards /\ Shards \ stored' \subseteq Shards \ stored
      /\ (stored' # Shards => stored # Shards)
  BY <1>1, Typed
<1>3. HandleInv'
  BY <1>1 DEF QuietInv, HandleInv, NoSync
<1>4. SyncInv'
  BY <1>1, <1>2 DEF QuietInv, SyncInv
<1>5. CancelInv'
  BY <1>1 DEF QuietInv, CancelInv, CertifiedWaits, IsCertified
<1>6. NotForgotten'
  BY <1>1, <1>2 DEF QuietInv, NotForgotten, IsCertified
<1> QED BY <1>3, <1>4, <1>5, <1>6 DEF QuietInv

LEMMA FinishSyncQuiet ==
  ASSUME EventInv, QuietInv, FinishSync
  PROVE  QuietInv'
<1>1. /\ sync.status = "running" /\ sync.todo = {}
      /\ UNCHANGED <<objects, invalid, log, queue, worker, joined, stored>>
  BY DEF FinishSync
<1>2. sync'.status = "ending" /\ sync'.handle = sync.handle
  BY FinishSyncEvents
<1>3. stored = Shards
  BY <1>1, Typed DEF QuietInv, SyncInv
<1>4. sync # NoSync /\ sync.handle # "none"
  BY <1>1 DEF QuietInv, HandleInv, NoSync
<1>5. HandleInv'
  BY <1>1, <1>2, <1>4 DEF QuietInv, HandleInv
<1>6. SyncInv'
  BY <1>1, <1>2, <1>3 DEF SyncInv
<1>7. CancelInv'
  BY <1>1 DEF QuietInv, CancelInv, CertifiedWaits, IsCertified
<1>8. NotForgotten'
  BY <1>1, <1>3 DEF NotForgotten
<1> QED BY <1>5, <1>6, <1>7, <1>8 DEF QuietInv

LEMMA RemoveSyncHandleQuiet ==
  ASSUME EventInv, QuietInv, RemoveSyncHandle
  PROVE  QuietInv'
<1>1. /\ sync.status \in {"cancelled", "ending"} /\ sync' = NoSync
      /\ UNCHANGED <<objects, invalid, log, queue, completed, worker, stored>>
  BY DEF RemoveSyncHandle
<1>2. sync'.status = "none" /\ sync'.handle = "none"
  BY <1>1 DEF NoSync
<1>3. sync.handle \in {"map", "worker"}
  BY <1>1, Typed DEF QuietInv, HandleInv, NoSync
<1>4. joined'["monitor"] = None
  BY <1>3, Typed DEF RemoveSyncHandle, QuietInv, HandleInv
<1>5. HandleInv'
  BY <1>1, <1>2, <1>4 DEF QuietInv, HandleInv
<1>6. SyncInv'
  BY <1>2 DEF SyncInv
<1>7. CancelInv'
  BY <1>1 DEF QuietInv, CancelInv, CertifiedWaits, IsCertified
<1>8. NotForgotten'
  BY <1>1 DEF QuietInv, NotForgotten, IsCertified
<1> QED BY <1>5, <1>6, <1>7, <1>8 DEF QuietInv

LEMMA JoinExpiredSyncQuiet ==
  ASSUME EventInv, QuietInv, JoinExpiredSync
  PROVE  QuietInv'
BY DEF QuietInv, HandleInv, JoinExpiredSync

(* The event of a sync that the crash ended is not complete, so the node   *)
(* reads it again.                                                         *)
LEMMA CrashQuiet ==
  ASSUME EventInv, QuietInv, Crash
  PROVE  QuietInv'
<1>1. /\ worker'.pc = "idle" /\ sync' = NoSync /\ sync'.status = "none" /\ sync'.handle = "none"
      /\ UNCHANGED <<objects, invalid, log, stored>>
  BY DEF Crash, Idle, NoSync
<1>2. joined'["monitor"] = None
  BY Typed DEF Crash
<1>3. HandleInv' /\ SyncInv' /\ CancelInv'
  BY <1>1, <1>2 DEF HandleInv, SyncInv, CancelInv
<1>4. NotForgotten'
  <2>1. SUFFICES ASSUME IsCertified, stored # Shards
                 PROVE  \E i \in ToSet(queue') : log[i] = "Certified"
    BY <1>1 DEF NotForgotten, IsCertified
  <2>2. DOMAIN log \ completed \subseteq ToSet(queue')
    BY CrashEvents
  <2>3. CASE sync.status = "running"
    BY <2>2, <2>3 DEF QuietInv, SyncInv
  <2>4. CASE sync.status # "running"
    <3>1. \E i \in ToSet(queue) : log[i] = "Certified"
      BY <2>1, <2>4 DEF QuietInv, NotForgotten
    <3> QED BY <2>2, <3>1 DEF EventInv, QueueInv
  <2> QED BY <2>3, <2>4
<1> QED BY <1>3, <1>4 DEF QuietInv

-----------------------------------------------------------------------------
(* The invariant *)

LEMMA InitIInv == Init => IInv
<1> SUFFICES ASSUME Init PROVE IInv
  OBVIOUS
<1>1. ToSet(queue) = {} /\ queue \in Seq(Nat) /\ log \in Seq(Types) /\ Len(log) = 0
  BY DEF Init, ToSet
<1>2. /\ worker \in [pc : {"idle", "check", "start", "cancel", "join", "delete"}, erase : BOOLEAN]
      /\ worker.pc = "idle"
  BY DEF Init, Idle
<1>3. /\ sync \in [status : {"none", "running", "cancelled", "ending"}, event : Nat,
                   handle : {"none", "map", "worker", "monitor"}, todo : SUBSET Shards]
      /\ sync.event = None /\ sync.status = "none" /\ sync.handle = "none" /\ sync = NoSync
  BY DEF Init, NoSync, None
<1>4. joined \in [{"worker", "monitor"} -> Nat] /\ \A w \in {"worker", "monitor"} : joined[w] = None
  BY DEF Init, None
<1>5. TypeInv
  <2>1. objects \in [Objects -> {"new", "registered", "certified", "deleted"}] /\ invalid \in BOOLEAN
    BY DEF Init
  <2>2. /\ completed \subseteq DOMAIN log /\ stored \subseteq Shards /\ monitored \in BOOLEAN
        /\ collections \in Nat /\ faults \in Nat
    BY DEF Init
  <2>3. MaxEvents \in Nat
    BY BoundsAssumption
  <2> QED BY <1>1, <1>2, <1>3, <1>4, <2>1, <2>2, <2>3 DEF TypeInv
<1>6. QueueInv /\ EventsInv /\ WorkerInv /\ InvalidInv
  BY <1>1, <1>2, <1>3, <1>4 DEF Init, QueueInv, EventsInv, WorkerInv, InvalidInv, Distinct
<1>7. HandleInv /\ SyncInv /\ CancelInv
  BY <1>2, <1>3, <1>4 DEF HandleInv, SyncInv, CancelInv
<1>8. NotForgotten
  BY DEF Init, NotForgotten, IsCertified
<1> QED BY <1>5, <1>6, <1>7, <1>8 DEF IInv, EventInv, QuietInv

LEMMA EventStep == ASSUME EventInv, [Next]_vars PROVE EventInv'
<1>1. CASE UNCHANGED vars
  <2>1. TypeInv' /\ QueueInv' /\ EventsInv'
    BY <1>1 DEF EventInv, TypeInv, QueueInv, EventsInv, vars, bounds
  <2>2. WorkerInv' /\ InvalidInv'
    BY <1>1 DEF EventInv, WorkerInv, InvalidInv, Event, vars
  <2> QED BY <2>1, <2>2 DEF EventInv
<1>2. CASE Next
  BY <1>2, RegisterEvents, ReadCertifiedEvents, ReadDeletedEvents, ReadInvalidEvents,
     ProcessBlobCertifiedEvents, CheckStoredEvents, StartSyncEvents, ProcessBlobDeletedEvents,
     ProcessBlobInvalidEvents, CancelSyncEvents, JoinSyncEvents, DeleteDataEvents,
     RecoverShardEvents, UploadEvents, FinishSyncEvents, RemoveSyncHandleEvents,
     CancelExpiredSyncEvents, JoinExpiredSyncEvents, CollectGarbageEvents, CrashEvents
  DEF Next, WorkerNext
<1> QED BY <1>1, <1>2

LEMMA QuietStep == ASSUME EventInv, QuietInv, [Next]_vars, Quiet, Quiet' PROVE QuietInv'
<1>1. CASE UNCHANGED vars
  <2>1. UNCHANGED <<objects, invalid, log, queue, completed, worker, sync, joined, stored>>
    BY <1>1 DEF vars
  <2>2. HandleInv' /\ SyncInv'
    BY <2>1 DEF QuietInv, HandleInv, SyncInv, NoSync
  <2>3. CancelInv' /\ NotForgotten'
    BY <2>1 DEF QuietInv, CancelInv, NotForgotten, CertifiedWaits, IsCertified
  <2> QED BY <2>2, <2>3 DEF QuietInv
<1>2. CASE Next
  <2>1. ~CancelExpiredSync /\ ~CollectGarbage
    BY DEF CancelExpiredSync, CollectGarbage, Quiet
  <2> QED BY <1>2, <2>1, RegisterQuiet, ReadCertifiedQuiet, ReadDeletedQuiet, ReadInvalidQuiet,
     ProcessBlobCertifiedQuiet, CheckStoredQuiet, StartSyncQuiet, ProcessBlobDeletedQuiet,
     ProcessBlobInvalidQuiet, CancelSyncQuiet, JoinSyncQuiet, DeleteDataQuiet,
     RecoverShardQuiet, UploadQuiet, FinishSyncQuiet, RemoveSyncHandleQuiet,
     JoinExpiredSyncQuiet, CrashQuiet
  DEF Next, WorkerNext
<1> QED BY <1>1, <1>2

(* Once the monitor or garbage collection has interfered, it has.          *)
LEMMA QuietBefore == ASSUME EventInv, [Next]_vars, Quiet' PROVE Quiet
<1>1. CASE UNCHANGED <<monitored, collections>>
  BY <1>1 DEF Quiet
<1>2. CASE monitored' = TRUE
  BY <1>2 DEF Quiet
<1>3. CASE collections' = collections + 1
  BY <1>3, Typed DEF Quiet
<1> QED BY <1>1, <1>2, <1>3 DEF Next, WorkerNext, vars, bounds, Register, ReadCertified, ReadDeleted,
     ReadInvalid, Dispatch, ProcessBlobCertified, CheckStored, StartSync, ProcessBlobDeleted,
     ProcessBlobInvalid, CancelSync, JoinSync, DeleteData, RecoverShard, Upload, FinishSync,
     RemoveSyncHandle, CancelExpiredSync, JoinExpiredSync, CollectGarbage, Crash

(* The worker, the tasks, the monitor and a restart agree on where every   *)
(* event is: no event is marked as complete while it waits in the queue of *)
(* the worker, or is in the queue twice.                                   *)
THEOREM EventsInOnePlace == Spec => [](QueueInv /\ EventsInv)
<1>1. Init => EventInv
  BY InitIInv DEF IInv
<1>2. EventInv /\ [Next]_vars => EventInv'
  BY EventStep
<1>3. EventInv => QueueInv /\ EventsInv
  BY DEF EventInv
<1> QED BY <1>1, <1>2, <1>3, PTL DEF Spec

(* A certified blob that is not stored is not forgotten, while neither the *)
(* monitor nor garbage collection interferes.                              *)
THEOREM CertifiedBlobNotForgotten == Spec => []NoCertifiedBlobForgotten
<1>1. IInv /\ [Next]_vars => IInv'
  <2>1. SUFFICES ASSUME IInv, [Next]_vars PROVE IInv'
    OBVIOUS
  <2>2. EventInv'
    BY <2>1, EventStep DEF IInv
  <2>3. Quiet' => QuietInv'
    BY <2>1, QuietBefore, QuietStep DEF IInv
  <2> QED BY <2>2, <2>3 DEF IInv
<1>2. IInv => NoCertifiedBlobForgotten
  BY DEF IInv, Quiet, QuietInv, NoCertifiedBlobForgotten
<1> QED BY <1>1, <1>2, InitIInv, PTL DEF Spec
=============================================================================
