----------------------------- MODULE BlobEvents -----------------------------
(***************************************************************************)
(* What a storage node does with the events of one blob id: the blob info  *)
(* is updated as events are read, the worker of the blob id handles them   *)
(* in order, a certified event starts a sync of the blob in a task of its  *)
(* own, and the sync is cancelled when the blob is no longer certified, by *)
(* the worker or by the monitor that runs from time to time. An event is   *)
(* complete when its work is done; the cursor of the node is behind the    *)
(* first event that is not, and after a crash the node reads on from there.*)
(***************************************************************************)
EXTENDS Naturals, Sequences, SequencesExt

CONSTANTS
  Objects,         \* blob objects that carry the blob id
  Shards,          \* shards of the node
  MaxEvents,       \* bound on the events
  MaxCollections,  \* bound on the times that garbage collection removes the data
  MaxFaults        \* bound on crashes

ASSUME BoundsAssumption == {MaxEvents, MaxCollections, MaxFaults} \subseteq Nat

VARIABLES
  objects,       \* the blob objects, as the events that were read left them
  invalid,       \* the blob was found to be inconsistent
  log,           \* the types of the events read so far
  queue,         \* indices of the events that the worker has yet to handle
  completed,     \* indices of the events marked as complete
  worker,        \* where the worker is in handling the head of the queue
  sync,          \* the entry of the blob in blob_syncs_in_progress, and its task
  joined,        \* the event of a cancelled task, for the one who waits for the task
  stored,        \* the shards that store their slivers of the blob
  monitored,     \* history: the monitor has cancelled a sync
  collections,
  faults

bounds == <<monitored, collections, faults>>
vars == <<objects, invalid, log, queue, completed, worker, sync, joined, stored, bounds>>

None == 0   \* no event
Waiting == MaxEvents + 1   \* the task has not ended yet

Idle == [pc |-> "idle", erase |-> FALSE]
NoSync == [status |-> "none", event |-> None, handle |-> "none", todo |-> {}]

IsCertified == ~invalid /\ \E o \in Objects : objects[o] = "certified"
IsRegistered == ~invalid /\ \E o \in Objects : objects[o] \in {"registered", "certified"}

Event == Head(queue)
Done(events) == completed' = completed \cup (events \ {None})

Init ==
  /\ objects = [o \in Objects |-> "new"] /\ invalid = FALSE
  /\ log = <<>> /\ queue = <<>> /\ completed = {}
  /\ worker = Idle /\ sync = NoSync
  /\ joined = [who \in {"worker", "monitor"} |-> None]
  /\ stored = {}
  /\ monitored = FALSE /\ collections = 0 /\ faults = 0

-----------------------------------------------------------------------------
(* Reading events. A registration is complete at once and not recorded here. *)

Register(o) ==
  /\ objects[o] = "new"
  /\ objects' = [objects EXCEPT ![o] = "registered"]
  /\ UNCHANGED <<invalid, log, queue, completed, worker, sync, joined, stored, bounds>>

\* The blob info is updated before the event is sent to the worker.
Dispatch(type) ==
  /\ Len(log) < MaxEvents
  /\ log' = Append(log, type)
  /\ queue' = Append(queue, Len(log) + 1)
  /\ UNCHANGED <<completed, worker, sync, joined, stored, bounds>>

\* A certification, or the extension of a certified object.
ReadCertified(o) ==
  /\ ~invalid /\ objects[o] \in {"registered", "certified"}
  /\ objects' = [objects EXCEPT ![o] = "certified"]
  /\ Dispatch("Certified")
  /\ UNCHANGED invalid

ReadDeleted(o) ==
  /\ objects[o] \in {"registered", "certified"}
  /\ objects' = [objects EXCEPT ![o] = "deleted"]
  /\ Dispatch("Deleted")
  /\ UNCHANGED invalid

ReadInvalid ==
  /\ ~invalid /\ IsRegistered
  /\ invalid' = TRUE
  /\ Dispatch("Invalid")
  /\ UNCHANGED objects

-----------------------------------------------------------------------------
(* The worker *)

Handles(pc, types) == worker.pc = pc /\ queue # <<>> /\ log[Event] \in types

Continue(pc) ==
  /\ worker' = [worker EXCEPT !.pc = pc]
  /\ UNCHANGED <<queue, completed>>

\* The worker has handled the event, and goes on to the next one.
Finish(events) ==
  /\ Done(events)
  /\ queue' = Tail(queue)
  /\ worker' = Idle

ProcessBlobCertified ==
  /\ Handles("idle", {"Certified"})
  /\ IF IsCertified THEN Continue("check") ELSE Finish({Event})
  /\ UNCHANGED <<objects, invalid, log, sync, joined, stored, bounds>>

CheckStored ==
  /\ Handles("check", {"Certified"})
  /\ IF stored = Shards THEN Finish({Event}) ELSE Continue("start")
  /\ UNCHANGED <<objects, invalid, log, sync, joined, stored, bounds>>

\* The event is complete at once if there is a sync already.
StartSync ==
  /\ Handles("start", {"Certified"})
  /\ IF sync = NoSync
     THEN /\ sync' = [status |-> "running", event |-> Event, handle |-> "map",
                     todo |-> Shards]
          /\ Finish({})
     ELSE /\ Finish({Event})
          /\ UNCHANGED sync
  /\ UNCHANGED <<objects, invalid, log, joined, stored, bounds>>

\* The blob info of a blob that is not registered may be gone, when garbage collection or
\* the removal of the data was faster; then a sync is left to the monitor.
ProcessBlobDeleted ==
  /\ Handles("idle", {"Deleted"})
  /\ \/ /\ worker' = [pc |-> IF IsCertified THEN "delete" ELSE "cancel", erase |-> ~IsRegistered]
        /\ UNCHANGED <<queue, completed>>
     \/ ~invalid /\ ~IsRegistered /\ Finish({Event})
  /\ UNCHANGED <<objects, invalid, log, sync, joined, stored, bounds>>

ProcessBlobInvalid ==
  /\ Handles("idle", {"Invalid"})
  /\ worker' = [pc |-> "cancel", erase |-> TRUE]
  /\ UNCHANGED <<objects, invalid, log, queue, completed, sync, joined, stored, bounds>>

\* Cancelling takes the handle of the task out of the map, to wait for the task.
Cancel(who) ==
  /\ sync' = [sync EXCEPT !.status = IF @ = "running" THEN "cancelled" ELSE @, !.handle = who]
  /\ joined' = [joined EXCEPT ![who] = Waiting]

DoNotWait == "delete"

\* The worker waits for the task whose handle it has taken.
AfterCancel == "join"

CancelSync ==
  /\ Handles("cancel", {"Deleted", "Invalid"})
  /\ IF sync.handle = "map"
     THEN Cancel("worker") /\ Continue(AfterCancel)
     ELSE UNCHANGED <<sync, joined>> /\ Continue("delete")
  /\ UNCHANGED <<objects, invalid, log, stored, bounds>>

DropEvent(who) == {}

\* The event that the cancelled task gave back.
Returned(who) == {joined[who]}

JoinSync ==
  /\ worker.pc = "join" /\ joined["worker"] # Waiting
  /\ Done(Returned("worker"))
  /\ joined' = [joined EXCEPT !["worker"] = None]
  /\ worker' = [worker EXCEPT !.pc = "delete"]
  /\ UNCHANGED <<objects, invalid, log, queue, sync, stored, bounds>>

\* Data of a deleted blob is removed if immediate deletion is enabled and the blob is still
\* not registered when the transaction commits.
DeleteData ==
  /\ Handles("delete", {"Deleted", "Invalid"})
  /\ stored' \in IF log[Event] = "Invalid" THEN {{}}
                 ELSE IF worker.erase /\ ~IsRegistered THEN {{}, stored} ELSE {stored}
  /\ Finish({Event})
  /\ UNCHANGED <<objects, invalid, log, sync, joined, bounds>>

-----------------------------------------------------------------------------
(* The task of a sync, and the monitor *)

\* The slivers of a shard are recovered if they are not stored.
RecoverShard(s) ==
  /\ sync.status = "running" /\ s \in sync.todo
  /\ stored' = stored \cup {s}
  /\ sync' = [sync EXCEPT !.todo = @ \ {s}]
  /\ UNCHANGED <<objects, invalid, log, queue, completed, worker, joined, bounds>>

FinishSync ==
  /\ sync.status = "running" /\ sync.todo = {}
  /\ Done({sync.event})
  /\ sync' = [sync EXCEPT !.status = "ending", !.event = None]
  /\ UNCHANGED <<objects, invalid, log, queue, worker, joined, stored, bounds>>

\* The task removes its entry and ends; its event goes to whoever took the handle.
RemoveSyncHandle ==
  /\ sync.status \in {"cancelled", "ending"}
  /\ sync' = NoSync
  /\ joined' = IF sync.handle = "map" THEN joined ELSE [joined EXCEPT ![sync.handle] = sync.event]
  /\ UNCHANGED <<objects, invalid, log, queue, completed, worker, stored, bounds>>

CancelExpiredSync ==
  /\ joined["monitor"] = None /\ sync.handle = "map" /\ ~IsCertified
  /\ Cancel("monitor")
  /\ monitored' = TRUE
  /\ UNCHANGED <<objects, invalid, log, queue, completed, worker, stored, collections, faults>>

JoinExpiredSync ==
  /\ joined["monitor"] \notin {None, Waiting}
  /\ Done(Returned("monitor"))
  /\ joined' = [joined EXCEPT !["monitor"] = None]
  /\ UNCHANGED <<objects, invalid, log, queue, worker, sync, stored, bounds>>

-----------------------------------------------------------------------------
(* Uploads, garbage collection and crashes *)

Upload(s) ==
  /\ s \notin stored /\ IsRegistered
  /\ stored' = stored \cup {s}
  /\ UNCHANGED <<objects, invalid, log, queue, completed, worker, sync, joined, bounds>>

CollectGarbage ==
  /\ collections < MaxCollections
  /\ collections' = collections + 1
  /\ stored # {} /\ ~IsRegistered
  /\ stored' = {}
  /\ UNCHANGED <<objects, invalid, log, queue, completed, worker, sync, joined, monitored,
                 faults>>

\* The cursor of the node: all events up to it are complete, the next one is not.
Cursor == CHOOSE c \in 0 .. Len(log) : 1 .. c \subseteq completed /\ c + 1 \notin completed

Crash ==
  /\ faults < MaxFaults
  /\ faults' = faults + 1
  /\ completed' = 1 .. Cursor
  /\ queue' = [i \in 1 .. Len(log) - Cursor |-> Cursor + i]
  /\ worker' = Idle /\ sync' = NoSync
  /\ joined' = [who \in DOMAIN joined |-> None]
  /\ UNCHANGED <<objects, invalid, log, stored, monitored, collections>>

-----------------------------------------------------------------------------

WorkerNext ==
  \/ ProcessBlobCertified \/ CheckStored \/ StartSync
  \/ ProcessBlobDeleted \/ ProcessBlobInvalid \/ CancelSync \/ JoinSync \/ DeleteData

Next ==
  \/ \E o \in Objects : Register(o) \/ ReadCertified(o) \/ ReadDeleted(o)
  \/ ReadInvalid
  \/ WorkerNext
  \/ \E s \in Shards : RecoverShard(s) \/ Upload(s)
  \/ FinishSync \/ RemoveSyncHandle
  \/ CancelExpiredSync \/ JoinExpiredSync
  \/ CollectGarbage
  \/ Crash

Spec == Init /\ [][Next]_vars

\* Workers and tasks run, the monitor does so again and again, and the slivers of a
\* certified blob can be recovered.
Fairness ==
  /\ WF_vars(WorkerNext)
  /\ WF_vars(IsCertified /\ \E s \in Shards : RecoverShard(s))
  /\ WF_vars(FinishSync)
  /\ WF_vars(RemoveSyncHandle)
  /\ WF_vars(CancelExpiredSync)
  /\ WF_vars(JoinExpiredSync)

FairSpec == Spec /\ Fairness

-----------------------------------------------------------------------------
(* Properties *)

\* A running sync has the missing slivers before it, or an event that starts one is waiting.
\* By itself this is not an invariant. An event that is handled after the monitor has
\* cancelled the sync and before the task has ended is complete because of that sync; and
\* garbage collection removes slivers that a running sync has passed.
NotForgotten ==
  (IsCertified /\ stored # Shards) =>
    \/ sync.status = "running" /\ Shards \ stored \subseteq sync.todo
    \/ \E i \in ToSet(queue) : log[i] = "Certified"

(* A certified blob that is not stored is not forgotten, whatever the order of deletions,    *)
(* cancelled syncs and crashes, as long as neither the monitor nor garbage collection has    *)
(* interfered. It is what lets start_sync mark an event as complete when there is a sync     *)
(* already.                                                                                  *)
NoCertifiedBlobForgotten == ~ monitored /\ collections = 0 => NotForgotten

(* Every event is marked as complete some day, whoever cancels its sync and whenever the     *)
(* task ends, so the cursor of the node does not stay behind.                                *)
EventsAreCompleted == <>[](completed = DOMAIN log)
=============================================================================
