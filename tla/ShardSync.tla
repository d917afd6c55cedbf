------------------------------ MODULE ShardSync ------------------------------
(***************************************************************************)
(* How one storage node follows the shard assignment of successive epochs: *)
(* the shard changes of EpochChangeStart (node.rs), the tasks that sync    *)
(* shards (shard_sync.rs, storage/shard.rs), the recovery of a node that   *)
(* lags behind (node_recovery.rs) and the epoch_sync_done calls that they  *)
(* end with.  Everything that RocksDB holds survives a crash, at any point *)
(* between two writes; tasks and the committees do not.                    *)
(*                                                                         *)
(* The slivers of a shard are told apart by their position in the order in *)
(* which a sync fetches them (sliver type, then blob ID) and by the epoch  *)
(* in which their blob was certified.  Blob syncs that certified events    *)
(* start are not modelled: their events are replayed until they are done,  *)
(* so their slivers count as held by the shards of the event's epoch, but  *)
(* for those that are dropped when the node enters recovery mode.  Reads   *)
(* from the chain do not go back (EpochChangeDriver has them do so).       *)
(***************************************************************************)
EXTENDS Naturals, FiniteSets

CONSTANTS
  Shards,
  NumPositions,   \* the number of fetch requests that a shard sync takes
  MaxEpoch,
  Histories,      \* the assignments considered: the node's shards in epochs 1..MaxEpoch
  RetryTransfer,  \* restart_shard_sync_always_retry_transfer_first
  MaxCrashes,
  MaxFailures     \* bound on errors that end a task

ASSUME BoundsAssumption ==
  /\ NumPositions \in Nat \ {0}
  /\ MaxEpoch \in Nat \ {0}
  /\ MaxCrashes \in Nat
  /\ MaxFailures \in Nat
  /\ RetryTransfer \in BOOLEAN
ASSUME HistoriesAssumption == Histories \subseteq [1 .. MaxEpoch -> SUBSET Shards]

Positions == 1 .. NumPositions
Epochs == 1 .. MaxEpoch
Slivers == Positions \X Epochs

VARIABLES
  assigned,      \* the history that unfolds
  chain_epoch,   \* the epoch on chain
  tracked,       \* the epoch of the current committee that the node knows
  handled,       \* the epoch of the latest EpochChangeStart that was handled
  known,         \* persisted: the blob info has all events of epochs before this one
  phase,         \* "down", "idle", or a path of the handler: "in_sync", "join", "recover"
  finishing,     \* the StartEpochChangeFinisher task
  node_status,   \* persisted NodeStatus
  recovering,    \* the epoch in RecoveryInProgress
  metadata,      \* whether the metadata of all certified blobs is stored
  status,        \* persisted ShardStatus, "absent" without storage
  held,          \* persisted slivers
  pending,       \* persisted pending_recover_slivers
  progress,      \* persisted shard_sync_progress
  starter,       \* the task of sync_shards_task
  tasks,         \* shard_sync_in_progress
  recovery,      \* the epoch of the node recovery task, or 0
  ending,        \* that epoch once the task has found its status, which it is about to replace
  activating,    \* the number of starters that are about to replace RecoverMetadata
  owed,          \* epochs for which a task is about to call epoch_sync_done
  attested,      \* epochs in which that call took effect
  panicked,      \* history: an assertion failed
  overwritten,   \* history: Active replaced a status that had been written meanwhile
  crashes,
  failures

nodeVars == <<tracked, handled, known, phase, finishing, node_status, recovering, metadata>>
shardVars == <<status, held, pending, progress>>
nodeTasks == <<recovery, ending, activating>>
taskVars == <<starter, tasks, nodeTasks>>
boundVars == <<panicked, overwritten, crashes, failures>>
vars == <<assigned, chain_epoch, nodeVars, shardVars, taskVars, owed, attested, boundVars>>

NoTask == [stage |-> "none", epoch |-> 0, direct |-> FALSE]
NoStarter == [stage |-> "none", todo |-> {}]
NoFinisher == [epoch |-> 0, attest |-> FALSE]

Init ==
  /\ assigned \in Histories
  /\ chain_epoch = 1 /\ tracked = 1 /\ handled = 1 /\ known = 1
  /\ phase = "idle"
  /\ finishing = NoFinisher
  /\ node_status = IF assigned[1] = {} THEN "Standby" ELSE "Active"
  /\ recovering = 0
  /\ metadata = (assigned[1] # {})
  /\ status = [s \in Shards |-> IF s \in assigned[1] THEN "Active" ELSE "absent"]
  /\ held = [s \in Shards |-> {}]
  /\ pending = [s \in Shards |-> {}]
  /\ progress = [s \in Shards |-> 0]
  /\ starter = NoStarter
  /\ tasks = [s \in Shards |-> NoTask]
  /\ recovery = 0 /\ ending = 0 /\ activating = 0
  /\ owed = {} /\ attested = {1}
  /\ panicked = FALSE /\ overwritten = FALSE /\ crashes = 0 /\ failures = 0

NextEpoch ==
  /\ chain_epoch < MaxEpoch
  /\ chain_epoch' = chain_epoch + 1
  /\ UNCHANGED <<assigned, nodeVars, shardVars, taskVars, owed, attested, boundVars>>

-----------------------------------------------------------------------------
(* The handler of EpochChangeStart.                                        *)

Existing == {s \in Shards : status[s] # "absent"}

Gained(e) == assigned[e] \ assigned[e - 1]
Lost(e) == assigned[e - 1] \ assigned[e]
ToRemove(e) == Existing \ (assigned[e - 1] \cup assigned[e])

\* create_storage_for_shards: storages that are missing are created empty.
Created(S) ==
  [s \in Shards |-> IF s \in S \ Existing THEN "None" ELSE status[s]]

\* The slivers certified in the epoch before e, stored by blob syncs.
StoredByEvents(e) ==
  [s \in Shards |->
     IF s \in assigned[e - 1] /\ status[s] \notin {"absent", "LockedToMove"}
     THEN held[s] \cup Positions \X {e - 1}
     ELSE held[s]]

\* The handler runs once the previous finisher is done; v is the epoch of the
\* latest committee that it reads.
BeginEpochChange(e, v) ==
  /\ phase = "idle"
  /\ finishing = NoFinisher
  /\ e = handled + 1
  /\ e <= chain_epoch
  /\ v \in (IF e > tracked THEN e ELSE tracked) .. chain_epoch
  /\ known' = IF e > known THEN e ELSE known

Complete(e) ==
  /\ handled' = e
  /\ phase' = "idle"

\* process_shard_changes_in_new_epoch_while_node_is_in_sync, as far as the
\* status RecoverMetadata of a joining node.
PrepareInSync(e, joining) ==
  /\ phase' = IF joining THEN "join" ELSE "in_sync"
  /\ status' = Created(Gained(e))
  /\ node_status' =
       CASE assigned[e] = {} -> "Standby"
         [] joining /\ Gained(e) # {} -> "RecoverMetadata"
         [] OTHER -> node_status
  /\ metadata' = (metadata /\ assigned[e] # {} /\ ~ joining)
  /\ UNCHANGED <<handled, recovering, overwritten>>

\* process_shard_changes_in_new_epoch_and_start_node_recovery, as far as the
\* status of its shards.
PrepareRecovery(e) ==
  /\ phase' = "recover"
  /\ node_status' = "RecoveryInProgress"
  /\ recovering' = e
  /\ status' = [s \in Shards |-> IF s \in assigned[e] THEN "Active" ELSE status[s]]
  /\ overwritten' = FALSE
  /\ UNCHANGED <<handled, metadata>>

\* The node is in sync: begin_committee_change is Ok or the epoch is current.
ExecuteInSync(v) ==
  LET e == handled + 1 IN
  /\ BeginEpochChange(e, v)
  /\ node_status # "RecoveryCatchUp"
  /\ e = tracked \/ e = v
  /\ tracked' = e
  /\ held' = StoredByEvents(e)
  /\ IF node_status = "RecoveryInProgress" /\ assigned[e] # {}
     THEN PrepareRecovery(e)
     ELSE PrepareInSync(e, node_status = "Standby" /\ assigned[e] # {})
  /\ UNCHANGED <<assigned, chain_epoch, finishing, pending, progress, taskVars, owed, attested,
                 panicked, crashes, failures>>

\* The event is older than the latest committee: the node enters recovery mode
\* or stays in it, and skips the event.
SkipWhileCatchingUp(v) ==
  LET e == handled + 1 IN
  /\ BeginEpochChange(e, v)
  /\ e < v
  /\ node_status = "RecoveryCatchUp" \/ e # tracked
  /\ tracked' = v
  /\ node_status' = "RecoveryCatchUp"
  /\ Complete(e)
  /\ UNCHANGED <<assigned, chain_epoch, finishing, recovering, metadata, shardVars, taskVars,
                 owed, attested, boundVars>>

\* A node that was catching up reaches the latest epoch.
CaughtUp(v) ==
  LET e == handled + 1 IN
  /\ BeginEpochChange(e, v)
  /\ node_status = "RecoveryCatchUp"
  /\ e = v
  /\ tracked' = e
  /\ \/ /\ assigned[e] = {}
        /\ node_status' = "Standby"
        /\ metadata' = FALSE
        /\ Complete(e)
        /\ UNCHANGED <<recovering, status, overwritten>>
     \/ assigned[e] # {} /\ assigned[e - 1] = {} /\ PrepareInSync(e, TRUE)
     \/ assigned[e] # {} /\ assigned[e - 1] # {} /\ PrepareRecovery(e)
  /\ UNCHANGED <<assigned, chain_epoch, finishing, held, pending, progress, taskVars, owed,
                 attested, panicked, crashes, failures>>

Locked(e) ==
  [s \in Shards |-> IF s \in Lost(e) \cap Existing THEN "LockedToMove" ELSE status[s]]

\* start_sync_shards aborts the task that may still be starting other syncs.
StartSyncShards(S, recover_metadata) ==
  starter' = [stage |-> IF recover_metadata THEN "metadata" ELSE "shards", todo |-> S]

\* The rest of the handler of a node in sync.
FinishInSync ==
  LET e == handled + 1 IN
  /\ phase \in {"in_sync", "join"}
  /\ \/ Gained(e) = {} /\ UNCHANGED starter
     \/ Gained(e) # {} /\ StartSyncShards(Gained(e), phase = "join")
  /\ status' = Locked(e)
  /\ finishing' = [epoch |-> e, attest |-> Gained(e) = {} /\ assigned[e] # {}]
  /\ Complete(e)
  /\ UNCHANGED <<assigned, chain_epoch, tracked, known, node_status, recovering, metadata, held, pending,
                 progress, tasks, nodeTasks, owed, attested, boundVars>>

\* The rest of the handler of a node to be recovered; start_node_recovery
\* aborts a recovery that may be under way and waits for its end, which one
\* that is about to set the node status reaches only after it has done so.
FinishRecovery ==
  LET e == handled + 1 IN
  /\ phase = "recover"
  /\ ending = 0
  /\ status' = Locked(e)
  /\ recovery' = e
  /\ finishing' = IF ToRemove(e) = {} THEN NoFinisher ELSE [epoch |-> e, attest |-> FALSE]
  /\ Complete(e)
  /\ UNCHANGED <<assigned, chain_epoch, tracked, known, node_status, recovering, metadata, held, pending,
                 progress, starter, tasks, ending, activating, owed, attested, boundVars>>

\* contract_service.epoch_sync_done is repeated until it succeeds or is moot.
Attested(e) == IF e = chain_epoch THEN attested \cup {e} ELSE attested

FinisherAttests ==
  /\ finishing.attest
  /\ attested' = Attested(finishing.epoch)
  /\ finishing' = [finishing EXCEPT !.attest = FALSE]
  /\ UNCHANGED <<assigned, chain_epoch, tracked, handled, known, phase, node_status, recovering, metadata,
                 shardVars, taskVars, owed, boundVars>>

\* The finisher removes shards of earlier epochs and completes the event.
FinishEpochChange ==
  LET removed == ToRemove(finishing.epoch) IN
  /\ finishing # NoFinisher
  /\ ~ finishing.attest
  /\ status' = [s \in Shards |-> IF s \in removed THEN "absent" ELSE status[s]]
  /\ held' = [s \in Shards |-> IF s \in removed THEN {} ELSE held[s]]
  /\ pending' = [s \in Shards |-> IF s \in removed THEN {} ELSE pending[s]]
  /\ progress' = [s \in Shards |-> IF s \in removed THEN 0 ELSE progress[s]]
  /\ finishing' = NoFinisher
  /\ UNCHANGED <<assigned, chain_epoch, tracked, handled, known, phase, node_status, recovering, metadata,
                 taskVars, owed, attested, boundVars>>

-----------------------------------------------------------------------------
(* sync_shards_task.                                                       *)

SyncMetadata ==
  /\ starter.stage = "metadata"
  /\ metadata' = TRUE
  /\ starter' = [starter EXCEPT !.stage = "shards"]
  /\ UNCHANGED <<assigned, chain_epoch, tracked, handled, known, phase, finishing, node_status, recovering,
                 shardVars, tasks, nodeTasks, owed, attested, boundVars>>

\* An error ends the task until the node restarts.
FailMetadata ==
  /\ starter.stage = "metadata"
  /\ failures < MaxFailures
  /\ failures' = failures + 1
  /\ starter' = NoStarter
  /\ UNCHANGED <<assigned, chain_epoch, nodeVars, shardVars, tasks, nodeTasks, owed, attested,
                 panicked, overwritten, crashes>>

InProgress(s) == tasks[s] # NoTask

\* A task of start_shard_sync_impl, for the committee of this moment.
NewTask(e) == [stage |-> "waiting", epoch |-> e, direct |-> FALSE]

\* start_new_shard_sync, which skips shards in progress and active shards.
StartNewShardSync(s) ==
  /\ starter.stage = "shards"
  /\ s \in starter.todo
  /\ starter' = [starter EXCEPT !.todo = @ \ {s}]
  /\ \/ /\ InProgress(s) \/ status[s] \in {"Active", "absent"}
        /\ UNCHANGED <<status, progress, tasks>>
     \/ /\ ~ InProgress(s) /\ status[s] \notin {"Active", "absent"}
        /\ status' = [status EXCEPT ![s] = "ActiveSync"]
        /\ progress' = [progress EXCEPT ![s] = 0]
        /\ tasks' = [tasks EXCEPT ![s] = NewTask(tracked)]
  /\ UNCHANGED <<assigned, chain_epoch, nodeVars, held, pending, nodeTasks, owed, attested, boundVars>>

\* All syncs are started; the task reads the status of the node.
EndStarter ==
  /\ starter.stage = "shards"
  /\ starter.todo = {}
  /\ starter' = NoStarter
  /\ activating' = IF node_status = "RecoverMetadata" THEN activating + 1 ELSE activating
  /\ UNCHANGED <<assigned, chain_epoch, nodeVars, shardVars, tasks, recovery, ending, owed, attested,
                 boundVars>>

\* A joining node becomes active, whatever its status is by now: no lock is held, and a
\* task that the next epoch change aborts still gets here, as it does not await.
ActivateJoined ==
  /\ activating > 0
  /\ activating' = activating - 1
  /\ node_status' = "Active"
  /\ overwritten' = (overwritten \/ node_status \notin {"RecoverMetadata", "Active"})
  /\ UNCHANGED <<assigned, chain_epoch, tracked, handled, known, phase, finishing, recovering, metadata,
                 shardVars, starter, tasks, recovery, ending, owed, attested, panicked, crashes,
                 failures>>

-----------------------------------------------------------------------------
(* The task of one shard.                                                  *)

SetStage(s, stage) == tasks' = [tasks EXCEPT ![s].stage = stage]

\* What memory loses when the process ends; an incomplete event is replayed.
Stop ==
  /\ phase' = "down"
  /\ handled' = IF finishing = NoFinisher THEN handled ELSE finishing.epoch - 1
  /\ finishing' = NoFinisher
  /\ starter' = NoStarter
  /\ tasks' = [s \in Shards |-> NoTask]
  /\ recovery' = 0 /\ ending' = 0 /\ activating' = 0
  /\ owed' = {}
  /\ UNCHANGED <<tracked, known, node_status, recovering, metadata>>

\* sync_shard_impl begins an attempt: a shard in recovery skips the transfer.
BeginAttempt(s) ==
  /\ tasks[s].stage = "waiting"
  /\ status[s] \in {"ActiveSync", "ActiveRecover", "LockedToMove"}
  /\ SetStage(s, IF status[s] = "ActiveRecover" THEN "recovering" ELSE "fetching")
  /\ UNCHANGED <<assigned, chain_epoch, nodeVars, shardVars, starter, nodeTasks, owed, attested,
                 boundVars>>

\* The status is none of these: the assertion stops the process.
PanicAttempt(s) ==
  /\ tasks[s].stage = "waiting"
  /\ status[s] \in {"None", "Active"}
  /\ Stop
  /\ panicked' = TRUE
  /\ UNCHANGED <<assigned, chain_epoch, shardVars, attested, overwritten, crashes, failures>>

\* The slivers at positions P that a sync to epoch e looks for: blobs certified
\* before e of which the node has seen the events.
Wanted(P, e) == P \X {f \in Epochs : f < e /\ f < known}

\* One request of sync_shard_before_epoch_internal and the batch that stores
\* its outcome: slivers, missing ones to be recovered, and progress.
Fetch(s, found) ==
  LET p == progress[s] + 1
      wanted == Wanted({p}, tasks[s].epoch)
  IN
  /\ tasks[s].stage = "fetching"
  /\ ~ tasks[s].direct
  /\ p \in Positions
  /\ held' = [held EXCEPT ![s] = IF found THEN @ \cup wanted ELSE @]
  /\ pending' = [pending EXCEPT ![s] = IF found THEN @ ELSE @ \cup wanted]
  /\ progress' = [progress EXCEPT ![s] = p]
  /\ UNCHANGED <<assigned, chain_epoch, nodeVars, status, taskVars, owed, attested, boundVars>>

\* The transfer is over, or left out: what it did not get is to be recovered.
EndFetch(s) ==
  LET rest == Wanted({p \in Positions : p > progress[s]}, tasks[s].epoch)
      missing == pending[s] \cup rest
  IN
  /\ tasks[s].stage = "fetching"
  /\ tasks[s].direct \/ progress[s] = NumPositions
  /\ pending' = [pending EXCEPT ![s] = missing]
  /\ status' = [status EXCEPT ![s] =
       IF missing # {} /\ @ = "ActiveSync" THEN "ActiveRecover" ELSE @]
  /\ SetStage(s, "recovering")
  /\ UNCHANGED <<assigned, chain_epoch, nodeVars, held, progress, starter, nodeTasks, owed, attested,
                 boundVars>>

\* handle_sync_error asks for another attempt, directly by recovery after an
\* error that is not due to the network or after a while without progress.
RetryAttempt(s, direct) ==
  /\ tasks[s].stage = "fetching"
  /\ ~ tasks[s].direct
  /\ tasks' = [tasks EXCEPT ![s].stage = "waiting", ![s].direct = direct]
  /\ UNCHANGED <<assigned, chain_epoch, nodeVars, shardVars, starter, nodeTasks, owed, attested,
                 boundVars>>

\* Recovery failed, too: the task ends and stays in shard_sync_in_progress.
\* That is also how it ends when its storage has been removed.
FailSync(s) ==
  /\ \/ /\ tasks[s].stage \in {"fetching", "recovering"}
        /\ tasks[s].direct
        /\ failures < MaxFailures
        /\ failures' = failures + 1
     \/ /\ tasks[s].stage \in {"waiting", "fetching", "recovering"}
        /\ status[s] = "absent"
        /\ UNCHANGED failures
  /\ SetStage(s, "failed")
  /\ UNCHANGED <<assigned, chain_epoch, nodeVars, shardVars, starter, nodeTasks, owed, attested,
                 panicked, overwritten, crashes>>

\* recover_missing_blobs, repeated until nothing is missing.
RecoverMissing(s) ==
  /\ tasks[s].stage = "recovering"
  /\ status[s] # "absent"
  /\ pending[s] # {}
  /\ held' = [held EXCEPT ![s] = @ \cup pending[s]]
  /\ pending' = [pending EXCEPT ![s] = {}]
  /\ UNCHANGED <<assigned, chain_epoch, nodeVars, status, progress, taskVars, owed, attested,
                 boundVars>>

\* Mutant: missing slivers are recovered only once, successfully or not.
NoRetry(s) == TRUE

NothingMissing(s) == pending[s] = {}

\* Mutant: the status of a shard in recovery is forgotten.
FinishedTransfer(st) == IF st = "ActiveSync" THEN "Active" ELSE st

\* The shard becomes active, unless its status was changed meanwhile.
Finished(st) == IF st \in {"ActiveSync", "ActiveRecover"} THEN "Active" ELSE st

FinishSync(s) ==
  /\ tasks[s].stage = "recovering"
  /\ status[s] # "absent"
  /\ NothingMissing(s)
  /\ status' = [status EXCEPT ![s] = Finished(@)]
  /\ progress' = [progress EXCEPT ![s] = 0]
  /\ SetStage(s, "succeeded")
  /\ UNCHANGED <<assigned, chain_epoch, nodeVars, held, pending, starter, nodeTasks, owed, attested,
                 boundVars>>

\* The map shard_sync_in_progress is empty without the task of s.
LastTask(s) == \A t \in Shards \ {s} : ~ InProgress(t)

\* The task leaves the map; the last one is to attest, for its own epoch.
EndTask(s) ==
  /\ tasks[s].stage = "succeeded"
  /\ tasks' = [tasks EXCEPT ![s] = NoTask]
  /\ owed' = IF LastTask(s) THEN owed \cup {tasks[s].epoch} ELSE owed
  /\ UNCHANGED <<assigned, chain_epoch, nodeVars, shardVars, starter, nodeTasks, attested, boundVars>>

Attest(e) ==
  /\ e \in owed
  /\ owed' = owed \ {e}
  /\ attested' = Attested(e)
  /\ UNCHANGED <<assigned, chain_epoch, nodeVars, shardVars, taskVars, boundVars>>

-----------------------------------------------------------------------------
(* Node recovery, crashes and restarts.                                    *)

\* A recovery stops when the node is catching up.
StopRecovery ==
  /\ recovery # 0
  /\ node_status = "RecoveryCatchUp"
  /\ recovery' = 0
  /\ UNCHANGED <<assigned, chain_epoch, nodeVars, shardVars, starter, tasks, ending, activating, owed, attested,
                 boundVars>>

\* It goes on until all blobs certified before its epoch are stored at all
\* shards of the latest epoch, which are those that blob syncs store at; then it
\* reads the status of the node.
RecoverNode ==
  LET recovered == Positions \X {f \in Epochs : f < recovery}
      current == node_status = "RecoveryInProgress" /\ recovering = recovery
  IN
  /\ recovery # 0
  /\ phase # "down"
  /\ node_status # "RecoveryCatchUp"
  /\ assigned[tracked] \subseteq Existing \cap assigned[handled]
  /\ held' = [s \in Shards |->
       IF s \in assigned[tracked] THEN held[s] \cup recovered ELSE held[s]]
  /\ ending' = IF current THEN recovery ELSE 0
  /\ recovery' = 0
  /\ UNCHANGED <<assigned, chain_epoch, nodeVars, status, pending, progress, starter, tasks,
                 activating, owed, attested, boundVars>>

\* The status that it found was its own: the node becomes active, whatever its
\* status is by now, and epoch_sync_done is called.
ActivateRecovered ==
  /\ ending # 0
  /\ ending' = 0
  /\ node_status' = "Active"
  /\ overwritten' = (overwritten \/ node_status # "RecoveryInProgress" \/ recovering # ending)
  /\ metadata' = TRUE
  /\ owed' = owed \cup {ending}
  /\ UNCHANGED <<assigned, chain_epoch, tracked, handled, known, phase, finishing, recovering,
                 shardVars, starter, tasks, recovery, activating, attested, panicked, crashes,
                 failures>>

Crash ==
  /\ phase # "down"
  /\ crashes < MaxCrashes
  /\ crashes' = crashes + 1
  /\ Stop
  /\ UNCHANGED <<assigned, chain_epoch, shardVars, attested, panicked, overwritten, failures>>

\* shard_status_resume_active_shard_sync.
Resumed(s) == IF RetryTransfer /\ status[s] = "ActiveRecover" THEN "ActiveSync" ELSE status[s]

\* A new process reads the committees, then restarts syncs and recovery.
Restart ==
  /\ phase = "down"
  /\ phase' = "idle"
  /\ tracked' = chain_epoch
  /\ IF node_status = "RecoverMetadata"
     THEN StartSyncShards(Existing, TRUE) /\ UNCHANGED <<status, tasks>>
     ELSE /\ status' = [s \in Shards |-> Resumed(s)]
          /\ tasks' = [s \in Shards |->
               IF status[s] \in {"ActiveSync", "ActiveRecover"} THEN NewTask(chain_epoch) ELSE NoTask]
          /\ UNCHANGED starter
  /\ recovery' = IF node_status = "RecoveryInProgress" THEN recovering ELSE 0
  /\ UNCHANGED <<assigned, chain_epoch, ending, activating, handled, known, finishing, node_status, recovering, metadata, held,
                 pending, progress, owed, attested, boundVars>>

HandleEpochChangeStart ==
  \/ \E v \in Epochs : ExecuteInSync(v) \/ SkipWhileCatchingUp(v) \/ CaughtUp(v)
  \/ FinishInSync
  \/ FinishRecovery

SyncShard(s) ==
  \/ BeginAttempt(s)
  \/ PanicAttempt(s)
  \/ \E found \in BOOLEAN : Fetch(s, found)
  \/ EndFetch(s)
  \/ FailSync(s)
  \/ RecoverMissing(s)
  \/ FinishSync(s)
  \/ EndTask(s)

Next ==
  \/ NextEpoch
  \/ HandleEpochChangeStart
  \/ FinisherAttests
  \/ FinishEpochChange
  \/ SyncMetadata
  \/ FailMetadata
  \/ \E s \in Shards :
       StartNewShardSync(s) \/ SyncShard(s) \/ \E direct \in BOOLEAN : RetryAttempt(s, direct)
  \/ EndStarter
  \/ ActivateJoined
  \/ \E e \in Epochs : Attest(e)
  \/ StopRecovery
  \/ RecoverNode
  \/ ActivateRecovered
  \/ Crash
  \/ Restart

Spec == Init /\ [][Next]_vars

\* Tasks and handlers run, transfers that are retried get through now and then,
\* a stopped node is restarted and epochs go on.
Fairness ==
  /\ WF_vars(NextEpoch)
  /\ WF_vars(HandleEpochChangeStart)
  /\ WF_vars(FinisherAttests \/ FinishEpochChange)
  /\ WF_vars(SyncMetadata)
  /\ WF_vars(EndStarter \/ \E s \in Shards : StartNewShardSync(s))
  /\ \A s \in Shards :
       WF_vars(SyncShard(s)) /\ SF_vars(EndFetch(s) \/ \E found \in BOOLEAN : Fetch(s, found))
  /\ WF_vars(ActivateJoined)
  /\ WF_vars(RecoverNode \/ StopRecovery)
  /\ WF_vars(ActivateRecovered)
  /\ WF_vars(\E e \in Epochs : Attest(e))
  /\ WF_vars(Restart)

FairSpec == Spec /\ Fairness

-----------------------------------------------------------------------------
(* Properties.                                                             *)

CertifiedBefore(e) == Positions \X {f \in Epochs : f < e}

\* A shard that the node has lost is not assigned to it again.
NoShardComesBack ==
  \A h \in Histories : \A e, f, g \in Epochs : e < f /\ f < g => h[e] \cap h[g] \subseteq h[f]

\* A shard of the current assignment that is Active serves reads: it holds all
\* slivers of blobs certified in earlier epochs, whatever order tasks,
\* crashes, retries, losses of shards and recoveries came in. It holds if no
\* shard comes back. One that does may still have the status or the sync of the
\* time before: it is not synced again if the node has missed the loss, and a
\* sync that was started late goes only as far as the epoch of its start.
\* It does not hold when a task overwrites, with Active, the status that the
\* handler wrote since the task looked: the gained shards of a recovery are
\* Active before they have their slivers, and a node that skipped epochs passes
\* for one in sync. The next full recovery repairs that.
ActiveIsComplete ==
  phase = "idle" /\ node_status = "Active" /\ ~ overwritten =>
    \A s \in assigned[tracked] : status[s] = "Active" => CertifiedBefore(handled) \subseteq held[s]

\* Nothing but a restart, or not even that, syncs some shard: its sync was never
\* started or was given up after an error, or the status that a restart would
\* have recovered the node by was overwritten.
Stuck ==
  \/ overwritten
  \/ node_status = "RecoverMetadata" /\ starter = NoStarter
  \/ \E s \in assigned[handled] :
       tasks[s].stage = "failed" \/ status[s] \in {"None", "LockedToMove"}

\* In the end the node has synced all shards of its last assignment, whatever
\* crashed or was retried in between, unless one is stuck.
EventuallySynced ==
  \/ <>[](/\ handled = MaxEpoch
          /\ \A s \in assigned[MaxEpoch] :
               status[s] = "Active" /\ CertifiedBefore(MaxEpoch) \subseteq held[s])
  \/ <>[]Stuck

\* When a node attests with epoch_sync_done, it "has received all its shards for
\* the new epoch", as staking_inner.move says. It does not hold: the sync of the
\* first shard may end before the next one is recorded as in progress.
AttestedWhenSynced ==
  [][\A e \in attested' \ attested :
       \A s \in assigned[e] : CertifiedBefore(e) \subseteq held[s]]_vars

\* sync_shards_task makes a joining node active once the metadata is synced and
\* the syncs of all its shards can be restarted from their status. It does not
\* hold: the next epoch change aborts the task, and the new task does neither.
ActiveAfterMetadata ==
  [][node_status = "RecoverMetadata" /\ node_status' = "Active" =>
       /\ metadata
       /\ \A s \in assigned[handled] : status[s] \in {"Active", "ActiveSync", "ActiveRecover"}]_vars

\* The assertion at the beginning of a shard sync. It does not hold: recovery may
\* make the shard active while a sync of it waits for its next attempt.
NoPanic == ~ panicked

\* Once the syncs of an active node are started, every shard is synced or has a
\* status from which a restart resumes its sync. It does not hold for a shard that
\* comes back while an earlier sync of it is in progress, nor after a crash before
\* the status of a gained shard is written.
SyncsCanRestart ==
  phase = "idle" /\ node_status = "Active" /\ starter = NoStarter =>
    \A s \in assigned[handled] : status[s] \in {"Active", "ActiveSync", "ActiveRecover"}

\* The arrows of the diagram of NodeStatus, which lacks the one from Active to Standby
\* that a node takes when it leaves the committee.
NodeStatusDiagram ==
  [][node_status' # node_status =>
       <<node_status, node_status'>> \in
         {<<"Standby", "RecoveryCatchUp">>, <<"RecoveryCatchUp", "Standby">>,
          <<"RecoveryCatchUp", "RecoveryInProgress">>, <<"Standby", "RecoverMetadata">>,
          <<"RecoveryCatchUp", "RecoverMetadata">>, <<"RecoverMetadata", "Active">>,
          <<"Active", "RecoveryCatchUp">>, <<"RecoveryInProgress", "Active">>}]_vars
====
