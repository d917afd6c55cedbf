--------------------------- MODULE ShardSyncProofs ---------------------------
(***************************************************************************)
(* Proofs about shard syncs: an active shard holds every sliver certified  *)
(* in the epochs before, for any number of shards, positions, epochs,      *)
(* crashes and failures, as long as a shard that was lost does not come    *)
(* back (NoShardComesBack, without which it does not hold) and no task has *)
(* overwritten the status of the node (overwritten, likewise).             *)
(*                                                                         *)
(* The argument is about one shard at a time. A shard that was lost is out *)
(* of scope for good (Over). One that was not has storage only if it is    *)
(* assigned to the node from the handled epoch on, or from the next one if *)
(* a crash interrupted the handler (Assigned). What it has to store (Need) *)
(* grows when an epoch is handled, by slivers that blob syncs have stored, *)
(* and what its status, its progress and its task stand for is Covered:    *)
(* slivers held or recorded as missing. The node gives up this bookkeeping *)
(* when it skips epochs, or when a task overwrites the status that says so *)
(* (KeepsUp), and node recovery restores it: at its end, what it has       *)
(* stored is enough as long as the status is the one it found              *)
(* (RecoveredOK).                                                          *)
(***************************************************************************)
EXTENDS ShardSync, TLAPS

-----------------------------------------------------------------------------
(* The inductive invariant *)

Statuses == {"absent", "None", "Active", "ActiveSync", "ActiveRecover", "LockedToMove"}
Tasks == [stage : {"none", "waiting", "fetching", "recovering", "failed", "succeeded"},
          epoch : Nat, direct : BOOLEAN]

\* The handler is between two of its writes.
Mid == phase \in {"in_sync", "join", "recover"}

TypeInv ==
  /\ assigned \in Histories
  /\ {chain_epoch, tracked, handled, known} \subseteq Epochs
  /\ recovering \in Nat /\ recovery \in Nat /\ ending \in Nat /\ overwritten \in BOOLEAN
  /\ phase \in {"down", "idle", "in_sync", "join", "recover"}
  /\ finishing \in [epoch : Nat, attest : BOOLEAN]
  /\ node_status \in {"Standby", "Active", "RecoverMetadata", "RecoveryCatchUp",
                      "RecoveryInProgress"}
  /\ status \in [Shards -> Statuses]
  /\ held \in [Shards -> SUBSET Slivers]
  /\ pending \in [Shards -> SUBSET Slivers]
  /\ progress \in [Shards -> 0 .. NumPositions]
  /\ tasks \in [Shards -> Tasks]

\* The epochs that a handler, its finisher and a restart go by.
EpochInv ==
  /\ handled <= tracked /\ tracked <= chain_epoch
  /\ handled <= known
  /\ Mid => /\ tracked = handled + 1 /\ tracked <= known
            /\ finishing = NoFinisher
  /\ finishing # NoFinisher => finishing.epoch = handled /\ handled > 1
  /\ node_status = "RecoveryCatchUp" => ~ Mid /\ finishing = NoFinisher

\* How far a node recovery goes that is under way, has ended or would be resumed by a
\* restart.
RecoveryInv ==
  /\ ending <= recovering /\ recovery <= recovering
  /\ recovering <= tracked /\ recovering <= handled + 1
  /\ finishing # NoFinisher \/ node_status = "RecoveryCatchUp" => recovering <= handled
  /\ phase = "recover" => recovering = handled + 1
  /\ phase = "down" => ending = 0
  /\ node_status = "RecoveryInProgress" => handled <= recovering /\ (Mid => phase = "recover")

\* The shard was lost, as far as the node can know.
Over(s) == \E f, g \in 1 .. tracked : f < g /\ s \in assigned[f] \ assigned[g]

\* Nothing was ever stored for the shard.
Fresh(s) == pending[s] = {} /\ progress[s] = 0 /\ tasks[s] = NoTask

\* A shard that was not lost and has storage is assigned to the node from the
\* handled epoch on, or from the one that it was about to handle.
Assigned(s) ==
  /\ s \in assigned[tracked]
  /\ \/ s \in assigned[handled]
     \/ /\ handled < tracked /\ handled < known /\ s \in assigned[handled + 1]
        /\ node_status # "RecoveryCatchUp" /\ finishing = NoFinisher

StorageOK(s) ==
  ~ Over(s) =>
    /\ status[s] = "absent" => Fresh(s)
    /\ status[s] # "absent" => Assigned(s) /\ status[s] # "LockedToMove"

\* The epochs whose slivers the shard has to store: those handled, and the current one
\* once the slivers that blob syncs stored count, or if the shard is gained next.
Need(s) ==
  {f \in Epochs :
     \/ f < handled
     \/ f = handled /\ (s \notin assigned[handled] \/ Mid)}

\* What the status, the progress and the task of a shard stand for, if it has to store the
\* slivers of the epochs in N.
CoveredBy(N, st, h, p, n, task) ==
  /\ st = "Active" => Positions \X N \subseteq h
  /\ (1 .. n) \X N \subseteq h \cup p
  /\ st = "ActiveRecover" \/ task.stage = "recovering" => Positions \X N \subseteq h \cup p
  /\ task.stage # "none" => Positions \X {f \in N : f >= task.epoch} \subseteq h

Covered(s) == CoveredBy(Need(s), status[s], held[s], pending[s], progress[s], tasks[s])

\* The status of the node says that it keeps up.
KeepsUp == node_status \in {"Active", "RecoverMetadata"} /\ ~ overwritten

SliversOK(s) ==
  ~ Over(s) /\ status[s] # "absent" => node_status # "Standby" /\ (KeepsUp => Covered(s))

\* A recovery has found its own status, which is still there.
Ending == ending # 0 /\ node_status = "RecoveryInProgress" /\ recovering = ending

\* What it has stored at a shard of the latest epoch.
RecoveredOK(s) ==
  Ending /\ s \in assigned[tracked] =>
    s \in assigned[handled] /\ Positions \X {f \in Epochs : f < ending} \subseteq held[s]

GlobalInv == TypeInv /\ EpochInv /\ RecoveryInv
IInv == GlobalInv /\ \A s \in Shards : StorageOK(s) /\ SliversOK(s) /\ RecoveredOK(s)

-----------------------------------------------------------------------------
(* Facts about epochs and shards *)

LEMMA EpochFacts ==
  ASSUME TypeInv
  PROVE  /\ MaxEpoch \in Nat \ {0} /\ NumPositions \in Nat \ {0}
         /\ assigned \in [Epochs -> SUBSET Shards]
         /\ chain_epoch \in Epochs /\ tracked \in Epochs /\ handled \in Epochs /\ known \in Epochs
         /\ Epochs \subseteq Nat /\ \A f \in Nat : f \in Epochs <=> 1 <= f /\ f <= MaxEpoch
BY BoundsAssumption, HistoriesAssumption DEF TypeInv, Epochs

(* A shard of the assignment that the node knows was not lost.             *)
LEMMA AssignedNotOver ==
  ASSUME NoShardComesBack, TypeInv, NEW s \in assigned[tracked]
  PROVE  ~ Over(s)
BY EpochFacts DEF NoShardComesBack, Over, TypeInv

(* What was lost stays lost.                                               *)
LEMMA OverStable ==
  ASSUME TypeInv, TypeInv', assigned' = assigned, tracked <= tracked', NEW s, Over(s)
  PROVE  Over(s)'
BY EpochFacts DEF Over, TypeInv

(* A shard that was not lost is assigned to the node without a gap.        *)
LEMMA NotOverStays ==
  ASSUME TypeInv, NEW s, ~ Over(s), NEW f \in Epochs, NEW g \in Epochs, s \in assigned[f],
         f <= g, g <= tracked
  PROVE  s \in assigned[g]
BY EpochFacts DEF Over

(* What a shard has to store was certified before the epoch of the         *)
(* committee, in epochs whose events are known.                            *)
LEMMA NeedIsKnown ==
  ASSUME GlobalInv, NEW s, Assigned(s)
  PROVE  \A f \in Need(s) : f \in Epochs /\ f < known /\ f < tracked
<1>1. /\ handled \in Nat /\ tracked \in Nat /\ known \in Nat /\ handled <= tracked /\ handled <= known
      /\ Mid => tracked = handled + 1 /\ tracked <= known
  BY EpochFacts DEF GlobalInv, EpochInv
<1>2. s \notin assigned[handled] => handled < tracked /\ handled < known
  BY DEF Assigned
<1>3. Mid => handled < tracked /\ handled < known
  BY <1>1
<1>4. Epochs \subseteq Nat
  BY BoundsAssumption DEF Epochs
<1> QED BY <1>1, <1>2, <1>3, <1>4 DEF Need

-----------------------------------------------------------------------------
(* Steps of the task of one shard *)

(* What the node as a whole is doing does not change.                      *)
SameNode ==
  UNCHANGED <<assigned, chain_epoch, tracked, handled, known, phase, finishing, node_status,
              recovering, recovery, ending, overwritten>>

LEMMA SameNodeFacts ==
  ASSUME SameNode
  PROVE  /\ EpochInv => EpochInv'
         /\ RecoveryInv => RecoveryInv'
         /\ \A s : Over(s)' = Over(s) /\ Assigned(s)' = Assigned(s) /\ Need(s)' = Need(s)
         /\ \A s : held[s] \subseteq held'[s] /\ RecoveredOK(s) => RecoveredOK(s)'
         /\ KeepsUp' = KeepsUp /\ node_status' = node_status
<1>1. EpochInv => EpochInv'
  BY DEF SameNode, EpochInv, Mid
<1>2. RecoveryInv => RecoveryInv'
  BY DEF SameNode, RecoveryInv, Mid
<1>3. ASSUME NEW s PROVE Over(s)' = Over(s) /\ Assigned(s)' = Assigned(s) /\ Need(s)' = Need(s)
  BY DEF SameNode, Over, Assigned, Need, Mid
<1>4. ASSUME NEW s, held[s] \subseteq held'[s], RecoveredOK(s) PROVE RecoveredOK(s)'
  BY <1>4 DEF SameNode, RecoveredOK, Ending
<1>5. KeepsUp' = KeepsUp /\ node_status' = node_status
  BY DEF SameNode, KeepsUp
<1> QED BY <1>1, <1>2, <1>3, <1>4, <1>5

(* A step of the task of shard s that keeps what its state stands for.     *)
LEMMA TaskStep ==
  ASSUME IInv, SameNode, TypeInv', NEW s \in Shards,
         \A t \in Shards \ {s} : /\ status'[t] = status[t] /\ held'[t] = held[t]
                                 /\ pending'[t] = pending[t] /\ progress'[t] = progress[t]
                                 /\ tasks'[t] = tasks[t],
         status'[s] = "absent" <=> status[s] = "absent",
         status'[s] = "LockedToMove" => status[s] = "LockedToMove",
         held[s] \subseteq held'[s],
         ~ Over(s) /\ status[s] = "absent" => Fresh(s)',
         ~ Over(s) /\ status[s] # "absent" /\ Covered(s) => Covered(s)'
  PROVE  IInv'
<1>1. GlobalInv'
  BY SameNodeFacts DEF IInv, GlobalInv
<1>2. \A t : Over(t)' = Over(t) /\ Assigned(t)' = Assigned(t) /\ Need(t)' = Need(t)
  BY SameNodeFacts
<1>3. node_status' = node_status /\ KeepsUp' = KeepsUp
  BY SameNodeFacts
<1>4. StorageOK(s)' /\ SliversOK(s)' /\ RecoveredOK(s)'
  <2>1. StorageOK(s) /\ SliversOK(s) /\ RecoveredOK(s)
    BY DEF IInv
  <2>2. RecoveredOK(s)'
    BY <2>1, SameNodeFacts
  <2> QED BY <1>2, <1>3, <2>1, <2>2 DEF StorageOK, SliversOK
<1>5. ASSUME NEW t \in Shards, t # s PROVE StorageOK(t)' /\ SliversOK(t)' /\ RecoveredOK(t)'
  <2>1. StorageOK(t) /\ SliversOK(t) /\ RecoveredOK(t)
    BY DEF IInv
  <2>2. /\ status'[t] = status[t] /\ held'[t] = held[t]
        /\ pending'[t] = pending[t] /\ progress'[t] = progress[t]
        /\ tasks'[t] = tasks[t]
    BY <1>5
  <2>3. Covered(t)' = Covered(t) /\ Fresh(t)' = Fresh(t)
    BY <1>2, <2>2 DEF Covered, Fresh
  <2>4. RecoveredOK(t)'
    BY <2>1, <2>2, SameNodeFacts
  <2> QED BY <1>2, <1>3, <2>1, <2>2, <2>3, <2>4 DEF StorageOK, SliversOK
<1> QED BY <1>1, <1>4, <1>5 DEF IInv

(* The state of one shard changes to values of the right types.            *)
LEMMA TaskTyped ==
  ASSUME TypeInv, SameNode,
         status' \in [Shards -> Statuses], held' \in [Shards -> SUBSET Slivers],
         pending' \in [Shards -> SUBSET Slivers], progress' \in [Shards -> 0 .. NumPositions],
         tasks' \in [Shards -> Tasks]
  PROVE  TypeInv'
BY DEF TypeInv, SameNode

LEMMA Typed ==
  ASSUME IInv
  PROVE  /\ TypeInv
         /\ status \in [Shards -> Statuses] /\ held \in [Shards -> SUBSET Slivers]
         /\ pending \in [Shards -> SUBSET Slivers] /\ progress \in [Shards -> 0 .. NumPositions]
         /\ tasks \in [Shards -> Tasks] /\ recovery \in Nat /\ recovering \in Nat /\ ending \in Nat
         /\ overwritten \in BOOLEAN
         /\ NumPositions \in Nat \ {0}
BY BoundsAssumption DEF IInv, GlobalInv, TypeInv

(* The task of a shard with storage, or of one that was lost.              *)
LEMMA TaskHasStorage ==
  ASSUME IInv, NEW s \in Shards, tasks[s].stage # "none", ~ Over(s)
  PROVE  status[s] # "absent" /\ Assigned(s)
BY DEF IInv, StorageOK, Fresh, NoTask

LEMMA StartNewShardSyncStep ==
  ASSUME IInv, NEW s \in Shards, StartNewShardSync(s)
  PROVE  IInv'
<1>1. SameNode /\ held' = held /\ pending' = pending
  BY DEF StartNewShardSync, SameNode, nodeVars, nodeTasks, boundVars
<1>2. CASE UNCHANGED <<status, progress, tasks>>
  <2>1. TypeInv'
    BY <1>1, <1>2, Typed, TaskTyped
  <2>2. Covered(s)' = Covered(s) /\ Fresh(s)' = Fresh(s)
    BY <1>1, <1>2, SameNodeFacts DEF Covered, Fresh
  <2>3. ~ Over(s) /\ status[s] = "absent" => Fresh(s)'
    BY <2>2 DEF IInv, StorageOK
  <2> QED BY <1>1, <1>2, <2>1, <2>2, <2>3, TaskStep
<1>3. CASE /\ ~ InProgress(s) /\ status[s] \notin {"Active", "absent"}
           /\ status' = [status EXCEPT ![s] = "ActiveSync"]
           /\ progress' = [progress EXCEPT ![s] = 0]
           /\ tasks' = [tasks EXCEPT ![s] = NewTask(tracked)]
  <2>1. /\ tracked \in Nat /\ NewTask(tracked) \in Tasks /\ NewTask(tracked).stage = "waiting"
        /\ NewTask(tracked).epoch = tracked
    BY Typed, EpochFacts DEF NewTask, Tasks
  <2>2. TypeInv'
    BY <1>1, <1>3, <2>1, Typed, TaskTyped DEF Statuses
  <2>3. /\ status'[s] = "ActiveSync" /\ progress'[s] = 0 /\ tasks'[s] = NewTask(tracked)
        /\ \A t \in Shards \ {s} : status'[t] = status[t] /\ progress'[t] = progress[t]
                                   /\ tasks'[t] = tasks[t]
    BY <1>3, Typed
  <2>4. ASSUME ~ Over(s) PROVE Covered(s)'
    <3>1. \A f \in Need(s) : f \in Epochs /\ f < tracked
      BY <1>3, <2>4, NeedIsKnown DEF IInv, StorageOK
    <3>2. Need(s)' = Need(s)
      BY <1>1, SameNodeFacts
    <3>3. {f \in Need(s) : f >= tracked} = {}
      BY <3>1, <2>1, Typed, EpochFacts
    <3> QED BY <2>1, <2>3, <3>2, <3>3 DEF Covered, CoveredBy
  <2> QED BY <1>1, <1>3, <2>2, <2>3, <2>4, TaskStep
<1> QED BY <1>2, <1>3 DEF StartNewShardSync

(* The task goes to another stage, with the shard as it was.               *)
LEMMA StageStep ==
  ASSUME IInv, NEW s \in Shards, SameNode, UNCHANGED <<status, held, pending, progress>>,
         tasks[s].stage # "none",
         NEW task \in Tasks, tasks' = [tasks EXCEPT ![s] = task],
         task.stage = "recovering" => status[s] = "ActiveRecover",
         task.stage = "none" \/ task.epoch = tasks[s].epoch
  PROVE  IInv'
<1>1. TypeInv'
  BY Typed, TaskTyped
<1>2. tasks'[s] = task /\ \A t \in Shards \ {s} : tasks'[t] = tasks[t]
  BY Typed
<1>3. ASSUME Covered(s) PROVE Covered(s)'
  <2>1. Need(s)' = Need(s)
    BY SameNodeFacts
  <2> QED BY <1>2, <1>3, <2>1 DEF Covered, CoveredBy
<1>4. ~ Over(s) => status[s] # "absent"
  BY TaskHasStorage
<1> QED BY <1>1, <1>2, <1>3, <1>4, TaskStep

LEMMA TaskUpdates ==
  ASSUME IInv, NEW s \in Shards,
         NEW stage \in {"none", "waiting", "fetching", "recovering", "failed", "succeeded"}
  PROVE  /\ [tasks[s] EXCEPT !.stage = stage] \in Tasks
         /\ [tasks[s] EXCEPT !.stage = stage].stage = stage
         /\ [tasks[s] EXCEPT !.stage = stage].epoch = tasks[s].epoch
<1>1. tasks[s] \in Tasks
  BY Typed
<1> QED BY <1>1 DEF Tasks

LEMMA BeginAttemptStep == ASSUME IInv, NEW s \in Shards, BeginAttempt(s) PROVE IInv'
<1> DEFINE stage == IF status[s] = "ActiveRecover" THEN "recovering" ELSE "fetching"
<1>1. /\ SameNode /\ UNCHANGED <<status, held, pending, progress>>
      /\ tasks[s].stage # "none"
      /\ tasks' = [tasks EXCEPT ![s] = [tasks[s] EXCEPT !.stage = stage]]
  BY Typed DEF BeginAttempt, SetStage, SameNode, nodeVars, shardVars, nodeTasks, boundVars
<1>2. stage \in {"recovering", "fetching"} /\ (stage = "recovering" => status[s] = "ActiveRecover")
  OBVIOUS
<1> HIDE DEF stage
<1>3. /\ [tasks[s] EXCEPT !.stage = stage] \in Tasks
      /\ [tasks[s] EXCEPT !.stage = stage].stage = stage
      /\ [tasks[s] EXCEPT !.stage = stage].epoch = tasks[s].epoch
  <2>1. tasks[s] \in Tasks
    BY Typed
  <2> QED BY <1>2, <2>1 DEF Tasks
<1> QED BY <1>1, <1>2, <1>3, StageStep

LEMMA RetryAttemptStep ==
  ASSUME IInv, NEW s \in Shards, NEW direct \in BOOLEAN, RetryAttempt(s, direct)
  PROVE  IInv'
<1>1. /\ SameNode /\ UNCHANGED <<status, held, pending, progress>>
      /\ tasks[s].stage # "none"
      /\ tasks' = [tasks EXCEPT ![s] = [tasks[s] EXCEPT !.stage = "waiting", !.direct = direct]]
  BY Typed DEF RetryAttempt, SameNode, nodeVars, shardVars, nodeTasks, boundVars
<1>2. /\ [tasks[s] EXCEPT !.stage = "waiting", !.direct = direct] \in Tasks
      /\ [tasks[s] EXCEPT !.stage = "waiting", !.direct = direct].stage = "waiting"
      /\ [tasks[s] EXCEPT !.stage = "waiting", !.direct = direct].epoch = tasks[s].epoch
  <2>1. tasks[s] \in Tasks
    BY Typed
  <2> QED BY <2>1 DEF Tasks
<1> QED BY <1>1, <1>2, StageStep

LEMMA FailSyncStep == ASSUME IInv, NEW s \in Shards, FailSync(s) PROVE IInv'
<1>1. /\ SameNode /\ UNCHANGED <<status, held, pending, progress>>
      /\ tasks[s].stage # "none"
      /\ tasks' = [tasks EXCEPT ![s] = [tasks[s] EXCEPT !.stage = "failed"]]
  BY Typed DEF FailSync, SetStage, SameNode, nodeVars, shardVars, nodeTasks, boundVars
<1>2. /\ [tasks[s] EXCEPT !.stage = "failed"] \in Tasks
      /\ [tasks[s] EXCEPT !.stage = "failed"].stage = "failed"
      /\ [tasks[s] EXCEPT !.stage = "failed"].epoch = tasks[s].epoch
  BY TaskUpdates
<1> QED BY <1>1, <1>2, StageStep

LEMMA EndTaskStep == ASSUME IInv, NEW s \in Shards, EndTask(s) PROVE IInv'
<1>1. /\ SameNode /\ UNCHANGED <<status, held, pending, progress>>
      /\ tasks[s].stage # "none"
      /\ tasks' = [tasks EXCEPT ![s] = NoTask]
  BY DEF EndTask, SameNode, nodeVars, shardVars, nodeTasks, boundVars
<1>2. NoTask \in Tasks /\ NoTask.stage = "none"
  BY DEF NoTask, Tasks
<1> QED BY <1>1, <1>2, StageStep

(* One request: the slivers are held, or recorded as missing.              *)
LEMMA FetchStep ==
  ASSUME IInv, NEW s \in Shards, NEW found \in BOOLEAN, Fetch(s, found)
  PROVE  IInv'
<1> DEFINE p == progress[s] + 1
           wanted == Wanted({p}, tasks[s].epoch)
           h == IF found THEN held[s] \cup wanted ELSE held[s]
           m == IF found THEN pending[s] ELSE pending[s] \cup wanted
<1>1. /\ SameNode /\ UNCHANGED <<status, tasks>>
      /\ tasks[s].stage = "fetching" /\ p \in Positions
      /\ held' = [held EXCEPT ![s] = h]
      /\ pending' = [pending EXCEPT ![s] = m]
      /\ progress' = [progress EXCEPT ![s] = p]
  BY Typed DEF Fetch, SameNode, nodeVars, taskVars, nodeTasks, boundVars
<1>2. p \in 1 .. NumPositions /\ progress[s] \in Nat
  BY <1>1, Typed DEF Positions
<1>3. wanted \in SUBSET Slivers /\ held[s] \in SUBSET Slivers /\ pending[s] \in SUBSET Slivers
  BY <1>1, Typed DEF Wanted, Slivers
<1>4. h \in SUBSET Slivers /\ m \in SUBSET Slivers /\ h \cup m = held[s] \cup pending[s] \cup wanted
      /\ held[s] \subseteq h
  BY <1>3
<1> HIDE DEF h, m
<1>5. /\ held'[s] = h /\ pending'[s] = m /\ progress'[s] = p
      /\ \A t \in Shards \ {s} : held'[t] = held[t] /\ pending'[t] = pending[t]
                                 /\ progress'[t] = progress[t]
  BY <1>1, Typed
<1>6. TypeInv'
  <2>1. held' \in [Shards -> SUBSET Slivers] /\ pending' \in [Shards -> SUBSET Slivers]
    BY <1>1, <1>4, Typed
  <2>2. progress' \in [Shards -> 0 .. NumPositions]
    BY <1>1, <1>2, Typed
  <2> QED BY <1>1, <2>1, <2>2, Typed, TaskTyped
<1>7. ASSUME ~ Over(s), Covered(s) PROVE Covered(s)'
  <2>1. \A f \in Need(s) : f \in Epochs /\ f < known
    BY <1>1, <1>7, TaskHasStorage, NeedIsKnown DEF IInv
  <2>2. Need(s)' = Need(s) /\ Need(s) \subseteq Epochs
    BY <1>1, SameNodeFacts DEF Need
  <2>3. Positions \X {f \in Need(s) : f >= tasks[s].epoch} \subseteq held[s]
    BY <1>1, <1>7 DEF Covered, CoveredBy
  <2>4. ASSUME NEW f \in Need(s) PROVE <<p, f>> \in h \cup m
    <3>1. CASE f >= tasks[s].epoch
      BY <1>1, <1>4, <2>3, <3>1
    <3>2. CASE ~ (f >= tasks[s].epoch)
      <4>1. f < tasks[s].epoch
        BY <2>1, <3>2, Typed, EpochFacts DEF Tasks
      <4>2. <<p, f>> \in wanted
        BY <2>1, <4>1 DEF Wanted
      <4> QED BY <1>4, <4>2
    <3> QED BY <3>1, <3>2
  <2>5. (1 .. progress[s]) \X Need(s) \subseteq held[s] \cup pending[s]
    BY <1>7 DEF Covered, CoveredBy
  <2>6. (1 .. p) \X Need(s) \subseteq h \cup m
    <3>1. \A q \in 1 .. p : q \in 1 .. progress[s] \/ q = p
      BY <1>2
    <3> QED BY <1>4, <2>4, <2>5, <3>1
  <2>7. CoveredBy(Need(s), status[s], h, m, p, tasks[s])
    <3>1. status[s] = "Active" => Positions \X Need(s) \subseteq h
      BY <1>4, <1>7 DEF Covered, CoveredBy
    <3>2. status[s] = "ActiveRecover" \/ tasks[s].stage = "recovering" =>
            Positions \X Need(s) \subseteq h \cup m
      BY <1>4, <1>7 DEF Covered, CoveredBy
    <3> HIDE DEF p
    <3> QED BY <1>4, <2>3, <2>6, <3>1, <3>2 DEF CoveredBy
  <2> QED BY <1>1, <1>5, <2>2, <2>7 DEF Covered
<1>8. ~ Over(s) => status[s] # "absent"
  BY <1>1, TaskHasStorage
<1>9. held[s] \subseteq held'[s]
  BY <1>4, <1>5
<1> QED BY <1>1, <1>5, <1>6, <1>7, <1>8, <1>9, TaskStep

(* The transfer is over: all that is not held is recorded as missing.      *)
LEMMA EndFetchStep == ASSUME IInv, NEW s \in Shards, EndFetch(s) PROVE IInv'
<1> DEFINE later == {p \in Positions : p > progress[s]}
           rest == Wanted(later, tasks[s].epoch)
           missing == pending[s] \cup rest
           st == IF missing # {} /\ status[s] = "ActiveSync" THEN "ActiveRecover" ELSE status[s]
           task == [tasks[s] EXCEPT !.stage = "recovering"]
<1>1. /\ SameNode /\ UNCHANGED <<held, progress>>
      /\ tasks[s].stage = "fetching"
      /\ pending' = [pending EXCEPT ![s] = missing]
      /\ status' = [status EXCEPT ![s] = st]
      /\ tasks' = [tasks EXCEPT ![s] = task]
  BY Typed DEF EndFetch, SetStage, SameNode, nodeVars, nodeTasks, boundVars
<1>2. task \in Tasks /\ task.stage = "recovering" /\ task.epoch = tasks[s].epoch
  BY TaskUpdates
<1>3. missing \in SUBSET Slivers
  BY Typed DEF Wanted, Slivers
<1>4. /\ st \in Statuses /\ (st = "absent" <=> status[s] = "absent")
      /\ (st = "LockedToMove" => status[s] = "LockedToMove")
      /\ (st = "Active" => status[s] = "Active")
  BY Typed DEF Statuses
<1> HIDE DEF st, task
<1>5. ASSUME ~ Over(s), Covered(s)
      PROVE  CoveredBy(Need(s), st, held[s], missing, progress[s], task)
  <2>1. \A f \in Need(s) : f \in Epochs /\ f < known
    BY <1>1, <1>5, TaskHasStorage, NeedIsKnown DEF IInv
  <2>2. Positions \X {f \in Need(s) : f >= tasks[s].epoch} \subseteq held[s]
    BY <1>1, <1>5 DEF Covered, CoveredBy
  <2>3. (1 .. progress[s]) \X Need(s) \subseteq held[s] \cup pending[s]
    BY <1>5 DEF Covered, CoveredBy
  <2>4. ASSUME NEW q \in Positions, NEW f \in Need(s) PROVE <<q, f>> \in held[s] \cup missing
    <3>1. CASE f >= tasks[s].epoch
      BY <2>2, <3>1
    <3>2. CASE q \in 1 .. progress[s]
      BY <2>3, <3>2
    <3>3. CASE ~ (f >= tasks[s].epoch) /\ q \notin 1 .. progress[s]
      <4>1. f < tasks[s].epoch
        BY <2>1, <3>3, Typed, EpochFacts DEF Tasks
      <4>2. q \in later
        BY <3>3, Typed DEF Positions
      <4> QED BY <2>1, <4>1, <4>2 DEF Wanted
    <3> QED BY <3>1, <3>2, <3>3
  <2>5. Positions \X Need(s) \subseteq held[s] \cup missing
    BY <2>4
  <2>6. (1 .. progress[s]) \X Need(s) \subseteq held[s] \cup missing
    BY <2>3
  <2>7. st = "Active" => Positions \X Need(s) \subseteq held[s]
    BY <1>4, <1>5 DEF Covered, CoveredBy
  <2> QED BY <1>2, <2>2, <2>5, <2>6, <2>7 DEF CoveredBy
<1> HIDE DEF missing
<1>6. /\ pending'[s] = missing /\ status'[s] = st /\ tasks'[s] = task
      /\ \A t \in Shards \ {s} : pending'[t] = pending[t] /\ status'[t] = status[t]
                                 /\ tasks'[t] = tasks[t]
  BY <1>1, Typed
<1>7. TypeInv'
  <2>1. /\ pending' \in [Shards -> SUBSET Slivers] /\ status' \in [Shards -> Statuses]
        /\ tasks' \in [Shards -> Tasks]
    BY <1>1, <1>2, <1>3, <1>4, Typed
  <2> QED BY <1>1, <2>1, Typed, TaskTyped
<1>8. Need(s)' = Need(s)
  BY <1>1, SameNodeFacts
<1>9. ~ Over(s) /\ Covered(s) => Covered(s)'
  BY <1>1, <1>5, <1>6, <1>8 DEF Covered
<1>10. ~ Over(s) => status[s] # "absent"
  BY <1>1, TaskHasStorage
<1> QED BY <1>1, <1>4, <1>6, <1>7, <1>9, <1>10, TaskStep

LEMMA RecoverMissingStep == ASSUME IInv, NEW s \in Shards, RecoverMissing(s) PROVE IInv'
<1>1. /\ SameNode /\ UNCHANGED <<status, progress, tasks>>
      /\ tasks[s].stage = "recovering"
      /\ held' = [held EXCEPT ![s] = held[s] \cup pending[s]]
      /\ pending' = [pending EXCEPT ![s] = {}]
  BY Typed DEF RecoverMissing, SameNode, nodeVars, taskVars, nodeTasks, boundVars
<1>2. /\ held'[s] = held[s] \cup pending[s] /\ pending'[s] = {}
      /\ \A t \in Shards \ {s} : held'[t] = held[t] /\ pending'[t] = pending[t]
  BY <1>1, Typed
<1>3. TypeInv'
  <2>1. held' \in [Shards -> SUBSET Slivers] /\ pending' \in [Shards -> SUBSET Slivers]
    BY <1>1, Typed
  <2> QED BY <1>1, <2>1, Typed, TaskTyped
<1>4. Need(s)' = Need(s)
  BY <1>1, SameNodeFacts
<1>5. Covered(s) => Covered(s)'
  BY <1>1, <1>2, <1>4 DEF Covered, CoveredBy
<1>6. ~ Over(s) => status[s] # "absent"
  BY <1>1, TaskHasStorage
<1> QED BY <1>1, <1>2, <1>3, <1>5, <1>6, TaskStep

(* The shard becomes active when nothing is missing.                       *)
LEMMA FinishSyncStep == ASSUME IInv, NEW s \in Shards, FinishSync(s) PROVE IInv'
<1> DEFINE task == [tasks[s] EXCEPT !.stage = "succeeded"]
<1>1. /\ SameNode /\ UNCHANGED <<held, pending>>
      /\ tasks[s].stage = "recovering" /\ pending[s] = {}
      /\ status' = [status EXCEPT ![s] = Finished(status[s])]
      /\ progress' = [progress EXCEPT ![s] = 0]
      /\ tasks' = [tasks EXCEPT ![s] = task]
  BY Typed DEF FinishSync, NothingMissing, SetStage, SameNode, nodeVars, nodeTasks, boundVars
<1>2. task \in Tasks /\ task.stage = "succeeded" /\ task.epoch = tasks[s].epoch
  BY TaskUpdates
<1> HIDE DEF task
<1>3. /\ Finished(status[s]) \in Statuses
      /\ Finished(status[s]) = "absent" <=> status[s] = "absent"
      /\ Finished(status[s]) = "LockedToMove" => status[s] = "LockedToMove"
      /\ Finished(status[s]) # "ActiveRecover"
  BY Typed DEF Finished, Statuses
<1>4. /\ status'[s] = Finished(status[s]) /\ progress'[s] = 0 /\ tasks'[s] = task
      /\ \A t \in Shards \ {s} : status'[t] = status[t] /\ progress'[t] = progress[t]
                                 /\ tasks'[t] = tasks[t]
  BY <1>1, Typed
<1>5. TypeInv'
  <2>1. /\ status' \in [Shards -> Statuses] /\ progress' \in [Shards -> 0 .. NumPositions]
        /\ tasks' \in [Shards -> Tasks]
    BY <1>1, <1>2, <1>3, Typed
  <2> QED BY <1>1, <2>1, Typed, TaskTyped
<1>6. Need(s)' = Need(s)
  BY <1>1, SameNodeFacts
<1>7. ASSUME Covered(s) PROVE Covered(s)'
  <2>1. Positions \X Need(s) \subseteq held[s]
    BY <1>1, <1>7 DEF Covered, CoveredBy
  <2>2. Positions \X {f \in Need(s) : f >= tasks[s].epoch} \subseteq held[s]
    BY <1>1, <1>7 DEF Covered, CoveredBy
  <2>3. (1 .. 0) \X Need(s) \subseteq held[s] \cup pending[s]
    OBVIOUS
  <2>4. CoveredBy(Need(s), Finished(status[s]), held[s], pending[s], 0, task)
    BY <1>2, <1>3, <2>1, <2>2, <2>3 DEF CoveredBy
  <2> QED BY <1>1, <1>4, <1>6, <2>4 DEF Covered
<1>8. ~ Over(s) => status[s] # "absent"
  BY <1>1, TaskHasStorage
<1> QED BY <1>1, <1>3, <1>4, <1>5, <1>7, <1>8, TaskStep

-----------------------------------------------------------------------------
(* Steps that change no shard *)

(* Covered with less to store, more slivers held, or without a task.       *)
LEMMA CoveredShrinks ==
  ASSUME NEW N, NEW M, M \subseteq N, NEW st, NEW h, NEW i, h \subseteq i, NEW p, NEW n, NEW task,
         NEW next, next \in {task, NoTask}, CoveredBy(N, st, h, p, n, task)
  PROVE  CoveredBy(M, st, i, p, n, next)
<1>1. NoTask.stage = "none"
  BY DEF NoTask
<1>2. st = "Active" => Positions \X M \subseteq i
  BY DEF CoveredBy
<1>3. (1 .. n) \X M \subseteq i \cup p
  BY DEF CoveredBy
<1>4. st = "ActiveRecover" \/ task.stage = "recovering" => Positions \X M \subseteq i \cup p
  BY DEF CoveredBy
<1>5. task.stage # "none" => Positions \X {f \in M : f >= task.epoch} \subseteq i
  BY DEF CoveredBy
<1> QED BY <1>1, <1>2, <1>3, <1>4, <1>5 DEF CoveredBy

(* A step after which no shard has to store more, or the node catches up,  *)
(* and none that was lost is back.                                                  *)
LEMMA ShardsUnchanged ==
  ASSUME IInv, GlobalInv',
         \A s \in Shards : ~ Over(s)' =>
           /\ status'[s] = status[s] /\ pending'[s] = pending[s] /\ progress'[s] = progress[s]
           /\ held[s] \subseteq held'[s] /\ tasks'[s] \in {tasks[s], NoTask},
         \A s \in Shards : Over(s) => Over(s)',
         \A s \in Shards : ~ Over(s)' /\ Assigned(s) =>
           Assigned(s)' /\ (Need(s)' \subseteq Need(s) \/ node_status' = "RecoveryCatchUp"),
         \A s \in Shards : RecoveredOK(s)',
         node_status' \in {node_status, "Active", "RecoveryCatchUp"},
         KeepsUp' => KeepsUp
  PROVE  IInv'
<1>1. SUFFICES ASSUME NEW s \in Shards PROVE StorageOK(s)' /\ SliversOK(s)'
  BY DEF IInv
<1>2. StorageOK(s) /\ SliversOK(s)
  BY DEF IInv
<1>3. StorageOK(s)'
  BY <1>2 DEF StorageOK, Fresh
<1>4. SliversOK(s)'
  <2>1. SUFFICES ASSUME ~ Over(s)', status'[s] # "absent"
                 PROVE  node_status' # "Standby" /\ (KeepsUp' => Covered(s)')
    BY DEF SliversOK
  <2>2. node_status # "Standby" /\ (KeepsUp => Covered(s))
    BY <1>2, <2>1 DEF SliversOK
  <2>3. held[s] \subseteq held'[s]
        /\ (Need(s)' \subseteq Need(s) \/ node_status' = "RecoveryCatchUp")
    BY <1>2, <2>1 DEF StorageOK
  <2>5. ASSUME Need(s)' \subseteq Need(s) PROVE Covered(s) => Covered(s)'
    <3>1. tasks'[s] \in {tasks[s], NoTask}
      BY <2>1
    <3>2. status'[s] = status[s] /\ pending'[s] = pending[s] /\ progress'[s] = progress[s]
      BY <2>1
    <3>3. ASSUME CoveredBy(Need(s), status[s], held[s], pending[s], progress[s], tasks[s])
          PROVE  CoveredBy(Need(s)', status[s], held'[s], pending[s], progress[s], tasks'[s])
      BY <2>3, <2>5, <3>1, <3>3, CoveredShrinks
    <3> QED BY <3>2, <3>3 DEF Covered
  <2>6. KeepsUp' => node_status' # "RecoveryCatchUp"
    BY DEF KeepsUp
  <2> QED BY <2>2, <2>3, <2>5, <2>6
<1> QED BY <1>3, <1>4

LEMMA SameNodeStep ==
  ASSUME IInv, SameNode, UNCHANGED <<shardVars, tasks>>
  PROVE  IInv'
<1>1. UNCHANGED <<status, held, pending, progress, tasks>>
  BY DEF shardVars
<1>2. TypeInv'
  BY <1>1, Typed, TaskTyped
<1>3. GlobalInv'
  BY <1>2, SameNodeFacts DEF IInv, GlobalInv
<1>4. /\ \A s : Over(s)' = Over(s) /\ Assigned(s)' = Assigned(s) /\ Need(s)' = Need(s)
      /\ node_status' = node_status /\ KeepsUp' = KeepsUp
  BY SameNodeFacts
<1>5. \A s \in Shards : RecoveredOK(s)'
  BY <1>1, SameNodeFacts DEF IInv
<1> QED BY <1>1, <1>3, <1>4, <1>5, ShardsUnchanged

(* What a recovery has stored stays.                                       *)
LEMMA RecoveredStays ==
  ASSUME UNCHANGED <<assigned, tracked, handled, node_status, recovering, ending>>,
         NEW s, RecoveredOK(s), Ending /\ s \in assigned[tracked] => held[s] \subseteq held'[s]
  PROVE  RecoveredOK(s)'
BY DEF RecoveredOK, Ending

LEMMA NotEnding ==
  ASSUME ~ Ending', NEW s
  PROVE  RecoveredOK(s)'
BY DEF RecoveredOK

LEMMA NextEpochStep == ASSUME IInv, NextEpoch PROVE IInv'
<1>1. /\ UNCHANGED <<assigned, tracked, handled, known, phase, finishing, node_status, recovering>>
      /\ UNCHANGED <<status, held, pending, progress, tasks, recovery, ending, overwritten>>
      /\ chain_epoch' = chain_epoch + 1 /\ chain_epoch < MaxEpoch
  BY DEF NextEpoch, nodeVars, shardVars, taskVars, nodeTasks, boundVars
<1>2. chain_epoch' \in Epochs /\ chain_epoch \in Nat
  BY <1>1, Typed, EpochFacts
<1>3. TypeInv'
  BY <1>1, <1>2, Typed DEF TypeInv
<1>4. EpochInv' /\ RecoveryInv'
  <2>1. tracked <= chain_epoch'
    <3>1. tracked \in Nat /\ tracked <= chain_epoch
      BY Typed, EpochFacts DEF IInv, GlobalInv, EpochInv
    <3> QED BY <1>1, <1>2, <3>1
  <2>2. Mid' = Mid
    BY <1>1 DEF Mid
  <2>3. EpochInv'
    BY <1>1, <2>1, <2>2 DEF IInv, GlobalInv, EpochInv
  <2> QED BY <1>1, <2>2, <2>3 DEF IInv, GlobalInv, RecoveryInv
<1>5. \A s : Over(s)' = Over(s) /\ Assigned(s)' = Assigned(s) /\ Need(s)' = Need(s)
  BY <1>1 DEF Over, Assigned, Need, Mid
<1>6. \A s \in Shards : RecoveredOK(s)'
  BY <1>1, RecoveredStays DEF IInv
<1>7. KeepsUp' = KeepsUp
  BY <1>1 DEF KeepsUp
<1> QED BY <1>1, <1>3, <1>4, <1>5, <1>6, <1>7, ShardsUnchanged DEF GlobalInv

LEMMA FinisherAttestsStep == ASSUME IInv, FinisherAttests PROVE IInv'
<1>1. /\ UNCHANGED <<assigned, chain_epoch, tracked, handled, known, phase, node_status, recovering>>
      /\ UNCHANGED <<status, held, pending, progress, tasks, recovery, ending, overwritten>>
      /\ finishing' = [finishing EXCEPT !.attest = FALSE] /\ finishing.attest
  BY DEF FinisherAttests, nodeVars, shardVars, taskVars, nodeTasks, boundVars
<1>2. finishing # NoFinisher /\ finishing \in [epoch : Nat, attest : BOOLEAN]
  BY <1>1, Typed DEF NoFinisher, TypeInv
<1>3. finishing.epoch = handled /\ handled > 1 /\ handled \in Nat
  BY <1>2, Typed, EpochFacts DEF IInv, GlobalInv, EpochInv
<1>4. /\ finishing' \in [epoch : Nat, attest : BOOLEAN] /\ finishing'.epoch = handled
  BY <1>1, <1>2, <1>3
<1>5. finishing' # NoFinisher
  BY <1>3, <1>4 DEF NoFinisher
<1>6. TypeInv'
  BY <1>1, <1>4, Typed DEF TypeInv
<1>7. EpochInv' /\ RecoveryInv'
  BY <1>1, <1>2, <1>3, <1>4 DEF IInv, GlobalInv, EpochInv, RecoveryInv, Mid
<1>8. \A s : Over(s)' = Over(s) /\ Assigned(s)' = Assigned(s) /\ Need(s)' = Need(s)
  BY <1>1, <1>2, <1>5 DEF Over, Assigned, Need, Mid
<1>9. \A s \in Shards : RecoveredOK(s)'
  BY <1>1, RecoveredStays DEF IInv
<1>10. KeepsUp' = KeepsUp
  BY <1>1 DEF KeepsUp
<1> QED BY <1>1, <1>6, <1>7, <1>8, <1>9, <1>10, ShardsUnchanged DEF GlobalInv

LEMMA EndStarterStep == ASSUME IInv, EndStarter PROVE IInv'
<1>1. SameNode /\ UNCHANGED <<shardVars, tasks>>
  BY DEF EndStarter, SameNode, nodeVars, boundVars
<1> QED BY <1>1, SameNodeStep

(* A task makes the node active: what was covered is, or the status that   *)
(* said more is overwritten.                                               *)
LEMMA ActivateStep ==
  ASSUME IInv, node_status' = "Active",
         UNCHANGED <<assigned, chain_epoch, tracked, handled, known, phase, finishing, recovering>>,
         UNCHANGED <<status, held, pending, progress, tasks, recovery>>,
         ending' \in {ending, 0}, overwritten' \in BOOLEAN,
         ~ overwritten' => ~ overwritten /\ node_status \in {"RecoverMetadata", "Active"}
  PROVE  IInv'
<1>1. TypeInv'
  BY Typed DEF TypeInv
<1>2. EpochInv'
  BY DEF IInv, GlobalInv, EpochInv, Mid
<1>3. RecoveryInv'
  <2>1. ending' <= recovering
    BY Typed DEF IInv, GlobalInv, RecoveryInv
  <2> QED BY <2>1 DEF IInv, GlobalInv, RecoveryInv, Mid
<1>4. \A s : Over(s)' = Over(s) /\ Need(s)' = Need(s)
  BY DEF Over, Need, Mid
<1>5. \A s : Assigned(s) => Assigned(s)'
  BY DEF Assigned
<1>6. \A s \in Shards : RecoveredOK(s)'
  BY NotEnding DEF Ending
<1>7. KeepsUp' => KeepsUp
  BY DEF KeepsUp
<1> QED BY <1>1, <1>2, <1>3, <1>4, <1>5, <1>6, <1>7, ShardsUnchanged DEF GlobalInv

LEMMA ActivateJoinedStep == ASSUME IInv, ActivateJoined PROVE IInv'
<1>1. /\ node_status' = "Active"
      /\ UNCHANGED <<assigned, chain_epoch, tracked, handled, known, phase, finishing, recovering>>
      /\ UNCHANGED <<status, held, pending, progress, tasks, recovery, ending>>
      /\ overwritten' = (overwritten \/ node_status \notin {"RecoverMetadata", "Active"})
  BY DEF ActivateJoined, shardVars
<1>2. overwritten' \in BOOLEAN
      /\ (~ overwritten' => ~ overwritten /\ node_status \in {"RecoverMetadata", "Active"})
  BY <1>1, Typed
<1> QED BY <1>1, <1>2, ActivateStep

LEMMA OneLess ==
  ASSUME NEW a \in Nat, NEW b \in Nat, b + 1 = a
  PROVE  \A f \in Nat : f < b \/ f = b => f < a
OBVIOUS

(* The process ends: an event that was not complete is handled again.      *)
LEMMA StopStep ==
  ASSUME IInv, Stop, UNCHANGED <<assigned, chain_epoch, shardVars, overwritten>>
  PROVE  IInv'
<1>1. /\ UNCHANGED <<assigned, chain_epoch, tracked, known, node_status, recovering>>
      /\ UNCHANGED <<status, held, pending, progress>>
      /\ phase' = "down" /\ finishing' = NoFinisher /\ recovery' = 0 /\ ending' = 0
      /\ tasks' = [s \in Shards |-> NoTask]
      /\ handled' = IF finishing = NoFinisher THEN handled ELSE finishing.epoch - 1
  BY DEF Stop, shardVars
<1>2. \/ handled' = handled
      \/ handled' = handled - 1 /\ handled > 1 /\ finishing # NoFinisher
  BY <1>1 DEF IInv, GlobalInv, EpochInv
<1>3. /\ handled \in Nat /\ handled' \in Nat /\ handled' <= handled /\ handled' \in Epochs
      /\ handled \in Epochs /\ tracked \in Epochs /\ Epochs \subseteq Nat /\ known \in Epochs
  BY <1>2, Typed, EpochFacts
<1>4. /\ NoTask \in Tasks /\ NoFinisher \in [epoch : Nat, attest : BOOLEAN]
  BY DEF NoTask, Tasks, NoFinisher
<1>5. TypeInv'
  <2>1. tasks' \in [Shards -> Tasks]
    BY <1>1, <1>4
  <2> QED BY <1>1, <1>3, <1>4, <2>1, Typed DEF TypeInv
<1>6. EpochInv' /\ RecoveryInv'
  <2>1. /\ handled <= tracked /\ tracked <= chain_epoch /\ handled <= known
        /\ node_status = "RecoveryInProgress" => handled <= recovering
        /\ recovering \in Nat
    BY Typed DEF IInv, GlobalInv, EpochInv, RecoveryInv
  <2>2. handled' <= tracked /\ handled' <= known
        /\ (node_status = "RecoveryInProgress" => handled' <= recovering)
    BY <1>3, <2>1
  <2>3. ~ Mid'
    BY <1>1 DEF Mid
  <2>4. EpochInv'
    BY <1>1, <2>1, <2>2, <2>3 DEF EpochInv
  <2>5. /\ recovering <= tracked /\ recovering <= handled + 1
        /\ finishing # NoFinisher => recovering <= handled
        /\ node_status = "RecoveryCatchUp" => recovering <= handled /\ finishing = NoFinisher
    BY DEF IInv, GlobalInv, EpochInv, RecoveryInv
  <2>6. recovering <= handled' + 1
    <3>1. CASE handled' = handled
      BY <2>5, <3>1
    <3>2. CASE handled' = handled - 1 /\ finishing # NoFinisher
      <4>1. handled' + 1 = handled
        BY <1>3, <3>2
      <4> QED BY <2>5, <3>2, <4>1
    <3> QED BY <1>2, <3>1, <3>2
  <2>7. node_status = "RecoveryCatchUp" => recovering <= handled'
    BY <1>1, <2>5
  <2>8. 0 <= recovering
    BY <2>1
  <2> QED BY <1>1, <2>2, <2>3, <2>4, <2>5, <2>6, <2>7, <2>8 DEF RecoveryInv
<1>7. \A s : Over(s)' = Over(s)
  BY <1>1 DEF Over
<1>8. ASSUME NEW s \in Shards, Assigned(s) PROVE Assigned(s)' /\ Need(s)' \subseteq Need(s)
  <2>1. handled <= tracked /\ handled <= known
    BY DEF IInv, GlobalInv, EpochInv
  <2>2. CASE handled' = handled
    <3>1. Assigned(s)'
      BY <1>1, <1>8, <2>2 DEF Assigned
    <3>2. Need(s)' \subseteq Need(s)
      BY <1>1, <2>2 DEF Need, Mid
    <3> QED BY <3>1, <3>2
  <2>3. CASE handled' = handled - 1 /\ handled > 1 /\ finishing # NoFinisher
    <3>1. s \in assigned[handled] /\ s \in assigned[tracked] /\ node_status # "RecoveryCatchUp"
      BY <1>8, <2>3 DEF Assigned, IInv, GlobalInv, EpochInv
    <3>2. handled' < tracked /\ handled' < known /\ handled' + 1 = handled
      BY <1>3, <2>1, <2>3
    <3>3. Assigned(s)'
      BY <1>1, <3>1, <3>2 DEF Assigned
    <3>4. \A f \in Nat : f < handled' \/ f = handled' => f < handled
      <4>1. handled \in Nat /\ handled' \in Nat /\ handled' + 1 = handled
        BY <1>3, <3>2
      <4> QED BY <4>1, OneLess
    <3>5. Need(s)' \subseteq Need(s)
      BY <1>3, <3>4 DEF Need
    <3> QED BY <3>3, <3>5
  <2> QED BY <1>2, <2>2, <2>3
<1>9. \A s \in Shards : tasks'[s] = NoTask
  BY <1>1
<1>10. \A s \in Shards : RecoveredOK(s)'
  BY <1>1, NotEnding DEF Ending
<1>11. KeepsUp' = KeepsUp
  BY <1>1 DEF KeepsUp
<1> QED BY <1>1, <1>5, <1>6, <1>7, <1>8, <1>9, <1>10, <1>11, ShardsUnchanged DEF GlobalInv

(* A skipped epoch: from then on nothing is claimed of the slivers.        *)
LEMMA SkipStep ==
  ASSUME NoShardComesBack, IInv, NEW v \in Epochs, SkipWhileCatchingUp(v)
  PROVE  IInv'
<1>1. /\ UNCHANGED <<assigned, chain_epoch, finishing, recovering>>
      /\ UNCHANGED <<status, held, pending, progress, tasks, recovery, ending, overwritten>>
      /\ phase = "idle" /\ phase' = "idle" /\ finishing = NoFinisher
      /\ handled' = handled + 1 /\ handled + 1 < v /\ tracked' = v /\ v <= chain_epoch
      /\ node_status' = "RecoveryCatchUp" /\ tracked <= v
      /\ known' = IF handled + 1 > known THEN handled + 1 ELSE known
  <2>1. /\ UNCHANGED <<assigned, chain_epoch, finishing, recovering>>
        /\ UNCHANGED <<status, held, pending, progress, tasks, recovery, ending, overwritten>>
        /\ phase = "idle" /\ phase' = "idle" /\ finishing = NoFinisher
        /\ handled' = handled + 1 /\ handled + 1 < v /\ tracked' = v
        /\ node_status' = "RecoveryCatchUp"
        /\ v \in (IF handled + 1 > tracked THEN handled + 1 ELSE tracked) .. chain_epoch
        /\ known' = IF handled + 1 > known THEN handled + 1 ELSE known
    BY DEF SkipWhileCatchingUp, BeginEpochChange, Complete, shardVars, taskVars, nodeTasks, boundVars
  <2>2. handled \in Nat /\ tracked \in Nat /\ chain_epoch \in Nat
    BY Typed, EpochFacts
  <2> QED BY <2>1, <2>2
<1>2. /\ handled \in Epochs /\ tracked \in Epochs /\ known \in Epochs /\ chain_epoch \in Epochs
      /\ Epochs \subseteq Nat /\ handled <= tracked /\ handled <= known
      /\ \A f \in Nat : f \in Epochs <=> 1 <= f /\ f <= MaxEpoch
      /\ MaxEpoch \in Nat
  BY Typed, EpochFacts DEF IInv, GlobalInv, EpochInv
<1>3. handled + 1 \in Epochs
  BY <1>1, <1>2
<1>4. TypeInv'
  BY <1>1, <1>2, <1>3, Typed DEF TypeInv
<1>5. ~ Mid'
  BY <1>1 DEF Mid
<1>6. EpochInv' /\ RecoveryInv'
  <2>1. EpochInv'
    BY <1>1, <1>2, <1>3, <1>5 DEF EpochInv
  <2>2. /\ ending <= recovering /\ recovery <= recovering
        /\ recovering <= tracked /\ recovering <= handled + 1
    BY DEF IInv, GlobalInv, RecoveryInv
  <2>3. recovering <= v /\ recovering <= handled + 1 + 1
    BY <1>1, <1>2, <2>2, Typed
  <2> QED BY <1>1, <2>1, <2>2, <2>3 DEF RecoveryInv
<1>7. \A s \in Shards : Over(s) => Over(s)'
  BY <1>1, <1>4, Typed, OverStable
<1>8. ASSUME NEW s \in Shards, ~ Over(s)', Assigned(s) PROVE Assigned(s)'
  <2>1. s \in assigned[tracked]
    BY <1>8 DEF Assigned
  <2>2. s \in assigned[v]
    BY <1>1, <1>2, <1>8, <2>1 DEF Over
  <2>3. s \in assigned[handled] \/ s \in assigned[handled + 1]
    BY <1>8 DEF Assigned
  <2>4. s \in assigned[handled + 1]
    <3>1. handled < handled + 1 /\ handled + 1 < v
      BY <1>1, <1>2
    <3> QED BY <1>2, <1>3, <2>2, <2>3, <3>1, Typed DEF NoShardComesBack, TypeInv
  <2> QED BY <1>1, <2>2, <2>4 DEF Assigned
<1>9. \A s \in Shards : RecoveredOK(s)'
  BY <1>1, NotEnding DEF Ending
<1>10. ~ KeepsUp'
  BY <1>1 DEF KeepsUp
<1> QED BY <1>1, <1>4, <1>6, <1>7, <1>8, <1>9, <1>10, ShardsUnchanged DEF GlobalInv

-----------------------------------------------------------------------------
(* The handler of EpochChangeStart *)

(* What the handler goes by when it begins with epoch e.                   *)
Enters(e) ==
  /\ e = handled + 1 /\ e \in Epochs /\ e <= chain_epoch /\ tracked <= e
  /\ phase = "idle" /\ finishing = NoFinisher
  /\ assigned' = assigned /\ chain_epoch' = chain_epoch /\ finishing' = NoFinisher
  /\ tracked' = e /\ known' \in Epochs /\ e <= known'
  /\ UNCHANGED <<pending, progress, tasks, recovery, ending>>

LEMMA EntersFacts ==
  ASSUME TypeInv, NEW e, NEW v, BeginEpochChange(e, v), e = handled + 1,
         e = tracked \/ e = v, tracked' = e,
         UNCHANGED <<assigned, chain_epoch, finishing, pending, progress, tasks, recovery, ending>>
  PROVE  Enters(e)
<1>1. /\ handled \in Nat /\ tracked \in Nat /\ known \in Nat /\ chain_epoch \in Nat
      /\ MaxEpoch \in Nat /\ chain_epoch <= MaxEpoch /\ known \in Epochs /\ handled >= 1
      /\ \A f \in Nat : f \in Epochs <=> 1 <= f /\ f <= MaxEpoch
  BY EpochFacts
<1>2. /\ phase = "idle" /\ finishing = NoFinisher /\ e <= chain_epoch
      /\ v \in (IF e > tracked THEN e ELSE tracked) .. chain_epoch
      /\ known' = IF e > known THEN e ELSE known
  BY DEF BeginEpochChange
<1>3. e \in Nat /\ e \in Epochs
  BY <1>1, <1>2
<1>4. tracked <= e
  BY <1>1, <1>2, <1>3
<1>5. known' \in Epochs /\ e <= known'
  BY <1>1, <1>2, <1>3
<1> QED BY <1>2, <1>3, <1>4, <1>5 DEF Enters

(* A shard that is not lost in the new epoch was not lost before, and is   *)
(* of the new epoch if it has storage.                                     *)
LEMMA EnteredShards ==
  ASSUME IInv, NEW e, Enters(e), TypeInv', NEW s \in Shards, ~ Over(s)'
  PROVE  /\ ~ Over(s)
         /\ status[s] # "absent" => s \in assigned[e] /\ Assigned(s) /\ status[s] # "LockedToMove"
         /\ status[s] = "absent" => Fresh(s)'
<1>1. tracked <= tracked' /\ tracked' = e /\ assigned' = assigned /\ e \in Epochs
      /\ tracked \in Epochs /\ Epochs \subseteq Nat
  BY Typed, EpochFacts DEF Enters
<1>2. ~ Over(s)
  BY <1>1, Typed, OverStable
<1>3. StorageOK(s)
  BY DEF IInv
<1>4. ASSUME status[s] # "absent" PROVE s \in assigned[e]
  <2>1. s \in assigned[tracked]
    BY <1>2, <1>3, <1>4 DEF StorageOK, Assigned
  <2>2. tracked \in 1 .. e /\ e \in 1 .. e
    BY <1>1, Typed, EpochFacts
  <2>3. CASE tracked = e
    BY <2>1, <2>3
  <2>4. CASE tracked < e
    BY <1>1, <2>1, <2>2, <2>4 DEF Over
  <2> QED BY <1>1, <2>3, <2>4
<1>5. status[s] = "absent" => Fresh(s)'
  BY <1>2, <1>3 DEF StorageOK, Fresh, Enters
<1> QED BY <1>2, <1>3, <1>4, <1>5 DEF StorageOK

(* In the middle of the handler, a shard of the new epoch is assigned.     *)
LEMMA EnteredAssigned ==
  ASSUME TypeInv, NEW e, Enters(e), node_status' # "RecoveryCatchUp", handled' = handled,
         NEW s \in assigned[e]
  PROVE  Assigned(s)'
<1>1. handled \in Nat /\ e \in Nat /\ known' \in Nat
  BY EpochFacts DEF Enters
<1>2. handled < e /\ handled < known' /\ handled + 1 = e
  BY <1>1 DEF Enters
<1> QED BY <1>2 DEF Assigned, Enters

LEMMA EnteredEpochs ==
  ASSUME IInv, NEW e, Enters(e), handled' = handled, node_status' # "RecoveryCatchUp"
  PROVE  EpochInv'
<1>1. /\ handled \in Nat /\ e = handled + 1 /\ tracked' = e /\ e <= known' /\ known' \in Nat
      /\ chain_epoch' = chain_epoch /\ e <= chain_epoch /\ finishing' = NoFinisher
  BY Typed, EpochFacts DEF Enters
<1> QED BY <1>1 DEF EpochInv

LEMMA PrepareRecoveryStep ==
  ASSUME NoShardComesBack, IInv, NEW e, Enters(e), PrepareRecovery(e),
         held' \in [Shards -> SUBSET Slivers], \A s \in Shards : held[s] \subseteq held'[s],
         node_status \in {"RecoveryCatchUp", "RecoveryInProgress"}
  PROVE  IInv'
<1>1. /\ phase' = "recover" /\ node_status' = "RecoveryInProgress" /\ recovering' = e
      /\ handled' = handled /\ overwritten' = FALSE
      /\ status' = [s \in Shards |-> IF s \in assigned[e] THEN "Active" ELSE status[s]]
  BY DEF PrepareRecovery
<1>2. status' \in [Shards -> Statuses]
  BY <1>1, Typed DEF Statuses
<1>3. TypeInv'
  <2>1. e \in Nat
    BY Typed, EpochFacts DEF Enters
  <2>2. NoFinisher \in [epoch : Nat, attest : BOOLEAN]
    BY DEF NoFinisher
  <2> QED BY <1>1, <1>2, <2>1, <2>2, Typed DEF TypeInv, Enters
<1>4. EpochInv'
  BY <1>1, EnteredEpochs
<1>5. RecoveryInv'
  <2>1. /\ handled \in Nat /\ e = handled + 1 /\ tracked' = e /\ finishing' = NoFinisher
        /\ UNCHANGED <<recovery, ending>>
    BY Typed, EpochFacts DEF Enters
  <2>2. ending <= recovering /\ recovery <= recovering /\ recovering <= handled + 1
    BY DEF IInv, GlobalInv, RecoveryInv
  <2>3. ending <= e /\ recovery <= e
    BY <2>1, <2>2, Typed
  <2> QED BY <1>1, <2>1, <2>3 DEF RecoveryInv
<1>6. ASSUME NEW s \in Shards PROVE StorageOK(s)' /\ SliversOK(s)'
  <2>1. SliversOK(s)'
    BY <1>1 DEF SliversOK, KeepsUp
  <2>2. SUFFICES ASSUME ~ Over(s)'
                 PROVE  /\ status'[s] = "absent" => Fresh(s)'
                        /\ status'[s] # "absent" => Assigned(s)' /\ status'[s] # "LockedToMove"
    BY <2>1 DEF StorageOK
  <2>3. /\ status[s] # "absent" => s \in assigned[e]
        /\ status[s] = "absent" => Fresh(s)'
    BY <1>3, <2>2, EnteredShards
  <2>4. CASE s \in assigned[e]
    BY <1>1, <2>4, Typed, EnteredAssigned
  <2>5. CASE s \notin assigned[e]
    BY <1>1, <2>3, <2>5
  <2> QED BY <2>4, <2>5
<1>7. ASSUME NEW s \in Shards PROVE RecoveredOK(s)'
  <2>1. CASE ending # e
    BY <1>1, <2>1, NotEnding DEF Ending, Enters
  <2>2. CASE ending = e
    <3>1. /\ handled \in Nat /\ tracked \in Nat /\ e = handled + 1 /\ tracked <= e /\ tracked' = e
          /\ assigned' = assigned /\ ending' = ending
      BY Typed, EpochFacts DEF Enters
    <3>2. /\ ending <= recovering /\ recovering <= tracked /\ recovering <= handled + 1
          /\ node_status = "RecoveryCatchUp" => recovering <= handled
      BY DEF IInv, GlobalInv, RecoveryInv
    <3>3. recovering = e /\ tracked = e /\ e # 0 /\ ~ (recovering <= handled)
      BY <2>2, <3>1, <3>2, Typed
    <3>4. Ending
      BY <2>2, <3>2, <3>3 DEF Ending
    <3>5. RecoveredOK(s) /\ held[s] \subseteq held'[s]
      BY DEF IInv
    <3> QED BY <1>1, <3>1, <3>3, <3>4, <3>5 DEF RecoveredOK
  <2> QED BY <2>1, <2>2
<1> QED BY <1>3, <1>4, <1>5, <1>6, <1>7 DEF IInv, GlobalInv

(* The slivers of the previous epoch count from now on.                    *)
LEMMA EnteredNeed ==
  ASSUME TypeInv, NEW e, Enters(e), handled' = handled, NEW s
  PROVE  /\ Need(s)' \subseteq Need(s) \cup {handled}
         /\ s \notin assigned[handled] => Need(s)' \subseteq Need(s)
BY DEF Need, Enters

LEMMA CoveredGrows ==
  ASSUME NEW N, NEW M, NEW f, M \subseteq N \cup {f}, NEW st, NEW h, NEW i,
         h \subseteq i, Positions \X {f} \subseteq i, NEW p, NEW n \in Nat, n <= NumPositions, NEW task,
         CoveredBy(N, st, h, p, n, task)
  PROVE  CoveredBy(M, st, i, p, n, task)
<1>1. 1 .. n \subseteq Positions
  BY BoundsAssumption DEF Positions
<1>2. st = "Active" => Positions \X M \subseteq i
  BY DEF CoveredBy
<1>3. (1 .. n) \X M \subseteq i \cup p
  BY <1>1 DEF CoveredBy
<1>4. st = "ActiveRecover" \/ task.stage = "recovering" => Positions \X M \subseteq i \cup p
  BY DEF CoveredBy
<1>5. task.stage # "none" => Positions \X {g \in M : g >= task.epoch} \subseteq i
  BY DEF CoveredBy
<1> QED BY <1>2, <1>3, <1>4, <1>5 DEF CoveredBy

LEMMA PrepareInSyncStep ==
  ASSUME NoShardComesBack, IInv, NEW e, Enters(e), NEW joining \in BOOLEAN,
         PrepareInSync(e, joining), held' \in [Shards -> SUBSET Slivers],
         \A s \in Shards : held[s] \subseteq held'[s],
         node_status = "RecoveryInProgress" => assigned[e] = {},
         node_status = "RecoveryCatchUp" => joining /\ assigned[e] # {} /\ assigned[handled] = {},
         node_status # "RecoveryCatchUp" =>
           /\ joining <=> node_status = "Standby" /\ assigned[e] # {}
           /\ \A s \in assigned[handled] :
                status[s] \notin {"absent", "LockedToMove"} => Positions \X {handled} \subseteq held'[s]
  PROVE  IInv'
<1>1. /\ phase' \in {"in_sync", "join"} /\ status' = Created(Gained(e)) /\ handled' = handled
      /\ recovering' = recovering /\ overwritten' = overwritten
      /\ node_status' = CASE assigned[e] = {} -> "Standby"
                          [] joining /\ Gained(e) # {} -> "RecoverMetadata"
                          [] OTHER -> node_status
  BY DEF PrepareInSync
<1>2. Gained(e) = assigned[e] \ assigned[handled] /\ handled \in Nat /\ e \in Nat
  <2>1. handled \in Nat /\ e = handled + 1
    BY Typed, EpochFacts DEF Enters
  <2>2. e - 1 = handled
    BY <2>1
  <2> QED BY <2>1, <2>2 DEF Gained
<1>3. \/ node_status' = "Standby" /\ assigned[e] = {}
      \/ node_status' = "RecoverMetadata" /\ assigned[e] # {} /\ joining
      \/ /\ node_status' = node_status /\ assigned[e] # {}
         /\ node_status \notin {"RecoveryCatchUp", "RecoveryInProgress"}
  <2>1. CASE assigned[e] = {}
    <3>1. Gained(e) = {}
      BY <1>2, <2>1
    <3> QED BY <1>1, <2>1, <3>1
  <2>2. CASE assigned[e] # {} /\ joining /\ Gained(e) # {}
    BY <1>1, <2>2
  <2>3. CASE assigned[e] # {} /\ ~ (joining /\ Gained(e) # {})
    <3>1. node_status' = node_status
      BY <1>1, <2>3
    <3>2. node_status # "RecoveryCatchUp"
      BY <1>2, <2>3
    <3> QED BY <2>3, <3>1, <3>2
  <2> QED BY <2>1, <2>2, <2>3
<1>4. \A s \in Shards : status'[s] = IF s \in Gained(e) /\ status[s] = "absent" THEN "None" ELSE status[s]
  BY <1>1 DEF Created, Existing
<1>5. status' \in [Shards -> Statuses]
  BY <1>1, Typed DEF Created, Existing, Statuses
<1>6. TypeInv'
  <2>1. NoFinisher \in [epoch : Nat, attest : BOOLEAN]
    BY DEF NoFinisher
  <2>2. node_status' \in {"Standby", "Active", "RecoverMetadata", "RecoveryCatchUp",
                          "RecoveryInProgress"}
    BY <1>3, Typed DEF TypeInv
  <2>3. phase' \in {"down", "idle", "in_sync", "join", "recover"}
    BY <1>1
  <2> QED BY <1>1, <1>5, <2>1, <2>2, <2>3, Typed DEF TypeInv, Enters
<1>7. node_status' \notin {"RecoveryCatchUp", "RecoveryInProgress"}
  BY <1>3
<1>8. EpochInv' /\ RecoveryInv'
  <2>1. EpochInv'
    BY <1>1, <1>7, EnteredEpochs
  <2>2. ending <= recovering /\ recovery <= recovering /\ recovering <= handled + 1
    BY DEF IInv, GlobalInv, RecoveryInv
  <2>3. tracked' = handled + 1 /\ finishing' = NoFinisher /\ UNCHANGED <<recovery, ending>>
    BY DEF Enters
  <2> QED BY <1>1, <1>7, <2>1, <2>2, <2>3 DEF RecoveryInv
<1>9. ASSUME NEW s \in Shards PROVE StorageOK(s)'
  <2>1. SUFFICES ASSUME ~ Over(s)'
                 PROVE  /\ status'[s] = "absent" => Fresh(s)'
                        /\ status'[s] # "absent" => Assigned(s)' /\ status'[s] # "LockedToMove"
    BY DEF StorageOK
  <2>2. /\ status[s] # "absent" => s \in assigned[e] /\ status[s] # "LockedToMove"
        /\ status[s] = "absent" => Fresh(s)'
    BY <1>6, <2>1, EnteredShards
  <2>3. status'[s] # "absent" => s \in assigned[e]
    BY <1>2, <1>4, <2>2
  <2>4. s \in assigned[e] => Assigned(s)'
    BY <1>1, <1>7, Typed, EnteredAssigned
  <2> QED BY <1>4, <2>2, <2>3, <2>4
<1>10. ASSUME NEW s \in Shards PROVE SliversOK(s)'
  <2>1. SUFFICES ASSUME ~ Over(s)', status'[s] # "absent"
                 PROVE  node_status' # "Standby" /\ (KeepsUp' => Covered(s)')
    BY DEF SliversOK
  <2>2. /\ ~ Over(s)
        /\ status[s] # "absent" => s \in assigned[e] /\ Assigned(s) /\ status[s] # "LockedToMove"
        /\ status[s] = "absent" => Fresh(s)'
    BY <1>6, <2>1, EnteredShards
  <2>3. s \in assigned[e]
    BY <1>2, <1>4, <2>1, <2>2
  <2>4. SliversOK(s)
    BY DEF IInv
  <2>5. CASE status[s] = "absent"
    <3>1. Fresh(s)' /\ status'[s] = "None"
      BY <1>4, <2>1, <2>2, <2>5
    <3>2. NoTask.stage = "none"
      BY DEF NoTask
    <3>3. Covered(s)'
      BY <3>1, <3>2 DEF Covered, CoveredBy, Fresh
    <3>4. node_status' # "Standby"
      <4>1. SUFFICES ASSUME node_status' = node_status, node_status = "Standby" PROVE FALSE
        BY <1>3, <2>3
      <4>2. s \in Gained(e)
        BY <1>4, <2>1, <2>5
      <4>3. ~ joining
        BY <1>1, <2>3, <4>1, <4>2
      <4> QED BY <4>1, <4>3, <2>3
    <3> QED BY <3>3, <3>4
  <2>6. CASE status[s] # "absent"
    <3>1. node_status # "Standby"
      BY <2>2, <2>4, <2>6 DEF SliversOK
    <3>2. node_status # "RecoveryCatchUp"
      BY <2>2, <2>6 DEF Assigned
    <3>3. node_status # "RecoveryInProgress"
      BY <2>3
    <3>4. ~ overwritten => Covered(s)
      BY <2>2, <2>4, <2>6, <3>1, <3>2, <3>3, Typed DEF SliversOK, TypeInv, KeepsUp
    <3>5. node_status' # "Standby" /\ (KeepsUp' => ~ overwritten)
      BY <1>1, <1>3, <2>3, <3>1 DEF KeepsUp
    <3> SUFFICES ASSUME ~ overwritten PROVE Covered(s)'
      BY <3>5
    <3>6. /\ status'[s] = status[s] /\ pending'[s] = pending[s] /\ progress'[s] = progress[s]
          /\ tasks'[s] = tasks[s] /\ held[s] \subseteq held'[s]
      BY <1>4, <2>6 DEF Enters
    <3>7. CASE s \in assigned[handled]
      <4>1. Positions \X {handled} \subseteq held'[s]
        BY <2>2, <2>6, <3>2, <3>7
      <4>2. Need(s)' \subseteq Need(s) \cup {handled}
        BY <1>1, Typed, EnteredNeed
      <4>3. progress[s] \in Nat /\ progress[s] <= NumPositions
        BY Typed
      <4>4. CoveredBy(Need(s), status[s], held[s], pending[s], progress[s], tasks[s])
        BY <3>4 DEF Covered
      <4>5. CoveredBy(Need(s)', status[s], held'[s], pending[s], progress[s], tasks[s])
        <5>1. PICK M, N, h, i : M = Need(s)' /\ N = Need(s) /\ h = held[s] /\ i = held'[s]
          OBVIOUS
        <5>2. M \subseteq N \cup {handled} /\ h \subseteq i /\ Positions \X {handled} \subseteq i
          BY <3>6, <4>1, <4>2, <5>1
        <5>3. CoveredBy(N, status[s], h, pending[s], progress[s], tasks[s])
          BY <4>4, <5>1
        <5>4. CoveredBy(M, status[s], i, pending[s], progress[s], tasks[s])
          BY <4>3, <5>2, <5>3, CoveredGrows
        <5> QED BY <5>1, <5>4
      <4> QED BY <3>6, <4>5 DEF Covered
    <3>8. CASE s \notin assigned[handled]
      <4>1. Need(s)' \subseteq Need(s)
        BY <1>1, <3>8, Typed, EnteredNeed
      <4>2. CoveredBy(Need(s), status[s], held[s], pending[s], progress[s], tasks[s])
        BY <3>4 DEF Covered
      <4>3. CoveredBy(Need(s)', status[s], held'[s], pending[s], progress[s], tasks[s])
        BY <3>6, <4>1, <4>2, CoveredShrinks
      <4> QED BY <3>6, <4>3 DEF Covered
    <3> QED BY <3>7, <3>8
  <2> QED BY <2>5, <2>6
<1>11. \A s \in Shards : RecoveredOK(s)'
  BY <1>7, NotEnding DEF Ending
<1> QED BY <1>6, <1>8, <1>9, <1>10, <1>11 DEF IInv, GlobalInv

LEMMA ExecuteInSyncStep ==
  ASSUME NoShardComesBack, IInv, NEW v \in Epochs, ExecuteInSync(v)
  PROVE  IInv'
<1> DEFINE e == handled + 1
<1>1. /\ BeginEpochChange(e, v) /\ node_status # "RecoveryCatchUp" /\ (e = tracked \/ e = v)
      /\ tracked' = e /\ held' = StoredByEvents(e)
      /\ UNCHANGED <<assigned, chain_epoch, finishing, pending, progress, tasks, recovery, ending>>
      /\ IF node_status = "RecoveryInProgress" /\ assigned[e] # {}
         THEN PrepareRecovery(e)
         ELSE PrepareInSync(e, node_status = "Standby" /\ assigned[e] # {})
  BY DEF ExecuteInSync, taskVars, nodeTasks
<1>2. Enters(e)
  BY <1>1, Typed, EntersFacts
<1>3. e - 1 = handled /\ handled \in Epochs
  BY Typed, EpochFacts
<1> HIDE DEF e
<1>4. held' = [s \in Shards |->
                 IF s \in assigned[handled] /\ status[s] \notin {"absent", "LockedToMove"}
                 THEN held[s] \cup (Positions \X {handled})
                 ELSE held[s]]
  BY <1>1, <1>3 DEF StoredByEvents
<1>5. Positions \X {handled} \in SUBSET Slivers
  BY <1>3 DEF Slivers
<1>6. held' \in [Shards -> SUBSET Slivers] /\ \A s \in Shards : held[s] \subseteq held'[s]
  BY <1>4, <1>5, Typed
<1>7. \A s \in assigned[handled] :
        status[s] \notin {"absent", "LockedToMove"} => Positions \X {handled} \subseteq held'[s]
  <2>1. assigned[handled] \subseteq Shards
    BY <1>3, Typed, EpochFacts
  <2> QED BY <1>4, <2>1
<1>8. CASE node_status = "RecoveryInProgress" /\ assigned[e] # {}
  BY <1>1, <1>2, <1>6, <1>8, PrepareRecoveryStep
<1>9. CASE ~ (node_status = "RecoveryInProgress" /\ assigned[e] # {})
  <2> DEFINE joining == node_status = "Standby" /\ assigned[e] # {}
  <2>1. PrepareInSync(e, joining) /\ joining \in BOOLEAN
        /\ (joining <=> node_status = "Standby" /\ assigned[e] # {})
    BY <1>1, <1>9
  <2> HIDE DEF joining
  <2>2. node_status = "RecoveryInProgress" => assigned[e] = {}
    BY <1>9
  <2> QED BY <1>1, <1>2, <1>6, <1>7, <2>1, <2>2, PrepareInSyncStep
<1> QED BY <1>8, <1>9

(* A node that caught up and is not in the committee: all that it stores   *)
(* was lost.                                                               *)
LEMMA CaughtUpStandby ==
  ASSUME IInv, NEW e, Enters(e), assigned[e] = {}, node_status' = "Standby", Complete(e),
         UNCHANGED <<recovering, status, held, overwritten>>
  PROVE  IInv'
<1>1. /\ phase' = "idle" /\ handled' = e /\ assigned' = assigned /\ chain_epoch' = chain_epoch
      /\ tracked' = e /\ e <= known' /\ finishing' = NoFinisher /\ e <= chain_epoch
      /\ UNCHANGED <<pending, progress, tasks, recovery, ending>>
  BY DEF Complete, Enters
<1>2. TypeInv'
  <2>1. NoFinisher \in [epoch : Nat, attest : BOOLEAN]
    BY DEF NoFinisher
  <2> QED BY <1>1, <2>1, Typed DEF TypeInv, Enters
<1>3. ~ Mid' /\ e \in Nat
  BY <1>1, Typed, EpochFacts DEF Mid, Enters
<1>4. EpochInv' /\ RecoveryInv'
  <2>1. EpochInv'
    BY <1>1, <1>3 DEF EpochInv
  <2>2. ending <= recovering /\ recovery <= recovering /\ recovering <= e
    BY DEF IInv, GlobalInv, RecoveryInv, Enters
  <2>3. recovering <= e + 1
    BY <1>3, <2>2, Typed
  <2> QED BY <1>1, <1>3, <2>1, <2>2, <2>3 DEF RecoveryInv
<1>5. ASSUME NEW s \in Shards PROVE StorageOK(s)' /\ SliversOK(s)'
  <2>1. ~ Over(s)' => status[s] = "absent" /\ Fresh(s)'
    BY <1>2, EnteredShards
  <2> QED BY <2>1 DEF StorageOK, SliversOK
<1>6. \A s \in Shards : RecoveredOK(s)'
  BY NotEnding DEF Ending
<1> QED BY <1>2, <1>4, <1>5, <1>6 DEF IInv, GlobalInv

LEMMA CaughtUpStep ==
  ASSUME NoShardComesBack, IInv, NEW v \in Epochs, CaughtUp(v)
  PROVE  IInv'
<1> DEFINE e == handled + 1
<1>1. /\ BeginEpochChange(e, v) /\ node_status = "RecoveryCatchUp" /\ e = v /\ tracked' = e
      /\ UNCHANGED <<assigned, chain_epoch, finishing, held, pending, progress, tasks, recovery, ending>>
      /\ \/ /\ assigned[e] = {} /\ node_status' = "Standby" /\ Complete(e)
            /\ UNCHANGED <<recovering, status, overwritten>>
         \/ assigned[e] # {} /\ assigned[e - 1] = {} /\ PrepareInSync(e, TRUE)
         \/ assigned[e] # {} /\ PrepareRecovery(e)
  BY DEF CaughtUp, taskVars, nodeTasks
<1>2. Enters(e)
  BY <1>1, Typed, EntersFacts
<1>3. e - 1 = handled
  BY Typed, EpochFacts
<1> HIDE DEF e
<1>4. held' \in [Shards -> SUBSET Slivers] /\ \A s \in Shards : held[s] \subseteq held'[s]
  BY <1>1, Typed
<1>5. CASE assigned[e] = {} /\ node_status' = "Standby" /\ Complete(e)
           /\ UNCHANGED <<recovering, status, overwritten>>
  BY <1>1, <1>2, <1>5, CaughtUpStandby
<1>6. CASE assigned[e] # {} /\ assigned[e - 1] = {} /\ PrepareInSync(e, TRUE)
  <2>1. assigned[handled] = {} /\ TRUE \in BOOLEAN
    BY <1>3, <1>6
  <2>2. node_status # "RecoveryInProgress"
    BY <1>1
  <2> QED BY <1>1, <1>2, <1>4, <1>6, <2>1, <2>2, PrepareInSyncStep
<1>7. CASE assigned[e] # {} /\ PrepareRecovery(e)
  BY <1>1, <1>2, <1>4, <1>7, PrepareRecoveryStep
<1> QED BY <1>1, <1>5, <1>6, <1>7

(* The end of the handler: shards that are lost are locked, and what the   *)
(* others have to store does not change.                                   *)
LEMMA HandledStep ==
  ASSUME IInv, Mid, Complete(handled + 1), status' = Locked(handled + 1),
         UNCHANGED <<assigned, chain_epoch, tracked, known, node_status, recovering, held, pending,
                     progress, tasks, ending, overwritten>>,
         recovery' \in Nat, recovery' <= recovering, ~ Ending,
         finishing' \in [epoch : {handled + 1}, attest : BOOLEAN] \cup {NoFinisher}
  PROVE  IInv'
<1>1. /\ handled \in Epochs /\ tracked \in Epochs /\ tracked = handled + 1 /\ Epochs \subseteq Nat
      /\ tracked <= known /\ known \in Epochs /\ handled >= 1
      /\ tracked <= chain_epoch /\ node_status # "RecoveryCatchUp"
  BY Typed, EpochFacts DEF IInv, GlobalInv, EpochInv
<1>2. phase' = "idle" /\ handled' = tracked
  BY <1>1 DEF Complete
<1>3. finishing' \in [epoch : Nat, attest : BOOLEAN]
      /\ (finishing' # NoFinisher => finishing'.epoch = tracked)
  <2>1. NoFinisher \in [epoch : Nat, attest : BOOLEAN]
    BY DEF NoFinisher
  <2> QED BY <1>1, <2>1
<1>4. \A s \in Shards : status'[s] =
        IF s \in assigned[handled] \ assigned[tracked] /\ status[s] # "absent"
        THEN "LockedToMove" ELSE status[s]
  <2>1. Lost(handled + 1) = assigned[handled] \ assigned[tracked]
    <3>1. handled + 1 - 1 = handled
      BY <1>1
    <3> QED BY <1>1, <3>1 DEF Lost
  <2> QED BY <2>1 DEF Locked, Existing
<1>5. TypeInv'
  <2>1. status' \in [Shards -> Statuses]
    BY Typed DEF Locked, Statuses
  <2> QED BY <1>1, <1>2, <1>3, <2>1, Typed DEF TypeInv
<1>6. ~ Mid'
  BY <1>2 DEF Mid
<1>7. EpochInv'
  BY <1>1, <1>2, <1>3, <1>6 DEF EpochInv
<1>8. RecoveryInv'
  <2>1. /\ ending <= recovering /\ recovering <= tracked
        /\ node_status = "RecoveryInProgress" => phase = "recover"
        /\ phase = "recover" => recovering = tracked
    BY <1>1 DEF IInv, GlobalInv, RecoveryInv
  <2>2. recovering <= tracked + 1
    BY <1>1, <2>1, Typed
  <2>3. node_status = "RecoveryInProgress" => tracked <= recovering
    BY <1>1, <2>1
  <2> QED BY <1>1, <1>2, <1>6, <2>1, <2>2, <2>3 DEF RecoveryInv
<1>9. \A s : Over(s)' = Over(s)
  BY DEF Over
<1>10. ASSUME NEW s \in Shards, ~ Over(s) PROVE status'[s] = status[s]
  <2>1. handled \in 1 .. tracked /\ tracked \in 1 .. tracked /\ handled < tracked
    BY <1>1
  <2>2. s \notin assigned[handled] \ assigned[tracked]
    BY <1>10, <2>1 DEF Over
  <2> QED BY <1>4, <2>2
<1>11. ASSUME NEW s \in Shards, Assigned(s) PROVE Assigned(s)' /\ Need(s)' \subseteq Need(s)
  <2>1. s \in assigned[tracked]
    BY <1>11 DEF Assigned
  <2>2. Assigned(s)'
    BY <1>2, <2>1 DEF Assigned
  <2>3. ASSUME NEW f \in Need(s)' PROVE f \in Need(s)
    <3>1. f \in Epochs /\ f < tracked
      BY <1>2, <1>6, <2>1, <2>3 DEF Need
    <3>2. f < handled \/ f = handled
      BY <1>1, <3>1
    <3> QED BY <3>1, <3>2 DEF Need
  <2> QED BY <2>2, <2>3
<1>12. \A s \in Shards : ~ Over(s)' =>
         /\ status'[s] = status[s] /\ pending'[s] = pending[s] /\ progress'[s] = progress[s]
         /\ held[s] \subseteq held'[s] /\ tasks'[s] \in {tasks[s], NoTask}
  BY <1>9, <1>10
<1>13. \A s \in Shards : RecoveredOK(s)'
  BY NotEnding DEF Ending
<1>14. KeepsUp' = KeepsUp
  BY DEF KeepsUp
<1> QED BY <1>5, <1>7, <1>8, <1>9, <1>11, <1>12, <1>13, <1>14, ShardsUnchanged DEF GlobalInv

LEMMA FinishInSyncStep == ASSUME IInv, FinishInSync PROVE IInv'
<1>1. /\ Mid /\ Complete(handled + 1) /\ status' = Locked(handled + 1)
      /\ UNCHANGED <<assigned, chain_epoch, tracked, known, node_status, recovering, held, pending,
                     progress, tasks, ending, overwritten>>
      /\ recovery' = recovery /\ phase # "recover"
  BY DEF FinishInSync, Mid, nodeTasks, boundVars
<1>2. finishing' \in [epoch : {handled + 1}, attest : BOOLEAN]
  BY DEF FinishInSync
<1>3. ~ Ending /\ recovery <= recovering
  BY <1>1 DEF IInv, GlobalInv, RecoveryInv, Ending
<1> QED BY <1>1, <1>2, <1>3, Typed, HandledStep

LEMMA FinishRecoveryStep == ASSUME IInv, FinishRecovery PROVE IInv'
<1>1. /\ Mid /\ Complete(handled + 1) /\ status' = Locked(handled + 1)
      /\ UNCHANGED <<assigned, chain_epoch, tracked, known, node_status, recovering, held, pending,
                     progress, tasks, ending, overwritten>>
      /\ recovery' = handled + 1 /\ phase = "recover" /\ ending = 0
  BY DEF FinishRecovery, Mid, boundVars
<1>2. finishing' \in [epoch : {handled + 1}, attest : BOOLEAN] \cup {NoFinisher}
  BY DEF FinishRecovery
<1>3. handled + 1 \in Nat /\ recovering = handled + 1
  BY <1>1, Typed, EpochFacts DEF IInv, GlobalInv, RecoveryInv
<1>4. recovery' \in Nat /\ recovery' <= recovering /\ ~ Ending
  BY <1>1, <1>3 DEF Ending
<1> QED BY <1>1, <1>2, <1>4, HandledStep

(* What the finisher removes was lost.                                     *)
LEMMA FinishEpochChangeStep == ASSUME NoShardComesBack, IInv, FinishEpochChange PROVE IInv'
<1> DEFINE removed == ToRemove(finishing.epoch)
<1>1. /\ UNCHANGED <<assigned, chain_epoch, tracked, handled, known, phase, node_status, recovering>>
      /\ UNCHANGED <<tasks, recovery, ending, overwritten>>
      /\ finishing # NoFinisher /\ finishing' = NoFinisher
      /\ status' = [s \in Shards |-> IF s \in removed THEN "absent" ELSE status[s]]
      /\ held' = [s \in Shards |-> IF s \in removed THEN {} ELSE held[s]]
      /\ pending' = [s \in Shards |-> IF s \in removed THEN {} ELSE pending[s]]
      /\ progress' = [s \in Shards |-> IF s \in removed THEN 0 ELSE progress[s]]
  BY DEF FinishEpochChange, taskVars, nodeTasks, boundVars
<1>2. finishing.epoch = handled
  BY <1>1 DEF IInv, GlobalInv, EpochInv
<1>3. \A s \in removed : s \notin assigned[handled] /\ status[s] # "absent"
  BY <1>2 DEF ToRemove, Existing
<1> HIDE DEF removed
<1>4. TypeInv'
  <2>1. status' \in [Shards -> Statuses] /\ held' \in [Shards -> SUBSET Slivers]
        /\ pending' \in [Shards -> SUBSET Slivers] /\ progress' \in [Shards -> 0 .. NumPositions]
    BY <1>1, Typed DEF Statuses
  <2>2. NoFinisher \in [epoch : Nat, attest : BOOLEAN]
    BY DEF NoFinisher
  <2> QED BY <1>1, <2>1, <2>2, Typed DEF TypeInv
<1>5. EpochInv' /\ RecoveryInv'
  BY <1>1 DEF IInv, GlobalInv, EpochInv, RecoveryInv, Mid
<1>6. \A s : Over(s)' = Over(s) /\ Need(s)' = Need(s)
  BY <1>1 DEF Over, Need, Mid
<1>7. \A s : Assigned(s) => Assigned(s)'
  BY <1>1 DEF Assigned
<1>8. ASSUME NEW s \in Shards, ~ Over(s) PROVE s \notin removed
  <2>1. StorageOK(s)
    BY DEF IInv
  <2> QED BY <1>1, <1>3, <1>8, <2>1 DEF StorageOK, Assigned
<1>9. \A s \in Shards : ~ Over(s)' =>
        /\ status'[s] = status[s] /\ pending'[s] = pending[s] /\ progress'[s] = progress[s]
        /\ held[s] \subseteq held'[s] /\ tasks'[s] \in {tasks[s], NoTask}
  BY <1>1, <1>6, <1>8
<1>10. ASSUME NEW s \in Shards PROVE RecoveredOK(s)'
  <2>1. ASSUME s \in assigned[tracked] PROVE held[s] \subseteq held'[s]
    BY <1>1, <1>8, <2>1, Typed, AssignedNotOver
  <2>2. RecoveredOK(s)
    BY DEF IInv
  <2> QED BY <1>1, <2>1, <2>2, RecoveredStays
<1>11. KeepsUp' = KeepsUp
  BY <1>1 DEF KeepsUp
<1> QED BY <1>1, <1>4, <1>5, <1>6, <1>7, <1>9, <1>10, <1>11, ShardsUnchanged DEF GlobalInv

-----------------------------------------------------------------------------
(* Node recovery and restarts *)

(* All that has to be stored is held: everything is covered.               *)
LEMMA AllHeld ==
  ASSUME NEW N, NEW h, Positions \X N \subseteq h, NEW st, NEW p, NEW n \in 0 .. NumPositions, NEW task
  PROVE  CoveredBy(N, st, h, p, n, task)
<1>1. 1 .. n \subseteq Positions
  BY BoundsAssumption DEF Positions
<1> QED BY <1>1 DEF CoveredBy

LEMMA RecoverNodeStep == ASSUME NoShardComesBack, IInv, RecoverNode PROVE IInv'
<1> DEFINE recovered == Positions \X {f \in Epochs : f < recovery}
           current == node_status = "RecoveryInProgress" /\ recovering = recovery
<1>1. /\ UNCHANGED <<assigned, chain_epoch, tracked, handled, known, phase, finishing, node_status,
                     recovering, overwritten>>
      /\ UNCHANGED <<status, pending, progress, tasks>> /\ recovery' = 0 /\ phase # "down"
      /\ assigned[tracked] \subseteq Existing \cap assigned[handled]
      /\ held' = [s \in Shards |->
                    IF s \in assigned[tracked] THEN held[s] \cup recovered ELSE held[s]]
      /\ ending' = IF current THEN recovery ELSE 0
  BY DEF RecoverNode, nodeVars, boundVars
<1>2. recovered \in SUBSET Slivers
  BY DEF Slivers
<1>3. held' \in [Shards -> SUBSET Slivers] /\ \A s \in Shards : held[s] \subseteq held'[s]
  <2> HIDE DEF recovered
  <2> QED BY <1>1, <1>2, Typed
<1>4. TypeInv'
  <2>1. ending' \in Nat
    BY <1>1, Typed
  <2> QED BY <1>1, <1>3, <2>1, Typed DEF TypeInv
<1>5. EpochInv' /\ RecoveryInv'
  <2>1. EpochInv'
    BY <1>1 DEF IInv, GlobalInv, EpochInv, Mid
  <2>2. ending' <= recovering /\ recovery' <= recovering
    BY <1>1, Typed DEF IInv, GlobalInv, RecoveryInv
  <2> QED BY <1>1, <2>1, <2>2 DEF IInv, GlobalInv, RecoveryInv, Mid
<1>6. \A s : Over(s)' = Over(s) /\ Need(s)' = Need(s)
  BY <1>1 DEF Over, Need, Mid
<1>7. \A s : Assigned(s) => Assigned(s)'
  BY <1>1 DEF Assigned
<1>8. ASSUME NEW s \in Shards PROVE RecoveredOK(s)'
  <2>1. SUFFICES ASSUME Ending', s \in assigned[tracked]
                 PROVE  /\ s \in assigned[handled]
                        /\ Positions \X {f \in Epochs : f < ending'} \subseteq held'[s]
    BY <1>1 DEF RecoveredOK
  <2>2. ending' = recovery
    BY <1>1, <2>1 DEF Ending
  <2>3. recovered \subseteq held'[s]
    BY <1>1, <2>1
  <2> QED BY <1>1, <2>1, <2>2, <2>3
<1>9. KeepsUp' = KeepsUp
  BY <1>1 DEF KeepsUp
<1> QED BY <1>1, <1>3, <1>4, <1>5, <1>6, <1>7, <1>8, <1>9, ShardsUnchanged DEF GlobalInv

(* What a recovery has stored is all that has to be, if the status is still *)
(* the one that it found.                                                  *)
LEMMA ActivateRecoveredStep == ASSUME IInv, ActivateRecovered PROVE IInv'
<1>1. /\ UNCHANGED <<assigned, chain_epoch, tracked, handled, known, phase, finishing, recovering>>
      /\ UNCHANGED <<status, held, pending, progress, tasks, recovery>>
      /\ ending # 0 /\ ending' = 0 /\ node_status' = "Active"
      /\ overwritten' = (overwritten \/ node_status # "RecoveryInProgress" \/ recovering # ending)
  BY DEF ActivateRecovered, shardVars
<1>2. overwritten' \in BOOLEAN
  BY <1>1
<1>3. CASE ~ Ending
  <2>1. overwritten'
    BY <1>1, <1>3 DEF Ending
  <2> QED BY <1>1, <1>2, <2>1, ActivateStep
<1>4. CASE Ending
  <2>1. TypeInv'
    BY <1>1, <1>2, Typed DEF TypeInv
  <2>2. EpochInv' /\ RecoveryInv'
    <3>1. 0 <= recovering
      BY Typed
    <3>2. EpochInv'
      BY <1>1 DEF IInv, GlobalInv, EpochInv, Mid
    <3> QED BY <1>1, <3>1, <3>2 DEF IInv, GlobalInv, RecoveryInv, Mid
  <2>3. \A s : Over(s)' = Over(s) /\ Need(s)' = Need(s)
    BY <1>1 DEF Over, Need, Mid
  <2>4. \A s : Assigned(s) => Assigned(s)'
    BY <1>1 DEF Assigned
  <2>5. handled <= ending /\ (Mid => ending = handled + 1)
    BY <1>4 DEF IInv, GlobalInv, RecoveryInv, Ending
  <2>6. ASSUME NEW s \in Shards PROVE StorageOK(s)' /\ SliversOK(s)'
    <3>1. StorageOK(s) /\ RecoveredOK(s)
      BY DEF IInv
    <3>2. StorageOK(s)'
      BY <1>1, <2>3, <2>4, <3>1 DEF StorageOK, Fresh
    <3>3. SUFFICES ASSUME ~ Over(s), status[s] # "absent" PROVE Covered(s)'
      BY <1>1, <2>3, <3>2 DEF SliversOK
    <3>4. s \in assigned[tracked]
      BY <3>1, <3>3 DEF StorageOK, Assigned
    <3>5. s \in assigned[handled] /\ Positions \X {f \in Epochs : f < ending} \subseteq held[s]
      BY <1>4, <3>1, <3>4 DEF RecoveredOK
    <3>6. ASSUME NEW f \in Need(s) PROVE f \in Epochs /\ f < ending
      <4>1. /\ f \in Epochs /\ f \in Nat /\ handled \in Nat /\ ending \in Nat
            /\ f < handled \/ (f = handled /\ Mid)
        BY <3>5, Typed, EpochFacts DEF Need
      <4> QED BY <2>5, <4>1
    <3>7. Positions \X Need(s)' \subseteq held'[s]
      BY <1>1, <2>3, <3>5, <3>6
    <3>8. progress'[s] \in 0 .. NumPositions
      BY <1>1, Typed
    <3> QED BY <3>7, <3>8, AllHeld DEF Covered
  <2>7. \A s \in Shards : RecoveredOK(s)'
    BY <1>1, NotEnding DEF Ending
  <2> QED BY <2>1, <2>2, <2>6, <2>7 DEF IInv, GlobalInv
<1> QED BY <1>3, <1>4

LEMMA RestartStep == ASSUME IInv, Restart PROVE IInv'
<1>1. /\ UNCHANGED <<assigned, chain_epoch, handled, known, finishing, node_status, recovering>>
      /\ UNCHANGED <<held, pending, progress, ending, overwritten>>
      /\ phase = "down" /\ phase' = "idle" /\ tracked' = chain_epoch
      /\ recovery' = IF node_status = "RecoveryInProgress" THEN recovering ELSE 0
  BY DEF Restart, boundVars
<1>2. /\ tracked \in Epochs /\ chain_epoch \in Epochs /\ handled \in Epochs /\ Epochs \subseteq Nat
      /\ handled <= tracked /\ tracked <= chain_epoch /\ known \in Epochs
  BY Typed, EpochFacts DEF IInv, GlobalInv, EpochInv
<1>3. /\ NewTask(chain_epoch) \in Tasks /\ NewTask(chain_epoch).stage = "waiting"
      /\ NewTask(chain_epoch).epoch = chain_epoch
      /\ NoTask \in Tasks /\ NoTask.stage = "none"
  BY <1>2 DEF NewTask, Tasks, NoTask
<1>4. \/ UNCHANGED <<status, tasks>>
      \/ /\ status' = [s \in Shards |-> Resumed(s)]
         /\ tasks' = [s \in Shards |->
              IF status[s] \in {"ActiveSync", "ActiveRecover"} THEN NewTask(chain_epoch) ELSE NoTask]
  BY DEF Restart
<1>5. \A s \in Shards : /\ Resumed(s) \in Statuses /\ (Resumed(s) = "absent" <=> status[s] = "absent")
                        /\ (Resumed(s) = "LockedToMove" <=> status[s] = "LockedToMove")
                        /\ (Resumed(s) \in {"Active", "ActiveRecover"} => Resumed(s) = status[s])
  BY Typed DEF Resumed, Statuses
<1>6. TypeInv'
  <2>1. status' \in [Shards -> Statuses] /\ tasks' \in [Shards -> Tasks]
    BY <1>3, <1>4, <1>5, Typed
  <2>2. recovery' \in Nat
    BY <1>1, Typed
  <2> QED BY <1>1, <1>2, <2>1, <2>2, Typed DEF TypeInv
<1>7. ~ Mid /\ ~ Mid'
  BY <1>1 DEF Mid
<1>8. EpochInv' /\ RecoveryInv'
  <2>1. handled <= chain_epoch
    BY <1>2
  <2>2. EpochInv'
    BY <1>1, <1>2, <1>7, <2>1 DEF IInv, GlobalInv, EpochInv
  <2>3. recovery' <= recovering /\ recovering <= chain_epoch
    BY <1>1, <1>2, Typed DEF IInv, GlobalInv, RecoveryInv
  <2> QED BY <1>1, <1>7, <2>2, <2>3 DEF IInv, GlobalInv, RecoveryInv
<1>9. ASSUME NEW s \in Shards, ~ Over(s)' PROVE ~ Over(s)
  BY <1>1, <1>2, <1>6, <1>9, Typed, OverStable
<1>10. \A s : Need(s)' = Need(s)
  BY <1>1, <1>7 DEF Need
<1>11. ASSUME NEW s \in Shards, ~ Over(s)', Assigned(s) PROVE Assigned(s)'
  <2>1. s \in assigned[tracked]
    BY <1>11 DEF Assigned
  <2>2. s \in assigned[chain_epoch]
    <3>1. tracked \in 1 .. chain_epoch /\ chain_epoch \in 1 .. chain_epoch
      BY <1>2, Typed, EpochFacts
    <3>2. CASE tracked = chain_epoch
      BY <2>1, <3>2
    <3>3. CASE tracked < chain_epoch
      BY <1>1, <1>11, <2>1, <3>1, <3>3 DEF Over
    <3> QED BY <1>2, <3>2, <3>3
  <2>3. handled < tracked => handled < chain_epoch
    BY <1>2
  <2> QED BY <1>1, <1>11, <2>2, <2>3 DEF Assigned
<1>12. \A s \in Shards : RecoveredOK(s)'
  <2>1. ending' = 0
    BY <1>1 DEF IInv, GlobalInv, RecoveryInv
  <2> QED BY <2>1, NotEnding DEF Ending
<1>13. KeepsUp' = KeepsUp
  BY <1>1 DEF KeepsUp
<1>14. CASE UNCHANGED <<status, tasks>>
  <2>1. ASSUME NEW s \in Shards PROVE StorageOK(s)' /\ SliversOK(s)'
    <3>1. StorageOK(s) /\ SliversOK(s)
      BY DEF IInv
    <3>2. StorageOK(s)'
      BY <1>1, <1>9, <1>11, <1>14, <3>1 DEF StorageOK, Fresh
    <3>3. Covered(s)' = Covered(s)
      BY <1>1, <1>10, <1>14 DEF Covered
    <3>4. SliversOK(s)'
      BY <1>1, <1>9, <1>13, <1>14, <3>1, <3>3 DEF SliversOK
    <3> QED BY <3>2, <3>4
  <2> QED BY <1>6, <1>8, <1>12, <2>1 DEF IInv, GlobalInv
<1>15. CASE /\ status' = [s \in Shards |-> Resumed(s)]
            /\ tasks' = [s \in Shards |->
                 IF status[s] \in {"ActiveSync", "ActiveRecover"} THEN NewTask(chain_epoch) ELSE NoTask]
  <2>1. ASSUME NEW s \in Shards PROVE StorageOK(s)' /\ SliversOK(s)'
    <3>1. StorageOK(s) /\ SliversOK(s)
      BY DEF IInv
    <3>2. status'[s] = Resumed(s) /\ tasks'[s] \in {NewTask(chain_epoch), NoTask}
          /\ (status[s] = "absent" => tasks'[s] = NoTask)
      BY <1>15
    <3>3. StorageOK(s)'
      BY <1>1, <1>5, <1>9, <1>11, <3>1, <3>2 DEF StorageOK, Fresh
    <3>4. SUFFICES ASSUME ~ Over(s)', status[s] # "absent", Covered(s) PROVE Covered(s)'
      BY <1>1, <1>5, <1>9, <1>13, <3>1, <3>2, <3>3 DEF SliversOK
    <3>5. Assigned(s)
      BY <1>9, <3>1, <3>4 DEF StorageOK
    <3>6. {f \in Need(s) : f >= chain_epoch} = {}
      <4>1. \A f \in Need(s) : f \in Nat /\ f < tracked
        BY <1>2, <3>5, NeedIsKnown DEF IInv
      <4> QED BY <1>2, <4>1
    <3>7. Positions \X {f \in Need(s) : f >= tasks'[s].epoch} \subseteq held[s] \/ tasks'[s].stage = "none"
      BY <1>3, <3>2, <3>6
    <3>8. CoveredBy(Need(s), status'[s], held[s], pending[s], progress[s], tasks'[s])
      BY <1>3, <1>5, <3>2, <3>4, <3>7 DEF Covered, CoveredBy
    <3> QED BY <1>1, <1>10, <3>8 DEF Covered
  <2> QED BY <1>6, <1>8, <1>12, <2>1 DEF IInv, GlobalInv
<1> QED BY <1>4, <1>14, <1>15

-----------------------------------------------------------------------------
(* The invariant *)

LEMMA InitIInv == ASSUME Init PROVE IInv
<1>1. /\ assigned \in [Epochs -> SUBSET Shards] /\ 1 \in Epochs /\ Epochs \subseteq Nat
      /\ NumPositions \in Nat
  BY BoundsAssumption, HistoriesAssumption DEF Init, Epochs
<1>2. /\ chain_epoch = 1 /\ tracked = 1 /\ handled = 1 /\ known = 1 /\ phase = "idle"
      /\ finishing = NoFinisher /\ recovering = 0 /\ recovery = 0 /\ ending = 0
      /\ overwritten = FALSE
      /\ node_status = IF assigned[1] = {} THEN "Standby" ELSE "Active"
  BY DEF Init
<1>3. \A s \in Shards : /\ status[s] = IF s \in assigned[1] THEN "Active" ELSE "absent"
                        /\ pending[s] = {} /\ progress[s] = 0 /\ tasks[s] = NoTask
  BY DEF Init
<1>4. TypeInv
  <2>1. NoFinisher \in [epoch : Nat, attest : BOOLEAN] /\ NoTask \in Tasks
    BY DEF NoFinisher, NoTask, Tasks
  <2>2. /\ status \in [Shards -> Statuses] /\ held \in [Shards -> SUBSET Slivers]
        /\ pending \in [Shards -> SUBSET Slivers] /\ progress \in [Shards -> 0 .. NumPositions]
        /\ tasks \in [Shards -> Tasks]
    BY <1>1, <2>1 DEF Init, Statuses
  <2>3. assigned \in Histories
    BY DEF Init
  <2> QED BY <1>1, <1>2, <2>1, <2>2, <2>3 DEF TypeInv
<1>5. ~ Mid
  BY <1>2 DEF Mid
<1>6. EpochInv /\ RecoveryInv
  BY <1>2, <1>5 DEF EpochInv, RecoveryInv
<1>7. ASSUME NEW s \in Shards PROVE StorageOK(s) /\ SliversOK(s)
  <2>1. StorageOK(s)
    BY <1>2, <1>3 DEF StorageOK, Fresh, Assigned
  <2>2. s \in assigned[1] => Need(s) = {}
    BY <1>1, <1>2, <1>5 DEF Need, Epochs
  <2>3. SliversOK(s)
    <3>1. SUFFICES ASSUME s \in assigned[1] PROVE node_status # "Standby" /\ Covered(s)
      BY <1>3 DEF SliversOK
    <3>2. Positions \X Need(s) \subseteq held[s] /\ progress[s] \in 0 .. NumPositions
      BY <1>1, <1>3, <2>2, <3>1
    <3> QED BY <1>2, <3>1, <3>2, AllHeld DEF Covered
  <2> QED BY <2>1, <2>3
<1>8. \A s \in Shards : RecoveredOK(s)
  BY <1>2 DEF RecoveredOK, Ending
<1> QED BY <1>4, <1>6, <1>7, <1>8 DEF IInv, GlobalInv

LEMMA StopRecoveryStep == ASSUME IInv, StopRecovery PROVE IInv'
<1>1. /\ UNCHANGED <<assigned, chain_epoch, tracked, handled, known, phase, finishing, node_status,
                     recovering, ending, overwritten>>
      /\ UNCHANGED <<status, held, pending, progress, tasks>> /\ recovery' = 0
  BY DEF StopRecovery, nodeVars, shardVars, boundVars
<1>2. TypeInv'
  BY <1>1, Typed DEF TypeInv
<1>3. EpochInv' /\ RecoveryInv'
  <2>1. 0 <= recovering
    BY Typed
  <2>2. EpochInv'
    BY <1>1 DEF IInv, GlobalInv, EpochInv, Mid
  <2> QED BY <1>1, <2>1, <2>2 DEF IInv, GlobalInv, RecoveryInv, Mid
<1>4. \A s : Over(s)' = Over(s) /\ Assigned(s)' = Assigned(s) /\ Need(s)' = Need(s)
  BY <1>1 DEF Over, Assigned, Need, Mid
<1>5. \A s \in Shards : RecoveredOK(s)'
  BY <1>1, RecoveredStays DEF IInv
<1>6. KeepsUp' = KeepsUp
  BY <1>1 DEF KeepsUp
<1> QED BY <1>1, <1>2, <1>3, <1>4, <1>5, <1>6, ShardsUnchanged DEF GlobalInv

LEMMA QuietSteps ==
  ASSUME IInv, SyncMetadata \/ FailMetadata \/ (\E e \in Epochs : Attest(e)) \/ UNCHANGED vars
  PROVE  IInv'
<1>1. SameNode /\ UNCHANGED <<shardVars, tasks>>
  BY DEF SyncMetadata, FailMetadata, Attest, vars, SameNode, nodeVars, taskVars, nodeTasks, boundVars
<1> QED BY <1>1, SameNodeStep

LEMMA StopSteps ==
  ASSUME IInv, Crash \/ \E s \in Shards : PanicAttempt(s)
  PROVE  IInv'
BY StopStep DEF Crash, PanicAttempt

LEMMA SyncShardStep == ASSUME IInv, NEW s \in Shards, SyncShard(s) PROVE IInv'
BY BeginAttemptStep, StopSteps, FetchStep, EndFetchStep, FailSyncStep, RecoverMissingStep,
   FinishSyncStep, EndTaskStep DEF SyncShard

LEMMA HandlerStep == ASSUME NoShardComesBack, IInv, HandleEpochChangeStart PROVE IInv'
BY ExecuteInSyncStep, SkipStep, CaughtUpStep, FinishInSyncStep, FinishRecoveryStep
   DEF HandleEpochChangeStart

LEMMA IInvStep == ASSUME NoShardComesBack, IInv, [Next]_vars PROVE IInv'
BY QuietSteps, NextEpochStep, HandlerStep, FinisherAttestsStep, FinishEpochChangeStep,
   StartNewShardSyncStep, SyncShardStep, RetryAttemptStep, EndStarterStep, ActivateJoinedStep,
   StopRecoveryStep, RecoverNodeStep, ActivateRecoveredStep, StopSteps, RestartStep DEF Next

(* An active shard of the current assignment holds all slivers certified   *)
(* in earlier epochs, as long as no shard comes back and the status of the *)
(* node was not overwritten by a task since the handler wrote it or a full *)
(* recovery began.                                                         *)
THEOREM ActiveShardIsComplete == NoShardComesBack => (Spec => []ActiveIsComplete)
<1>1. SUFFICES ASSUME NoShardComesBack PROVE Spec => []ActiveIsComplete
  OBVIOUS
<1>2. Init => IInv
  BY InitIInv
<1>3. IInv /\ [Next]_vars => IInv'
  BY <1>1, IInvStep
<1>4. IInv => ActiveIsComplete
  <2>1. SUFFICES ASSUME IInv, node_status = "Active", ~ overwritten, NEW s \in assigned[tracked],
                        status[s] = "Active"
                 PROVE  CertifiedBefore(handled) \subseteq held[s]
    BY DEF ActiveIsComplete
  <2>2. s \in Shards /\ ~ Over(s)
    BY <1>1, <2>1, Typed, EpochFacts, AssignedNotOver
  <2>3. Covered(s)
    BY <2>1, <2>2 DEF IInv, SliversOK, KeepsUp
  <2>4. Positions \X Need(s) \subseteq held[s]
    BY <2>1, <2>3 DEF Covered, CoveredBy
  <2>5. {f \in Epochs : f < handled} \subseteq Need(s)
    BY DEF Need
  <2> QED BY <2>4, <2>5 DEF CertifiedBefore
<1> QED BY <1>2, <1>3, <1>4, PTL DEF Spec

=============================================================================
