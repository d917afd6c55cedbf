-------------------------- MODULE EpochChangeDriver --------------------------
(***************************************************************************)
(* How storage nodes drive epoch changes: the epoch events that a node     *)
(* handles (node.rs), the contract calls that its epoch-change driver      *)
(* schedules and cancels (epoch_change_driver.rs), and the committee epoch *)
(* that its committee service tracks (committee_service.rs), against the   *)
(* contract of EpochState.                                                 *)
(*                                                                         *)
(* The contract emits one event at each change of its epoch state, so that *)
(* event p is also the state after p changes: event 3e - 1 is              *)
(* EpochChangeStart(e), 3e is EpochChangeDone(e) and 3e + 1 is             *)
(* EpochParametersSelected(e + 1).  Events reach a node in order, but its  *)
(* RPC node may lag: a read returns the state after any v changes, at most *)
(* Position, and at least what the node read before unless the read is one *)
(* of the faults.                                                          *)
(*                                                                         *)
(* Members that do not run this module's code, operators and transactions  *)
(* that outlive a cancelled call are the contract's other callers.  Calls  *)
(* that process subsidies change no state of this module and are left out. *)
(***************************************************************************)
EXTENDS EpochState, FiniteSetsExt

CONSTANTS
  Drivers,         \* the nodes whose software is modelled
  MaxFaults        \* bound on the number of crashes and of reads that go back

ASSUME DriversAssumption == Drivers \subseteq Nodes
ASSUME MaxFaultsAssumption == MaxFaults \in Nat

VARIABLES
  phase,          \* "down", "idle", or "change" within the handler of EpochChangeStart
  next_event,     \* the next event to handle
  view,           \* the latest state that the node has read, and how often it read an earlier one
  tracked,        \* tracked_committee_epoch
  transitioning,  \* is_transitioning of the tracked committees
  catching_up,    \* whether the persisted node status is_catching_up
  calls,          \* end_voting_future and epoch_change_start_future
  finishing,      \* the event of the running StartEpochChangeFinisher task
  syncing,        \* the epoch for which shards are synced or the node is recovered, or 0
  owed,           \* the epochs that finished tasks of this kind call epoch_sync_done for
  unscheduled,    \* history: nothing was scheduled at startup and no event came since
  lost,           \* history: the epochs whose epoch_sync_done a task forgot to call
  failure,        \* history: the last panic, error or skipped epoch change
  crashes

nodeVars == <<phase, next_event, view, tracked, transitioning, catching_up,
              calls, finishing, syncing, owed, unscheduled, lost, failure>>
vars == <<epochVars, nodeVars, crashes>>

EpochAt(p) == (p + 1) \div 3

StateAt(p) == <<"done", "selected", "sync">>[(p % 3) + 1]

Position ==
  CASE epoch_state = "sync" -> 3 * epoch - 1
    [] epoch_state = "done" -> 3 * epoch
    [] epoch_state = "selected" -> 3 * epoch + 1

Kinds == {"end_voting", "epoch_change_start"}

NoCall == [epoch |-> 0, stage |-> "none"]

NoCalls == [kind \in Kinds |-> NoCall]

\* A call that has just been scheduled begins by reading the epoch state.
Scheduled(e) == [epoch |-> e, stage |-> "read"]

NoTask == [event |-> 0, sync_done |-> 0]

Init ==
  /\ EpochInit
  /\ phase = [n \in Drivers |-> "idle"]
  /\ next_event = [n \in Drivers |-> 1]
  /\ view = [n \in Drivers |-> [at |-> 0, stale |-> 0]]
  /\ tracked = [n \in Drivers |-> 0]
  /\ transitioning = [n \in Drivers |-> FALSE]
  /\ catching_up = [n \in Drivers |-> FALSE]
  /\ calls = [n \in Drivers |-> NoCalls]
  /\ finishing = [n \in Drivers |-> NoTask]
  /\ syncing = [n \in Drivers |-> 0]
  /\ owed = [n \in Drivers |-> {}]
  /\ unscheduled = [n \in Drivers |-> FALSE]
  /\ lost = [n \in Drivers |-> {}]
  /\ failure = "none"
  /\ crashes = 0

MayFail == crashes + MapThenSumSet(LAMBDA n : view[n].stale, Drivers) < MaxFaults

\* A read, or two in a row, of states that may come from a lagging RPC node.
ReadBoth(n, first, second) ==
  LET earlier == first < view[n].at \/ second < Max({view[n].at, first}) IN
  /\ {first, second} \subseteq 0 .. Position
  /\ earlier => MayFail
  /\ view' = [view EXCEPT ![n] = [at |-> Max({@.at, first, second}),
                                  stale |-> @.stale + IF earlier THEN 1 ELSE 0]]

Read(n, v) == ReadBoth(n, v, v)

\* Mutant: EpochChangeStart is complete when its handler returns.
CompleteWhenHandled(n) == next_event[n]

\* Events are complete once their handler or the finisher task says so; the
\* first incomplete one comes first after a restart.
FirstIncomplete(n) ==
  IF finishing[n] = NoTask THEN next_event[n] ELSE finishing[n].event

\* What memory loses when the process ends.
Stop(n) ==
  /\ phase' = [phase EXCEPT ![n] = "down"]
  /\ next_event' = [next_event EXCEPT ![n] = FirstIncomplete(n)]
  /\ finishing' = [finishing EXCEPT ![n] = NoTask]
  /\ calls' = [calls EXCEPT ![n] = NoCalls]
  /\ owed' = [owed EXCEPT ![n] = {}]
  /\ lost' = [lost EXCEPT ![n] = @ \cup owed[n]]
  /\ UNCHANGED <<tracked, transitioning, catching_up, syncing, unscheduled>>

\* A panic, or an error that a handler returns: the node shuts down.
Fail(n, why, v) ==
  /\ Read(n, v)
  /\ Stop(n)
  /\ failure' = why
  /\ UNCHANGED <<epochVars, crashes>>

-----------------------------------------------------------------------------
(* Events.                                                                 *)

\* Mutant: events are handled whatever the RPC node says, as in test builds.
WithoutWaiting(p, v) == TRUE

\* wait_for_epoch_state returns Ok for event p.
WaitForEpochState(p, v) ==
  \/ EpochAt(v) > EpochAt(p)
  \/ /\ EpochAt(v) = EpochAt(p)
     /\ CASE StateAt(p) = "selected" -> StateAt(v) = "selected"
          [] StateAt(p) = "sync" -> TRUE
          [] StateAt(p) = "done" -> StateAt(v) \in {"done", "selected"}

\* An event of the given kind is at hand and can be handled.
Event(n, state, v) ==
  /\ phase[n] = "idle"
  /\ next_event[n] <= Position
  /\ StateAt(next_event[n]) = state
  /\ Read(n, v)
  /\ WaitForEpochState(next_event[n], v)

\* The handler marks the event as complete, or leaves that to the finisher.
Handled(n) ==
  /\ phase' = [phase EXCEPT ![n] = "idle"]
  /\ next_event' = [next_event EXCEPT ![n] = @ + 1]
  /\ unscheduled' = [unscheduled EXCEPT ![n] = FALSE]

\* cancel_scheduled_voting_end.
CancelVotingEnd(scheduled, e) ==
  IF scheduled["end_voting"].epoch = e
  THEN [scheduled EXCEPT !["end_voting"] = NoCall]
  ELSE scheduled

\* cancel_scheduled_epoch_change_initiation looks at the other future.
CancelEpochChangeInitiation(scheduled, e) ==
  IF scheduled["end_voting"].epoch = e
  THEN [scheduled EXCEPT !["epoch_change_start"] = NoCall]
  ELSE scheduled

\* EpochParametersSelected.
HandleEpochParametersSelected(n, v) ==
  LET e == EpochAt(next_event[n]) + 1 IN
  /\ Event(n, "selected", v)
  /\ calls' = [calls EXCEPT ![n] =
       [CancelVotingEnd(@, e) EXCEPT !["epoch_change_start"] = Scheduled(e)]]
  /\ Handled(n)
  /\ UNCHANGED <<epochVars, tracked, transitioning, catching_up, finishing, syncing, owed, lost,
                 failure, crashes>>

\* EpochChangeStart, until it waits for the previous finisher task.
HandleEpochChangeStart(n, v) ==
  LET e == EpochAt(next_event[n]) IN
  /\ Event(n, "sync", v)
  /\ calls' = [calls EXCEPT ![n] = CancelEpochChangeInitiation(CancelVotingEnd(@, e), e)]
  /\ phase' = [phase EXCEPT ![n] = "change"]
  /\ UNCHANGED <<epochVars, next_event, tracked, transitioning, catching_up, finishing,
                 syncing, owed, unscheduled, lost, failure, crashes>>

\* The rest of the handler, once that task is done; v is the state from
\* which the latest committees are looked up.
BeginChange(n, v) ==
  /\ phase[n] = "change"
  /\ finishing[n] = NoTask
  /\ Read(n, v)

\* The epoch to attest in: none outside the committee or when it is over.
Attests(n, e) == IF e = epoch /\ n \in Members(committee) THEN e ELSE 0

\* Membership in the committee of e; only the current committee is known here.
MayBeMember(n, e) == e < epoch \/ n \in Members(committee)

MayBeOutside(n, e) == e < epoch \/ n \notin Members(committee)

\* The shard changes are made and the finisher task is to complete the event.
\* Without shards to sync, that task calls epoch_sync_done.  Otherwise the last
\* sync to end does, for the epoch it started in; then shards of an earlier
\* epoch that are still being synced may come last.
StartFinisher(n, ongoing) ==
  LET e == EpochAt(next_event[n]) IN
  /\ ongoing => MayBeMember(n, e)
  /\ finishing' = [finishing EXCEPT ![n] =
       [event |-> next_event[n], sync_done |-> IF ongoing THEN 0 ELSE Attests(n, e)]]
  /\ \/ ~ ongoing /\ UNCHANGED <<syncing, lost>>
     \/ ongoing /\ syncing' = [syncing EXCEPT ![n] = e] /\ UNCHANGED lost
     \/ /\ ongoing /\ syncing[n] # 0
        /\ lost' = [lost EXCEPT ![n] = @ \cup {e}]
        /\ UNCHANGED syncing

\* begin_committee_change is Ok or EpochIsTheSameAsCurrent.
ExecuteEpochChangeInSync(n, v, ongoing) ==
  LET e == EpochAt(next_event[n]) IN
  /\ ~ catching_up[n]
  /\ BeginChange(n, v)
  /\ \/ e = tracked[n] /\ UNCHANGED <<tracked, transitioning>>
     \/ /\ e = EpochAt(v) /\ e = tracked[n] + 1 /\ ~ transitioning[n]
        /\ tracked' = [tracked EXCEPT ![n] = e]
        /\ transitioning' = [transitioning EXCEPT ![n] = TRUE]
  /\ StartFinisher(n, ongoing)
  /\ Handled(n)
  /\ UNCHANGED <<epochVars, catching_up, calls, owed, failure, crashes>>

\* The node is catching up, or begins to because the event is of an earlier
\* epoch than the latest committee; it adopts the latest committees.  It is
\* no longer catching up once it reaches their epoch.
ExecuteEpochChangeCatchingUp(n, v, ongoing) ==
  LET e == EpochAt(next_event[n]) IN
  /\ BeginChange(n, v)
  /\ catching_up[n] \/ (e # tracked[n] /\ e < EpochAt(v))
  /\ tracked' = [tracked EXCEPT ![n] = EpochAt(v)]
  /\ transitioning' = [transitioning EXCEPT ![n] = StateAt(v) = "sync"]
  /\ catching_up' = [catching_up EXCEPT ![n] = e < EpochAt(v)]
  /\ \/ e < EpochAt(v) /\ UNCHANGED <<finishing, syncing, lost>>
     \/ e >= EpochAt(v) /\ MayBeMember(n, e) /\ StartFinisher(n, ongoing)
     \/ e >= EpochAt(v) /\ MayBeOutside(n, e) /\ UNCHANGED <<finishing, syncing, lost>>
  /\ Handled(n)
  /\ UNCHANGED <<epochVars, calls, owed, failure, crashes>>

\* ChangeAlreadyInProgress: the epoch change is skipped.
SkipEpochChange(n, v) ==
  LET e == EpochAt(next_event[n]) IN
  /\ ~ catching_up[n]
  /\ BeginChange(n, v)
  /\ e = EpochAt(v) /\ e = tracked[n] + 1 /\ transitioning[n]
  /\ failure' = "skipped"
  /\ Handled(n)
  /\ UNCHANGED <<epochVars, tracked, transitioning, catching_up, calls, finishing, syncing, owed,
                 lost, crashes>>

\* EpochIsNotSequential or LatestCommitteeEpochDiffers.
FailEpochChange(n, v) ==
  LET e == EpochAt(next_event[n]) IN
  /\ phase[n] = "change"
  /\ finishing[n] = NoTask
  /\ ~ catching_up[n]
  /\ e # tracked[n]
  /\ EpochAt(v) < e \/ (EpochAt(v) = e /\ e # tracked[n] + 1)
  /\ Fail(n, "begin_committee_change", v)

\* Mutant: nothing is scheduled when the committees had changed already.
OnlyAfterChange(n, e) == e = tracked[n] /\ transitioning[n]

\* end_committee_change is Ok or EpochChangeAlreadyDone.
EndsChange(n, e) == e = tracked[n]

\* EpochChangeDone of the tracked epoch or an earlier one.
HandleEpochChangeDone(n, v) ==
  LET e == EpochAt(next_event[n]) IN
  /\ Event(n, "done", v)
  /\ e <= tracked[n]
  /\ transitioning' = [transitioning EXCEPT ![n] = @ /\ e # tracked[n]]
  /\ \/ EndsChange(n, e) /\ calls' = [calls EXCEPT ![n]["end_voting"] = Scheduled(e + 1)]
     \/ ~ EndsChange(n, e) /\ UNCHANGED calls
  /\ Handled(n)
  /\ UNCHANGED <<epochVars, tracked, catching_up, finishing, syncing, owed, lost, failure, crashes>>

\* ProvidedEpochIsInTheFuture.
FailEpochChangeDone(n, v) ==
  /\ phase[n] = "idle"
  /\ next_event[n] <= Position
  /\ StateAt(next_event[n]) = "done"
  /\ WaitForEpochState(next_event[n], v)
  /\ EpochAt(next_event[n]) > tracked[n]
  /\ Fail(n, "end_committee_change", v)

\* contract_service.epoch_sync_done, repeated until it succeeds or is moot.
CallEpochSyncDone(n, e) ==
  \/ EpochSyncDone(n, e)
  \/ /\ e < tracked[n] \/ e < epoch \/ e <= last_epoch_sync_done[n]
     /\ UNCHANGED epochVars

\* The call of the finisher task.
FinisherSyncDone(n) ==
  /\ finishing[n].sync_done # 0
  /\ CallEpochSyncDone(n, finishing[n].sync_done)
  /\ finishing' = [finishing EXCEPT ![n].sync_done = 0]
  /\ UNCHANGED <<phase, next_event, view, tracked, transitioning, catching_up, calls, syncing,
                 owed, unscheduled, lost, failure, crashes>>

\* The finisher task removes shards and marks the event as complete.
FinishEpochChange(n) ==
  /\ finishing[n] # NoTask
  /\ finishing[n].sync_done = 0
  /\ finishing' = [finishing EXCEPT ![n] = NoTask]
  /\ UNCHANGED <<epochVars, phase, next_event, view, tracked, transitioning, catching_up, calls,
                 syncing, owed, unscheduled, lost, failure, crashes>>

\* The last shard is synced, or node recovery is over, which is persisted.
FinishSync(n) ==
  /\ phase[n] # "down"
  /\ syncing[n] # 0
  /\ owed' = [owed EXCEPT ![n] = @ \cup {syncing[n]}]
  /\ syncing' = [syncing EXCEPT ![n] = 0]
  /\ UNCHANGED <<epochVars, phase, next_event, view, tracked, transitioning, catching_up, calls,
                 finishing, unscheduled, lost, failure, crashes>>

\* Only then does that task call epoch_sync_done.
SyncTaskSyncDone(n, e) ==
  /\ e \in owed[n]
  /\ CallEpochSyncDone(n, e)
  /\ owed' = [owed EXCEPT ![n] = @ \ {e}]
  /\ UNCHANGED <<phase, next_event, view, tracked, transitioning, catching_up, calls, finishing,
                 syncing, unscheduled, lost, failure, crashes>>

-----------------------------------------------------------------------------
(* Scheduled calls: try_wait_then_call reads the epoch state, sleeps, and  *)
(* invokes the operation, over and over until that succeeds.               *)

SetStage(n, kind, stage) == calls' = [calls EXCEPT ![n][kind].stage = stage]

EndCall(n, kind) == calls' = [calls EXCEPT ![n][kind] = NoCall]

\* The state in which time_until_ready returns a time.
ReadyIn(kind) == IF kind = "end_voting" THEN "done" ELSE "selected"

\* Mutant: the epoch counts as over when it has begun.
CompleteTooEarly(kind, e, v) == EpochAt(v) + 1 >= e

\* time_until_ready returns None: the call was made already.
IsComplete(kind, e, v) ==
  \/ EpochAt(v) >= e
  \/ kind = "end_voting" /\ EpochAt(v) + 1 = e /\ StateAt(v) = "selected"

\* The state is read; its assertions and panics end the node.
TimeUntilReady(n, kind, v) ==
  LET e == calls[n][kind].epoch IN
  /\ calls[n][kind].stage = "read"
  /\ \/ /\ IsComplete(kind, e, v) \/ (EpochAt(v) + 1 = e /\ StateAt(v) = ReadyIn(kind))
        /\ Read(n, v)
        /\ IF IsComplete(kind, e, v) THEN EndCall(n, kind) ELSE SetStage(n, kind, "sleep")
        /\ UNCHANGED <<epochVars, phase, next_event, tracked, transitioning, catching_up,
                       finishing, syncing, owed, unscheduled, lost, failure, crashes>>
     \/ /\ ~ IsComplete(kind, e, v)
        /\ EpochAt(v) + 1 # e \/ StateAt(v) # ReadyIn(kind)
        /\ Fail(n, "panic", v)

\* After the sleep, invoke checks once more: ending voting against the epoch
\* state, the epoch change against the epoch of the tracked committee.
Invoke(n, kind, v) ==
  LET e == calls[n][kind].epoch
      over == IF kind = "end_voting" THEN IsComplete(kind, e, v) ELSE tracked[n] >= e IN
  /\ calls[n][kind].stage = "sleep"
  /\ kind = "end_voting" \/ v = view[n].at
  /\ Read(n, v)
  /\ IF over THEN EndCall(n, kind) ELSE SetStage(n, kind, "call")
  /\ UNCHANGED <<epochVars, phase, next_event, tracked, transitioning, catching_up,
                 finishing, syncing, owed, unscheduled, lost, failure, crashes>>

\* The transaction is executed.
Execute(n, kind) ==
  /\ calls[n][kind].stage = "call"
  /\ \/ kind = "end_voting" /\ \E c \in Committees : VotingEnd(c)
     \/ kind = "epoch_change_start" /\ InitiateEpochChange
  /\ EndCall(n, kind)
  /\ UNCHANGED <<phase, next_event, view, tracked, transitioning, catching_up,
                 finishing, syncing, owed, unscheduled, lost, failure, crashes>>

\* The transaction aborts or is lost, or a read fails: retry from the start.
Retry(n, kind) ==
  /\ calls[n][kind].stage \in {"sleep", "call"}
  /\ SetStage(n, kind, "read")
  /\ UNCHANGED <<epochVars, phase, next_event, view, tracked, transitioning, catching_up,
                 finishing, syncing, owed, unscheduled, lost, failure, crashes>>

-----------------------------------------------------------------------------
(* Crashes and restarts.                                                   *)

\* Also a handler that gives up waiting for the epoch state.
Crash(n) ==
  /\ phase[n] # "down"
  /\ MayFail
  /\ crashes' = crashes + 1
  /\ Stop(n)
  /\ UNCHANGED <<epochVars, view, failure>>

\* Mutant: voting is to end while shards are still being received.
RelevantUnlessSelected(kind, v) ==
  EpochAt(v) > 0 /\ (kind = "end_voting" <=> StateAt(v) # "selected")

\* The calls to schedule in state v; none in epoch 0.
IsRelevant(kind, v) == EpochAt(v) > 0 /\ StateAt(v) = ReadyIn(kind)

NextEpoch(v) == EpochAt(v) + 1

\* schedule_relevant_calls_for_current_epoch.
RelevantCalls(v) ==
  [kind \in Kinds |-> IF IsRelevant(kind, v) THEN Scheduled(NextEpoch(v)) ELSE NoCall]

\* restart_syncs syncs unfinished shards, now for the committee epoch at startup;
\* restart_recovery goes on for the recorded epoch.
RestartSyncs(n, e) ==
  \/ UNCHANGED <<syncing, lost>>
  \/ /\ syncing[n] # 0
     /\ syncing' = [syncing EXCEPT ![n] = e]
     /\ UNCHANGED lost

\* The committee service starts from state v0, the driver from state v1
\* unless its read fails, which is only logged.
Restart(n, v0, v1, ok) ==
  /\ phase[n] = "down"
  /\ ReadBoth(n, v0, v1)
  /\ ok \/ v1 = v0
  /\ phase' = [phase EXCEPT ![n] = "idle"]
  /\ tracked' = [tracked EXCEPT ![n] = EpochAt(v0)]
  /\ transitioning' = [transitioning EXCEPT ![n] = StateAt(v0) = "sync"]
  /\ calls' = [calls EXCEPT ![n] = IF ok THEN RelevantCalls(v1) ELSE NoCalls]
  /\ unscheduled' = [unscheduled EXCEPT ![n] = ~ ok]
  /\ RestartSyncs(n, EpochAt(v0))
  /\ UNCHANGED <<epochVars, next_event, catching_up, finishing, owed, failure, crashes>>

-----------------------------------------------------------------------------
(* The contract's other callers, and the clock.                            *)

Time ==
  /\ Tick
  /\ UNCHANGED <<nodeVars, crashes>>

OthersEndVoting ==
  /\ \E c \in Committees : VotingEnd(c)
  /\ UNCHANGED <<nodeVars, crashes>>

OthersInitiate ==
  /\ InitiateEpochChange
  /\ UNCHANGED <<nodeVars, crashes>>

OthersSyncDone(n) ==
  /\ EpochSyncDone(n, epoch)
  /\ UNCHANGED <<nodeVars, crashes>>

Events(n) ==
  \/ \E v \in 0 .. Position :
       \/ HandleEpochParametersSelected(n, v) \/ HandleEpochChangeStart(n, v)
       \/ SkipEpochChange(n, v) \/ HandleEpochChangeDone(n, v)
       \/ FailEpochChange(n, v) \/ FailEpochChangeDone(n, v)
  \/ \E v \in 0 .. Position, ongoing \in BOOLEAN :
       \/ ExecuteEpochChangeInSync(n, v, ongoing)
       \/ ExecuteEpochChangeCatchingUp(n, v, ongoing)

Tasks(n) ==
  \/ FinisherSyncDone(n) \/ FinishEpochChange(n) \/ FinishSync(n)
  \/ \E e \in 1 .. MaxEpoch : SyncTaskSyncDone(n, e)

Calls(n, kind) ==
  \/ \E v \in 0 .. Position : TimeUntilReady(n, kind, v) \/ Invoke(n, kind, v)
  \/ Execute(n, kind) \/ Retry(n, kind)

Restarts(n) ==
  \E v0, v1 \in 0 .. Position, ok \in BOOLEAN : Restart(n, v0, v1, ok)

Next ==
  \/ \E n \in Drivers :
       \/ Events(n) \/ Tasks(n)
       \/ Crash(n) \/ Restarts(n)
       \/ \E kind \in Kinds : Calls(n, kind)
  \/ Time \/ OthersEndVoting \/ OthersInitiate
  \/ \E n \in Nodes \ Drivers : OthersSyncDone(n)

Spec == Init /\ [][Next]_vars

\* Reads and transactions do not fail forever, the node is restarted, time
\* passes, the committee attests, and an operator drives epoch 0 to its end.
Fairness ==
  /\ \A n \in Drivers :
       /\ WF_vars(Events(n) \/ FinisherSyncDone(n) \/ FinishEpochChange(n) \/ Restarts(n))
       /\ \A kind \in Kinds :
            /\ WF_vars(\E v \in 0 .. Position : TimeUntilReady(n, kind, v))
            /\ SF_vars(\E v \in 0 .. Position : Invoke(n, kind, v))
            /\ SF_vars(Execute(n, kind))
  /\ WF_vars(Time \/ \E n \in Nodes \ Drivers : OthersSyncDone(n))
  /\ WF_vars(epoch = 0 /\ (OthersEndVoting \/ OthersInitiate))

FairSpec == Spec /\ Fairness

-----------------------------------------------------------------------------
Stages == {"none", "read", "sleep", "call"}

(* Type correctness; in particular a node never handles an event before it *)
(* was emitted, nor tracks an epoch that has not begun.                    *)
TypeOK ==
  /\ EpochType
  /\ phase \in [Drivers -> {"down", "idle", "change"}]
  /\ next_event \in [Drivers -> 1 .. Position + 1]
  /\ view \in [Drivers -> [at: 0 .. Position, stale: 0 .. MaxFaults]]
  /\ tracked \in [Drivers -> 0 .. epoch]
  /\ transitioning \in [Drivers -> BOOLEAN]
  /\ catching_up \in [Drivers -> BOOLEAN]
  /\ calls \in [Drivers -> [Kinds -> [epoch: 0 .. epoch + 1, stage: Stages]]]
  /\ finishing \in [Drivers -> [event: 0 .. Position, sync_done: 0 .. epoch]]
  /\ syncing \in [Drivers -> 0 .. epoch]
  /\ owed \in [Drivers -> SUBSET (1 .. epoch)]
  /\ unscheduled \in [Drivers -> BOOLEAN]
  /\ lost \in [Drivers -> SUBSET (1 .. epoch)]
  /\ failure \in {"none", "panic", "begin_committee_change", "end_committee_change", "skipped"}
  /\ crashes \in 0 .. MaxFaults

NoStaleReads == \A n \in Drivers : view[n].stale = 0

(* As long as reads do not go back, no assertion or panic about the epoch  *)
(* state ends a node, none of the errors that "should not happen" does,    *)
(* and no epoch change is skipped, however events, restarts, lagging reads *)
(* and the calls of others interleave.                                     *)
NoFailure == NoStaleReads => failure = "none"

(* A call is never scheduled before the contract is in the state for it,   *)
(* whatever a node reads: a call that panics does so on a stale read only. *)
NeverEarly ==
  \A n \in Drivers, kind \in Kinds :
    LET call == calls[n][kind] IN
    call # NoCall => \/ call.epoch <= epoch
                     \/ epoch_state = "selected"
                     \/ kind = "end_voting" /\ epoch_state = "done"

\* The node has handled all events that there are.
CaughtUp(n) == phase[n] = "idle" /\ next_event[n] > Position

(* A node that is up to date has scheduled the call that the contract is   *)
(* waiting for, whether it got there through events, a restart or by       *)
(* catching up; only a failed read at startup prevents that.  A call may   *)
(* have ended because the node made it, in which case an event follows.    *)
CaughtUpIsScheduled ==
  \A n \in Drivers : CaughtUp(n) /\ epoch > 0 /\ ~ unscheduled[n] /\ NoStaleReads =>
    /\ epoch_state = "done" => calls[n]["end_voting"].epoch = epoch + 1
    /\ epoch_state = "selected" => calls[n]["epoch_change_start"].epoch = epoch + 1

(* Once a member of the committee has handled EpochChangeStart, it has     *)
(* attested, or some task will call epoch_sync_done for the epoch, or the  *)
(* event will be handled again after a restart.  There are two exceptions: *)
(* a crash after the last sync and before its call, and a sync that began  *)
(* in an earlier epoch and ends last.                                      *)
AttestationPending ==
  \A n \in Drivers :
    /\ n \in Members(committee)
    /\ next_event[n] > 3 * epoch - 1
    /\ epoch \notin lost[n]
    /\ NoStaleReads
    => \/ last_epoch_sync_done[n] = epoch
       \/ finishing[n].sync_done = epoch
       \/ syncing[n] = epoch
       \/ epoch \in owed[n]

(* A single node drives all epoch changes, through crashes, lagging reads  *)
(* and failed transactions; only a read that fails at startup, when all    *)
(* events have been handled, leaves it with nothing to do.                 *)
EpochsAdvance ==
  <>(epoch = MaxEpoch) \/ <>[](\A n \in Drivers : unscheduled[n]) \/ <> ~ NoStaleReads

(* epoch_change_driver.rs:239: cancel_scheduled_epoch_change_initiation    *)
(* "cancels the call to initiate epoch change that was scheduled", and     *)
(* process_epoch_change_start_event calls it for the epoch of the event.   *)
(* It does not hold: the call looks at the future that ends voting.        *)
InitiationCancelled ==
  \A n \in Drivers : phase[n] = "change" =>
    calls[n]["epoch_change_start"].epoch # EpochAt(next_event[n])

(* node.rs:2392: "the only case this could happen is when the node calls   *)
(* begin_committee_change() multiple times on the same epoch in the same   *)
(* life time of the storage node".  No event is handled twice without a    *)
(* restart here, so by that comment no epoch change would be skipped.  It  *)
(* does not hold after a restart with a stale read of the committees.      *)
NeverSkipped == failure # "skipped"
=============================================================================
