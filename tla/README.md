# Walrus: a TLA+ model of its core protocols

Walrus is a decentralised blob store.  Storage nodes, written in Rust, hold erasure-coded
slivers of blobs; Move contracts on Sui keep the committee, the epochs, the storage that was
sold, the blobs that were registered and certified, and the stake behind every node.  Nodes
follow the ordered stream of contract events and react to it with their own transactions.

This directory holds TLA+ modules translated from the source, TLC configurations that check
them on small instances, and proofs that TLAPS checks for every value of the constants.
`PROJECT.json` maps every definition to the lines it models.

## 1. Inventory

### Contracts (`src/contracts/walrus`)

| Part | State | Operations | What makes it correct |
|---|---|---|---|
| epoch state machine (`staking_inner.move`) | epoch, epoch state, sync weight, current, previous and next committee | `voting_end`, `initiate_epoch_change`, `epoch_sync_done` | an epoch is done by a quorum of distinct shards, nobody counts twice |
| commission and slashing (`staking_pool.move`, `slashing.move`) | commission and blocked commission of pools, slashing proposals | epoch change, `collect_commission`, `add_commission_to_pools`, votes, execution, clean-up | commission can be burned by a quorum of one committee, and only within its window |
| storage accounting (`storage_accounting.move`, `system_state_inner.move`) | ring buffer of future accounts, cached used capacity, total capacity, prices | reserve, pay, subsidise, advance the epoch | the ring is a ledger with one account per epoch; capacity and WAL are conserved |
| storage resources and blobs (`storage_resource.move`, `blob.move`) | resources, blobs | split, fuse, register, certify, extend, delete, burn | no claim exceeds what was booked; certified blobs stay |
| storage pools (`storage_pool.move`) | a resource and the blobs in it | create, register, delete, grow, absorb, decrease, extend, destroy | the pool never claims or holds more than it has |
| event blob certification (`event_blob.move`) | attestations per node, aggregate weights, latest certified blob | attest, reset at certification and at epoch change | one certified blob per checkpoint, by a quorum of one committee |
| staking pools (`staking_pool.move`, `exchange_rate.move`, `pending_values.move`) | stake, pending stake and withdrawals by epoch, exchange rates, commission rates | stake, request and take withdrawals, split, join, advance the epoch | rounding never makes the epoch change abort; the active set has the current stake of the nodes it has room for |
| committee selection (`active_set.move`, `apportionment_queue.move`, `committee.move`) | active set | apportionment, shard transition, price votes | every shard has one owner and few shards move |
| subsidies (`walrus_subsidies_inner.move`) | pool of funds, ring of what was subsidised | `process_subsidies` | the two rings stay in step, and no call aborts |
| upgrade governance, token | proposals, funds | votes, payments | quorum |

All contract operations are transactions: atomic, sent by anybody at any time in any order,
aborted as a whole when an assertion fails.

### Storage node (`src/crates/walrus-service`)

| Part | State | Operations | What is hard |
|---|---|---|---|
| event loop and cursor (`node.rs`, `storage/event_*`) | persisted cursor, sequencer queue, event handles | process, mark as complete, reposition, restart | events finish out of order and crashes fall between writes |
| epoch change driver (`epoch_change_driver.rs`) | one future per contract call | schedule, cancel, retry | competes with all other nodes, reads lag, restarts |
| epoch events (`node.rs`, `committee_service.rs`, `start_epoch_change_finisher.rs`) | tracked committees, node status, finisher task | the three epoch events, catching up, `epoch_sync_done` | an event is complete long after its handler returned |
| shard sync and node recovery (`shard_sync.rs`, `storage/shard.rs`, `node_recovery.rs`) | persistent shard status, progress and missing slivers, running tasks | start, transfer, recover, retry, attest, lock, remove | several tasks, one attestation; every write may be the last one before a crash |
| event blob writer (`event_blob_writer.rs`) | current file, pending, attested, failed and certified blobs | write, cut, attest, certify, reset, reposition | stream, tables, files and the contract move on separately |
| blob events and blob sync (`blob_event_processor.rs`, `blob_sync.rs`) | queue per worker, map of running syncs | certify, delete, invalidate, sync, cancel | a sync outlives its event and is cancelled by two parties |
| blob info and garbage collection (`storage/blob_info*`, `garbage_collector.rs`) | merged counters per blob, tables of objects and pools | merge, replay, expire, delete | replay must not count twice; data is deleted while blobs are registered again |
| pending caches and notification (`pending_*_cache.rs`, `registration_notifier.rs`) | bounded maps of metadata and slivers | upload, flush, evict, wait, confirm | limits, failures and races with the registration |

Clients (`walrus-sdk`) encode blobs, store slivers with a quorum of nodes and certify; the
event processor verifies checkpoints and yields the event stream; the remaining crates are
tools around these.

Interaction: contracts emit events, the event processor delivers them in order, the node's
handlers change local state and spawn tasks, tasks and the driver send transactions, which
emit events.  Nodes read contract state from RPC nodes that may lag behind the events.

`PROJECT.json` lists all parts under "components" and what can go wrong in them under
"hazards".

## 2. Modules

| Module | Models | Uses |
|---|---|---|
| `EventCursor` | event loop, sequencer and persisted cursor of a node, crashes between writes | |
| `EventBlob` | certification of event blobs with arbitrary callers | |
| `EventBlobWriter` | the event blob writers of honest nodes with their tables and files, calling the contract | `EventBlob` |
| `FutureLedger` | abstract specification: one account per epoch | |
| `StorageAccounting` | the ring buffer and the contract functions on it | |
| `SystemState` | storage resources, blobs and the system part of the epoch change | `StorageAccounting`, implements `FutureLedger` |
| `StoragePool` | storage pools, interleaved with everything in `SystemState` | `SystemState` |
| `UsageSubsidies` | the subsidies contract and its own ring, interleaved with everything in `SystemState` | `SystemState` |
| `EpochState` | the epoch state machine of the staking contract | |
| `Commission` | commission, slashing and fixed-rate subsidies | `EpochState` |
| `StakingPool` | one staking pool, its stakers and its entry in the active set | |
| `EpochChangeDriver` | nodes that drive epoch changes and follow epoch events | `EpochState` |
| `ShardSync` | shard changes, shard syncs and node recovery of one node over several epochs | |
| `BlobInfo` | the blob-info tables, their merge operators and garbage collection, for one blob id | |
| `BlobEvents` | the worker of a blob id, the sync of the blob and those who cancel it | |
| `PendingCaches` | uploads before the registration, the flush and confirmations that wait | |
| `MC*` | small instances for TLC | |
| `EventBlobProofs`, `SystemStateProofs`, `StakingPoolProofs`, `EpochProofs`, `ShardSyncProofs`, `BlobInfoProofs`, `BlobEventsProofs`, `NodeProofs` | theorems and proofs | the module they are named after; `EventBlobProofs` also `EventBlobWriter`, `SystemStateProofs` also `StoragePool` and `UsageSubsidies`; `EpochProofs` is about `EpochState`, `EpochChangeDriver` and `Commission`, `NodeProofs` about `EventCursor` and `PendingCaches` |

How state and actions correspond to code:

* **EventCursor.** `cursor` is the persisted `EventIdWithProgress`, `queue`/`head_index` the
  `EventSequencer`, `handles` the events whose `EventHandle` is still held, `element_index`
  and `stream_next` the loop of `process_events`.  `ReadyUpTo` and `MergedIndex` are
  `EventSequencer::ready_events` and the merge operator of the cursor table.
* **EventBlob.** `CertifyEventBlob(n, b)` is one call of `certify_event_blob` with all its
  early returns; `AdvanceEpoch` is the reset when the committee changes.  In its own
  specification every node may attest to anything, so what is proved of it does not rest on
  honest nodes.
* **EventBlobWriter.** `stream` holds the elements that matter to a writer: ends of blobs,
  epoch changes and certifications.  `WriteBlobEnd`, `WriteEpochChangeStart` and the
  like are `write` with its batch; attesting is several steps (encode and store, transaction, batch), so
  that a crash or a lost response falls in between.  `pending`, `attested`, `failed_to_attest`
  and `certified_blob` are the tables, `files` the directory.  A restart consults the chain and
  what it finds (`Lookups`) resets or repositions the writer.  The ID of a blob consists of the
  ID of the previous blob, the number of the blob (events are the same for all writers) and the
  epoch in the header.
* **StorageAccounting / SystemState / StoragePool / UsageSubsidies.** One operator per Move
  function, one action per public operation.  The ring is `slot_*` indexed by ring position
  with `current_index`, as in the code; `Ledger` is the refinement mapping to `FutureLedger`.
  `already_subsidized` is the second ring, which is only advanced by `ProcessSubsidies`.
  Encoded sizes are abstract, integers are not capped except by the named bounds.
* **EpochState / Commission.** `elapsed` stands for clock minus stored timestamp.  Which
  committee is selected is any of `Committees`, which must assign every shard to one node.
* **StakingPool.** `pool` has the fields of `StakingPool`, `stakes` the `StakedWal` objects.
  The arithmetic of exchange rates is that of the code, with its rounding; the amounts are
  small, so that rounding matters as much as it can.  `SelectCommittee` is the end of voting
  and `AdvanceEpoch` the epoch change of a pool whose node is or will be in the committee;
  otherwise `SkipEpoch` leaves the pool alone.  The active set has room for 111 nodes; of the
  others only their effect is modelled: a full set may refuse the node (`InsertOrUpdate`) or
  replace it by another (`Evicted`), and `dropped` records that it has no entry for that reason,
  until an update or `TryJoinActiveSet` inserts it again.
* **EpochChangeDriver.** The contract emits one event per change of its state, so an event is
  identified with the position of the contract in that sequence and a read from an RPC node
  returns an earlier position (`view`); a read that goes back is a fault.  `calls[n][kind]` is
  one of the driver's futures with the stage of `try_wait_then_call` it is in; `finishing[n]`
  is the finisher task, which completes the event; `syncing[n]` is what survives a crash of
  unfinished shard syncs; `owed[n]` is the `epoch_sync_done` that a finished sync still has to
  send.  `Restart` is the start-up path, including a driver whose first read fails.
* **ShardSync.** `assigned` is the history of shard assignments that unfolds; the handler of
  `EpochChangeStart` takes one of the paths of `execute_epoch_change` (`phase`).  `starter` is
  `sync_shards_task`, `tasks` is `shard_sync_in_progress`, `recovery` the node recovery task;
  both end by reading the node status (`EndStarter`, `RecoverNode`) and setting it to Active in
  a second step (`ActivateJoined`, `ActivateRecovered`), as no lock is held in between:
  `activating` and `ending` are the tasks between the two, and `overwritten` records that the
  second step has replaced a status written since, until a node recovery starts from scratch;
  `status`, `held`, `pending` and `progress` are persisted per shard and survive `Crash`.
* **BlobInfo.** The chain (`objects`, `pools`) is kept beside the tables as the reference.
  `objects` are registrations: an owner may burn a blob (`blob.move:261`, `BurnBlob` of
  `SystemState`), which emits no event, so that for every node the registration stands until it
  expires.  "Registered" and "live" are meant in this sense.
  `Merge` is the merge operator with its versions V1 and V2; `HandleEvent` is the one batch
  that updates tables and `latest_handled_event_index`; garbage collection works object by
  object and deletes data in transactions that fail if the aggregate was written meanwhile.
  `epochAtStart` is chosen at the start: a node may begin without the oldest events.
* **BlobEvents.** `queue` and `worker` are the worker that the blob id is assigned to, `sync`
  the entry in `blob_syncs_in_progress` and its task, `joined` what the task returns to whoever
  took its handle.  After a crash the events behind the cursor are handled again.  A deletion that
  finds no blob info any more cancels nothing and leaves the sync to the monitor.
* **PendingCaches.** Every request is a thread whose `pc` names the next await; the flush is
  part of the request, or of the worker, that runs it.  `held` are drained slivers, which are
  in no table until they are stored or put back.

## 3. Runs

| Run | Module, configuration | Shows |
|---|---|---|
| `event_cursor` | `EventCursor` | five events, the first not available any more, two crashes at any point: the cursor covers only handled events, loses nothing and eventually covers all events |
| `event_blob_writer` | `MCEventBlobWriter`, `EventBlobWriter.cfg` | two writers and the contract, a crash, a lost transaction or response, an epoch change: blobs are certified by a quorum, late attestations are not tracked, no blob is lost or counted twice, writers that were not repositioned agree, only certified blobs are recorded, and in the end all are |
| `storage_pools` | `MCStoragePool` | pools, resources and blobs together in a ring that wraps, with a capacity that drops: no claim exceeds what is booked, blobs stay backed, the counters of pools are exact, permanent pooled blobs stay, the cached capacity is exact |
| `system_rewards` | `MCUsageSubsidies`, `UsageSubsidies.cfg` | prices, deny lists and subsidies that do not divide evenly: no WAL appears or disappears, neither an epoch change nor a subsidy aborts, and the ring implements the ledger |
| `commission` | `MCCommission` | two nodes, three committees, two epoch changes: quorums of distinct shards, and the slashing window |
| `staking_pool` | `MCStakingPool`, `StakingPool.cfg` | two stakes over three epochs for a node that is in every committee it has stake for: no assertion or subtraction of the epoch change fails, the active set is current but for nodes that a full set has refused or evicted, commission rates take effect as announced |
| `staking_pool_rejoin` (violation) | `MCStakingPool`, `StakingPoolRejoin.cfg` | a node that leaves and rejoins: the epoch change may abort (section 4) |
| `driver` | `MCEpochChangeDriver`, `EpochChangeDriver.cfg` | one node with a crash or a stale read against a contract that others also drive: no panic, no skipped epoch change, the next call is scheduled whenever the node is up to date, every epoch is attested but for two gaps, calls are never early, and the node drives every epoch change |
| `shard_sync` | `MCShardSync`, `ShardSync.cfg` | shards gained, lost and kept over five epochs, never to come back, while the node lags, crashes and fails: an active shard has every sliver certified before, unless the status of the node was overwritten, and in the end all shards are synced unless one is stuck |
| `blob_info` | `MCBlobInfo`, `BlobInfo.cfg` | two objects of any kind and a pool, four events, a crash, both phases of garbage collection, with and without complete history: aggregate, status and initial epoch are exact, and live data is kept |
| `blob_events` | `MCBlobEvents`, `BlobEvents.cfg` | two objects of a blob, five events, a crash: a certified blob is stored, synced or waiting, unless monitor or garbage collection interfere, and every event is complete at last also if they do |
| `pending_caches` | `MCPendingCaches`, `PendingCaches.cfg` | three requests and the worker, with a cache that has room for two of three slivers, a failing write, an expiry and a dropped request: no acknowledged sliver is lost, also if slivers are put back or refused, none is left behind unless a write failed, no waiting request misses the registration |

**Bounds.** Bounds are constants or appear in guards (`NumEvents`, `MaxCrashes`, `MaxFaults`,
`MaxFailures`, `MaxEpoch`, `MaxCheckpoint`, `MaxUsed`, `MaxFunds`, `MaxPool`, `MaxCommission`,
`MaxStaked`, `MaxEvents`, `MaxCollections`, `MaxExpiries`,
`MaxDisconnects`).  Rings of length two wrap around within three epochs; four shards are the
smallest number for which a quorum is neither one shard nor all; with two epoch changes a
committee is current, previous and gone; two crashes of `EventCursor` allow a crash during the
replay after a crash, elsewhere one crash falls on any step.  One driver node is enough for its
safety: to it all other nodes are the same as arbitrary callers of the contract.  `MaxFaults`
of the driver is one budget for crashes and for reads that go back.  In `StakingPool` the
amounts 8 and 12 (split into 8 and 4) with rewards of 3 leave a remainder in almost every
conversion.  In `ShardSync`
the histories cover gaining, losing, keeping, leaving and joining with another shard (with the
same one the property does not hold, see section 4); five epochs let a node lag
behind again during a recovery.  `BlobInfo`, `BlobEvents` and `PendingCaches` look at one blob,
since tables, workers and caches keep blobs apart; two objects and three requests
are what it takes for one of them to interfere with the other two.  With three slivers and
room for two the cache fills up, and a flush that fails halfway puts slivers back.  That they find
no room takes four requests, or a cache for one sliver (TLC passes with `MaxSlivers = 1` as well,
and reaches `overflowed`); the theorem covers every size.  Symmetry is used for
objects, stakes, slivers and requests, which are compared only for equality, and never
together with a liveness property.  Where deadlock is not checked, a bounded number of epochs,
events or requests simply ends.

**Fairness.**
`EventCursor`: the loop goes on, every handle is completed at last, the node is restarted.  The
code retries handlers without limit and supervisors restart nodes.
`EpochChangeDriver`: weak fairness for handlers, tasks and restarts, for time and the
attestations of other members; strong fairness for invoking a call and executing its
transaction, since the driver retries for ever and a retry interrupts them.  In epoch 0, where
restarted nodes schedule nothing, an operator is assumed to act.  After that nobody but the
node itself is assumed to.
`ShardSync`: weak fairness for handlers, tasks and restarts, strong fairness for transfers and
recoveries, which are retried until they succeed.  A task that has read the node status does set it.
`EventBlobWriter`: strong fairness for writing the next element and for each retry of an
attestation, which happen again with every element of the stream.
`BlobEvents`: weak fairness for the worker, the task of a sync, those who wait for it, for
recovering slivers as long as the blob is certified, and for the monitor, which looks for syncs of
blobs that are not certified any more at fixed intervals for as long as the node runs.
Crashes and failures are finite in number everywhere.

## 4. Where code and comments disagree

The run `staking_pool_rejoin` shows one disagreement.  The exchange rate of a pool is stored
only when the pool is updated, so a stake that becomes active while its node is outside the
committee gets its shares at the rate of the last update, while the pool accounts for them at
the rate of its next one.  The stake may own slightly more shares than were added, and if all
stake is being withdrawn, `wal_balance_at_epoch` subtracts more than there is and the epoch
change aborts until somebody stakes.  `exchange_rate.move:44` assumes that an amount is at most
the shares in the pool.

The modules also define properties that comments or names in the code suggest and that do not
hold; each says so in its comment.  They are in no configuration.  To reproduce one, take the
configuration of the module's run, replace its properties (and `FairSpec` by `Spec`, or
`WriterSpec`, if it is an invariant), and change the constants named here:

| Property | Constants | What TLC finds |
|---|---|---|
| `EventCursor.IncompleteHistoryRecorded` | | cursor and node status are two writes; after a crash in between the status is never set (`node.rs:1206`, 1260) |
| `EpochChangeDriver.InitiationCancelled` | | `cancel_scheduled_epoch_change_initiation` looks at `end_voting_future`, which has just been cleared, and cancels nothing (`epoch_change_driver.rs:239`); the call ends by itself when it reads the new epoch |
| `EpochChangeDriver.NeverSkipped` | `MaxFaults = 2` | a restart against an RPC node that still reports the old sync state tracks a transition that no event ends, and the next epoch change is marked as complete without being executed (`node.rs:2392`) |
| `ShardSync.AttestedWhenSynced` | `Histories <- GainTwo`, `MaxEpoch = 2` | the sync of the first shard ends before the second is in `shard_sync_in_progress`, and the node attests (`shard_sync.rs:430`, `staking_inner.move:732`) |
| `ShardSync.ActiveAfterMetadata` | `Histories <- JoinThenGain`, `MaxEpoch = 3` | an epoch change aborts the task that recovers metadata, and the new task sets the node to Active (`shard_sync.rs:119`) |
| `ShardSync.NoPanic` | `Histories <- Keep`, `MaxEpoch = 4` | recovery forces a shard to Active while a sync of it waits to retry (`storage/shard.rs:893`) |
| `ShardSync.SyncsCanRestart` | `Histories <- Regain`, `MaxEpoch = 4`, no crash | a shard that comes back while its earlier sync runs stays locked (`shard_sync.rs:237`, 274) |
| `ShardSync.SyncsCanRestart` | `Histories <- Keep`, `MaxEpoch = 4`, one crash | the event is complete before `ActiveSync` is written for a gained shard (`node.rs:2475`, `shard_sync.rs:119`) |
| `ShardSync.ActiveIsComplete` | `Histories <- ComeBack`, `MaxEpoch = 3` | a node that lags misses the loss of a shard; when it joins again with that shard, the shard is still Active and no sync is started (`shard_sync.rs:265`) |
| `ShardSync.ActiveIsComplete` | `Histories <- Regain`, `MaxEpoch = 4`, no crash | a shard comes back while its earlier sync runs; that sync stands in for the new one and goes only as far as the epoch of its start (`shard_sync.rs:237`) |
| `ShardSync.ActiveIsComplete` without `~ overwritten` | | a recovery finds its own status, the handler that lags again writes `RecoveryCatchUp` or a later `RecoveryInProgress`, and the recovery sets the node to Active although shards that were gained are Active and empty (`node_recovery.rs:246-252`, `node.rs:2291`); the start of shard syncs checks and sets in the same way (`shard_sync.rs:122-130`) |
| `ShardSync.EventuallySynced` without `overwritten` in `Stuck` | | the overwritten status lets the node pass for one that is in sync, also after a restart, and nothing syncs what it has skipped (`node_recovery.rs:252`) |
| `ShardSync.NodeStatusDiagram` | | a node that leaves the committee goes from Active to Standby, which the diagram lacks (`storage.rs:90`) |
| `EventBlobWriter.PendingHaveFiles` | `Threshold = 2` | the file of a certified blob is removed before the batch that records the certification (`event_blob_writer.rs:897`, 1676) |
| `EventBlobWriter.AllBlobsCertified` | `StoreFails = TRUE` | a blob that stays pending because its slivers were not stored is never matched with its certification (`event_blob_writer.rs:896`, 1649) |
| `BlobEvents.NotForgotten` | `MaxCollections = 0` | a certified event is complete because of a sync that the monitor has cancelled (`blob_sync.rs:397`) |
| `BlobEvents.NotForgotten`, as `~ monitored => NotForgotten` | | garbage collection removes slivers that a running sync has passed, and the blob is certified again (`blob_sync.rs:397`) |
| `PendingCaches.CertifiedSeesFlushed` | no `SYMMETRY` | the worker's flush returns while another one is still storing drained slivers (`blob_event_processor.rs:111`) |
| `PendingCaches.AcknowledgedMetadataKept` | | a flush takes metadata out of the cache, and the write fails (`node.rs:4362`, 3503) |
| `PendingCaches.KeptOnDisconnect` | | a request is dropped that has drained the slivers of others (`node.rs:3528`, `server/routes.rs:303`) |
| `StakingPool.WithdrawalNotBlocked` | those of `StakingPoolRejoin.cfg` | the payment succeeds and the update of the active set aborts (`staking_pool.move:402`) |
| `UsageSubsidies.SubsidizedOnce` | | rewards left over in one epoch are subsidised again in the next (`walrus_subsidies_inner.move:32`) |

Two gaps in attestation are recorded in the driver's model by `lost`: a crash between the last
shard turning active and `epoch_sync_done`, and a sync of an earlier epoch that ends last.  The
epoch then goes on without the node's weight.

## 5. Proofs

Proved by TLAPS for every value of the constants under named assumptions, which say what the code
guarantees and no more: shards, stakes and identifiers of objects are finite sets
(`ShardsAssumption`, `StakesAssumption`, `IdsAssumption`, `ObjectsAssumption`), every committee assigns each shard to one node
(`CommitteesAssumption`, `CommitteeAssumption`), the nodes that are modelled in detail are some
of all nodes (`DriversAssumption`), a worker is not a request (`ThreadsAssumption`), a ring has
at least one account (`LengthAssumption`), and amounts, sizes, rates and bounds are natural
numbers (`SubsidyAssumption`, `SizesAssumption` and the like). A node that starts without all of
the history does so in an epoch that is at least `MaxAhead` (`EpochAssumption` of `BlobInfo`):
`first_complete_epoch` must be after the epoch of the first event (`node.rs:1247`). Bounds on
crashes, faults and epochs limit no theorem: they are arbitrary.

| Module | Theorems | Inductive invariant |
|---|---|---|
| `EventBlobProofs`, the contract | `TypeCorrect`, distinct weights (`NobodyCountsTwice`), quorum (`CertifiedHasQuorum`), one blob per checkpoint (`NoConflictingEventBlobs`), late attestations (`LateAttestationsIgnored`) | the invariants with `CertifiedUpToLatest`: a node that may attest is among the attesters of no tracked blob |
| `EventBlobProofs`, the writers | what a writer takes for certified was certified (`RecordedBlobsCertified`), no blob is lost, repeated or out of order (`BlobsNeverLost`), writers and contract never fork (`WritersNeverFork`) | `RecordedInv`: an ID tells the number of its blob, so a certification matches no other; `LostInv`: the tables hold the blobs after the certified one up to the position, each once, and what is sent is the first; `AgreeInv`: there is a chain of IDs that depends on the stream alone, and all IDs in tables and on chain are from it |
| `SystemStateProofs` | `TypeCorrect`, ring position (`RingNeverMisplaced`), cached capacity (`UsedCapacityNeverStale`), capacity respected (`CapacityRespected`), the ring implements `FutureLedger` (`RingImplementsLedger`); with subsidies: WAL is conserved (`WalIsConserved`), rewards are covered (`RewardsNeverShort`), no call of the subsidies contract aborts (`SubsidiesNeverBlocked`), and the ledger again (`SubsidiesImplementLedger`) | `AccountingInv` and the types of objects; the refinement maps every action to a ledger step or a stutter; `SubsidiesInv` adds the sum of all WAL (`WalInv`) and that no account has less than the second ring records as subsidised, however many epochs lie between two calls (`SubsidiesNotBlocked`) |
| `SystemStateProofs`, pools | cached capacity with pools (`PoolsKeepCache`), no claim exceeds what is booked (`NoUnbookedClaims`), blobs are backed (`BlobsStayBacked`), counters of pools (`PoolCountersExact`), permanent pooled blobs stay (`PermanentBlobsKept`) | `PoolInv`: `AccountingInv`, an invariant of every object alone, and `ClaimsAreBooked`; each operation changes the sum of claims by what it changes in one or two objects |
| `StakingPoolProofs` | the active set has the balance for the next vote, or no entry if it was full (`ActiveSetStaysCurrent`), commission is as announced (`CommissionIsAsAnnounced`), both whether or not the node is selected when it has stake; if it is, no assertion or subtraction of the epoch change fails (`EpochChangeIsNotBlocked`) | `Inv`: nothing is pending for an epoch after that of the next vote, and no stake becomes active later, so the balance is the same when the vote moves on; there is an epoch up to which the pool is updated, and just the announcements for later epochs are pending. `SharesInv`: the pool has at least the shares that are due, pending and owned (`SharesOK`), where the stakes of an activation epoch own what their sum is worth at its rate; all stake that is not active is pending (`PendingOK`); the balance is positive exactly for members, and a selected node keeps some of it (`MembershipOK`); rates have no more shares than WAL (`RatesOK`) |
| `EpochProofs`, the contract | lemmas: each step keeps weights distinct | `EpochInv`: caps are never ahead of the epoch, so nobody has attested when an epoch begins |
| `EpochProofs`, commission | `CommissionTypeCorrect`, epochs are done by a quorum (`EpochsDoneByQuorum`), slashing window (`SlashingWindow`), blocked commission is held (`BlockedCommission`), slashing needs a quorum (`SlashingNeedsQuorum`) | `EarnedIsBlocked` (what was earned is part of what is blocked) and `ProposalsNotAhead` (an epoch change leaves no current proposal) |
| `EpochProofs`, the driver | no panic (`NodesNeverFail`), no call is early (`CallsNeverEarly`), a node that is up to date has scheduled the next call (`CallsAreScheduled`), attestations are under way but for the two gaps (`AttestationsPending`) | `DriverInv` relates the latest state that a node has read to the events it has handled, the calls it has scheduled and the committee it tracks; stale reads are counted, and without one every assertion finds what it expects |
| `ShardSyncProofs` | an active shard has every sliver certified before the epoch the node has handled, if no lost shard comes back and no status was overwritten (`ActiveShardIsComplete`) | `IInv`: of the epochs whose slivers a shard has to store (`Need`), it holds all if it is Active; what its sync has passed is held or recorded as missing, and what was certified since the sync began is held (`CoveredBy`); a shard that was not lost and has storage is assigned to the node now, or from the next epoch on (`StorageOK`); a recovery goes at least as far as the handled events (`RecoveryInv`); that the shards are covered is known of a node that keeps up (`KeepsUp`: Active or joining, and not overwritten), and node recovery restores it, because what it has stored is still there when the status is set (`RecoveredOK`) |
| `BlobInfoProofs` | the aggregate counts exactly the entries (`AggregateAlwaysMatches`), registered and certified are exact after garbage collection and never lost before (`StatusAlwaysExact`), so is the initial certified epoch (`InitialEpochAlwaysExact`), data of a registered blob is never deleted (`LiveDataAlwaysKept`) | `IInv`: every merge operator takes an aggregate that agrees with a table to one that agrees with the updated table (`Matches`, which also bounds the end epochs of certified objects); an entry is its object on chain and the only live objects without one end before the node started; phase 1 of garbage collection leaves nothing behind in the tables it is done with; an open transaction may delete data only if no live object is left, as a write to the aggregate disarms it |
| `BlobEventsProofs` | no event is complete while it is queued, or queued twice (`EventsInOnePlace`); a certified blob is stored, synced or waiting, unless monitor or garbage collection interfere (`CertifiedBlobNotForgotten`) | `EventInv`: the queue has distinct events that are not complete, and the event of a sync has left it; `QuietInv`: as long as nobody interferes, who holds the handle of a sync decides what may still happen to it, a sync that runs has stored what it has passed, and the worker cancels one only if the blob is not certified or a certified event is still queued |
| `NodeProofs`, event cursor | type correctness (`CursorTypeCorrect`), the cursor covers only completed events (`CursorCoversCompleted`), no index repeats (`AddNeverPanics`), nothing is lost (`NoEventLost`), the cursor never moves back (`CursorNeverMovesBack`) | the invariants with `LoopInv` (where the head stands between starting index and loop index, which is what rules out repetition) and `QueuedAreCompleted` |
| `NodeProofs`, pending caches | no waiting request misses the registration (`WakeupNeverLost`), acknowledged slivers are kept (`SliversNeverLost`) and stored once the blob is registered (`SliversNeverLeftBehind`) | `WakeupInv` (who has subscribed is notified or will look again), `KeptInv` (a sliver is in cache, storage or hands, unless `insert_many` has dropped one because the cache was full), `FlushInv`: whenever a registered blob has slivers in the cache, some thread is on its way to drain them |

The counts in the aggregate are compared with cardinalities of sets of entries; that one event
changes each by at most one is `CountUpdates`.  Sums over objects need induction.  The induction theorems of the library take a predicate as a
parameter, which the provers cannot instantiate; `SystemStateProofs` and `StakingPoolProofs` prove
induction in the form of sets (a set of numbers with 0 that is closed under successors is `Nat`),
from which the facts about sums follow.

`EpochChangeIsNotBlocked` rests on four facts about rounding, for rates with no more shares than
WAL: parts are worth no more shares than their sum (`SharesFacts`); shares that leave take no more
than the balance, all of it only if all leave (`Leaving`); after stake has entered and shares have
left, the shares that are computed from the new balance cover those that stayed and those of the
stake (`Entering`); and a rate that was recorded is never changed (`RecordRate`).  An inactive
stake of a pool without balance has no shares, so its withdrawal takes none (`InactiveShares`).
Its hypothesis `AlwaysSelected` is needed, as the run `staking_pool_rejoin` shows.  Where the
proof uses it is `SelectCommitteeShares`: a pool with stake is brought up to date in every epoch,
so that every stake is converted at the rate with which its shares were created.

What runs check on small instances and theorems state in general: `PersistedAreCompleted`,
`NothingLost`, `CertifiedByQuorum`, `TrackedAreAhead`, `RecordedAreCertified`, `NoBlobLost`,
`WritersAgree`, `CachedUsedCapacity`, `ClaimsAreBooked`, `BlobsAreBacked`, `PoolsAreExact`,
`PermanentBlobsStay`, `ImplementsLedger`, `WalConserved`, `RewardsAreCovered`,
`SubsidiesNotBlocked`, `DoneByQuorum`, `HeldForSlashing`, `SlashedByQuorum`, `NoFailure`,
`NeverEarly`, `CaughtUpIsScheduled`, `AttestationPending`, `NoLostWakeup`,
`AcknowledgedSliversKept`, `AcknowledgedIsStored`, `AggregateMatchesTables`, `StatusIsExact`,
`InitialEpochIsExact`, `LiveDataIsKept`, `ActiveIsComplete`, `NoCertifiedBlobForgotten`,
`ActiveSetIsCurrent`, `CommissionAsAnnounced` and `EpochChangeNotBlocked`.  Proved and in no run are the type
invariants, `NoRepeatedIndex`, `CursorMonotone`, `WeightIsDistinctShards`,
`OneOutstandingAttestation`, `OneBlobPerCheckpoint`, `SlotsMatchEpochs`, `WithinTotalCapacity`
and `BlockedIsHeld`.  The theorems on the contract of event blobs are about arbitrary callers,
those on writers about honest ones; accounting is proved alone, with pools and with subsidies.

`ActiveShardIsComplete` has the hypothesis `NoShardComesBack`, which is about the history of
assignments alone: a shard that the node has lost is not assigned to it again.  It is needed, as
the counterexamples in section 4 show, and it is met by the histories of the run.  The property
itself speaks of nodes whose status was not overwritten by a task that had checked it earlier;
that is not met by all behaviours of the run, and section 4 shows what happens then.
`BlockedCommission` is what rules out a block on commission that is gone; no run checks it.
`WritersNeverFork` is about writers none of which was repositioned; for those that were,
`RecordedBlobsCertified` is what holds.

Only model-checked: liveness (`AllEventsPersisted`, `EpochsAdvance`, `EventuallySynced`,
`AllBlobsCertified`, `EventsAreCompleted`), which is out of the prover's reach.

## 6. Not modelled

Erasure coding, hashing and signatures (assumed to work); transfer of slivers and other I/O;
HTTP interfaces, configuration, metrics and tools; Sui itself beyond atomic transactions and
ordered events.  Metadata of blobs, display objects and authorization objects are left out of
the contracts; a certificate is an input that needs its quorum.  Of the node, the event
processor (the stream of events is an input), inconsistency proofs, limits on concurrent tasks,
buffered ingestion of files, and the reads that serve clients and other nodes are left out.

## 7. Plan

1. Committee selection: apportionment, shard transition and quorum votes as operators against
   reference definitions.
2. Upgrade governance, a vote like that of slashing.
3. Client writes and reads across an epoch change, with `ShardSync` and `BlobInfo`.
4. The event processor: catching up from event blobs and from checkpoints.
5. Proofs: withdrawals from the pool of a node that is always selected
   (`WithdrawalNotBlocked`), from the same books, for the balance two epochs ahead.
