--------------------------- MODULE StorageAccounting ---------------------------
(***************************************************************************)
(* The accounting of storage capacity and of rewards in the system         *)
(* contract: the ring buffer of future accounts (storage_accounting.move)  *)
(* and the fields and functions of system_state_inner.move that use it.    *)
(*                                                                         *)
(* This module has the state and one operator per function; modules        *)
(* SystemState and StoragePool call them from the operations on storage    *)
(* resources, blobs and storage pools.  An operator whose assertions fail  *)
(* is not enabled: the transaction aborts.                                 *)
(*                                                                         *)
(* Payers always have enough WAL; coins are not modelled, only what they   *)
(* pay in.  Offsets are relative to the current epoch, as in the code.     *)
(***************************************************************************)
EXTENDS Integers, FiniteSetsExt

CONSTANTS
  Length,      \* max_epochs_ahead: number of future accounts
  MaxEpoch,    \* bound on the number of epochs
  Sizes,       \* storage sizes in bytes that callers ask for
  UnitSize,    \* BYTES_PER_UNIT_SIZE, the unit that prices refer to
  Capacities,  \* capacities that the nodes vote for
  Prices,      \* prices per unit that the nodes vote for
  Subsidies,   \* amounts of WAL that are added as subsidies
  DenySizes,   \* sizes of nodes' deny lists
  Nodes,       \* storage nodes
  Committees,  \* committees: the number of shards of every node
  MaxFunds,    \* bound on the WAL that is paid in
  MaxUsed      \* bound on the capacity that event blobs may take

ASSUME LengthAssumption == Length \in Nat \ {0}
ASSUME EpochAssumption == MaxEpoch \in Nat
ASSUME SizesAssumption == Sizes \subseteq Nat \ {0}
ASSUME UnitSizeAssumption == UnitSize \in Nat \ {0}
ASSUME CapacitiesAssumption == Capacities \subseteq Nat
ASSUME PricesAssumption == Prices \subseteq Nat
ASSUME SubsidiesAssumption == Subsidies \subseteq Nat
ASSUME DenySizesAssumption == DenySizes \subseteq Nat
ASSUME NodesAssumption == IsFiniteSet(Nodes)
ASSUME CommitteesAssumption == Committees \subseteq [Nodes -> Nat]

VARIABLES
  epoch,                \* epoch of the committee
  committee,            \* weights of the current committee
  current_index,        \* ring buffer: slot of the current epoch
  slot_epoch,           \* ring buffer: FutureAccounting.epoch
  slot_used,            \* ring buffer: FutureAccounting.used_capacity
  slot_rewards,         \* ring buffer: FutureAccounting.rewards_to_distribute
  total_capacity_size,
  used_capacity_size,
  storage_price,        \* storage_price_per_unit_size
  write_price,          \* write_price_per_unit_size
  deny_list_sizes,
  wal,                  \* history: WAL paid in, paid out and burned
  event_bytes           \* history: bytes of event blobs certified in this epoch

ring == <<current_index, slot_epoch, slot_used, slot_rewards>>
prices == <<storage_price, write_price>>
accounting == <<epoch, committee, ring, total_capacity_size, used_capacity_size,
                prices, deny_list_sizes, wal, event_bytes>>

Slots == 0 .. (Length - 1)

\* Mutant: the lookup ignores where the current epoch is.
SlotFromZero(i) == i

\* ring_lookup: the slot of the epoch that is i epochs ahead.
Slot(i) == (i + current_index) % Length

\* The slots of the epochs in [start, end).
SlotsOf(start, end) == {Slot(i) : i \in start .. (end - 1)}

\* ring_new, create_empty.
AccountingInit ==
  /\ epoch = 0
  /\ committee = [n \in Nodes |-> 0]
  /\ current_index = 0
  /\ slot_epoch = [i \in Slots |-> i]
  /\ slot_used = [i \in Slots |-> 0]
  /\ slot_rewards = [i \in Slots |-> 0]
  /\ total_capacity_size = 0
  /\ used_capacity_size = 0
  /\ storage_price = 0
  /\ write_price = 0
  /\ deny_list_sizes = [n \in Nodes |-> 0]
  /\ wal = [paid_in |-> 0, paid_out |-> 0, burned |-> 0]
  /\ event_bytes = 0

\* storage_units_from_size: prices are per started unit.
StorageUnits(size) == (size + UnitSize - 1) \div UnitSize

-----------------------------------------------------------------------------
(* Rewards.                                                                *)

\* amount[k] WAL are joined to the rewards of slot k.
Deposit(amount) ==
  LET deposited == wal.paid_in + SumFunction(amount) IN
  /\ deposited <= MaxFunds
  /\ slot_rewards' = [k \in Slots |-> slot_rewards[k] + amount[k]]
  /\ wal' = [wal EXCEPT !.paid_in = deposited]

\* process_storage_payments: every epoch of the period gets its price.
ProcessStoragePayments(size, start, end) ==
  LET due == storage_price * StorageUnits(size) IN
  Deposit([k \in Slots |-> IF k \in SlotsOf(start, end) THEN due ELSE 0])

\* The write fee goes to the current epoch.
PayWritePrice(bytes) ==
  Deposit([k \in Slots |-> IF k = Slot(0) THEN write_price * StorageUnits(bytes) ELSE 0])

-----------------------------------------------------------------------------
(* Capacity.                                                               *)

\* EStorageExceeded, after the capacity was increased.
WithinCapacity(start, end) == \A k \in SlotsOf(start, end) : slot_used'[k] <= total_capacity_size

\* Mutant: the reservation of the current epoch is not noted.
ForgetCurrent(start) == UNCHANGED used_capacity_size

\* The used capacity of the current epoch is kept in a field of its own.
UpdateUsedCapacitySize(start) ==
  used_capacity_size' = IF start = 0 THEN slot_used'[Slot(0)] ELSE used_capacity_size

\* increase_used_capacity for every epoch of the period.
IncreaseUsedCapacity(size, start, end) ==
  slot_used' = [k \in Slots |->
                  IF k \in SlotsOf(start, end) THEN slot_used[k] + size ELSE slot_used[k]]

\* The periods for which the ring has accounts.
ValidPeriod(start, end) == start < end /\ end <= Length

(***************************************************************************)
(* process_storage_payments followed by account_capacity, or by            *)
(* reserve_space_without_payment with check_capacity: a period is paid for *)
(* and reserved.  All that is sold goes through here.                      *)
(***************************************************************************)
BuyCapacity(size, start, end) ==
  /\ ValidPeriod(start, end)
  /\ ProcessStoragePayments(size, start, end)
  /\ IncreaseUsedCapacity(size, start, end)
  /\ UpdateUsedCapacitySize(start)
  /\ WithinCapacity(start, end)
  /\ UNCHANGED <<epoch, committee, current_index, slot_epoch, total_capacity_size,
                 prices, deny_list_sizes, event_bytes>>

(***************************************************************************)
(* The storage that certify_event_blob reserves once the blob has a        *)
(* quorum: all epochs of the ring, unpaid and without a capacity check.    *)
(* The blob object is burned at once, the capacity stays booked.           *)
(***************************************************************************)
ReserveEventBlob(size) ==
  /\ \E n \in Nodes : committee[n] > 0
  /\ \A k \in Slots : slot_used[k] + size <= MaxUsed
  /\ IncreaseUsedCapacity(size, 0, Length)
  /\ UpdateUsedCapacitySize(0)
  /\ event_bytes' = event_bytes + size
  /\ UNCHANGED <<epoch, committee, current_index, slot_epoch, slot_rewards,
                 total_capacity_size, prices, deny_list_sizes, wal>>

-----------------------------------------------------------------------------
(* Subsidies, prices and deny lists.                                       *)

\* add_subsidy: split evenly, the rest goes to the current epoch.
AddSubsidy(subsidy, epochs_ahead) ==
  /\ epochs_ahead > 0 /\ epochs_ahead <= Length
  /\ Deposit([k \in Slots |->
       (IF k \in SlotsOf(0, epochs_ahead) THEN subsidy \div epochs_ahead ELSE 0)
       + (IF k = Slot(0) THEN subsidy % epochs_ahead ELSE 0)])
  /\ UNCHANGED <<epoch, committee, current_index, slot_epoch, slot_used,
                 total_capacity_size, used_capacity_size, prices, deny_list_sizes,
                 event_bytes>>

\* add_per_epoch_subsidies: subsidies[i] is for the epoch that is i epochs ahead.
AddPerEpochSubsidies(subsidies) ==
  /\ Deposit([k \in Slots |-> subsidies[(k + Length - current_index) % Length]])
  /\ UNCHANGED <<epoch, committee, current_index, slot_epoch, slot_used,
                 total_capacity_size, used_capacity_size, prices, deny_list_sizes,
                 event_bytes>>

\* set_storage_price and set_write_price, when a price vote is cast.
SetPrices(storage, write) ==
  /\ storage_price' = storage
  /\ write_price' = write
  /\ UNCHANGED <<epoch, committee, ring, total_capacity_size, used_capacity_size,
                 deny_list_sizes, wal, event_bytes>>

\* update_deny_list: only committee members update their entry.
UpdateDenyList(n, size) ==
  /\ committee[n] > 0
  /\ deny_list_sizes' = [deny_list_sizes EXCEPT ![n] = size]
  /\ UNCHANGED <<epoch, committee, ring, total_capacity_size, used_capacity_size,
                 prices, wal, event_bytes>>

-----------------------------------------------------------------------------
(* The epoch change.                                                       *)

\* extract_burn_balance: three per cent of the rewards of the ending epoch.
BurnAmount(rewards) == (rewards * 3) \div 100

\* What a node stored: its weight times the capacity that it did not deny.
StoredWeighted(n) ==
  LET used == slot_used[Slot(0)]
      denied == IF deny_list_sizes[n] < used THEN deny_list_sizes[n] ELSE used
  IN committee[n] * (used - denied)

\* Mutant: rewards are rounded up.
RoundedUp(stored, rewards, total_stored) ==
  (stored * rewards + total_stored - 1) \div total_stored

\* A node's share of the rewards, rounded down.
RewardOf(stored, rewards, total_stored) == (stored * rewards) \div total_stored

\* The rewards of all members of the ending committee.
CommitteeRewards(rewards) ==
  LET all == SumFunction([n \in Nodes |-> StoredWeighted(n)])
      total_stored == IF all < 1 THEN 1 ELSE all
  IN SumFunction([n \in Nodes |-> RewardOf(StoredWeighted(n), rewards, total_stored)])

\* ring_pop_expand: the slot of the ending epoch becomes the newest account.
PopExpand(f, fresh) == [f EXCEPT ![current_index] = fresh]

\* The total capacity never drops below what is in use.
NewTotalCapacity(capacity, used) == IF capacity < used THEN used ELSE capacity

\* Mutant: undistributed rewards are dropped.
DropLeftover(f, k, leftover) == f

\* Undistributed rewards are added to the new epoch's account.
CarryOver(f, k, leftover) == [f EXCEPT ![k] = @ + leftover]

(***************************************************************************)
(* The system part of initiate_epoch_change_v2: extract_burn_balance,      *)
(* advance_epoch and update_prices.  Each split of the rewards aborts if   *)
(* the balance is too small for it.                                        *)
(***************************************************************************)
AdvanceEpoch(new_committee, capacity, storage, write) ==
  LET burned == BurnAmount(slot_rewards[current_index])
      distributable == slot_rewards[current_index] - burned
      distributed == CommitteeRewards(distributable)
      new_index == (current_index + 1) % Length
  IN
  /\ epoch < MaxEpoch
  /\ slot_epoch[current_index] = epoch
  /\ distributed \in 0 .. distributable
  /\ epoch' = epoch + 1
  /\ committee' = new_committee
  /\ current_index' = new_index
  /\ slot_epoch' = PopExpand(slot_epoch, slot_epoch[current_index] + Length)
  /\ slot_used' = PopExpand(slot_used, 0)
  /\ slot_rewards' =
       CarryOver(PopExpand(slot_rewards, 0), new_index, distributable - distributed)
  /\ used_capacity_size' = slot_used'[new_index]
  /\ total_capacity_size' = NewTotalCapacity(capacity, used_capacity_size')
  /\ storage_price' = storage
  /\ write_price' = write
  /\ wal' = [wal EXCEPT !.paid_out = @ + distributed, !.burned = @ + burned]
  /\ event_bytes' = 0
  /\ UNCHANGED deny_list_sizes
=============================================================================
