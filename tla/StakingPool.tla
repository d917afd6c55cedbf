------------------------------ MODULE StakingPool ------------------------------
(***************************************************************************)
(* One staking pool of the staking contract: stake is added and withdrawn  *)
(* in whole epochs, and a staker owns shares of the pool that are computed *)
(* from the exchange rate of the epoch in which the stake became active    *)
(* (staking_pool.move, staked_wal.move, pending_values.move,               *)
(* exchange_rate.move).  The pool is brought up to date only by the epoch  *)
(* changes before and after an epoch in which its node is in the committee *)
(* (staking_inner.move); otherwise everything stays pending.               *)
(*                                                                         *)
(* Epochs are counted from the creation of the pool.  The active set holds *)
(* a bounded number of nodes (active_set.move): if it is full, a node is   *)
(* refused, or it replaces the one with the smallest stake.  The stake of  *)
(* the other nodes is not modelled, so both may happen to the node at any  *)
(* time, and it may be selected for a committee whenever it is in the set. *)
(* Amounts are small, with the same rounding as the real ones;             *)
(* WalrusContext is epoch and selected.                                    *)
(***************************************************************************)
EXTENDS Integers, FiniteSetsExt, Functions

CONSTANTS
  Stakes,           \* StakedWal objects
  Amounts,          \* amounts that are staked
  MinStake,         \* MIN_STAKING_THRESHOLD
  Rewards,          \* rewards of the node for an epoch
  BasisPoints,      \* N_BASIS_POINTS
  CommissionRates,  \* commission rates that the node chooses from
  AlwaysSelected,   \* the node is in every committee that it has stake for
  MaxStaked,        \* bound on the stake in the pool
  MaxEpoch          \* bound on the epoch

ASSUME AmountsAssumption == MinStake \in Nat \ {0} /\ \A a \in Amounts : a \in Nat /\ a >= MinStake
ASSUME StakesAssumption == IsFiniteSet(Stakes)
ASSUME RewardsAssumption == 0 \in Rewards /\ Rewards \subseteq Nat
ASSUME RatesAssumption == BasisPoints \in Nat \ {0} /\ CommissionRates \subseteq 0 .. BasisPoints
ASSUME EpochAssumption == {MaxStaked, MaxEpoch} \subseteq Nat /\ AlwaysSelected \in BOOLEAN

VARIABLES
  epoch,
  selected,      \* the next committee is selected
  in_current,    \* the node is in the committee
  in_next,       \* the node is in the next committee
  pool,
  stakes,        \* the StakedWal objects
  active_stake,  \* stake of the node in the active set, 0 if it is not in it
  dropped,       \* history: it is not in the active set because that was full
  scheduled      \* history: the commission rate announced for every epoch

context == <<epoch, selected, in_current, in_next>>
active_set == <<active_stake, dropped>>
vars == <<context, pool, stakes, active_set, scheduled>>

Epochs == 0 .. MaxEpoch + 2
Unset == -1

-----------------------------------------------------------------------------
(* Exchange rates; the flat rate converts as one share for one WAL does *)

Flat == [wal |-> 1, shares |-> 1]
NoRate == [wal |-> 0, shares |-> 0]

RateIsValid(wal, shares) == shares <= wal
NewRate(wal, shares) ==
  IF wal = 0 \/ shares = 0 THEN Flat ELSE [wal |-> wal, shares |-> shares]

ToWal(rate, amount) == (amount * rate.wal) \div rate.shares

ToShares(rate, amount) == (amount * rate.shares) \div rate.wal

-----------------------------------------------------------------------------
(* Pending values: an epoch without an entry has the value 0 *)

Nothing == [e \in Epochs |-> 0]

ValueAt(values, e) == SumFunction([k \in {k \in Epochs : k <= e /\ values[k] > 0} |-> values[k]])

Flush(values, e) == [k \in Epochs |-> IF k <= e THEN 0 ELSE values[k]]

-----------------------------------------------------------------------------
(* The pool *)

\* exchange_rate_at_epoch.
RateAt(p, e) ==
  LET known == {k \in p.activation_epoch .. e : p.exchange_rates[k] # NoRate} IN
  IF known = {} THEN Flat ELSE p.exchange_rates[Max(known)]

\* The shares of stakes that are withdrawn after exactly one epoch.
PreActiveShares(p, e) ==
  SumFunction([k \in {k \in 1 .. e : p.pre_active_withdrawals[k] > 0} |->
                 ToShares(RateAt(p, k - 1), p.pre_active_withdrawals[k])])

CurrentRate(p) == NewRate(p.wal_balance, p.num_shares)

\* All shares that are withdrawn by epoch e.
SharesWithdrawn(p, e) == ValueAt(p.pending_shares_withdraw, e) + PreActiveShares(p, e)

\* wal_balance_at_epoch; it aborts if the rate is not valid or the result is negative.
BalanceAt(p, e) ==
  p.wal_balance + ValueAt(p.pending_stake, e) - ToWal(CurrentRate(p), SharesWithdrawn(p, e))
BalanceIsValid(p, e) == RateIsValid(p.wal_balance, p.num_shares) /\ BalanceAt(p, e) >= 0

\* calculate_rewards.
RewardsOf(p, principal, activation, withdrawal) ==
  LET wal == ToWal(RateAt(p, withdrawal), ToShares(RateAt(p, activation), principal)) IN
  Max({wal - principal, 0})

NoStake == [state |-> "none", principal |-> 0, activation_epoch |-> 0, withdraw_epoch |-> 0]

NewPool(activation) ==
  [activation_epoch |-> activation, wal_balance |-> 0, num_shares |-> 0,
   pending_stake |-> Nothing, pending_shares_withdraw |-> Nothing,
   pre_active_withdrawals |-> Nothing, rewards_pool |-> 0, commission_rate |-> 0,
   pending_commission_rate |-> [e \in Epochs |-> Unset],
   exchange_rates |-> [e \in Epochs |-> IF e = activation THEN Flat ELSE NoRate]]

\* The pool may be created before or after the next committee is selected.
Init ==
  /\ epoch = 0
  /\ selected \in BOOLEAN
  /\ in_current = FALSE /\ in_next = FALSE
  /\ pool = NewPool(IF selected THEN epoch + 1 ELSE epoch)
  /\ stakes = [s \in Stakes |-> NoStake]
  /\ active_stake = 0 /\ dropped = FALSE
  /\ scheduled = [e \in Epochs |-> Unset]

-----------------------------------------------------------------------------
(* Staking *)

ActivationEpoch == IF selected THEN epoch + 2 ELSE epoch + 1

NextEpochOnly == epoch + 1

\* The epoch of the next vote, which is the one that the active set is for.
VoteEpoch == IF selected THEN epoch + 2 ELSE epoch + 1

\* insert_or_update: the node is removed or updated, or else inserted unless the set is full
\* of nodes with no less stake.
InsertOrUpdate(stake) ==
  \E inserted \in BOOLEAN :
    /\ stake = 0 \/ active_stake > 0 => inserted
    /\ active_stake' = IF inserted THEN stake ELSE 0
    /\ dropped' = ~ inserted

\* Every operation of a staker ends with an update of the active set.
UpdateActiveSet(p) ==
  /\ BalanceIsValid(p, VoteEpoch)
  /\ InsertOrUpdate(BalanceAt(p, VoteEpoch))

\* try_join_active_set, called by the node.
TryJoinActiveSet ==
  /\ UpdateActiveSet(pool)
  /\ UNCHANGED <<context, pool, stakes, scheduled>>

\* Another node is inserted into a full set, in which this one has the smallest stake.
Evicted ==
  /\ active_stake > 0
  /\ active_stake' = 0 /\ dropped' = TRUE
  /\ UNCHANGED <<context, pool, stakes, scheduled>>

\* stake_with_pool.
Stake(s, amount) ==
  LET p == [pool EXCEPT !.pending_stake[ActivationEpoch] = @ + amount] IN
  /\ stakes[s] = NoStake
  /\ amount >= MinStake
  /\ SumFunction([t \in Stakes |-> stakes[t].principal]) + amount <= MaxStaked
  /\ pool' = p
  /\ stakes' = [stakes EXCEPT ![s] = [state |-> "staked", principal |-> amount,
                                      activation_epoch |-> ActivationEpoch, withdraw_epoch |-> 0]]
  /\ UpdateActiveSet(p)
  /\ UNCHANGED <<context, scheduled>>

EarlyEvenIfSelected(sw) == sw.state = "staked" /\ sw.activation_epoch > epoch

CanWithdrawEarly(sw) ==
  /\ sw.state = "staked"
  /\ \/ sw.activation_epoch = epoch + 2
     \/ sw.activation_epoch = epoch + 1 /\ ~ in_next

\* set_withdrawing.
SetWithdrawing(s, e) ==
  stakes' = [stakes EXCEPT ![s].state = "withdrawing", ![s].withdraw_epoch = e]

\* request_withdraw_stake of stake that counts for the next committee but is not yet active.
RequestPreActive(s) ==
  LET sw == stakes[s]
      p == [pool EXCEPT !.pre_active_withdrawals[epoch + 2] = @ + sw.principal] IN
  /\ sw.state = "staked"
  /\ ~ CanWithdrawEarly(sw)
  /\ sw.activation_epoch = epoch + 1
  /\ pool' = p
  /\ SetWithdrawing(s, epoch + 2)
  /\ UpdateActiveSet(p)
  /\ UNCHANGED <<context, scheduled>>

\* The shares of an active stake.
SharesOf(sw) == ToShares(RateAt(pool, sw.activation_epoch), sw.principal)

WithdrawEpoch == IF in_next THEN epoch + 2 ELSE epoch + 1

\* request_withdraw_stake of active stake.
RequestActive(s) ==
  LET sw == stakes[s]
      p == [pool EXCEPT !.pending_shares_withdraw[WithdrawEpoch] = @ + SharesOf(sw)] IN
  /\ sw.state = "staked"
  /\ sw.activation_epoch <= epoch
  /\ in_next \/ in_current
  /\ SharesOf(sw) # 0
  /\ pool' = p
  /\ SetWithdrawing(s, WithdrawEpoch)
  /\ UpdateActiveSet(p)
  /\ UNCHANGED <<context, scheduled>>

\* What withdraw_stake pays out with the principal: no more than the rewards pool has.
PayRewards(p, rewards) == [p EXCEPT !.rewards_pool = @ - Min({rewards, @})]

\* Withdrawal before the stake counts for a committee.
EarlyWithdrawal(sw) == [pool EXCEPT !.pending_stake[sw.activation_epoch] = @ - sw.principal]

\* One step withdrawal of active stake from a node outside the committees.
InactiveWithdrawal(sw) ==
  PayRewards([pool EXCEPT !.pending_shares_withdraw[epoch] = @ + SharesOf(sw)],
             RewardsOf(pool, sw.principal, sw.activation_epoch, epoch))

\* The second step of a requested withdrawal.
RequestedWithdrawal(sw) ==
  PayRewards(pool, RewardsOf(pool, sw.principal, sw.activation_epoch, sw.withdraw_epoch))

\* The conditions under which a stake is withdrawn, and how.
IsInactive(sw) == sw.state = "staked" /\ ~ in_current /\ ~ in_next /\ sw.activation_epoch <= epoch
IsRequested(sw) ==
  sw.state = "withdrawing" /\ sw.withdraw_epoch <= epoch /\ sw.activation_epoch <= epoch
MayWithdraw(sw) == CanWithdrawEarly(sw) \/ IsInactive(sw) \/ IsRequested(sw)

Withdrawal(sw) ==
  CASE CanWithdrawEarly(sw) -> EarlyWithdrawal(sw)
    [] IsInactive(sw) -> InactiveWithdrawal(sw)
    [] IsRequested(sw) -> RequestedWithdrawal(sw)

\* withdraw_stake.
Withdraw(s) ==
  /\ MayWithdraw(stakes[s])
  /\ pool' = Withdrawal(stakes[s])
  /\ stakes' = [stakes EXCEPT ![s] = NoStake]
  /\ UpdateActiveSet(Withdrawal(stakes[s]))
  /\ UNCHANGED <<context, scheduled>>

\* split of a StakedWal; t is the new object.
Split(s, t, amount) ==
  /\ stakes[s] # NoStake /\ stakes[t] = NoStake
  /\ amount >= MinStake /\ stakes[s].principal - amount >= MinStake
  /\ stakes' = [stakes EXCEPT ![s].principal = @ - amount,
                              ![t] = [stakes[s] EXCEPT !.principal = amount]]
  /\ UNCHANGED <<context, pool, active_set, scheduled>>

\* join of two StakedWal objects with the same metadata; t is consumed.
Join(s, t) ==
  /\ s # t
  /\ stakes[s] # NoStake
  /\ [stakes[s] EXCEPT !.principal = 0] = [stakes[t] EXCEPT !.principal = 0]
  /\ stakes' = [stakes EXCEPT ![s].principal = @ + stakes[t].principal, ![t] = NoStake]
  /\ UNCHANGED <<context, pool, active_set, scheduled>>

-----------------------------------------------------------------------------
(* Commission rates *)

\* set_next_commission.
SetNextCommission(rate) ==
  /\ pool' = [pool EXCEPT !.pending_commission_rate[epoch + 2] = rate]
  /\ scheduled' = [scheduled EXCEPT ![epoch + 2] = rate]
  /\ UNCHANGED <<context, stakes, active_set>>

ExactValueAt(values, e, default) == IF values[e] = Unset THEN default ELSE values[e]

\* latest_value_at.
LatestValueAt(values, e, default) ==
  LET known == {k \in Epochs : k <= e /\ values[k] # Unset} IN
  IF known = {} THEN default ELSE values[Max(known)]

-----------------------------------------------------------------------------
(* Epochs *)

\* voting_end: only a node in the active set is selected.  With AlwaysSelected, the node has
\* found its way back into the set by then, and has enough stake in it for a shard.
SelectCommittee(member) ==
  /\ ~ selected
  /\ member => active_stake > 0
  /\ AlwaysSelected /\ BalanceAt(pool, VoteEpoch) > 0 => member
  /\ selected' = TRUE
  /\ in_next' = member
  /\ UNCHANGED <<epoch, in_current, pool, stakes, active_set, scheduled>>

\* advance_epoch of the pool up to process_pending_stake; commission is paid from the rewards.
WithRewards(rewards) ==
  LET earned == rewards - (rewards * pool.commission_rate) \div BasisPoints IN
  [pool EXCEPT
     !.commission_rate = LatestValueAt(pool.pending_commission_rate, epoch + 1, @),
     !.pending_commission_rate =
        [e \in Epochs |-> IF e <= epoch + 1 THEN Unset ELSE @[e]],
     !.rewards_pool = @ + earned,
     !.wal_balance = @ + earned]

\* process_pending_stake in epoch e; the balance is that of wal_balance_at_epoch.
ProcessPending(p, e) ==
  [p EXCEPT
     !.exchange_rates[e] = CurrentRate(p),
     !.wal_balance = BalanceAt(p, e),
     !.num_shares = ToShares(CurrentRate(p), BalanceAt(p, e)),
     !.pending_stake = Flush(@, e),
     !.pre_active_withdrawals = Flush(@, e),
     !.pending_shares_withdraw = Flush(@, e)]

\* The assertions of advance_epoch and what it calls, for the epoch change to epoch + 1.
AdvanceSucceeds(rewards) ==
  LET p == WithRewards(rewards) IN
  /\ rewards = 0 \/ pool.wal_balance > 0
  /\ RateIsValid(p.wal_balance, p.num_shares)
  /\ pool.exchange_rates[epoch + 1] = NoRate
  /\ BalanceAt(p, epoch + 1) >= 0
  /\ BalanceIsValid(ProcessPending(p, epoch + 1), epoch + 2)

Advanced(rewards) == ProcessPending(WithRewards(rewards), epoch + 1)

NextEpoch ==
  /\ selected /\ epoch < MaxEpoch
  /\ epoch' = epoch + 1
  /\ selected' = FALSE
  /\ in_current' = in_next
  /\ in_next' = FALSE
  /\ UNCHANGED <<stakes, scheduled>>

\* Epoch change for a node of the ending committee, or one that joins.
AdvanceEpoch(rewards) ==
  /\ in_current \/ (in_next /\ rewards = 0)
  /\ AdvanceSucceeds(rewards)
  /\ pool' = Advanced(rewards)
  /\ InsertOrUpdate(BalanceAt(Advanced(rewards), epoch + 2))
  /\ NextEpoch

\* Epoch change for any other node: its pool is left alone.
SkipEpoch ==
  /\ ~ in_current /\ ~ in_next
  /\ NextEpoch
  /\ UNCHANGED <<pool, active_set>>

Next ==
  \/ \E s \in Stakes :
       \/ \E amount \in Amounts : Stake(s, amount)
       \/ RequestPreActive(s) \/ RequestActive(s) \/ Withdraw(s)
       \/ \E t \in Stakes : (\E amount \in Amounts : Split(s, t, amount)) \/ Join(s, t)
  \/ TryJoinActiveSet \/ Evicted
  \/ \E rate \in CommissionRates : SetNextCommission(rate)
  \/ \E member \in BOOLEAN : SelectCommittee(member)
  \/ \E rewards \in Rewards : AdvanceEpoch(rewards)
  \/ SkipEpoch

Spec == Init /\ [][Next]_vars

-----------------------------------------------------------------------------
(* Properties *)

PoolType(p) ==
  /\ {p.wal_balance, p.num_shares, p.rewards_pool} \subseteq Nat
  /\ \A values \in {p.pending_stake, p.pending_shares_withdraw, p.pre_active_withdrawals} :
       values \in [Epochs -> Nat]
  /\ p.commission_rate \in 0 .. BasisPoints
  /\ p.pending_commission_rate \in [Epochs -> 0 .. BasisPoints \cup {Unset}]
  /\ p.exchange_rates \in [Epochs -> [wal : Nat, shares : Nat]]

TypeOK ==
  /\ epoch \in 0 .. MaxEpoch
  /\ {selected, in_current, in_next} \subseteq BOOLEAN
  /\ PoolType(pool)
  /\ stakes \in [Stakes -> [state : {"none", "staked", "withdrawing"}, principal : Nat,
                            activation_epoch : Epochs, withdraw_epoch : Epochs]]
  /\ active_stake \in Nat /\ dropped \in BOOLEAN
  /\ scheduled \in [Epochs -> 0 .. BasisPoints \cup {Unset}]

\* Once the next committee is selected the epoch can change, whatever the node has earned:
\* none of the assertions and subtractions of advance_epoch, process_pending_stake and
\* wal_balance_at_epoch fails for a pool that the epoch change brings up to date.  It would
\* abort the epoch change of the whole system.
EpochChangeNotBlocked ==
  selected /\ (in_current \/ in_next) =>
    \A rewards \in Rewards : in_current \/ rewards = 0 => AdvanceSucceeds(rewards)

\* A stake that may be withdrawn can be: withdraw_stake is not aborted by a subtraction in
\* wal_balance_at_epoch, which only updates the active set.  It does not hold for a node
\* that leaves the committee, whose shares may be rounded to more than those of the pool.
WithdrawalNotBlocked ==
  \A s \in Stakes : MayWithdraw(stakes[s]) => BalanceIsValid(Withdrawal(stakes[s]), VoteEpoch)

\* The stake that the active set has for the node, and that selects committees, is the
\* balance of its pool for the epoch of the next vote, although the active set is not
\* updated when the committee is selected, nor by the epoch changes that leave a pool alone.
\* A node with a balance is missing only if it was refused or replaced because the set was
\* full, and was not inserted again since.
ActiveSetIsCurrent ==
  active_stake =
    IF dropped THEN 0 ELSE BalanceAt(pool, IF selected THEN epoch + 2 ELSE epoch + 1)

Announced == {e \in 0 .. epoch : scheduled[e] # Unset}

\* A node in the committee takes the commission that it announced last for this epoch or an
\* earlier one, even if its pool was not updated in the epoch that it was announced for.
CommissionAsAnnounced ==
  in_current => pool.commission_rate = IF Announced = {} THEN 0 ELSE scheduled[Max(Announced)]
=============================================================================
