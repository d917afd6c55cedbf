-------------------------- MODULE StakingPoolProofs --------------------------
(***************************************************************************)
(* Proofs about one staking pool, for every finite set of stakes, all      *)
(* amounts, rewards and rates and any number of epochs.                    *)
(*                                                                         *)
(* The active set: nothing is ever pending for an epoch after that of the  *)
(* next vote, so the balance does not change when the vote moves to the    *)
(* next epoch, and an epoch change that leaves the pool alone leaves the   *)
(* epoch of the next vote alone, too.  What the balance is plays no part.  *)
(*                                                                         *)
(* Commission: there is an epoch up to which the pool is updated.  It has  *)
(* the rate last announced for that epoch, and the announcements for later *)
(* epochs, and only these, are still pending.                              *)
(*                                                                         *)
(* Epoch changes: the pool has a share for every share that its stakers    *)
(* own or withdraw.  Rounding only leaves shares over: stakes of the same  *)
(* activation epoch together own no less than each for itself, and stake   *)
(* that enters or leaves adds and takes no more than its part.  So no more *)
(* shares are ever withdrawn than there are, and their value is not more   *)
(* than the balance.  This needs that a pool with stake is brought up to   *)
(* date in every epoch, and so that the node is always selected.           *)
(***************************************************************************)
EXTENDS StakingPool, FiniteSetTheorems, WellFoundedInduction, TLAPS

Fields == {"activation_epoch", "wal_balance", "num_shares", "pending_stake",
           "pending_shares_withdraw", "pre_active_withdrawals", "rewards_pool",
           "commission_rate", "pending_commission_rate", "exchange_rates"}

Rates == 0 .. BasisPoints \cup {Unset}

(* The pool has all of its fields, and the pending values have an entry    *)
(* for every epoch.  Amounts are not typed here.                           *)
PoolShape(p) ==
  /\ p = [f \in Fields |-> p[f]]
  /\ DOMAIN p.pending_stake = Epochs
  /\ DOMAIN p.pending_shares_withdraw = Epochs
  /\ DOMAIN p.pre_active_withdrawals = Epochs
  /\ p.pending_commission_rate \in [Epochs -> Rates]

StakeRecords ==
  [state : {"none", "staked", "withdrawing"}, principal : Nat,
   activation_epoch : Epochs, withdraw_epoch : Epochs]

ShapeInv ==
  /\ epoch \in 0 .. MaxEpoch
  /\ selected \in BOOLEAN /\ in_current \in BOOLEAN /\ in_next \in BOOLEAN
  /\ in_next => selected
  /\ PoolShape(pool)
  /\ stakes \in [Stakes -> StakeRecords]
  /\ scheduled \in [Epochs -> Rates]

(* Nothing is pending after the epoch of the next vote.                    *)
NothingAfter(p, e) ==
  \A k \in Epochs : k > e =>
    /\ p.pending_stake[k] = 0
    /\ p.pending_shares_withdraw[k] = 0
    /\ p.pre_active_withdrawals[k] = 0

(* No stake becomes active after the epoch of the next vote.               *)
StakesByVote == \A s \in Stakes : stakes[s].activation_epoch <= VoteEpoch

(* The pool is updated up to epoch u.                                      *)
UpdatedTo(u) ==
  /\ in_current => u = epoch
  /\ \A e \in Epochs :
       pool.pending_commission_rate[e] = IF e <= u THEN Unset ELSE scheduled[e]
  /\ pool.commission_rate = LatestValueAt(scheduled, u, 0)

Inv ==
  /\ ShapeInv
  /\ NothingAfter(pool, VoteEpoch)
  /\ StakesByVote
  /\ ActiveSetIsCurrent
  /\ \E u \in -1 .. epoch : UpdatedTo(u)

USE AmountsAssumption, RatesAssumption, EpochAssumption

-----------------------------------------------------------------------------
(* Pending values.                                                         *)

(* A set of epochs that is not empty has a last one.                       *)
LEMMA LastEpoch ==
  ASSUME NEW S \in SUBSET Epochs, S # {}
  PROVE  \E m \in S : \A k \in S : m >= k
<1> DEFINE Less == {p \in Nat \X Nat : p[1] < p[2]}
           T == {n \in Nat : \E k \in S : n = MaxEpoch + 2 - k}
<1>1. IsWellFoundedOn(Less, Nat)
  BY NatLessThanWellFounded DEF OpToRel
<1>2. T \in SUBSET Nat /\ T # {}
  <2>1. PICK k \in S : TRUE
    OBVIOUS
  <2>2. MaxEpoch + 2 - k \in Nat
    BY DEF Epochs
  <2> QED BY <2>1, <2>2
<1>3. PICK n \in T : \A j \in T : <<j, n>> \notin Less
  <2> HIDE DEF T, Less
  <2> QED BY <1>1, <1>2, WFMin
<1>4. PICK m \in S : n = MaxEpoch + 2 - m
  OBVIOUS
<1>5. ASSUME NEW k \in S PROVE m >= k
  <2>1. MaxEpoch + 2 - k \in T
    BY DEF Epochs
  <2>2. ~ (MaxEpoch + 2 - k < n)
    BY <1>3, <2>1
  <2> QED BY <1>4, <2>2 DEF Epochs
<1> QED BY <1>5

(* Max is the last of them.                                                *)
LEMMA MaxIsLast ==
  ASSUME NEW S \in SUBSET Epochs, NEW m \in S, \A k \in S : m >= k
  PROVE  Max(S) = m
<1>1. Max(S) \in S /\ \A k \in S : Max(S) >= k
  BY DEF Max
<1>2. m \in Int /\ Max(S) \in Int
  <2> HIDE DEF Max
  <2>1. S \subseteq Int
    BY DEF Epochs
  <2> QED BY <1>1, <2>1
<1>3. m >= Max(S) /\ Max(S) >= m
  BY <1>1
<1> HIDE DEF Max
<1> QED BY <1>2, <1>3

(* The value for epoch e is that of the announcements that are not applied *)
(* yet, with the one that was applied last as the default.                 *)
LEMMA CatchUp ==
  ASSUME NEW all \in [Epochs -> Rates], NEW pending \in [Epochs -> Rates], NEW default,
         NEW u \in Int, NEW e \in Int, u <= e,
         \A k \in Epochs : pending[k] = IF k <= u THEN Unset ELSE all[k]
  PROVE  LatestValueAt(pending, e, LatestValueAt(all, u, default)) = LatestValueAt(all, e, default)
<1> DEFINE New == {k \in Epochs : k <= e /\ pending[k] # Unset}
           Old == {k \in Epochs : k <= u /\ all[k] # Unset}
           Known == {k \in Epochs : k <= e /\ all[k] # Unset}
<1>1. \A k \in Epochs : k \in Int
  BY DEF Epochs
<1>2. CASE New = {}
  <2>1. Known = Old
    BY <1>1, <1>2
  <2> QED BY <1>2, <2>1 DEF LatestValueAt
<1>3. CASE New # {}
  <2>1. New \in SUBSET Epochs /\ Known \in SUBSET Epochs
    OBVIOUS
  <2>2. PICK m \in New : \A k \in New : m >= k
    <3> HIDE DEF New
    <3> QED BY <1>3, <2>1, LastEpoch
  <2>3. m > u /\ m \in Known /\ pending[m] = all[m]
    BY <1>1
  <2>4. ASSUME NEW k \in Known PROVE m >= k
    <3>1. CASE k <= u
      BY <1>1, <2>3, <3>1
    <3>2. CASE ~ (k <= u)
      <4>1. k \in New
        BY <3>2
      <4> QED BY <2>2, <4>1
    <3> QED BY <3>1, <3>2
  <2>5. Max(New) = m
    <3> HIDE DEF New
    <3> QED BY <2>1, <2>2, MaxIsLast
  <2>6. Max(Known) = m
    <3> HIDE DEF Known
    <3> QED BY <2>1, <2>3, <2>4, MaxIsLast
  <2>7. LatestValueAt(pending, e, LatestValueAt(all, u, default)) = pending[Max(New)]
    BY <1>3 DEF LatestValueAt
  <2>8. LatestValueAt(all, e, default) = all[Max(Known)]
    BY <2>3 DEF LatestValueAt
  <2> QED BY <2>3, <2>5, <2>6, <2>7, <2>8
<1> QED BY <1>2, <1>3

-----------------------------------------------------------------------------
(* The balance.                                                            *)

(* The exchange rate depends on what is recorded only.                     *)
LEMMA SameRates ==
  ASSUME NEW p, NEW q, p.activation_epoch = q.activation_epoch, p.exchange_rates = q.exchange_rates
  PROVE  \A e : RateAt(p, e) = RateAt(q, e)
BY DEF RateAt

(* Operations on other parts of the pool do not change the balance.        *)
LEMMA SameBalance ==
  ASSUME NEW p, NEW q, NEW e,
         p.activation_epoch = q.activation_epoch, p.exchange_rates = q.exchange_rates,
         p.wal_balance = q.wal_balance, p.num_shares = q.num_shares,
         p.pending_stake = q.pending_stake,
         p.pending_shares_withdraw = q.pending_shares_withdraw,
         p.pre_active_withdrawals = q.pre_active_withdrawals
  PROVE  BalanceAt(p, e) = BalanceAt(q, e)
<1>1. \A k : RateAt(p, k) = RateAt(q, k)
  BY SameRates
<1>2. PreActiveShares(p, e) = PreActiveShares(q, e)
  <2> DEFINE T == {k \in 1 .. e : q.pre_active_withdrawals[k] > 0}
  <2>1. [k \in T |-> ToShares(RateAt(p, k - 1), q.pre_active_withdrawals[k])]
        = [k \in T |-> ToShares(RateAt(q, k - 1), q.pre_active_withdrawals[k])]
    BY <1>1
  <2> QED BY <2>1, Zenon DEF PreActiveShares
<1>3. CurrentRate(p) = CurrentRate(q)
  BY DEF CurrentRate
<1>4. SharesWithdrawn(p, e) = SharesWithdrawn(q, e)
  BY <1>2 DEF SharesWithdrawn
<1> QED BY <1>3, <1>4 DEF BalanceAt

(* If nothing is pending after epoch e, the balance is the same one epoch  *)
(* later.                                                                  *)
LEMMA BalanceStays ==
  ASSUME NEW p, NEW e \in Nat, e + 1 \in Epochs, NothingAfter(p, e)
  PROVE  BalanceAt(p, e + 1) = BalanceAt(p, e)
<1>1. \A k \in Epochs : k \in Nat
  BY DEF Epochs
<1>2. /\ p.pending_stake[e + 1] = 0
      /\ p.pending_shares_withdraw[e + 1] = 0
      /\ p.pre_active_withdrawals[e + 1] = 0
  BY DEF NothingAfter
<1>3. ASSUME NEW values, values[e + 1] = 0
      PROVE  ValueAt(values, e + 1) = ValueAt(values, e)
  <2>1. {k \in Epochs : k <= e + 1 /\ values[k] > 0} = {k \in Epochs : k <= e /\ values[k] > 0}
    BY <1>1, <1>3
  <2> QED BY <2>1, Zenon DEF ValueAt
<1>4. PreActiveShares(p, e + 1) = PreActiveShares(p, e)
  <2>1. {k \in 1 .. e + 1 : p.pre_active_withdrawals[k] > 0}
        = {k \in 1 .. e : p.pre_active_withdrawals[k] > 0}
    BY <1>2
  <2> QED BY <2>1, Zenon DEF PreActiveShares
<1>5. ValueAt(p.pending_stake, e + 1) = ValueAt(p.pending_stake, e)
  BY <1>2, <1>3
<1>6. ValueAt(p.pending_shares_withdraw, e + 1) = ValueAt(p.pending_shares_withdraw, e)
  BY <1>2, <1>3
<1> QED BY <1>4, <1>5, <1>6 DEF BalanceAt, SharesWithdrawn

(* A sum over nothing is 0.                                                *)
LEMMA EmptySum ==
  ASSUME NEW f, DOMAIN f = {}
  PROVE  SumFunction(f) = 0
<1> DEFINE Pick(s) == CHOOSE x \in s : TRUE
           Step(g, s) == IF s = {} THEN 0 ELSE f[Pick(s)] + g[s \ {Pick(s)}]
           iter == CHOOSE g : g = [s \in SUBSET DOMAIN f |-> Step(g, s)]
<1>1. SumFunction(f) = iter[DOMAIN f]
  BY Zenon DEF SumFunction, SumFunctionOnSet, FoldFunctionOnSet, MapThenFoldSet
<1>2. \A s \in SUBSET DOMAIN f : s = {}
  OBVIOUS
<1>3. \E g : g = [s \in SUBSET DOMAIN f |-> Step(g, s)]
  <2>1. [s \in SUBSET DOMAIN f |-> 0] = [s \in SUBSET DOMAIN f |-> Step([t \in SUBSET DOMAIN f |-> 0], s)]
    BY <1>2
  <2> QED BY <2>1
<1>4. iter = [s \in SUBSET DOMAIN f |-> Step(iter, s)]
  <2> HIDE DEF Step
  <2> QED BY <1>3
<1>5. iter[{}] = Step(iter, {})
  <2> HIDE DEF iter, Step
  <2> QED BY <1>4
<1> HIDE DEF iter
<1> QED BY <1>1, <1>5

(* A new pool is empty.                                                    *)
LEMMA NewPoolIsEmpty ==
  ASSUME NEW activation, NEW e \in Epochs
  PROVE  BalanceAt(NewPool(activation), e) = 0
<1> DEFINE p == NewPool(activation)
<1>1. /\ p.wal_balance = 0 /\ p.num_shares = 0
      /\ p.pending_stake = Nothing
      /\ p.pending_shares_withdraw = Nothing
      /\ p.pre_active_withdrawals = Nothing
  BY DEF NewPool
<1> HIDE DEF p
<1>2. ValueAt(Nothing, e) = 0
  <2>1. {k \in Epochs : k <= e /\ Nothing[k] > 0} = {}
    BY DEF Nothing
  <2> QED BY <2>1, EmptySum DEF ValueAt
<1>3. PreActiveShares(p, e) = 0
  <2> DEFINE T == {k \in 1 .. e : p.pre_active_withdrawals[k] > 0}
  <2>1. T = {}
    BY <1>1 DEF Nothing, Epochs
  <2> HIDE DEF T
  <2> QED BY <2>1, EmptySum DEF PreActiveShares, T
<1>4. CurrentRate(p) = Flat
  BY <1>1 DEF CurrentRate, NewRate
<1>5. ToWal(Flat, 0) = 0
  BY DEF ToWal, Flat
<1> QED BY <1>1, <1>2, <1>3, <1>4, <1>5 DEF BalanceAt, SharesWithdrawn, p

-----------------------------------------------------------------------------
(* Operations of stakers.                                                  *)

(* A pool that differs from pool in what is pending up to the next vote,   *)
(* and in what is paid out, only.                                          *)
StakerChange(p) ==
  /\ PoolShape(p)
  /\ NothingAfter(p, VoteEpoch)
  /\ p.commission_rate = pool.commission_rate
  /\ p.pending_commission_rate = pool.pending_commission_rate

(* After the update, the entry of the node is current.                     *)
LEMMA EntryIsCurrent ==
  ASSUME NEW stake, InsertOrUpdate(stake)
  PROVE  active_stake' = IF dropped' THEN 0 ELSE stake
BY DEF InsertOrUpdate

(* The invariant after an operation that makes such a change.              *)
LEMMA StakerStep ==
  ASSUME Inv, NEW p, StakerChange(p), pool' = p, UpdateActiveSet(p),
         UNCHANGED <<context, scheduled>>,
         stakes' \in [Stakes -> StakeRecords],
         \A s \in Stakes : stakes'[s].activation_epoch <= VoteEpoch
  PROVE  Inv'
<1>1. ShapeInv'
  BY DEF Inv, ShapeInv, StakerChange, context
<1>2. VoteEpoch' = VoteEpoch
  BY DEF VoteEpoch, context
<1>3. NothingAfter(pool, VoteEpoch)'
  BY <1>2 DEF StakerChange, NothingAfter
<1>4. StakesByVote'
  BY <1>2 DEF StakesByVote
<1>5. ActiveSetIsCurrent'
  <2>1. active_stake' = IF dropped' THEN 0 ELSE BalanceAt(p, VoteEpoch)
    BY EntryIsCurrent DEF UpdateActiveSet
  <2> QED BY <2>1 DEF ActiveSetIsCurrent, VoteEpoch, context
<1>6. (\E u \in -1 .. epoch : UpdatedTo(u))'
  BY DEF Inv, UpdatedTo, StakerChange, context
<1> QED BY <1>1, <1>3, <1>4, <1>5, <1>6 DEF Inv

(* A change of one pending entry up to the next vote.                      *)
LEMMA ChangeStake ==
  ASSUME Inv, NEW k \in Epochs, k <= VoteEpoch, NEW v
  PROVE  StakerChange([pool EXCEPT !.pending_stake[k] = v])
<1>1. VoteEpoch \in Int /\ Epochs \subseteq Int
  BY DEF Inv, ShapeInv, VoteEpoch, Epochs
<1> QED BY <1>1 DEF Inv, ShapeInv, PoolShape, NothingAfter, StakerChange, Fields

LEMMA ChangeShares ==
  ASSUME Inv, NEW k \in Epochs, k <= VoteEpoch, NEW v
  PROVE  StakerChange([pool EXCEPT !.pending_shares_withdraw[k] = v])
<1>1. VoteEpoch \in Int /\ Epochs \subseteq Int
  BY DEF Inv, ShapeInv, VoteEpoch, Epochs
<1> QED BY <1>1 DEF Inv, ShapeInv, PoolShape, NothingAfter, StakerChange, Fields

LEMMA ChangePreActive ==
  ASSUME Inv, NEW k \in Epochs, k <= VoteEpoch, NEW v
  PROVE  StakerChange([pool EXCEPT !.pre_active_withdrawals[k] = v])
<1>1. VoteEpoch \in Int /\ Epochs \subseteq Int
  BY DEF Inv, ShapeInv, VoteEpoch, Epochs
<1> QED BY <1>1 DEF Inv, ShapeInv, PoolShape, NothingAfter, StakerChange, Fields

(* Paying out leaves what is pending alone.                                *)
LEMMA PayingOut ==
  ASSUME NEW p, StakerChange(p), NEW rewards
  PROVE  StakerChange(PayRewards(p, rewards))
<1> DEFINE v == p.rewards_pool - Min({rewards, p.rewards_pool})
<1>1. PayRewards(p, rewards) = [p EXCEPT !.rewards_pool = v]
  BY DEF PayRewards
<1> HIDE DEF v
<1> QED BY <1>1 DEF StakerChange, PoolShape, NothingAfter, Fields

(* The epochs that operations are about.                                   *)
LEMMA EpochFacts ==
  ASSUME ShapeInv
  PROVE  /\ epoch \in Nat /\ epoch \in Epochs /\ epoch + 1 \in Epochs /\ epoch + 2 \in Epochs
         /\ VoteEpoch \in Epochs /\ VoteEpoch \in {epoch + 1, epoch + 2}
         /\ selected => VoteEpoch = epoch + 2
         /\ ActivationEpoch = VoteEpoch
BY DEF ShapeInv, VoteEpoch, ActivationEpoch, Epochs

(* Staking: the stake is pending for the epoch of the next vote.           *)
LEMMA StakeInv ==
  ASSUME Inv, NEW s \in Stakes, NEW amount \in Amounts, Stake(s, amount)
  PROVE  Inv'
<1> DEFINE p == [pool EXCEPT !.pending_stake[ActivationEpoch] = @ + amount]
<1>1. ShapeInv /\ StakesByVote
  BY DEF Inv
<1>2. ActivationEpoch \in Epochs /\ ActivationEpoch <= VoteEpoch
  BY <1>1, EpochFacts DEF Epochs
<1>3. StakerChange(p)
  BY <1>2, ChangeStake
<1>4. /\ pool' = p /\ UpdateActiveSet(p) /\ UNCHANGED <<context, scheduled>>
      /\ stakes' = [stakes EXCEPT ![s] = [state |-> "staked", principal |-> amount,
                      activation_epoch |-> ActivationEpoch, withdraw_epoch |-> 0]]
  BY DEF Stake
<1> HIDE DEF p
<1>5. stakes \in [Stakes -> StakeRecords] /\ 0 \in Epochs /\ amount \in Nat
  BY <1>1 DEF ShapeInv, Epochs
<1>6. [state |-> "staked", principal |-> amount,
       activation_epoch |-> ActivationEpoch, withdraw_epoch |-> 0] \in StakeRecords
  BY <1>2, <1>5 DEF StakeRecords
<1>7. stakes' \in [Stakes -> StakeRecords]
  BY <1>4, <1>5, <1>6
<1>8. \A t \in Stakes : stakes'[t].activation_epoch <= VoteEpoch
  BY <1>1, <1>2, <1>4, <1>5 DEF StakesByVote
<1> QED BY <1>3, <1>4, <1>7, <1>8, StakerStep

(* A stake that is marked as withdrawing keeps its activation epoch.       *)
LEMMA Withdrawing ==
  ASSUME Inv, NEW s \in Stakes, NEW e \in Epochs, SetWithdrawing(s, e)
  PROVE  /\ stakes' \in [Stakes -> StakeRecords]
         /\ \A t \in Stakes : stakes'[t].activation_epoch <= VoteEpoch
<1>1. stakes \in [Stakes -> StakeRecords] /\ StakesByVote
  BY DEF Inv, ShapeInv
<1> DEFINE sw == [stakes[s] EXCEPT !.state = "withdrawing", !.withdraw_epoch = e]
<1>2. stakes' = [stakes EXCEPT ![s] = sw]
  BY <1>1 DEF SetWithdrawing
<1>3. stakes[s] \in StakeRecords
  BY <1>1
<1>4. sw \in StakeRecords /\ sw.activation_epoch = stakes[s].activation_epoch
  BY <1>3 DEF StakeRecords
<1> HIDE DEF sw
<1> QED BY <1>1, <1>2, <1>4 DEF StakesByVote

(* Requests to withdraw: in the epoch after the next one only if the next  *)
(* committee is selected.                                                  *)
LEMMA RequestPreActiveInv ==
  ASSUME Inv, NEW s \in Stakes, RequestPreActive(s)
  PROVE  Inv'
<1> DEFINE p == [pool EXCEPT !.pre_active_withdrawals[epoch + 2] = @ + stakes[s].principal]
<1>1. ShapeInv
  BY DEF Inv
<1>2. in_next
  BY DEF RequestPreActive, CanWithdrawEarly
<1>3. epoch + 2 \in Epochs /\ epoch + 2 <= VoteEpoch
  BY <1>1, <1>2, EpochFacts DEF ShapeInv
<1>4. StakerChange(p)
  BY <1>3, ChangePreActive
<1>5. pool' = p /\ UpdateActiveSet(p) /\ UNCHANGED <<context, scheduled>> /\ SetWithdrawing(s, epoch + 2)
  BY DEF RequestPreActive
<1> HIDE DEF p
<1>6. /\ stakes' \in [Stakes -> StakeRecords]
      /\ \A t \in Stakes : stakes'[t].activation_epoch <= VoteEpoch
  BY <1>3, <1>5, Withdrawing
<1> QED BY <1>4, <1>5, <1>6, StakerStep

LEMMA RequestActiveInv ==
  ASSUME Inv, NEW s \in Stakes, RequestActive(s)
  PROVE  Inv'
<1> DEFINE p == [pool EXCEPT !.pending_shares_withdraw[WithdrawEpoch] = @ + SharesOf(stakes[s])]
<1>1. ShapeInv
  BY DEF Inv
<1>2. WithdrawEpoch \in Epochs /\ WithdrawEpoch <= VoteEpoch
  BY <1>1, EpochFacts DEF ShapeInv, WithdrawEpoch
<1>3. StakerChange(p)
  BY <1>2, ChangeShares
<1>4. pool' = p /\ UpdateActiveSet(p) /\ UNCHANGED <<context, scheduled>> /\ SetWithdrawing(s, WithdrawEpoch)
  BY DEF RequestActive
<1> HIDE DEF p
<1>5. /\ stakes' \in [Stakes -> StakeRecords]
      /\ \A t \in Stakes : stakes'[t].activation_epoch <= VoteEpoch
  BY <1>2, <1>4, Withdrawing
<1> QED BY <1>3, <1>4, <1>5, StakerStep

(* An object that is gone.                                                 *)
LEMMA NoStakeFacts == NoStake \in StakeRecords /\ NoStake.activation_epoch = 0
BY DEF NoStake, StakeRecords, Epochs

(* The three kinds of withdrawal.                                          *)
LEMMA WithdrawInv ==
  ASSUME Inv, NEW s \in Stakes, Withdraw(s)
  PROVE  Inv'
<1> DEFINE sw == stakes[s]
<1>1. ShapeInv /\ StakesByVote
  BY DEF Inv
<1>2. sw \in StakeRecords /\ sw.activation_epoch \in Epochs /\ sw.activation_epoch <= VoteEpoch
  BY <1>1 DEF ShapeInv, StakeRecords, StakesByVote
<1>3. epoch \in Epochs /\ epoch <= VoteEpoch /\ epoch \in Int
  BY <1>1, EpochFacts
<1>4. StakerChange(EarlyWithdrawal(sw))
  BY <1>2, ChangeStake DEF EarlyWithdrawal
<1>5. StakerChange(InactiveWithdrawal(sw))
  BY <1>3, ChangeShares, PayingOut DEF InactiveWithdrawal
<1>6. StakerChange(RequestedWithdrawal(sw))
  <2>1. StakerChange(pool)
    BY DEF Inv, ShapeInv, StakerChange
  <2> QED BY <2>1, PayingOut DEF RequestedWithdrawal
<1>7. /\ CanWithdrawEarly(sw) => ~ IsInactive(sw) /\ ~ IsRequested(sw)
      /\ IsInactive(sw) => ~ IsRequested(sw)
  <2>1. sw.activation_epoch \in Int /\ epoch \in Int
    BY <1>2, <1>3 DEF Epochs
  <2> HIDE DEF sw
  <2> QED BY <2>1 DEF CanWithdrawEarly, IsInactive, IsRequested
<1>8. StakerChange(Withdrawal(sw))
  <2>1. MayWithdraw(sw)
    BY DEF Withdraw
  <2>2. CASE CanWithdrawEarly(sw)
    <3>1. Withdrawal(sw) = EarlyWithdrawal(sw)
      BY <1>7, <2>2, Zenon DEF Withdrawal
    <3> QED BY <1>4, <3>1
  <2>3. CASE IsInactive(sw)
    <3>1. Withdrawal(sw) = InactiveWithdrawal(sw)
      BY <1>7, <2>3, Zenon DEF Withdrawal
    <3> QED BY <1>5, <3>1
  <2>4. CASE IsRequested(sw)
    <3>1. Withdrawal(sw) = RequestedWithdrawal(sw)
      BY <1>7, <2>4, Zenon DEF Withdrawal
    <3> QED BY <1>6, <3>1
  <2> QED BY <2>1, <2>2, <2>3, <2>4 DEF MayWithdraw
<1>9. /\ pool' = Withdrawal(sw) /\ UpdateActiveSet(Withdrawal(sw)) /\ UNCHANGED <<context, scheduled>>
      /\ stakes' = [stakes EXCEPT ![s] = NoStake]
  BY DEF Withdraw
<1>10. stakes \in [Stakes -> StakeRecords] /\ 0 <= VoteEpoch
  BY <1>1, EpochFacts DEF ShapeInv
<1>11. stakes' \in [Stakes -> StakeRecords]
  BY <1>9, <1>10, NoStakeFacts
<1>12. \A t \in Stakes : stakes'[t].activation_epoch <= VoteEpoch
  BY <1>1, <1>9, <1>10, NoStakeFacts DEF StakesByVote
<1> HIDE DEF sw
<1> QED BY <1>8, <1>9, <1>11, <1>12, StakerStep

(* Joining the active set changes its entry for the node only.             *)
LEMMA TryJoinActiveSetInv ==
  ASSUME Inv, TryJoinActiveSet
  PROVE  Inv'
<1>1. StakerChange(pool)
  BY DEF Inv, ShapeInv, StakerChange
<1>2. UpdateActiveSet(pool) /\ UNCHANGED <<context, scheduled>> /\ pool' = pool /\ stakes' = stakes
  BY DEF TryJoinActiveSet
<1>3. stakes' \in [Stakes -> StakeRecords] /\ \A s \in Stakes : stakes'[s].activation_epoch <= VoteEpoch
  BY <1>2 DEF Inv, ShapeInv, StakesByVote
<1>4. PICK p : p = pool
  OBVIOUS
<1> QED BY <1>1, <1>2, <1>3, <1>4, StakerStep

(* So does its eviction.                                                   *)
LEMMA EvictedInv ==
  ASSUME Inv, Evicted
  PROVE  Inv'
<1>1. /\ UNCHANGED <<context, pool, stakes, scheduled>>
      /\ active_stake' = 0 /\ dropped' = TRUE
  BY DEF Evicted
<1>2. ShapeInv'
  BY <1>1 DEF Inv, ShapeInv, context
<1>3. VoteEpoch' = VoteEpoch
  BY <1>1 DEF VoteEpoch, context
<1>4. NothingAfter(pool, VoteEpoch)' /\ StakesByVote'
  BY <1>1, <1>3 DEF Inv, NothingAfter, StakesByVote
<1>5. ActiveSetIsCurrent'
  BY <1>1 DEF ActiveSetIsCurrent
<1>6. (\E u \in -1 .. epoch : UpdatedTo(u))'
  BY <1>1 DEF Inv, UpdatedTo, context
<1> QED BY <1>2, <1>4, <1>5, <1>6 DEF Inv

(* Splitting and joining leave everything but the stakes alone.            *)
LEMMA StakesStep ==
  ASSUME Inv, UNCHANGED <<context, pool, active_set, scheduled>>,
         stakes' \in [Stakes -> StakeRecords],
         \A s \in Stakes : stakes'[s].activation_epoch <= VoteEpoch
  PROVE  Inv'
<1>1. ShapeInv'
  BY DEF Inv, ShapeInv, context
<1>2. VoteEpoch' = VoteEpoch
  BY DEF VoteEpoch, context
<1>3. NothingAfter(pool, VoteEpoch)'
  BY <1>2 DEF Inv, NothingAfter
<1>4. StakesByVote'
  BY <1>2 DEF StakesByVote
<1>5. ActiveSetIsCurrent'
  BY DEF Inv, ActiveSetIsCurrent, context, active_set
<1>6. (\E u \in -1 .. epoch : UpdatedTo(u))'
  BY DEF Inv, UpdatedTo, context
<1> QED BY <1>1, <1>3, <1>4, <1>5, <1>6 DEF Inv

LEMMA SplitInv ==
  ASSUME Inv, NEW s \in Stakes, NEW t \in Stakes, NEW amount \in Amounts, Split(s, t, amount)
  PROVE  Inv'
<1>1. ShapeInv /\ StakesByVote
  BY DEF Inv
<1>2. stakes \in [Stakes -> StakeRecords] /\ amount \in Nat /\ MinStake \in Nat
  BY <1>1 DEF ShapeInv
<1>3. stakes[s] \in StakeRecords /\ stakes[s].principal \in Nat
  BY <1>2 DEF StakeRecords
<1> DEFINE rest == [stakes[s] EXCEPT !.principal = @ - amount]
           part == [stakes[s] EXCEPT !.principal = amount]
<1>4. stakes[s].principal - amount \in Nat
  BY <1>2, <1>3 DEF Split
<1>5. rest \in StakeRecords /\ rest.activation_epoch = stakes[s].activation_epoch
  BY <1>3, <1>4 DEF StakeRecords
<1>6. part \in StakeRecords /\ part.activation_epoch = stakes[s].activation_epoch
  BY <1>2, <1>3 DEF StakeRecords
<1>7. s # t
  BY DEF Split
<1>8. stakes' = [stakes EXCEPT ![s] = rest, ![t] = part]
  BY <1>2, <1>7 DEF Split
<1> HIDE DEF rest, part
<1>9. stakes' \in [Stakes -> StakeRecords]
  BY <1>2, <1>5, <1>6, <1>8
<1>10. \A x \in Stakes : stakes'[x].activation_epoch <= VoteEpoch
  BY <1>1, <1>2, <1>5, <1>6, <1>8 DEF StakesByVote
<1>11. UNCHANGED <<context, pool, active_set, scheduled>>
  BY DEF Split
<1> QED BY <1>9, <1>10, <1>11, StakesStep

LEMMA JoinInv ==
  ASSUME Inv, NEW s \in Stakes, NEW t \in Stakes, Join(s, t)
  PROVE  Inv'
<1>1. ShapeInv /\ StakesByVote
  BY DEF Inv
<1>2. stakes \in [Stakes -> StakeRecords] /\ 0 <= VoteEpoch
  BY <1>1, EpochFacts DEF ShapeInv
<1>3. stakes[s] \in StakeRecords /\ stakes[s].principal + stakes[t].principal \in Nat
  BY <1>2 DEF StakeRecords
<1> DEFINE sum == [stakes[s] EXCEPT !.principal = @ + stakes[t].principal]
<1>4. sum \in StakeRecords /\ sum.activation_epoch = stakes[s].activation_epoch
  BY <1>3 DEF StakeRecords
<1>5. s # t
  BY DEF Join
<1>6. stakes' = [stakes EXCEPT ![s] = sum, ![t] = NoStake]
  BY <1>2, <1>5 DEF Join
<1> HIDE DEF sum
<1>7. stakes' \in [Stakes -> StakeRecords]
  BY <1>2, <1>4, <1>6, NoStakeFacts
<1>8. \A x \in Stakes : stakes'[x].activation_epoch <= VoteEpoch
  BY <1>1, <1>2, <1>4, <1>6, NoStakeFacts DEF StakesByVote
<1>9. UNCHANGED <<context, pool, active_set, scheduled>>
  BY DEF Join
<1> QED BY <1>7, <1>8, <1>9, StakesStep

-----------------------------------------------------------------------------
(* Commission rates and epochs.                                            *)

(* A rate is announced for an epoch that the pool is not yet updated to.   *)
LEMMA SetNextCommissionInv ==
  ASSUME Inv, NEW rate \in CommissionRates, SetNextCommission(rate)
  PROVE  Inv'
<1> DEFINE e == epoch + 2
<1>1. ShapeInv
  BY DEF Inv
<1>2. epoch \in Nat /\ e \in Epochs /\ rate \in Rates
  BY <1>1, EpochFacts DEF Rates
<1>3. /\ pool' = [pool EXCEPT !.pending_commission_rate[e] = rate]
      /\ scheduled' = [scheduled EXCEPT ![e] = rate]
      /\ UNCHANGED <<context, stakes, active_set>>
  BY DEF SetNextCommission
<1>4. PoolShape(pool')
  BY <1>1, <1>2, <1>3 DEF ShapeInv, PoolShape, Fields
<1>5. /\ pool'.activation_epoch = pool.activation_epoch
      /\ pool'.exchange_rates = pool.exchange_rates
      /\ pool'.wal_balance = pool.wal_balance
      /\ pool'.num_shares = pool.num_shares
      /\ pool'.pending_stake = pool.pending_stake
      /\ pool'.pending_shares_withdraw = pool.pending_shares_withdraw
      /\ pool'.pre_active_withdrawals = pool.pre_active_withdrawals
      /\ pool'.commission_rate = pool.commission_rate
      /\ pool'.pending_commission_rate = [pool.pending_commission_rate EXCEPT ![e] = rate]
  BY <1>1, <1>3 DEF ShapeInv, PoolShape, Fields
<1>6. ShapeInv'
  BY <1>1, <1>2, <1>3, <1>4 DEF ShapeInv, context
<1>7. VoteEpoch' = VoteEpoch
  BY <1>3 DEF VoteEpoch, context
<1>8. NothingAfter(pool, VoteEpoch)'
  BY <1>5, <1>7 DEF Inv, NothingAfter
<1>9. StakesByVote'
  BY <1>3, <1>7 DEF Inv, StakesByVote
<1>10. ActiveSetIsCurrent'
  <2>1. \A k : BalanceAt(pool', k) = BalanceAt(pool, k)
    BY <1>5, SameBalance
  <2> QED BY <1>3, <2>1 DEF Inv, ActiveSetIsCurrent, context, active_set
<1>11. (\E u \in -1 .. epoch : UpdatedTo(u))'
  <2>1. PICK u \in -1 .. epoch : UpdatedTo(u)
    BY DEF Inv
  <2>2. u \in Int /\ u < e
    BY <1>2
  <2>3. scheduled \in [Epochs -> Rates] /\ pool.pending_commission_rate \in [Epochs -> Rates]
    BY <1>1 DEF ShapeInv, PoolShape
  <2>4. \A k \in Epochs : k <= u => scheduled'[k] = scheduled[k]
    BY <1>2, <1>3, <2>2, <2>3
  <2>5. LatestValueAt(scheduled', u, 0) = LatestValueAt(scheduled, u, 0)
    <3>1. {k \in Epochs : k <= u /\ scheduled'[k] # Unset} = {k \in Epochs : k <= u /\ scheduled[k] # Unset}
      BY <2>4
    <3> DEFINE known == {k \in Epochs : k <= u /\ scheduled[k] # Unset}
    <3>2. CASE known = {}
      BY <3>1, <3>2 DEF LatestValueAt
    <3>3. CASE known # {}
      <4>1. PICK m \in known : \A k \in known : m >= k
        <5>1. known \in SUBSET Epochs
          OBVIOUS
        <5> HIDE DEF known
        <5> QED BY <3>3, <5>1, LastEpoch
      <4>2. Max(known) = m
        <5>1. known \in SUBSET Epochs
          OBVIOUS
        <5> HIDE DEF known
        <5> QED BY <4>1, <5>1, MaxIsLast
      <4>3. scheduled'[m] = scheduled[m]
        BY <2>4
      <4> QED BY <3>1, <3>3, <4>2, <4>3 DEF LatestValueAt
    <3> QED BY <3>2, <3>3
  <2>6. \A k \in Epochs : pool'.pending_commission_rate[k] = IF k <= u THEN Unset ELSE scheduled'[k]
    BY <1>2, <1>3, <1>5, <2>1, <2>2, <2>3 DEF UpdatedTo, Epochs
  <2>7. UpdatedTo(u)'
    BY <1>3, <1>5, <2>1, <2>5, <2>6 DEF UpdatedTo, context
  <2>8. epoch' = epoch
    BY <1>3 DEF context
  <2> QED BY <2>7, <2>8
<1> QED BY <1>6, <1>8, <1>9, <1>10, <1>11 DEF Inv

(* When the next committee is selected, the vote moves to the next epoch.  *)
LEMMA SelectCommitteeInv ==
  ASSUME Inv, NEW member \in BOOLEAN, SelectCommittee(member)
  PROVE  Inv'
<1>1. ShapeInv
  BY DEF Inv
<1>2. /\ ~ selected /\ selected' = TRUE /\ in_next' = member
      /\ UNCHANGED <<epoch, in_current, pool, stakes, active_set, scheduled>>
  BY DEF SelectCommittee
<1>3. epoch \in Nat /\ epoch + 1 \in Epochs /\ epoch + 2 \in Epochs
  BY <1>1, EpochFacts
<1>4. VoteEpoch = epoch + 1 /\ VoteEpoch' = epoch + 2
  BY <1>2 DEF VoteEpoch
<1>5. NothingAfter(pool, epoch + 1) /\ StakesByVote
  BY <1>4 DEF Inv
<1>6. ShapeInv'
  BY <1>1, <1>2 DEF ShapeInv
<1>7. NothingAfter(pool, VoteEpoch)'
  BY <1>2, <1>3, <1>4, <1>5 DEF NothingAfter, Epochs
<1>8. StakesByVote'
  BY <1>1, <1>2, <1>3, <1>4, <1>5 DEF StakesByVote, ShapeInv, StakeRecords, Epochs
<1>9. ActiveSetIsCurrent'
  <2>1. BalanceAt(pool, (epoch + 1) + 1) = BalanceAt(pool, epoch + 1)
    <3>1. epoch + 1 \in Nat /\ (epoch + 1) + 1 \in Epochs
      BY <1>3
    <3> QED BY <1>5, <3>1, BalanceStays
  <2>2. (epoch + 1) + 1 = epoch + 2
    BY <1>3
  <2>3. active_stake = IF dropped THEN 0 ELSE BalanceAt(pool, epoch + 1)
    BY <1>2 DEF Inv, ActiveSetIsCurrent
  <2> QED BY <1>2, <2>1, <2>2, <2>3 DEF ActiveSetIsCurrent, active_set
<1>10. (\E u \in -1 .. epoch : UpdatedTo(u))'
  BY <1>2 DEF Inv, UpdatedTo
<1> QED BY <1>6, <1>7, <1>8, <1>9, <1>10 DEF Inv

(* An epoch change does not move the epoch of the next vote.               *)
LEMMA NextEpochFacts ==
  ASSUME Inv, NextEpoch
  PROVE  /\ selected /\ epoch' = epoch + 1 /\ epoch' \in 0 .. MaxEpoch /\ epoch \in Nat
         /\ VoteEpoch = epoch + 2 /\ VoteEpoch' = epoch + 2
         /\ stakes' = stakes /\ scheduled' = scheduled /\ selected' = FALSE
         /\ in_current' = in_next /\ in_current' \in BOOLEAN /\ in_next' = FALSE
         /\ StakesByVote'
<1>1. ShapeInv /\ StakesByVote
  BY DEF Inv
<1>2. /\ selected /\ epoch < MaxEpoch /\ epoch' = epoch + 1 /\ selected' = FALSE
      /\ in_current' = in_next /\ in_next' = FALSE /\ stakes' = stakes /\ scheduled' = scheduled
  BY DEF NextEpoch
<1>3. epoch \in Nat /\ epoch' \in 0 .. MaxEpoch
  BY <1>1, <1>2 DEF ShapeInv
<1>4. VoteEpoch = epoch + 2 /\ VoteEpoch' = epoch + 2
  BY <1>2, <1>3 DEF VoteEpoch
<1>5. StakesByVote'
  BY <1>1, <1>2, <1>4 DEF StakesByVote
<1> QED BY <1>1, <1>2, <1>3, <1>4, <1>5 DEF ShapeInv

(* The rewards and the commission rate.                                    *)
LEMMA WithRewardsFacts ==
  ASSUME ShapeInv, NEW rewards
  PROVE  /\ PoolShape(WithRewards(rewards))
         /\ WithRewards(rewards).pending_stake = pool.pending_stake
         /\ WithRewards(rewards).pending_shares_withdraw = pool.pending_shares_withdraw
         /\ WithRewards(rewards).pre_active_withdrawals = pool.pre_active_withdrawals
         /\ WithRewards(rewards).commission_rate =
              LatestValueAt(pool.pending_commission_rate, epoch + 1, pool.commission_rate)
         /\ WithRewards(rewards).pending_commission_rate =
              [e \in Epochs |-> IF e <= epoch + 1 THEN Unset ELSE pool.pending_commission_rate[e]]
<1> DEFINE earned == rewards - (rewards * pool.commission_rate) \div BasisPoints
           rate == LatestValueAt(pool.pending_commission_rate, epoch + 1, pool.commission_rate)
           pending == [e \in Epochs |-> IF e <= epoch + 1 THEN Unset
                                        ELSE pool.pending_commission_rate[e]]
           balance == pool.wal_balance + earned
           held == pool.rewards_pool + earned
<1>1. PoolShape(pool)
  BY DEF ShapeInv
<1>2. pool = [f \in Fields |-> pool[f]]
  BY <1>1 DEF PoolShape
<1>3. WithRewards(rewards) = [pool EXCEPT !.commission_rate = rate, !.pending_commission_rate = pending,
                                !.rewards_pool = held, !.wal_balance = balance]
  BY <1>2 DEF WithRewards, Fields
<1>4. pending \in [Epochs -> Rates]
  BY <1>1 DEF PoolShape, Rates
<1>5. pending = [e \in Epochs |-> IF e <= epoch + 1 THEN Unset ELSE pool.pending_commission_rate[e]]
  OBVIOUS
<1> HIDE DEF earned, rate, pending, balance, held
<1>6. /\ PoolShape(WithRewards(rewards))
      /\ WithRewards(rewards).pending_stake = pool.pending_stake
      /\ WithRewards(rewards).pending_shares_withdraw = pool.pending_shares_withdraw
      /\ WithRewards(rewards).pre_active_withdrawals = pool.pre_active_withdrawals
      /\ WithRewards(rewards).commission_rate = rate
      /\ WithRewards(rewards).pending_commission_rate = pending
  BY <1>1, <1>2, <1>3, <1>4 DEF PoolShape, Fields
<1> QED BY <1>5, <1>6 DEF rate

(* What is pending up to epoch e is processed.                             *)
LEMMA ProcessPendingFacts ==
  ASSUME NEW p, PoolShape(p), NEW e
  PROVE  /\ PoolShape(ProcessPending(p, e))
         /\ ProcessPending(p, e).pending_stake = Flush(p.pending_stake, e)
         /\ ProcessPending(p, e).pending_shares_withdraw = Flush(p.pending_shares_withdraw, e)
         /\ ProcessPending(p, e).pre_active_withdrawals = Flush(p.pre_active_withdrawals, e)
         /\ ProcessPending(p, e).commission_rate = p.commission_rate
         /\ ProcessPending(p, e).pending_commission_rate = p.pending_commission_rate
<1> DEFINE balance == BalanceAt(p, e)
           shares == ToShares(CurrentRate(p), balance)
           rate == CurrentRate(p)
           rates == [p.exchange_rates EXCEPT ![e] = rate]
<1>1. p = [f \in Fields |-> p[f]]
  BY DEF PoolShape
<1>2. ProcessPending(p, e) =
        [p EXCEPT !.exchange_rates = rates, !.wal_balance = balance, !.num_shares = shares,
           !.pending_stake = Flush(p.pending_stake, e),
           !.pre_active_withdrawals = Flush(p.pre_active_withdrawals, e),
           !.pending_shares_withdraw = Flush(p.pending_shares_withdraw, e)]
  BY <1>1 DEF ProcessPending, Fields
<1>3. \A values : DOMAIN Flush(values, e) = Epochs
  BY DEF Flush
<1> DEFINE q == ProcessPending(p, e)
           stake == Flush(p.pending_stake, e)
           pre_active == Flush(p.pre_active_withdrawals, e)
           withdraw == Flush(p.pending_shares_withdraw, e)
<1>4. q = [p EXCEPT !.exchange_rates = rates, !.wal_balance = balance, !.num_shares = shares,
             !.pending_stake = stake, !.pre_active_withdrawals = pre_active,
             !.pending_shares_withdraw = withdraw]
  BY <1>2
<1>5. DOMAIN stake = Epochs /\ DOMAIN pre_active = Epochs /\ DOMAIN withdraw = Epochs
  BY <1>3
<1> HIDE DEF rates, balance, shares, rate, q, stake, pre_active, withdraw
<1>6. /\ q.pending_stake = stake
      /\ q.pending_shares_withdraw = withdraw
      /\ q.pre_active_withdrawals = pre_active
      /\ q.commission_rate = p.commission_rate
      /\ q.pending_commission_rate = p.pending_commission_rate
  BY <1>1, <1>4 DEF Fields
<1>7. q = [f \in Fields |-> q[f]]
  BY <1>1, <1>4 DEF Fields
<1>8. PoolShape(q)
  BY <1>5, <1>6, <1>7 DEF PoolShape
<1> QED BY <1>6, <1>8 DEF q, stake, pre_active, withdraw

(* The epoch change of a pool that is brought up to date.                  *)
LEMMA AdvanceEpochInv ==
  ASSUME Inv, NEW rewards \in Rewards, AdvanceEpoch(rewards)
  PROVE  Inv'
<1> DEFINE w == WithRewards(rewards)
           p == Advanced(rewards)
<1>1. ShapeInv /\ NothingAfter(pool, VoteEpoch)
  BY DEF Inv
<1>2. pool' = p /\ InsertOrUpdate(BalanceAt(p, epoch + 2)) /\ NextEpoch
  BY DEF AdvanceEpoch
<1>3. /\ selected /\ epoch' = epoch + 1 /\ epoch' \in 0 .. MaxEpoch /\ epoch \in Nat
      /\ VoteEpoch = epoch + 2 /\ VoteEpoch' = epoch + 2
      /\ stakes' = stakes /\ scheduled' = scheduled /\ selected' = FALSE
      /\ in_current' = in_next /\ in_current' \in BOOLEAN /\ in_next' = FALSE
      /\ StakesByVote'
  BY <1>2, NextEpochFacts
<1>4. /\ PoolShape(w)
      /\ w.pending_stake = pool.pending_stake
      /\ w.pending_shares_withdraw = pool.pending_shares_withdraw
      /\ w.pre_active_withdrawals = pool.pre_active_withdrawals
      /\ w.commission_rate = LatestValueAt(pool.pending_commission_rate, epoch + 1, pool.commission_rate)
      /\ w.pending_commission_rate =
           [e \in Epochs |-> IF e <= epoch + 1 THEN Unset ELSE pool.pending_commission_rate[e]]
  BY <1>1, WithRewardsFacts
<1>5. p = ProcessPending(w, epoch + 1)
  BY DEF Advanced
<1> HIDE DEF w, p
<1>6. /\ PoolShape(p)
      /\ p.pending_stake = Flush(pool.pending_stake, epoch + 1)
      /\ p.pending_shares_withdraw = Flush(pool.pending_shares_withdraw, epoch + 1)
      /\ p.pre_active_withdrawals = Flush(pool.pre_active_withdrawals, epoch + 1)
      /\ p.commission_rate = w.commission_rate
      /\ p.pending_commission_rate = w.pending_commission_rate
  BY <1>4, <1>5, ProcessPendingFacts
<1>7. ShapeInv'
  BY <1>1, <1>2, <1>3, <1>6 DEF ShapeInv
<1>8. NothingAfter(pool, VoteEpoch)'
  <2>1. \A k \in Epochs : k > epoch + 2 =>
          /\ p.pending_stake[k] = 0
          /\ p.pending_shares_withdraw[k] = 0
          /\ p.pre_active_withdrawals[k] = 0
    BY <1>1, <1>3, <1>6 DEF NothingAfter, Flush, Epochs
  <2> QED BY <1>2, <1>3, <2>1 DEF NothingAfter
<1>9. ActiveSetIsCurrent'
  <2>1. epoch' + 1 = epoch + 2
    BY <1>3
  <2>2. active_stake' = IF dropped' THEN 0 ELSE BalanceAt(p, epoch + 2)
    BY <1>2, EntryIsCurrent
  <2> QED BY <1>2, <1>3, <2>1, <2>2 DEF ActiveSetIsCurrent
<1>10. PICK v \in Int : v = epoch + 1
  BY <1>3
<1>11. UpdatedTo(v)'
  <2>1. PICK u \in -1 .. epoch : UpdatedTo(u)
    BY DEF Inv
  <2>2. scheduled \in [Epochs -> Rates] /\ pool.pending_commission_rate \in [Epochs -> Rates]
    BY <1>1 DEF ShapeInv, PoolShape
  <2>3. u \in Int /\ u <= v
    BY <1>3, <1>10
  <2>4. /\ \A e \in Epochs : pool.pending_commission_rate[e] = IF e <= u THEN Unset ELSE scheduled[e]
        /\ pool.commission_rate = LatestValueAt(scheduled, u, 0)
    BY <2>1 DEF UpdatedTo
  <2>5. p.commission_rate = LatestValueAt(scheduled, v, 0)
    BY <1>4, <1>6, <1>10, <2>2, <2>3, <2>4, CatchUp
  <2>6. \A e \in Epochs : p.pending_commission_rate[e] = IF e <= v THEN Unset ELSE scheduled[e]
    BY <1>4, <1>6, <1>10, <2>2, <2>3, <2>4 DEF Epochs
  <2> QED BY <1>2, <1>3, <1>10, <2>5, <2>6 DEF UpdatedTo
<1>12. (\E u \in -1 .. epoch : UpdatedTo(u))'
  <2>1. v \in -1 .. epoch'
    BY <1>3, <1>10
  <2> QED BY <1>11, <2>1
<1> QED BY <1>3, <1>7, <1>8, <1>9, <1>12 DEF Inv

(* The epoch change of a pool that is left alone.                          *)
LEMMA SkipEpochInv ==
  ASSUME Inv, SkipEpoch
  PROVE  Inv'
<1>1. ShapeInv /\ NothingAfter(pool, VoteEpoch)
  BY DEF Inv
<1>2. ~ in_next /\ pool' = pool /\ active_stake' = active_stake /\ dropped' = dropped /\ NextEpoch
  BY DEF SkipEpoch, active_set
<1>3. /\ selected /\ epoch' = epoch + 1 /\ epoch' \in 0 .. MaxEpoch /\ epoch \in Nat
      /\ VoteEpoch = epoch + 2 /\ VoteEpoch' = epoch + 2
      /\ stakes' = stakes /\ scheduled' = scheduled /\ selected' = FALSE
      /\ in_current' = in_next /\ in_current' \in BOOLEAN /\ in_next' = FALSE
      /\ StakesByVote'
  BY <1>2, NextEpochFacts
<1>4. ShapeInv'
  BY <1>1, <1>2, <1>3 DEF ShapeInv
<1>5. NothingAfter(pool, VoteEpoch)'
  BY <1>1, <1>2, <1>3 DEF NothingAfter
<1>6. ActiveSetIsCurrent'
  <2>1. epoch' + 1 = epoch + 2
    BY <1>3
  <2>2. active_stake = IF dropped THEN 0 ELSE BalanceAt(pool, epoch + 2)
    BY <1>3 DEF Inv, ActiveSetIsCurrent
  <2> QED BY <1>2, <1>3, <2>1, <2>2 DEF ActiveSetIsCurrent
<1>7. (\E u \in -1 .. epoch : UpdatedTo(u))'
  <2>1. PICK u \in -1 .. epoch : UpdatedTo(u)
    BY DEF Inv
  <2>2. UpdatedTo(u)'
    BY <1>2, <1>3, <2>1 DEF UpdatedTo
  <2>3. u \in -1 .. epoch'
    BY <1>3
  <2> QED BY <2>2, <2>3
<1> QED BY <1>3, <1>4, <1>5, <1>6, <1>7 DEF Inv

-----------------------------------------------------------------------------
(* The invariant.                                                          *)

(* It holds for a new pool.                                                *)
LEMMA InitInv == Init => Inv
<1> SUFFICES ASSUME Init PROVE Inv
  OBVIOUS
<1>1. /\ epoch = 0 /\ selected \in BOOLEAN /\ in_current = FALSE /\ in_next = FALSE
      /\ pool = NewPool(IF selected THEN epoch + 1 ELSE epoch)
      /\ stakes = [s \in Stakes |-> NoStake] /\ active_stake = 0 /\ dropped = FALSE
      /\ scheduled = [e \in Epochs |-> Unset]
  BY DEF Init
<1>2. PICK activation : pool = NewPool(activation)
  BY <1>1
<1>3. /\ pool = [f \in Fields |-> pool[f]]
      /\ pool.pending_stake = Nothing /\ pool.pending_shares_withdraw = Nothing
      /\ pool.pre_active_withdrawals = Nothing /\ pool.commission_rate = 0
      /\ pool.pending_commission_rate = [e \in Epochs |-> Unset]
  BY <1>2 DEF NewPool, Fields
<1>4. ShapeInv
  <2>1. PoolShape(pool)
    <3>1. [e \in Epochs |-> Unset] \in [Epochs -> Rates]
      BY DEF Rates
    <3> QED BY <1>3, <3>1 DEF PoolShape, Nothing
  <2>2. stakes \in [Stakes -> StakeRecords]
    BY <1>1, NoStakeFacts
  <2>3. scheduled \in [Epochs -> Rates]
    BY <1>1 DEF Rates
  <2>4. epoch \in 0 .. MaxEpoch
    BY <1>1
  <2> QED BY <1>1, <2>1, <2>2, <2>3, <2>4 DEF ShapeInv
<1>5. VoteEpoch \in Epochs /\ VoteEpoch \in Nat
  BY <1>4, EpochFacts DEF Epochs
<1>6. NothingAfter(pool, VoteEpoch)
  BY <1>3 DEF NothingAfter, Nothing
<1>7. StakesByVote
  BY <1>1, <1>5, NoStakeFacts DEF StakesByVote
<1>8. ActiveSetIsCurrent
  <2>1. BalanceAt(pool, VoteEpoch) = 0
    BY <1>2, <1>5, NewPoolIsEmpty
  <2> QED BY <1>1, <2>1 DEF ActiveSetIsCurrent, VoteEpoch
<1>9. UpdatedTo(-1)
  <2>1. LatestValueAt(scheduled, -1, 0) = 0
    <3>1. {k \in Epochs : k <= -1 /\ scheduled[k] # Unset} = {}
      BY <1>1
    <3> QED BY <3>1 DEF LatestValueAt
  <2> QED BY <1>1, <1>3, <2>1 DEF UpdatedTo
<1>10. -1 \in -1 .. epoch
  BY <1>1
<1> QED BY <1>4, <1>6, <1>7, <1>8, <1>9, <1>10 DEF Inv

(* Every step preserves it.                                                *)
LEMMA NextInv == Inv /\ [Next]_vars => Inv'
<1> SUFFICES ASSUME Inv, [Next]_vars PROVE Inv'
  OBVIOUS
<1>1. ASSUME NEW s \in Stakes, NEW amount \in Amounts, Stake(s, amount) PROVE Inv'
  BY <1>1, StakeInv
<1>2. ASSUME NEW s \in Stakes, RequestPreActive(s) PROVE Inv'
  BY <1>2, RequestPreActiveInv
<1>3. ASSUME NEW s \in Stakes, RequestActive(s) PROVE Inv'
  BY <1>3, RequestActiveInv
<1>4. ASSUME NEW s \in Stakes, Withdraw(s) PROVE Inv'
  BY <1>4, WithdrawInv
<1>5. ASSUME NEW s \in Stakes, NEW t \in Stakes, NEW amount \in Amounts, Split(s, t, amount)
      PROVE  Inv'
  BY <1>5, SplitInv
<1>6. ASSUME NEW s \in Stakes, NEW t \in Stakes, Join(s, t) PROVE Inv'
  BY <1>6, JoinInv
<1>7. ASSUME NEW rate \in CommissionRates, SetNextCommission(rate) PROVE Inv'
  BY <1>7, SetNextCommissionInv
<1>8. ASSUME NEW member \in BOOLEAN, SelectCommittee(member) PROVE Inv'
  BY <1>8, SelectCommitteeInv
<1>9. ASSUME NEW rewards \in Rewards, AdvanceEpoch(rewards) PROVE Inv'
  BY <1>9, AdvanceEpochInv
<1>10. CASE SkipEpoch
  BY <1>10, SkipEpochInv
<1>12. CASE TryJoinActiveSet
  BY <1>12, TryJoinActiveSetInv
<1>13. CASE Evicted
  BY <1>13, EvictedInv
<1>11. CASE UNCHANGED vars
  <2>1. UNCHANGED <<context, pool, active_set, scheduled>> /\ stakes' = stakes
    BY <1>11 DEF vars
  <2>2. stakes' \in [Stakes -> StakeRecords] /\ \A s \in Stakes : stakes'[s].activation_epoch <= VoteEpoch
    BY <2>1 DEF Inv, ShapeInv, StakesByVote
  <2> QED BY <2>1, <2>2, StakesStep
<1> QED BY <1>1, <1>2, <1>3, <1>4, <1>5, <1>6, <1>7, <1>8, <1>9, <1>10, <1>11, <1>12, <1>13 DEF Next

(* Every reachable state satisfies it.                                     *)
THEOREM PoolInvariance == Spec => []Inv
<1> QED BY InitInv, NextInv, PTL DEF Spec

(* The active set has the stake that the pool will have in the epoch of    *)
(* the next vote, whatever is staked, withdrawn, split, joined, announced  *)
(* or selected, and however long the pool is left alone; or else it was    *)
(* full when it refused or replaced the node.                              *)
THEOREM ActiveSetStaysCurrent == Spec => []ActiveSetIsCurrent
<1>1. Inv => ActiveSetIsCurrent
  BY DEF Inv
<1> QED BY <1>1, PoolInvariance, PTL

(* A node in the committee takes the commission that it announced last for *)
(* this or an earlier epoch.                                               *)
THEOREM CommissionIsAsAnnounced == Spec => []CommissionAsAnnounced
<1>1. Inv => CommissionAsAnnounced
  <2> SUFFICES ASSUME Inv, in_current PROVE CommissionAsAnnounced
    BY DEF CommissionAsAnnounced
  <2>1. PICK u \in -1 .. epoch : UpdatedTo(u)
    BY DEF Inv
  <2>2. pool.commission_rate = LatestValueAt(scheduled, epoch, 0)
    BY <2>1 DEF UpdatedTo
  <2>3. {k \in Epochs : k <= epoch /\ scheduled[k] # Unset} = Announced
    BY DEF Inv, ShapeInv, Announced, Epochs
  <2> QED BY <2>2, <2>3 DEF LatestValueAt, CommissionAsAnnounced
<1> QED BY <1>1, PoolInvariance, PTL

-----------------------------------------------------------------------------
(* Sums.  A sum over a finite set is computed by a recursive function on   *)
(* the subsets of the set, which exists by induction on their size.        *)

(* A set with 0 that is closed under successors has all natural numbers.   *)
LEMMA NatSetInduction ==
  ASSUME NEW N \in SUBSET Nat, 0 \in N, \A n \in N : n + 1 \in N
  PROVE  N = Nat
<1> DEFINE Less == {p \in Nat \X Nat : p[1] < p[2]}
<1>1. SUFFICES ASSUME Nat \ N # {} PROVE FALSE
  OBVIOUS
<1>2. IsWellFoundedOn(Less, Nat)
  BY NatLessThanWellFounded DEF OpToRel
<1>3. PICK m \in Nat \ N : \A n \in Nat \ N : <<n, m>> \notin Less
  <2>1. Nat \ N \subseteq Nat
    OBVIOUS
  <2> HIDE DEF Less
  <2> QED BY <1>1, <1>2, <2>1, WFMin
<1>4. m # 0 /\ m - 1 \in Nat /\ <<m - 1, m>> \in Less
  OBVIOUS
<1>5. m - 1 \in N
  BY <1>3, <1>4
<1> QED BY <1>4, <1>5

PickOne(s) == CHOOSE x \in s : TRUE

SumStep(f, g, s) == IF s = {} THEN 0 ELSE f[PickOne(s)] + g[s \ {PickOne(s)}]

PartialSums(f, S) == CHOOSE g : g = [s \in SUBSET S |-> SumStep(f, g, s)]

(* The sum is the last value of that function.                             *)
LEMMA SumUnfold == \A f : SumFunction(f) = PartialSums(f, DOMAIN f)[DOMAIN f]
BY Zenon DEF SumFunction, SumFunctionOnSet, FoldFunctionOnSet, MapThenFoldSet, PartialSums,
             SumStep, PickOne

(* One element less.                                                       *)
LEMMA OneLess ==
  ASSUME NEW s, IsFiniteSet(s), s # {}
  PROVE  /\ PickOne(s) \in s
         /\ IsFiniteSet(s \ {PickOne(s)})
         /\ Cardinality(s \ {PickOne(s)}) \in Nat
         /\ Cardinality(s) = Cardinality(s \ {PickOne(s)}) + 1
<1>1. PickOne(s) \in s
  BY DEF PickOne
<1>2. IsFiniteSet(s \ {PickOne(s)}) /\ Cardinality(s \ {PickOne(s)}) = Cardinality(s) - 1
  BY <1>1, FS_RemoveElement
<1>3. Cardinality(s) \in Nat /\ Cardinality(s \ {PickOne(s)}) \in Nat
  BY <1>2, FS_CardinalityType
<1> QED BY <1>1, <1>2, <1>3

(* The function is extended by one number of elements at a time.           *)
LEMMA PartialSumsExist ==
  ASSUME NEW f, NEW S, IsFiniteSet(S)
  PROVE  \A s \in SUBSET S : PartialSums(f, S)[s] = SumStep(f, PartialSums(f, S), s)
<1> DEFINE Upto(n) == {s \in SUBSET S : Cardinality(s) <= n}
           N == {n \in Nat : \E g : g = [s \in Upto(n) |-> SumStep(f, g, s)]}
<1>1. \A s \in SUBSET S : IsFiniteSet(s) /\ Cardinality(s) \in Nat
  BY FS_Subset, FS_CardinalityType
<1>2. \A s \in SUBSET S : s # {} =>
        PickOne(s) \in s /\ Cardinality(s) = Cardinality(s \ {PickOne(s)}) + 1
  BY <1>1, OneLess
<1>3. 0 \in N
  <2>1. \A s \in Upto(0) : s = {}
    BY <1>1, FS_EmptySet
  <2>2. [s \in Upto(0) |-> SumStep(f, [t \in Upto(0) |-> 0], s)] = [t \in Upto(0) |-> 0]
    BY <2>1 DEF SumStep
  <2> QED BY <2>2
<1>4. ASSUME NEW n \in Nat, n \in N
      PROVE  n + 1 \in N
  <2>1. PICK g : g = [s \in Upto(n) |-> SumStep(f, g, s)]
    BY <1>4
  <2> DEFINE h == [s \in Upto(n + 1) |-> SumStep(f, g, s)]
  <2>2. \A s \in Upto(n) : h[s] = g[s]
    BY <1>1, <2>1
  <2>3. \A s \in Upto(n + 1) : s # {} => s \ {PickOne(s)} \in Upto(n)
    BY <1>1, <1>2
  <2>4. \A s \in Upto(n + 1) : SumStep(f, g, s) = SumStep(f, h, s)
    BY <2>2, <2>3 DEF SumStep
  <2>5. h = [s \in Upto(n + 1) |-> SumStep(f, h, s)]
    BY <2>4
  <2>6. n + 1 \in Nat
    OBVIOUS
  <2> HIDE DEF h, Upto
  <2> QED BY <2>5, <2>6
<1>5. N = Nat
  <2> HIDE DEF N
  <2>1. N \in SUBSET Nat
    BY DEF N
  <2> QED BY <1>3, <1>4, <2>1, NatSetInduction
<1>6. Cardinality(S) \in N
  BY <1>1, <1>5
<1>7. Upto(Cardinality(S)) = SUBSET S
  BY FS_Subset
<1>8. \E g : g = [s \in SUBSET S |-> SumStep(f, g, s)]
  BY <1>6, <1>7
<1>9. PartialSums(f, S) = [s \in SUBSET S |-> SumStep(f, PartialSums(f, S), s)]
  BY <1>8 DEF PartialSums
<1> QED BY <1>9

(* A sum of natural numbers is one, and a sum of zeros is 0.               *)
LEMMA SumType ==
  ASSUME NEW S, IsFiniteSet(S), NEW f \in [S -> Nat]
  PROVE  /\ SumFunction(f) \in Nat
         /\ (\A x \in S : f[x] = 0) => SumFunction(f) = 0
<1> DEFINE g == PartialSums(f, S)
           Good(s) == g[s] \in Nat /\ ((\A x \in S : f[x] = 0) => g[s] = 0)
           N == {n \in Nat : \A s \in SUBSET S : Cardinality(s) = n => Good(s)}
<1>1. \A s \in SUBSET S : IsFiniteSet(s) /\ Cardinality(s) \in Nat
  BY FS_Subset, FS_CardinalityType
<1>2. \A s \in SUBSET S : g[s] = SumStep(f, g, s)
  BY PartialSumsExist
<1> HIDE DEF g
<1>3. 0 \in N
  <2>1. \A s \in SUBSET S : Cardinality(s) = 0 => s = {}
    BY <1>1, FS_EmptySet
  <2>2. Good({})
    BY <1>2 DEF SumStep
  <2> QED BY <2>1, <2>2
<1>4. ASSUME NEW n \in Nat, n \in N
      PROVE  n + 1 \in N
  <2>1. SUFFICES ASSUME NEW s \in SUBSET S, Cardinality(s) = n + 1 PROVE Good(s)
    OBVIOUS
  <2>2. s # {}
    BY <2>1, FS_EmptySet
  <2>3. PickOne(s) \in S /\ s \ {PickOne(s)} \in SUBSET S /\ Cardinality(s \ {PickOne(s)}) = n
    BY <1>1, <2>1, <2>2, OneLess
  <2>4. Good(s \ {PickOne(s)})
    BY <1>4, <2>3
  <2>5. g[s] = f[PickOne(s)] + g[s \ {PickOne(s)}]
    BY <1>2, <2>2 DEF SumStep
  <2> QED BY <2>3, <2>4, <2>5
<1>5. N = Nat
  <2> HIDE DEF N
  <2>1. N \in SUBSET Nat
    BY DEF N
  <2> QED BY <1>3, <1>4, <2>1, NatSetInduction
<1>6. Good(S)
  BY <1>1, <1>5
<1>7. SumFunction(f) = g[S]
  BY SumUnfold DEF g
<1> QED BY <1>6, <1>7

(* A sum changes by what one of its terms changes.                         *)
LEMMA SumUpdate ==
  ASSUME NEW S, IsFiniteSet(S), NEW f \in [S -> Nat], NEW g \in [S -> Nat], NEW x \in S,
         \A y \in S : y # x => g[y] = f[y]
  PROVE  /\ SumFunction(f) \in Nat /\ SumFunction(g) \in Nat
         /\ SumFunction(g) = SumFunction(f) - f[x] + g[x]
<1> DEFINE F == PartialSums(f, S)
           G == PartialSums(g, S)
           Good(s) == /\ F[s] \in Int
                      /\ G[s] = F[s] + IF x \in s THEN g[x] - f[x] ELSE 0
           N == {n \in Nat : \A s \in SUBSET S : Cardinality(s) = n => Good(s)}
<1>1. \A s \in SUBSET S : IsFiniteSet(s) /\ Cardinality(s) \in Nat
  BY FS_Subset, FS_CardinalityType
<1>2. \A s \in SUBSET S : F[s] = SumStep(f, F, s) /\ G[s] = SumStep(g, G, s)
  BY PartialSumsExist
<1> HIDE DEF F, G
<1>3. 0 \in N
  <2>1. \A s \in SUBSET S : Cardinality(s) = 0 => s = {}
    BY <1>1, FS_EmptySet
  <2>2. F[{}] = 0 /\ G[{}] = 0
    BY <1>2 DEF SumStep
  <2>3. Good({})
    BY <2>2
  <2> QED BY <2>1, <2>3
<1>4. ASSUME NEW n \in Nat, n \in N
      PROVE  n + 1 \in N
  <2>1. SUFFICES ASSUME NEW s \in SUBSET S, Cardinality(s) = n + 1 PROVE Good(s)
    OBVIOUS
  <2>2. s # {}
    BY <2>1, FS_EmptySet
  <2>3. PICK y \in s : y = PickOne(s)
    BY <1>1, <2>2, OneLess
  <2>4. y \in S /\ s \ {y} \in SUBSET S /\ Cardinality(s \ {y}) = n
    BY <1>1, <2>1, <2>2, <2>3, OneLess
  <2>5. F[s \ {y}] \in Int /\ G[s \ {y}] = F[s \ {y}] + IF x \in s \ {y} THEN g[x] - f[x] ELSE 0
    BY <1>4, <2>4
  <2>6. F[s] = f[y] + F[s \ {y}] /\ G[s] = g[y] + G[s \ {y}]
    BY <1>2, <2>2, <2>3 DEF SumStep
  <2>7. f[y] \in Nat /\ g[y] \in Nat /\ f[x] \in Nat /\ g[x] \in Nat
    BY <2>4
  <2>8. CASE y = x
    BY <2>5, <2>6, <2>7, <2>8
  <2>9. CASE y # x
    <3>1. g[y] = f[y] /\ (x \in s \ {y} <=> x \in s)
      BY <2>4, <2>9
    <3> QED BY <2>5, <2>6, <2>7, <3>1
  <2> QED BY <2>8, <2>9
<1>5. N = Nat
  <2> HIDE DEF N
  <2>1. N \in SUBSET Nat
    BY DEF N
  <2> QED BY <1>3, <1>4, <2>1, NatSetInduction
<1>6. Good(S)
  BY <1>1, <1>5
<1>7. SumFunction(f) = F[S] /\ SumFunction(g) = G[S]
  BY SumUnfold DEF F, G
<1>8. SumFunction(f) \in Nat /\ SumFunction(g) \in Nat
  BY SumType
<1> QED BY <1>6, <1>7, <1>8

(* No term is greater than the sum.                                        *)
LEMMA SumBound ==
  ASSUME NEW S, IsFiniteSet(S), NEW f \in [S -> Nat], NEW x \in S
  PROVE  f[x] <= SumFunction(f)
<1> DEFINE g == [f EXCEPT ![x] = 0]
<1>1. g \in [S -> Nat] /\ g[x] = 0 /\ \A y \in S : y # x => g[y] = f[y]
  OBVIOUS
<1> HIDE DEF g
<1>2. SumFunction(f) \in Nat /\ SumFunction(g) \in Nat /\ SumFunction(g) = SumFunction(f) - f[x] + g[x]
  BY <1>1, SumUpdate
<1> QED BY <1>1, <1>2

(* A sum with one term.                                                    *)
LEMMA SingleSum ==
  ASSUME NEW x, NEW f, DOMAIN f = {x}, f[x] \in Nat
  PROVE  SumFunction(f) = f[x]
<1>1. IsFiniteSet({x})
  BY FS_Singleton
<1>2. \A s \in SUBSET {x} : PartialSums(f, {x})[s] = SumStep(f, PartialSums(f, {x}), s)
  BY <1>1, PartialSumsExist
<1>3. PickOne({x}) = x /\ {x} \ {x} = {}
  BY DEF PickOne
<1>4. PartialSums(f, {x})[{}] = 0
  BY <1>2 DEF SumStep
<1>5. PartialSums(f, {x})[{x}] = f[x] + 0
  BY <1>2, <1>3, <1>4 DEF SumStep
<1> QED BY <1>5, SumUnfold

-----------------------------------------------------------------------------
(* Rounding.                                                               *)

(* Products are monotonic.                                                 *)
LEMMA Times ==
  ASSUME NEW a \in Nat, NEW b \in Nat, NEW c \in Nat, a <= b
  PROVE  a * c \in Nat /\ b * c \in Nat /\ a * c <= b * c
<1>1. PICK d \in Nat : b = a + d
  <2>1. b - a \in Nat /\ b = a + (b - a)
    OBVIOUS
  <2> QED BY <2>1
<1>2. d * c \in Nat /\ a * c \in Nat /\ (a + d) * c = a * c + d * c
  OBVIOUS
<1> QED BY <1>1, <1>2

(* The quotient is rounded down.                                           *)
LEMMA Quotient ==
  ASSUME NEW a \in Nat, NEW b \in Nat, b > 0
  PROVE  /\ a \div b \in Nat
         /\ (a \div b) * b <= a
         /\ a < (a \div b + 1) * b
<1>1. a \div b \in Int /\ a = b * (a \div b) + (a % b) /\ a % b \in 0 .. b - 1
  OBVIOUS
<1>2. a \div b \in Nat
  OBVIOUS
<1>3. (a \div b) * b = b * (a \div b) /\ (a \div b + 1) * b = b * (a \div b) + b
  BY <1>2
<1>4. b * (a \div b) \in Int
  BY <1>1
<1> QED BY <1>1, <1>2, <1>3, <1>4

(* It is the greatest number whose product with b is at most a.            *)
LEMMA QuotientBound ==
  ASSUME NEW a \in Nat, NEW b \in Nat, b > 0, NEW q \in Nat, q * b <= a
  PROVE  q <= a \div b
<1> DEFINE d == a \div b
<1>1. d \in Nat /\ a < (d + 1) * b
  BY Quotient
<1> HIDE DEF d
<1>2. SUFFICES ASSUME d + 1 <= q PROVE FALSE
  BY <1>1 DEF d
<1>3. (d + 1) * b \in Nat /\ q * b \in Nat /\ (d + 1) * b <= q * b
  BY <1>1, <1>2, Times
<1> QED BY <1>1, <1>3

ValidRates == {r \in [wal : Nat, shares : Nat] : 0 < r.shares /\ r.shares <= r.wal}

LEMMA RateFields ==
  ASSUME NEW r \in ValidRates
  PROVE  r.wal \in Nat /\ r.shares \in Nat /\ r.wal > 0 /\ r.shares > 0 /\ r.shares <= r.wal
BY DEF ValidRates

(* Shares of a stake and of a part of it.                                  *)
LEMMA SharesFacts ==
  ASSUME NEW r \in ValidRates, NEW x \in Nat, NEW y \in Nat
  PROVE  /\ ToShares(r, x) \in Nat
         /\ ToShares(r, 0) = 0
         /\ ToShares(r, x) <= x
         /\ ToShares(r, x) + ToShares(r, y) <= ToShares(r, x + y)
<1> DEFINE b == r.wal
           c == r.shares
           m == (x * c) \div b
           n == (y * c) \div b
<1>1. b \in Nat /\ c \in Nat /\ b > 0 /\ c <= b
  BY RateFields
<1>2. ToShares(r, x) = m /\ ToShares(r, y) = n /\ ToShares(r, x + y) = ((x + y) * c) \div b
      /\ ToShares(r, 0) = (0 * c) \div b
  BY DEF ToShares
<1> HIDE DEF b, c
<1>3. x * c \in Nat /\ y * c \in Nat /\ (x + y) * c = x * c + y * c /\ (x + y) * c \in Nat
  BY <1>1
<1>4. m \in Nat /\ m * b <= x * c /\ n \in Nat /\ n * b <= y * c
  BY <1>1, <1>3, Quotient
<1>5. (0 * c) \div b = 0
  <2>1. 0 * c = 0
    BY <1>1
  <2>2. 0 \div b = 0
    BY <1>1
  <2> QED BY <2>1, <2>2
<1> HIDE DEF m, n
<1>6. m + n <= ((x + y) * c) \div b
  <2>1. m + n \in Nat /\ (m + n) * b = m * b + n * b /\ m * b \in Nat /\ n * b \in Nat
    BY <1>1, <1>4
  <2>2. (m + n) * b <= (x + y) * c
    BY <1>3, <1>4, <2>1
  <2> QED BY <1>1, <1>3, <2>1, <2>2, QuotientBound
<1>7. m <= x
  <2>1. SUFFICES ASSUME x + 1 <= m PROVE FALSE
    BY <1>4
  <2>2. (x + 1) * b \in Nat /\ m * b \in Nat /\ (x + 1) * b <= m * b
    BY <1>1, <1>4, <2>1, Times
  <2>3. x * c <= x * b
    <3>1. c * x <= b * x /\ c * x = x * c /\ b * x = x * b
      BY <1>1, Times
    <3> QED BY <3>1
  <2>4. (x + 1) * b = x * b + b /\ x * b \in Nat
    BY <1>1
  <2> QED BY <1>1, <1>3, <1>4, <2>2, <2>3, <2>4
<1> QED BY <1>2, <1>4, <1>5, <1>6, <1>7

(* The rate of a pool with no more shares than balance is valid.           *)
LEMMA NewRateIsValid ==
  ASSUME NEW W \in Nat, NEW S \in Nat, S <= W
  PROVE  /\ NewRate(W, S) \in ValidRates
         /\ S = 0 => NewRate(W, S) = Flat
         /\ S > 0 => NewRate(W, S).wal = W /\ NewRate(W, S).shares = S
BY DEF NewRate, Flat, ValidRates

(* What leaves the pool with w of its shares.                              *)
LEMMA Leaving ==
  ASSUME NEW W \in Nat, NEW S \in Nat, S <= W, NEW w \in Nat, w <= S
  PROVE  /\ ToWal(NewRate(W, S), w) \in Nat
         /\ ToWal(NewRate(W, S), w) <= W
         /\ S = 0 => ToWal(NewRate(W, S), w) = 0
         /\ S > 0 /\ w = S => ToWal(NewRate(W, S), w) = W
         /\ w < S => ToWal(NewRate(W, S), w) < W
<1>1. CASE S = 0
  <2>1. w = 0 /\ NewRate(W, S) = Flat
    BY <1>1, NewRateIsValid
  <2>2. ToWal(Flat, 0) = 0
    BY DEF ToWal, Flat
  <2> QED BY <1>1, <2>1, <2>2
<1>2. CASE S > 0
  <2> DEFINE t == (w * W) \div S
  <2>1. ToWal(NewRate(W, S), w) = t
    BY <1>2, NewRateIsValid DEF ToWal
  <2>2. w * W \in Nat /\ S * W \in Nat /\ w * W <= S * W
    BY Times
  <2>3. t \in Nat /\ t * S <= w * W
    BY <1>2, <2>2, Quotient
  <2>4. W * S = S * W /\ W * S \in Nat
    OBVIOUS
  <2>5. w = S => t = W
    <3>1. (S * W) \div S = W
      <4>1. W <= (S * W) \div S
        BY <1>2, <2>2, <2>4, QuotientBound
      <4>2. (S * W) \div S <= W
        <5> DEFINE d == (S * W) \div S
        <5>1. d \in Nat /\ d * S <= S * W
          BY <1>2, <2>2, Quotient
        <5> HIDE DEF d
        <5>2. SUFFICES ASSUME W + 1 <= d PROVE FALSE
          BY <5>1 DEF d
        <5>3. (W + 1) * S \in Nat /\ d * S \in Nat /\ (W + 1) * S <= d * S
          BY <5>1, <5>2, Times
        <5>4. (W + 1) * S = W * S + S
          OBVIOUS
        <5> QED BY <1>2, <2>4, <5>1, <5>3, <5>4
      <4>3. (S * W) \div S \in Nat
        BY <1>2, <2>2, Quotient
      <4> QED BY <4>1, <4>2, <4>3
    <3> QED BY <3>1
  <2> HIDE DEF t
  <2>6. ASSUME w < S PROVE t < W
    <3>1. SUFFICES ASSUME W <= t PROVE FALSE
      BY <2>3
    <3>2. W * S <= t * S /\ t * S \in Nat
      BY <2>3, <3>1, Times
    <3>3. (w + 1) * W <= S * W /\ (w + 1) * W = w * W + W
      BY <2>6, Times
    <3> QED BY <1>2, <2>2, <2>3, <2>4, <3>2, <3>3
  <2>7. t <= W
    BY <2>3, <2>5, <2>6
  <2> QED BY <1>2, <2>1, <2>3, <2>5, <2>6, <2>7
<1> QED BY <1>1, <1>2

(* The shares of the pool after w of them have left and P was added are    *)
(* enough for those that are left and those of the stake that was added.   *)
LEMMA Entering ==
  ASSUME NEW W \in Nat, NEW S \in Nat, S <= W, NEW w \in Nat, w <= S, NEW P \in Nat,
         NEW W2, W2 = W + P - ToWal(NewRate(W, S), w)
  PROVE  /\ W2 \in Nat
         /\ ToShares(NewRate(W, S), W2) \in Nat
         /\ ToShares(NewRate(W, S), W2) <= W2
         /\ S - w + ToShares(NewRate(W, S), P) <= ToShares(NewRate(W, S), W2)
<1> DEFINE r == NewRate(W, S)
           t == ToWal(r, w)
<1>1. r \in ValidRates
  BY NewRateIsValid
<1>2. t \in Nat /\ t <= W
  BY Leaving
<1>3. W2 \in Nat /\ W - t \in Nat /\ W2 = (W - t) + P
  BY <1>2
<1>4. ToShares(r, W2) \in Nat /\ ToShares(r, W2) <= W2 /\ ToShares(r, P) \in Nat
  BY <1>1, <1>3, SharesFacts
<1>5. ToShares(r, W - t) \in Nat /\ ToShares(r, W - t) + ToShares(r, P) <= ToShares(r, W2)
  BY <1>1, <1>3, SharesFacts
<1>6. S - w <= ToShares(r, W - t)
  <2>1. CASE S = 0
    BY <1>5, <2>1
  <2>2. CASE S > 0
    <3>1. r.wal = W /\ r.shares = S
      BY <2>2, NewRateIsValid
    <3>2. t = (w * W) \div S /\ ToShares(r, W - t) = ((W - t) * S) \div W
      BY <3>1 DEF ToWal, ToShares
    <3>3. w * W \in Nat
      OBVIOUS
    <3>4. t * S <= w * W
      BY <2>2, <3>2, <3>3, Quotient
    <3> HIDE DEF t, r
    <3>5. /\ (W - t) * S = W * S - t * S /\ t * S \in Nat
          /\ (S - w) * W = W * S - w * W /\ (W - t) * S \in Nat /\ W * S \in Nat
      BY <1>2
    <3>6. (S - w) * W <= (W - t) * S /\ S - w \in Nat /\ W > 0
      BY <2>2, <3>3, <3>4, <3>5
    <3>7. S - w <= ((W - t) * S) \div W
      BY <3>5, <3>6, QuotientBound
    <3> QED BY <3>2, <3>7
  <2> QED BY <2>1, <2>2
<1> HIDE DEF t, r
<1>7. S - w \in Nat
  OBVIOUS
<1>8. S - w + ToShares(r, P) <= ToShares(r, W2)
  BY <1>4, <1>5, <1>6, <1>7
<1> QED BY <1>3, <1>4, <1>8 DEF r

-----------------------------------------------------------------------------
(* What the pool has recorded and what is pending.                         *)

LEMMA EpochRange == MaxEpoch \in Nat /\ Epochs \subseteq Nat /\ Epochs = 0 .. MaxEpoch + 2
<1>1. {MaxStaked, MaxEpoch} \subseteq Nat
  BY EpochAssumption
<1>2. \A x \in {MaxStaked, MaxEpoch} : x \in Nat
  BY <1>1
<1>3. MaxEpoch \in Nat
  BY <1>2
<1> QED BY <1>3 DEF Epochs

KnownRates(p) ==
  /\ p.activation_epoch \in 0 .. 1
  /\ p.exchange_rates \in [Epochs -> ValidRates \cup {NoRate}]

(* The rate of every epoch is valid.                                       *)
LEMMA RateIsKnown ==
  ASSUME NEW p, KnownRates(p), NEW e \in Epochs
  PROVE  RateAt(p, e) \in ValidRates
<1> DEFINE known == {k \in p.activation_epoch .. e : p.exchange_rates[k] # NoRate}
<1>1. Flat \in ValidRates
  BY DEF Flat, ValidRates
<1>2. known \in SUBSET Epochs
  BY EpochRange DEF KnownRates
<1>3. CASE known = {}
  BY <1>1, <1>3 DEF RateAt
<1>4. CASE known # {}
  <2>1. PICK m \in known : \A k \in known : m >= k
    <3> HIDE DEF known
    <3> QED BY <1>2, <1>4, LastEpoch
  <2>2. Max(known) = m
    <3> HIDE DEF known
    <3> QED BY <1>2, <2>1, MaxIsLast
  <2>3. p.exchange_rates[m] \in ValidRates
    BY <1>2 DEF KnownRates
  <2>4. RateAt(p, e) = p.exchange_rates[Max(known)]
    BY <1>4 DEF RateAt
  <2> QED BY <2>2, <2>3, <2>4
<1> QED BY <1>3, <1>4

(* A rate that is recorded for an epoch is that of the epoch, and those of *)
(* earlier epochs do not change.                                           *)
RateRecorded(p, q, e, rate) ==
  /\ KnownRates(p) /\ e \in Nat /\ e + 1 \in Epochs /\ rate \in ValidRates
  /\ q.activation_epoch = p.activation_epoch
  /\ q.exchange_rates = [p.exchange_rates EXCEPT ![e + 1] = rate]

LEMMA RecordRate ==
  ASSUME NEW p, NEW q, NEW e, NEW rate, RateRecorded(p, q, e, rate)
  PROVE  /\ KnownRates(q)
         /\ RateAt(q, e + 1) = rate
         /\ \A a \in Epochs : a <= e => RateAt(q, a) = RateAt(p, a)
<1> /\ KnownRates(p) /\ e \in Nat /\ e + 1 \in Epochs /\ rate \in ValidRates
    /\ q.activation_epoch = p.activation_epoch
    /\ q.exchange_rates = [p.exchange_rates EXCEPT ![e + 1] = rate]
  BY DEF RateRecorded
<1>1. KnownRates(q)
  BY DEF KnownRates
<1>2. rate # NoRate
  BY DEF ValidRates, NoRate
<1>3. RateAt(q, e + 1) = rate
  <2> DEFINE known == {k \in q.activation_epoch .. e + 1 : q.exchange_rates[k] # NoRate}
  <2>1. known \in SUBSET Epochs
    BY <1>1, EpochRange DEF KnownRates
  <2>2. q.exchange_rates[e + 1] = rate
    BY DEF KnownRates
  <2>3. e + 1 \in known /\ \A k \in known : e + 1 >= k
    BY <1>1, <1>2, <2>2 DEF KnownRates
  <2>4. RateAt(q, e + 1) = q.exchange_rates[Max(known)]
    BY <2>3 DEF RateAt
  <2>5. Max(known) = e + 1
    <3> HIDE DEF known
    <3> QED BY <2>1, <2>3, MaxIsLast
  <2> QED BY <2>2, <2>4, <2>5
<1>4. ASSUME NEW a \in Epochs, a <= e PROVE RateAt(q, a) = RateAt(p, a)
  <2> DEFINE known == {k \in p.activation_epoch .. a : p.exchange_rates[k] # NoRate}
  <2>1. known \in SUBSET Epochs
    BY EpochRange DEF KnownRates
  <2>2. \A k \in p.activation_epoch .. a : k \in Epochs /\ k # e + 1 /\ q.exchange_rates[k] = p.exchange_rates[k]
    BY <1>4, EpochRange DEF KnownRates
  <2>3. {k \in q.activation_epoch .. a : q.exchange_rates[k] # NoRate} = known
    BY <2>2
  <2>4. CASE known = {}
    BY <2>3, <2>4 DEF RateAt
  <2>5. CASE known # {}
    <3>1. PICK m \in known : \A k \in known : m >= k
      <4> HIDE DEF known
      <4> QED BY <2>1, <2>5, LastEpoch
    <3>2. Max(known) = m
      <4> HIDE DEF known
      <4> QED BY <2>1, <3>1, MaxIsLast
    <3>3. q.exchange_rates[m] = p.exchange_rates[m]
      BY <2>2
    <3>4. RateAt(q, a) = q.exchange_rates[Max(known)] /\ RateAt(p, a) = p.exchange_rates[Max(known)]
      BY <2>3, <2>5 DEF RateAt
    <3> QED BY <3>2, <3>3, <3>4
  <2> QED BY <2>4, <2>5
<1> QED BY <1>1, <1>3, <1>4

(* What is pending for an epoch if nothing is pending for earlier ones.    *)
LEMMA PendingValue ==
  ASSUME NEW values \in [Epochs -> Nat], NEW e \in Nat, e + 1 \in Epochs,
         \A k \in Epochs : k <= e => values[k] = 0
  PROVE  ValueAt(values, e + 1) = values[e + 1]
<1> DEFINE T == {k \in Epochs : k <= e + 1 /\ values[k] > 0}
           f == [k \in T |-> values[k]]
<1>1. \A k \in Epochs : k \in Nat
  BY DEF Epochs
<1>2. ValueAt(values, e + 1) = SumFunction(f)
  BY Zenon DEF ValueAt
<1>3. CASE values[e + 1] = 0
  <2>1. T = {}
    BY <1>1, <1>3
  <2>2. DOMAIN f = {}
    BY <2>1
  <2> HIDE DEF f
  <2> QED BY <1>2, <1>3, <2>2, EmptySum
<1>4. CASE values[e + 1] # 0
  <2>1. T = {e + 1}
    BY <1>1, <1>4
  <2>2. DOMAIN f = {e + 1} /\ f[e + 1] = values[e + 1] /\ f[e + 1] \in Nat
    BY <2>1
  <2> HIDE DEF f
  <2>3. SumFunction(f) = f[e + 1]
    BY <2>2, SingleSum
  <2> QED BY <1>2, <2>2, <2>3
<1> QED BY <1>3, <1>4

LEMMA PreActiveValue ==
  ASSUME NEW p, KnownRates(p), p.pre_active_withdrawals \in [Epochs -> Nat],
         NEW e \in Nat, e + 1 \in Epochs,
         \A k \in Epochs : k <= e => p.pre_active_withdrawals[k] = 0
  PROVE  PreActiveShares(p, e + 1) = ToShares(RateAt(p, e), p.pre_active_withdrawals[e + 1])
<1> DEFINE pre == p.pre_active_withdrawals
           T == {k \in 1 .. e + 1 : pre[k] > 0}
           f == [k \in T |-> ToShares(RateAt(p, k - 1), pre[k])]
<1>1. \A k \in 1 .. e + 1 : k \in Epochs /\ k \in Nat
  BY EpochRange
<1>2. PreActiveShares(p, e + 1) = SumFunction(f)
  BY Zenon DEF PreActiveShares
<1>3. e \in Epochs /\ RateAt(p, e) \in ValidRates
  BY RateIsKnown, EpochRange
<1>4. pre[e + 1] \in Nat
  OBVIOUS
<1>5. CASE pre[e + 1] = 0
  <2>1. T = {}
    BY <1>1, <1>5
  <2>2. DOMAIN f = {}
    BY <2>1
  <2>3. ToShares(RateAt(p, e), 0) = 0
    BY <1>3, SharesFacts
  <2> HIDE DEF f
  <2> QED BY <1>2, <1>5, <2>2, <2>3, EmptySum
<1>6. CASE pre[e + 1] # 0
  <2>1. T = {e + 1}
    BY <1>1, <1>6
  <2>2. (e + 1) - 1 = e
    OBVIOUS
  <2>3. DOMAIN f = {e + 1} /\ f[e + 1] = ToShares(RateAt(p, e), pre[e + 1])
    BY <2>1, <2>2
  <2>4. ToShares(RateAt(p, e), pre[e + 1]) \in Nat
    BY <1>3, <1>4, SharesFacts
  <2> HIDE DEF f
  <2>5. SumFunction(f) = f[e + 1]
    BY <2>3, <2>4, SingleSum
  <2> QED BY <1>2, <2>3, <2>5
<1> QED BY <1>5, <1>6

-----------------------------------------------------------------------------
(* What the stakers own.                                                   *)

(* What a stake adds to those that become active in epoch a.               *)
Counted(sw, a) == IF sw.state = "staked" /\ sw.activation_epoch = a THEN sw.principal ELSE 0

CountedAll(st, a) == [s \in Stakes |-> Counted(st[s], a)]

(* The stake that is not being withdrawn, for every activation epoch.      *)
Groups(st) == [a \in Epochs |-> SumFunction(CountedAll(st, a))]

(* The shares of the active stakes, with those of the same epoch joined.   *)
SharesOfGroups(p, groups, e) ==
  [a \in Epochs |-> IF a <= e THEN ToShares(RateAt(p, a), groups[a]) ELSE 0]

Owned(p, groups, e) == SumFunction(SharesOfGroups(p, groups, e))

LEMMA GroupsType ==
  ASSUME NEW st \in [Stakes -> StakeRecords]
  PROVE  /\ \A a \in Epochs : CountedAll(st, a) \in [Stakes -> Nat]
         /\ Groups(st) \in [Epochs -> Nat]
         /\ \A s \in Stakes : \A a \in Epochs : Counted(st[s], a) <= Groups(st)[a]
<1>1. \A a \in Epochs : CountedAll(st, a) \in [Stakes -> Nat]
  BY DEF CountedAll, Counted, StakeRecords
<1>2. \A a \in Epochs : SumFunction(CountedAll(st, a)) \in Nat
  BY <1>1, SumType, StakesAssumption
<1>3. ASSUME NEW s \in Stakes, NEW a \in Epochs
      PROVE  Counted(st[s], a) <= SumFunction(CountedAll(st, a))
  <2>1. CountedAll(st, a)[s] <= SumFunction(CountedAll(st, a))
    BY <1>1, SumBound, StakesAssumption
  <2> QED BY <2>1 DEF CountedAll
<1> QED BY <1>1, <1>2, <1>3 DEF Groups

(* One stake changes.                                                      *)
LEMMA GroupsUpdate ==
  ASSUME NEW st \in [Stakes -> StakeRecords], NEW s \in Stakes, NEW sw \in StakeRecords,
         NEW a \in Epochs
  PROVE  Groups([st EXCEPT ![s] = sw])[a] = Groups(st)[a] - Counted(st[s], a) + Counted(sw, a)
<1> DEFINE st2 == [st EXCEPT ![s] = sw]
           f == CountedAll(st, a)
           g == CountedAll(st2, a)
<1>1. st2 \in [Stakes -> StakeRecords] /\ st2[s] = sw /\ \A t \in Stakes : t # s => st2[t] = st[t]
  OBVIOUS
<1> HIDE DEF st2
<1>2. f \in [Stakes -> Nat] /\ g \in [Stakes -> Nat]
  BY <1>1, GroupsType
<1>3. f[s] = Counted(st[s], a) /\ g[s] = Counted(sw, a) /\ \A t \in Stakes : t # s => g[t] = f[t]
  BY <1>1 DEF CountedAll
<1>4. Groups(st)[a] = SumFunction(f) /\ Groups(st2)[a] = SumFunction(g)
  BY DEF Groups
<1> HIDE DEF f, g
<1>5. SumFunction(g) = SumFunction(f) - f[s] + g[s]
  BY <1>2, <1>3, SumUpdate, StakesAssumption
<1> QED BY <1>3, <1>4, <1>5 DEF st2

LEMMA EpochsAreFinite == IsFiniteSet(Epochs)
BY EpochRange, FS_Interval

LEMMA OwnedType ==
  ASSUME NEW p, KnownRates(p), NEW groups \in [Epochs -> Nat], NEW e \in Int
  PROVE  /\ SharesOfGroups(p, groups, e) \in [Epochs -> Nat]
         /\ Owned(p, groups, e) \in Nat
<1>1. \A a \in Epochs : RateAt(p, a) \in ValidRates
  BY RateIsKnown
<1>2. \A a \in Epochs : ToShares(RateAt(p, a), groups[a]) \in Nat
  BY <1>1, SharesFacts
<1>3. SharesOfGroups(p, groups, e) \in [Epochs -> Nat]
  BY <1>2 DEF SharesOfGroups
<1> QED BY <1>3, SumType, EpochsAreFinite DEF Owned

(* Stake of x is taken from a group: its shares are not owned any more.    *)
LEMMA OwnedLess ==
  ASSUME NEW p, KnownRates(p), NEW groups \in [Epochs -> Nat], NEW left \in [Epochs -> Nat],
         NEW e \in Int, NEW a \in Epochs, a <= e, NEW x \in Nat, left[a] = groups[a] - x,
         \A b \in Epochs : b # a => left[b] = groups[b]
  PROVE  /\ ToShares(RateAt(p, a), x) \in Nat
         /\ Owned(p, left, e) + ToShares(RateAt(p, a), x) <= Owned(p, groups, e)
<1> DEFINE r == RateAt(p, a)
           f == SharesOfGroups(p, groups, e)
           g == SharesOfGroups(p, left, e)
<1>1. r \in ValidRates
  BY RateIsKnown
<1>2. f \in [Epochs -> Nat] /\ g \in [Epochs -> Nat] /\ Owned(p, groups, e) \in Nat /\ Owned(p, left, e) \in Nat
  BY OwnedType
<1>3. f[a] = ToShares(r, groups[a]) /\ g[a] = ToShares(r, left[a]) /\ \A b \in Epochs : b # a => g[b] = f[b]
  BY DEF SharesOfGroups
<1> HIDE DEF r, f, g
<1>4. SumFunction(g) = SumFunction(f) - f[a] + g[a]
  BY <1>2, <1>3, SumUpdate, EpochsAreFinite
<1>5. Owned(p, groups, e) = SumFunction(f) /\ Owned(p, left, e) = SumFunction(g)
  BY DEF Owned, f, g
<1>6. left[a] \in Nat /\ left[a] + x = groups[a]
  OBVIOUS
<1>7. ToShares(r, left[a]) \in Nat /\ ToShares(r, x) \in Nat
      /\ ToShares(r, left[a]) + ToShares(r, x) <= ToShares(r, left[a] + x)
  BY <1>1, <1>6, SharesFacts
<1>8. ToShares(r, left[a]) + ToShares(r, x) <= f[a] /\ f[a] \in Nat
  BY <1>2, <1>3, <1>6, <1>7
<1>9. Owned(p, left, e) + ToShares(r, x) <= Owned(p, groups, e)
  BY <1>2, <1>3, <1>4, <1>5, <1>7, <1>8
<1> QED BY <1>7, <1>9 DEF r

(* Stake that is not active yet does not count.                            *)
LEMMA OwnedSame ==
  ASSUME NEW p, NEW q, NEW groups, NEW other, NEW e,
         \A a \in Epochs : a <= e => groups[a] = other[a] /\ RateAt(p, a) = RateAt(q, a)
  PROVE  Owned(p, groups, e) = Owned(q, other, e)
<1>1. SharesOfGroups(p, groups, e) = SharesOfGroups(q, other, e)
  BY DEF SharesOfGroups
<1> QED BY <1>1 DEF Owned

(* The next epoch begins.                                                  *)
LEMMA OwnedNext ==
  ASSUME NEW p, KnownRates(p), NEW q, KnownRates(q), NEW groups \in [Epochs -> Nat],
         NEW e \in Nat, e + 1 \in Epochs,
         \A a \in Epochs : a <= e => RateAt(q, a) = RateAt(p, a)
  PROVE  Owned(q, groups, e + 1) = Owned(p, groups, e) + ToShares(RateAt(q, e + 1), groups[e + 1])
<1> DEFINE f == SharesOfGroups(p, groups, e)
           g == SharesOfGroups(q, groups, e + 1)
<1>1. f \in [Epochs -> Nat] /\ g \in [Epochs -> Nat]
  <2>1. e \in Int /\ e + 1 \in Int
    OBVIOUS
  <2>2. f \in [Epochs -> Nat]
    BY <2>1, OwnedType
  <2>3. PICK d : d = e + 1
    OBVIOUS
  <2>4. d \in Int
    BY <2>1, <2>3
  <2>5. SharesOfGroups(q, groups, d) \in [Epochs -> Nat]
    BY <2>4, OwnedType
  <2> QED BY <2>2, <2>3, <2>5
<1>2. \A a \in Epochs : a \in Nat
  BY DEF Epochs
<1>3. f[e + 1] = 0 /\ g[e + 1] = ToShares(RateAt(q, e + 1), groups[e + 1])
  BY DEF SharesOfGroups
<1>4. \A a \in Epochs : a # e + 1 => g[a] = f[a]
  BY <1>2 DEF SharesOfGroups
<1>5. Owned(p, groups, e) = SumFunction(f) /\ Owned(q, groups, e + 1) = SumFunction(g)
  BY DEF Owned
<1> HIDE DEF f, g
<1>6. SumFunction(f) \in Nat /\ SumFunction(g) \in Nat /\ SumFunction(g) = SumFunction(f) - f[e + 1] + g[e + 1]
  BY <1>1, <1>4, SumUpdate, EpochsAreFinite
<1>7. g[e + 1] \in Nat
  BY <1>1
<1> QED BY <1>3, <1>5, <1>6, <1>7

-----------------------------------------------------------------------------
(* The books of the pool in epoch e: W and S are its balance and its       *)
(* shares, ps, sw and pre what is pending, due are the shares that leave   *)
(* with the next epoch change and owned those of the active stakes.        *)

AmountsOK(W, S, ps, sw, pre, groups, owned, due) ==
  /\ W \in Nat /\ S \in Nat /\ owned \in Nat /\ due \in Nat
  /\ S <= W
  /\ ps \in [Epochs -> Nat] /\ sw \in [Epochs -> Nat] /\ pre \in [Epochs -> Nat]
  /\ groups \in [Epochs -> Nat]

(* Stake and withdrawals are pending for later epochs only, and all stake  *)
(* that is not active yet is pending.                                      *)
PendingOK(ps, sw, pre, groups, e) ==
  /\ \A k \in Epochs : k <= e => ps[k] = 0 /\ sw[k] = 0 /\ pre[k] = 0
  /\ ps[e + 1] = groups[e + 1] + pre[e + 2]
  /\ \A k \in Epochs : k > e + 1 => ps[k] = groups[k]

(* The pool has all shares that stakers own or withdraw.                   *)
SharesOK(S, sw, owned, due, e) == owned + due + sw[e + 2] <= S

(* A node outside the committee has nothing; that of a node which is       *)
(* selected has stake left in the next epoch, and all stake of one that is *)
(* not selected leaves.                                                    *)
MembershipOK(W, S, ps, pre, due, e, cur, nxt, sel) ==
  /\ cur => W > 0
  /\ ~ cur => W = 0 /\ pre[e + 1] = 0
  /\ ~ nxt => pre[e + 2] = 0
  /\ sel /\ nxt => ps[e + 1] > 0 \/ (W > 0 /\ (S = 0 \/ due < S))
  /\ sel /\ ~ nxt => ps[e + 1] = 0 /\ (cur => S > 0 /\ due = S)

Books(W, S, ps, sw, pre, groups, owned, due, e, cur, nxt, sel) ==
  /\ AmountsOK(W, S, ps, sw, pre, groups, owned, due)
  /\ PendingOK(ps, sw, pre, groups, e)
  /\ SharesOK(S, sw, owned, due, e)
  /\ MembershipOK(W, S, ps, pre, due, e, cur, nxt, sel)

(* The epochs that are around epoch e.                                     *)
LEMMA Around ==
  ASSUME NEW e \in 0 .. MaxEpoch
  PROVE  /\ e \in Nat /\ e \in Epochs /\ e + 1 \in Epochs /\ e + 2 \in Epochs
         /\ \A k \in Epochs : k \in Nat
BY EpochRange

(* Stake that becomes active in epoch k is added.                          *)
MayStake(e, sel, k, x, groups, new) ==
  /\ e \in 0 .. MaxEpoch
  /\ k \in {e + 1, e + 2}
  /\ sel => k = e + 2
  /\ x \in Nat
  /\ new \in [Epochs -> Nat] /\ new[k] = groups[k] + x
  /\ \A a \in Epochs : a # k => new[a] = groups[a]

LEMMA BooksStake ==
  ASSUME NEW W, NEW S, NEW ps, NEW sw, NEW pre, NEW groups, NEW owned, NEW due,
         NEW e, NEW cur, NEW nxt, NEW sel, NEW k, NEW x, NEW new,
         Books(W, S, ps, sw, pre, groups, owned, due, e, cur, nxt, sel),
         MayStake(e, sel, k, x, groups, new)
  PROVE  Books(W, S, [ps EXCEPT ![k] = @ + x], sw, pre, new, owned, due, e, cur, nxt, sel)
<1> /\ e \in 0 .. MaxEpoch
    /\ k \in {e + 1, e + 2}
    /\ sel => k = e + 2
    /\ x \in Nat
    /\ new \in [Epochs -> Nat] /\ new[k] = groups[k] + x
    /\ \A a \in Epochs : a # k => new[a] = groups[a]
  BY DEF MayStake
<1> DEFINE ps2 == [ps EXCEPT ![k] = @ + x]
<1>1. /\ e \in Nat /\ e \in Epochs /\ e + 1 \in Epochs /\ e + 2 \in Epochs
      /\ \A a \in Epochs : a \in Nat
  BY Around
<1>2. AmountsOK(W, S, ps, sw, pre, groups, owned, due) /\ PendingOK(ps, sw, pre, groups, e)
  BY DEF Books
<1>3. ps \in [Epochs -> Nat] /\ k \in Epochs
  BY <1>1, <1>2 DEF AmountsOK
<1>4. ps2 \in [Epochs -> Nat] /\ ps2[k] = ps[k] + x /\ \A a \in Epochs : a # k => ps2[a] = ps[a]
  BY <1>3
<1> HIDE DEF ps2
<1>5. AmountsOK(W, S, ps2, sw, pre, new, owned, due)
  BY <1>2, <1>4 DEF AmountsOK
<1>6. PendingOK(ps2, sw, pre, new, e)
  BY <1>1, <1>2, <1>4 DEF PendingOK, AmountsOK
<1>7. MembershipOK(W, S, ps2, pre, due, e, cur, nxt, sel)
  BY <1>1, <1>4 DEF Books, MembershipOK
<1> QED BY <1>5, <1>6, <1>7 DEF Books, ps2

(* Stake is withdrawn before it becomes active in epoch k.                 *)
MayLeaveEarly(e, nxt, k, x, groups, left) ==
  /\ e \in 0 .. MaxEpoch
  /\ k \in {e + 1, e + 2}
  /\ nxt => k = e + 2
  /\ x \in Nat /\ x <= groups[k]
  /\ left \in [Epochs -> Nat] /\ left[k] = groups[k] - x
  /\ \A a \in Epochs : a # k => left[a] = groups[a]

LEMMA BooksEarly ==
  ASSUME NEW W, NEW S, NEW ps, NEW sw, NEW pre, NEW groups, NEW owned, NEW due,
         NEW e, NEW cur, NEW nxt, NEW sel, NEW k, NEW x, NEW left,
         Books(W, S, ps, sw, pre, groups, owned, due, e, cur, nxt, sel),
         MayLeaveEarly(e, nxt, k, x, groups, left)
  PROVE  Books(W, S, [ps EXCEPT ![k] = @ - x], sw, pre, left, owned, due, e, cur, nxt, sel)
<1> /\ e \in 0 .. MaxEpoch
    /\ k \in {e + 1, e + 2}
    /\ nxt => k = e + 2
    /\ x \in Nat /\ x <= groups[k]
    /\ left \in [Epochs -> Nat] /\ left[k] = groups[k] - x
    /\ \A a \in Epochs : a # k => left[a] = groups[a]
  BY DEF MayLeaveEarly
<1> DEFINE ps2 == [ps EXCEPT ![k] = @ - x]
<1>1. /\ e \in Nat /\ e \in Epochs /\ e + 1 \in Epochs /\ e + 2 \in Epochs
      /\ \A a \in Epochs : a \in Nat
  BY Around
<1>2. AmountsOK(W, S, ps, sw, pre, groups, owned, due) /\ PendingOK(ps, sw, pre, groups, e)
  BY DEF Books
<1>3. ps \in [Epochs -> Nat] /\ groups \in [Epochs -> Nat] /\ pre \in [Epochs -> Nat] /\ k \in Epochs
  BY <1>1, <1>2 DEF AmountsOK
<1>4. groups[k] <= ps[k] /\ groups[k] \in Nat /\ ps[k] \in Nat
  BY <1>1, <1>2, <1>3 DEF PendingOK
<1>5. ps2 \in [Epochs -> Nat] /\ ps2[k] = ps[k] - x /\ \A a \in Epochs : a # k => ps2[a] = ps[a]
  BY <1>3, <1>4
<1> HIDE DEF ps2
<1>6. AmountsOK(W, S, ps2, sw, pre, left, owned, due)
  BY <1>2, <1>5 DEF AmountsOK
<1>7. PendingOK(ps2, sw, pre, left, e)
  BY <1>1, <1>2, <1>3, <1>4, <1>5 DEF PendingOK
<1>8. MembershipOK(W, S, ps2, pre, due, e, cur, nxt, sel)
  <2>1. MembershipOK(W, S, ps, pre, due, e, cur, nxt, sel)
    BY DEF Books
  <2>2. nxt => ps2[e + 1] = ps[e + 1]
    BY <1>1, <1>5
  <2>3. ps[e + 1] = 0 => ps2[e + 1] = 0
    BY <1>1, <1>3, <1>4, <1>5
  <2> QED BY <2>1, <2>2, <2>3 DEF MembershipOK
<1> QED BY <1>6, <1>7, <1>8 DEF Books, ps2

(* Withdrawal of stake that becomes active in the next epoch is requested. *)
MayLeaveAtOnce(e, nxt, x, groups, left) ==
  /\ e \in 0 .. MaxEpoch
  /\ nxt
  /\ x \in Nat
  /\ left \in [Epochs -> Nat] /\ left[e + 1] = groups[e + 1] - x
  /\ \A a \in Epochs : a # e + 1 => left[a] = groups[a]

LEMMA BooksPreActive ==
  ASSUME NEW W, NEW S, NEW ps, NEW sw, NEW pre, NEW groups, NEW owned, NEW due,
         NEW e, NEW cur, NEW nxt, NEW sel, NEW x, NEW left,
         Books(W, S, ps, sw, pre, groups, owned, due, e, cur, nxt, sel),
         MayLeaveAtOnce(e, nxt, x, groups, left)
  PROVE  Books(W, S, ps, sw, [pre EXCEPT ![e + 2] = @ + x], left, owned, due, e, cur, nxt, sel)
<1> /\ e \in 0 .. MaxEpoch
    /\ nxt
    /\ x \in Nat
    /\ left \in [Epochs -> Nat] /\ left[e + 1] = groups[e + 1] - x
    /\ \A a \in Epochs : a # e + 1 => left[a] = groups[a]
  BY DEF MayLeaveAtOnce
<1> DEFINE pre2 == [pre EXCEPT ![e + 2] = @ + x]
<1>1. /\ e \in Nat /\ e \in Epochs /\ e + 1 \in Epochs /\ e + 2 \in Epochs
      /\ \A a \in Epochs : a \in Nat
  BY Around
<1>2. AmountsOK(W, S, ps, sw, pre, groups, owned, due) /\ PendingOK(ps, sw, pre, groups, e)
  BY DEF Books
<1>3. pre \in [Epochs -> Nat] /\ groups \in [Epochs -> Nat]
  BY <1>2 DEF AmountsOK
<1>4. /\ pre2 \in [Epochs -> Nat] /\ pre2[e + 2] = pre[e + 2] + x
      /\ \A a \in Epochs : a # e + 2 => pre2[a] = pre[a]
  BY <1>1, <1>3
<1> HIDE DEF pre2
<1>5. AmountsOK(W, S, ps, sw, pre2, left, owned, due)
  BY <1>2, <1>4 DEF AmountsOK
<1>6. PendingOK(ps, sw, pre2, left, e)
  <2>1. \A a \in Epochs : a <= e => ps[a] = 0 /\ sw[a] = 0 /\ pre2[a] = 0
    BY <1>1, <1>2, <1>4 DEF PendingOK
  <2>2. ps[e + 1] = left[e + 1] + pre2[e + 2]
    <3>1. ps[e + 1] = groups[e + 1] + pre[e + 2]
      BY <1>2 DEF PendingOK
    <3>2. groups[e + 1] \in Nat /\ pre[e + 2] \in Nat
      BY <1>1, <1>3
    <3> QED BY <1>4, <3>1, <3>2
  <2>3. \A a \in Epochs : a > e + 1 => ps[a] = left[a]
    BY <1>1, <1>2 DEF PendingOK
  <2> QED BY <2>1, <2>2, <2>3 DEF PendingOK
<1>7. MembershipOK(W, S, ps, pre2, due, e, cur, nxt, sel)
  <2>1. MembershipOK(W, S, ps, pre, due, e, cur, nxt, sel)
    BY DEF Books
  <2>2. pre2[e + 1] = pre[e + 1]
    BY <1>1, <1>4
  <2> QED BY <2>1, <2>2 DEF MembershipOK
<1> QED BY <1>5, <1>6, <1>7 DEF Books, pre2

(* Withdrawal of active stake with h shares is requested.  Once the node   *)
(* is not selected for the next committee nobody owns shares any more.     *)
MayLeave(e, cur, nxt, sel, h, groups, left, owned, own, k, due, more) ==
  /\ e \in 0 .. MaxEpoch
  /\ cur \in BOOLEAN /\ nxt \in BOOLEAN /\ sel \in BOOLEAN
  /\ cur \/ nxt
  /\ h \in Nat /\ h # 0
  /\ left \in [Epochs -> Nat]
  /\ \A a \in Epochs : a > e => left[a] = groups[a]
  /\ own \in Nat /\ own + h <= owned
  /\ k = IF nxt THEN e + 2 ELSE e + 1
  /\ more = IF nxt THEN due ELSE due + h

LEMMA BooksActive ==
  ASSUME NEW W, NEW S, NEW ps, NEW sw, NEW pre, NEW groups, NEW owned, NEW due,
         NEW e, NEW cur, NEW nxt, NEW sel, NEW h, NEW left, NEW own, NEW k, NEW more,
         Books(W, S, ps, sw, pre, groups, owned, due, e, cur, nxt, sel),
         MayLeave(e, cur, nxt, sel, h, groups, left, owned, own, k, due, more)
  PROVE  Books(W, S, ps, [sw EXCEPT ![k] = @ + h], pre, left, own, more, e, cur, nxt, sel)
<1> /\ e \in 0 .. MaxEpoch
    /\ cur \in BOOLEAN /\ nxt \in BOOLEAN /\ sel \in BOOLEAN
    /\ cur \/ nxt
    /\ h \in Nat /\ h # 0
    /\ left \in [Epochs -> Nat]
    /\ \A a \in Epochs : a > e => left[a] = groups[a]
    /\ own \in Nat /\ own + h <= owned
    /\ k = IF nxt THEN e + 2 ELSE e + 1
    /\ more = IF nxt THEN due ELSE due + h
  BY DEF MayLeave
<1> DEFINE sw2 == [sw EXCEPT ![k] = @ + h]
<1>1. /\ e \in Nat /\ e \in Epochs /\ e + 1 \in Epochs /\ e + 2 \in Epochs
      /\ \A a \in Epochs : a \in Nat
  BY Around
<1>2. AmountsOK(W, S, ps, sw, pre, groups, owned, due) /\ PendingOK(ps, sw, pre, groups, e)
  BY DEF Books
<1>3. sw \in [Epochs -> Nat] /\ k \in Epochs
  BY <1>1, <1>2 DEF AmountsOK
<1>4. sw2 \in [Epochs -> Nat] /\ sw2[k] = sw[k] + h /\ \A a \in Epochs : a # k => sw2[a] = sw[a]
  BY <1>3
<1> HIDE DEF sw2
<1>5. W \in Nat /\ S \in Nat /\ owned \in Nat /\ due \in Nat /\ sw[e + 2] \in Nat /\ more \in Nat
  BY <1>1, <1>2, <1>3 DEF AmountsOK
<1>6. AmountsOK(W, S, ps, sw2, pre, left, own, more)
  BY <1>2, <1>4, <1>5 DEF AmountsOK
<1>7. PendingOK(ps, sw2, pre, left, e)
  <2>1. k > e
    BY <1>1
  <2>2. \A a \in Epochs : a <= e => sw2[a] = sw[a]
    BY <1>1, <1>3, <1>4, <2>1
  <2>3. left[e + 1] = groups[e + 1] /\ \A a \in Epochs : a > e + 1 => left[a] = groups[a]
    BY <1>1
  <2> QED BY <1>2, <2>2, <2>3 DEF PendingOK
<1>8. owned + due + sw[e + 2] <= S
  BY DEF Books, SharesOK
<1>9. SharesOK(S, sw2, own, more, e)
  <2>1. CASE nxt
    BY <1>4, <1>5, <1>8, <2>1 DEF SharesOK
  <2>2. CASE ~ nxt
    <3>1. sw2[e + 2] = sw[e + 2]
      BY <1>1, <1>4, <2>2
    <3> QED BY <1>5, <1>8, <2>2, <3>1 DEF SharesOK
  <2> QED BY <2>1, <2>2
<1>10. MembershipOK(W, S, ps, pre, more, e, cur, nxt, sel)
  <2>1. MembershipOK(W, S, ps, pre, due, e, cur, nxt, sel)
    BY DEF Books
  <2>2. CASE nxt
    BY <2>1, <2>2 DEF MembershipOK
  <2>3. CASE ~ nxt
    <3>1. due < S
      BY <1>5, <1>8
    <3>2. ~ sel
      BY <1>5, <2>1, <2>3, <3>1 DEF MembershipOK
    <3> QED BY <2>1, <2>3, <3>2 DEF MembershipOK
  <2> QED BY <2>2, <2>3
<1> QED BY <1>6, <1>7, <1>9, <1>10 DEF Books, sw2

(* Active stake is withdrawn.                                              *)
OwnsLess(e, groups, left, owned, own) ==
  /\ e \in 0 .. MaxEpoch
  /\ left \in [Epochs -> Nat]
  /\ \A a \in Epochs : a > e => left[a] = groups[a]
  /\ own \in Nat /\ own <= owned

LEMMA BooksLess ==
  ASSUME NEW W, NEW S, NEW ps, NEW sw, NEW pre, NEW groups, NEW owned, NEW due,
         NEW e, NEW cur, NEW nxt, NEW sel, NEW left, NEW own,
         Books(W, S, ps, sw, pre, groups, owned, due, e, cur, nxt, sel),
         OwnsLess(e, groups, left, owned, own)
  PROVE  Books(W, S, ps, sw, pre, left, own, due, e, cur, nxt, sel)
<1> /\ e \in 0 .. MaxEpoch
    /\ left \in [Epochs -> Nat]
    /\ \A a \in Epochs : a > e => left[a] = groups[a]
    /\ own \in Nat /\ own <= owned
  BY DEF OwnsLess
<1>1. /\ e \in Nat /\ e \in Epochs /\ e + 1 \in Epochs /\ e + 2 \in Epochs
      /\ \A a \in Epochs : a \in Nat
  BY Around
<1>2. AmountsOK(W, S, ps, sw, pre, groups, owned, due) /\ PendingOK(ps, sw, pre, groups, e)
  BY DEF Books
<1>3. AmountsOK(W, S, ps, sw, pre, left, own, due)
  BY <1>2 DEF AmountsOK
<1>4. PendingOK(ps, sw, pre, left, e)
  <2>1. left[e + 1] = groups[e + 1] /\ \A a \in Epochs : a > e + 1 => left[a] = groups[a]
    BY <1>1
  <2> QED BY <1>2, <2>1 DEF PendingOK
<1>5. SharesOK(S, sw, own, due, e)
  <2>1. S \in Nat /\ owned \in Nat /\ due \in Nat /\ sw[e + 2] \in Nat
    BY <1>1, <1>2 DEF AmountsOK
  <2>2. owned + due + sw[e + 2] <= S
    BY DEF Books, SharesOK
  <2> QED BY <2>1, <2>2 DEF SharesOK
<1> QED BY <1>3, <1>4, <1>5 DEF Books

(* The next committee is selected: the node is in it if it has stake.      *)
MaySelect(W, S, ps, due, e, cur, member) ==
  /\ e \in 0 .. MaxEpoch
  /\ cur \in BOOLEAN /\ member \in BOOLEAN
  /\ member <=> W + ps[e + 1] - ToWal(NewRate(W, S), due) > 0

LEMMA BooksSelect ==
  ASSUME NEW W, NEW S, NEW ps, NEW sw, NEW pre, NEW groups, NEW owned, NEW due,
         NEW e, NEW cur, NEW member,
         Books(W, S, ps, sw, pre, groups, owned, due, e, cur, FALSE, FALSE),
         MaySelect(W, S, ps, due, e, cur, member)
  PROVE  Books(W, S, ps, sw, pre, groups, owned, due, e, cur, member, TRUE)
<1> /\ e \in 0 .. MaxEpoch
    /\ cur \in BOOLEAN /\ member \in BOOLEAN
    /\ member <=> W + ps[e + 1] - ToWal(NewRate(W, S), due) > 0
  BY DEF MaySelect
<1> DEFINE t == ToWal(NewRate(W, S), due)
<1>1. /\ e \in Nat /\ e \in Epochs /\ e + 1 \in Epochs /\ e + 2 \in Epochs
      /\ \A a \in Epochs : a \in Nat
  BY Around
<1>2. /\ W \in Nat /\ S \in Nat /\ owned \in Nat /\ due \in Nat /\ S <= W
      /\ sw[e + 2] \in Nat /\ ps[e + 1] \in Nat
  BY <1>1 DEF Books, AmountsOK
<1>3. due <= S
  BY <1>2 DEF Books, SharesOK
<1>4. t \in Nat /\ t <= W /\ (S = 0 => t = 0) /\ (S > 0 /\ due = S => t = W) /\ (due < S => t < W)
  BY <1>2, <1>3, Leaving
<1>5. MembershipOK(W, S, ps, pre, due, e, cur, FALSE, FALSE)
  BY DEF Books
<1>6. member <=> W + ps[e + 1] - t > 0
  OBVIOUS
<1> HIDE DEF t
<1>7. member => ps[e + 1] > 0 \/ (W > 0 /\ (S = 0 \/ due < S))
  BY <1>2, <1>3, <1>4, <1>6
<1>8. ~ member => ps[e + 1] = 0 /\ (W > 0 => S > 0 /\ due = S)
  BY <1>2, <1>3, <1>4, <1>6
<1>9. MembershipOK(W, S, ps, pre, due, e, cur, member, TRUE)
  BY <1>5, <1>7, <1>8 DEF MembershipOK
<1> QED BY <1>9 DEF Books

(* The balance and the shares of a pool with balance W and shares S after  *)
(* stake P is added and due shares leave.                                  *)
BalanceAfter(W, S, P, due) == W + P - ToWal(NewRate(W, S), due)
SharesAfter(W, S, P, due) == ToShares(NewRate(W, S), BalanceAfter(W, S, P, due))

(* The books are those of a pool at its epoch change, whose balance is X   *)
(* with its rewards; and what the epoch change makes of them.              *)
BeforeAdvance(W, S, ps, sw, pre, groups, owned, due, e, cur, nxt, X) ==
  /\ e \in 0 .. MaxEpoch /\ cur \in BOOLEAN /\ nxt \in BOOLEAN
  /\ cur \/ nxt
  /\ Books(W, S, ps, sw, pre, groups, owned, due, e, cur, nxt, TRUE)
  /\ X \in Nat /\ W <= X

AfterAdvance(S, owned, here, later, left, nxt, rate, X, balance, shares) ==
  /\ rate \in ValidRates
  /\ S <= X
  /\ balance \in Nat
  /\ shares \in Nat
  /\ shares <= balance
  /\ owned + ToShares(rate, here) + (left + ToShares(rate, later)) <= shares
  /\ nxt => balance > 0
  /\ ~ nxt => balance = 0

LEMMA BooksAdvance ==
  ASSUME NEW W, NEW S, NEW ps, NEW sw, NEW pre, NEW groups, NEW owned, NEW due,
         NEW e, NEW cur, NEW nxt, NEW X,
         BeforeAdvance(W, S, ps, sw, pre, groups, owned, due, e, cur, nxt, X)
  PROVE  AfterAdvance(S, owned, groups[e + 1], pre[e + 2], sw[e + 2], nxt, NewRate(X, S), X,
                      BalanceAfter(X, S, ps[e + 1], due), SharesAfter(X, S, ps[e + 1], due))
<1>0. /\ e \in 0 .. MaxEpoch /\ cur \in BOOLEAN /\ nxt \in BOOLEAN
      /\ cur \/ nxt
      /\ Books(W, S, ps, sw, pre, groups, owned, due, e, cur, nxt, TRUE)
      /\ X \in Nat /\ W <= X
  BY DEF BeforeAdvance
<1> DEFINE P == ps[e + 1]
           rate == NewRate(X, S)
           t == ToWal(rate, due)
           balance == X + P - t
           shares == ToShares(rate, balance)
<1>1. /\ e \in Nat /\ e \in Epochs /\ e + 1 \in Epochs /\ e + 2 \in Epochs
      /\ \A a \in Epochs : a \in Nat
  BY <1>0, Around
<1>2. /\ W \in Nat /\ S \in Nat /\ owned \in Nat /\ due \in Nat /\ S <= W
      /\ sw[e + 2] \in Nat /\ P \in Nat /\ groups[e + 1] \in Nat /\ pre[e + 2] \in Nat
  BY <1>0, <1>1 DEF Books, AmountsOK
<1>3. owned + due + sw[e + 2] <= S
  BY <1>0 DEF Books, SharesOK
<1>4. S <= X /\ due <= S
  BY <1>0, <1>2, <1>3
<1>5. BalanceAfter(X, S, P, due) = balance /\ SharesAfter(X, S, P, due) = shares
  BY DEF BalanceAfter, SharesAfter
<1>6. P = groups[e + 1] + pre[e + 2]
  BY <1>0 DEF Books, PendingOK
<1>7. /\ nxt => P > 0 \/ (W > 0 /\ (S = 0 \/ due < S))
      /\ ~ nxt => P = 0 /\ (cur => S > 0 /\ due = S)
  BY <1>0 DEF Books, MembershipOK
<1>8. rate \in ValidRates
  BY <1>0, <1>2, <1>4, NewRateIsValid
<1>9. t \in Nat /\ t <= X /\ (S = 0 => t = 0) /\ (S > 0 /\ due = S => t = X) /\ (due < S => t < X)
  <2>1. S \in Nat /\ due \in Nat /\ S <= X /\ due <= S
    BY <1>0, <1>2, <1>4
  <2>2. /\ t \in Nat /\ t <= X
        /\ S = 0 => t = 0
        /\ S > 0 /\ due = S => t = X
        /\ due < S => t < X
    BY <1>0, <2>1, Leaving
  <2> QED BY <2>2
<1>10. /\ balance \in Nat /\ shares \in Nat /\ shares <= balance
       /\ S - due + ToShares(rate, P) <= shares
  BY <1>0, <1>2, <1>4, Entering
<1> HIDE DEF P, rate, t, shares
<1>11. /\ ToShares(rate, groups[e + 1]) \in Nat /\ ToShares(rate, pre[e + 2]) \in Nat
       /\ ToShares(rate, groups[e + 1]) + ToShares(rate, pre[e + 2]) <= ToShares(rate, P)
       /\ ToShares(rate, P) \in Nat
  BY <1>2, <1>6, <1>8, SharesFacts
<1>12. owned + ToShares(rate, groups[e + 1]) + (sw[e + 2] + ToShares(rate, pre[e + 2])) <= shares
  BY <1>2, <1>3, <1>10, <1>11
<1>13. nxt => balance > 0
  BY <1>0, <1>2, <1>4, <1>7, <1>9
<1>14. ~ nxt => balance = 0
  BY <1>0, <1>2, <1>4, <1>7, <1>9
<1> HIDE DEF balance
<1> QED BY <1>4, <1>5, <1>8, <1>10, <1>12, <1>13, <1>14 DEF P, rate, AfterAdvance

LEMMA FlushFacts ==
  ASSUME NEW values \in [Epochs -> Nat], NEW e
  PROVE  /\ Flush(values, e) \in [Epochs -> Nat]
         /\ \A k \in Epochs : Flush(values, e)[k] = IF k <= e THEN 0 ELSE values[k]
BY DEF Flush

(* The books in the next epoch.                                            *)
BeforeNext(ps, sw, pre, groups, e, nxt, balance, shares, own, leaving) ==
  /\ e \in 0 .. MaxEpoch /\ e + 1 \in 0 .. MaxEpoch /\ nxt \in BOOLEAN
  /\ ps \in [Epochs -> Nat] /\ sw \in [Epochs -> Nat] /\ pre \in [Epochs -> Nat]
  /\ groups \in [Epochs -> Nat]
  /\ \A k \in Epochs : k > e + 1 => ps[k] = groups[k]
  /\ \A k \in Epochs : k > e + 2 => ps[k] = 0 /\ sw[k] = 0 /\ pre[k] = 0
  /\ ~ nxt => pre[e + 2] = 0
  /\ balance \in Nat /\ shares \in Nat /\ own \in Nat /\ leaving \in Nat
  /\ shares <= balance /\ own + leaving <= shares
  /\ nxt => balance > 0
  /\ ~ nxt => balance = 0

LEMMA BooksNext ==
  ASSUME NEW ps, NEW sw, NEW pre, NEW groups, NEW e, NEW nxt,
         NEW balance, NEW shares, NEW own, NEW leaving,
         BeforeNext(ps, sw, pre, groups, e, nxt, balance, shares, own, leaving)
  PROVE  Books(balance, shares, Flush(ps, e + 1), Flush(sw, e + 1), Flush(pre, e + 1), groups,
               own, leaving, e + 1, nxt, FALSE, FALSE)
<1> DEFINE ps2 == Flush(ps, e + 1)
           sw2 == Flush(sw, e + 1)
           pre2 == Flush(pre, e + 1)
<1>1. /\ e \in Nat /\ e \in Epochs /\ e + 1 \in Epochs /\ e + 2 \in Epochs /\ e + 3 \in Epochs
      /\ \A a \in Epochs : a \in Nat
  BY EpochRange DEF BeforeNext
<1>2. /\ ps \in [Epochs -> Nat] /\ sw \in [Epochs -> Nat] /\ pre \in [Epochs -> Nat]
      /\ groups \in [Epochs -> Nat]
  BY DEF BeforeNext
<1>3. /\ ps2 \in [Epochs -> Nat] /\ sw2 \in [Epochs -> Nat] /\ pre2 \in [Epochs -> Nat]
      /\ \A k \in Epochs : /\ ps2[k] = IF k <= e + 1 THEN 0 ELSE ps[k]
                           /\ sw2[k] = IF k <= e + 1 THEN 0 ELSE sw[k]
                           /\ pre2[k] = IF k <= e + 1 THEN 0 ELSE pre[k]
  BY <1>2, FlushFacts
<1> HIDE DEF ps2, sw2, pre2
<1>4. AmountsOK(balance, shares, ps2, sw2, pre2, groups, own, leaving)
  BY <1>2, <1>3 DEF AmountsOK, BeforeNext
<1>5. (e + 1) + 1 = e + 2 /\ (e + 1) + 2 = e + 3
  BY <1>1
<1>6. ps2[e + 2] = ps[e + 2] /\ pre2[e + 2] = pre[e + 2] /\ sw2[e + 3] = 0 /\ pre2[e + 3] = 0
  BY <1>1, <1>3 DEF BeforeNext
<1>7. \A k \in Epochs : k > e + 1 => ps[k] = groups[k]
  BY DEF BeforeNext
<1>8. PendingOK(ps2, sw2, pre2, groups, e + 1)
  <2>1. \A k \in Epochs : k <= e + 1 => ps2[k] = 0 /\ sw2[k] = 0 /\ pre2[k] = 0
    BY <1>3
  <2>2. ps2[e + 2] = groups[e + 2] + pre2[e + 3]
    BY <1>1, <1>2, <1>6, <1>7
  <2>3. \A k \in Epochs : k > e + 2 => ps2[k] = groups[k]
    BY <1>1, <1>3, <1>7
  <2> QED BY <1>5, <2>1, <2>2, <2>3 DEF PendingOK
<1>9. SharesOK(shares, sw2, own, leaving, e + 1)
  BY <1>5, <1>6 DEF SharesOK, BeforeNext
<1>10. MembershipOK(balance, shares, ps2, pre2, leaving, e + 1, nxt, FALSE, FALSE)
  <2>1. ~ nxt => pre[e + 2] = 0
    BY DEF BeforeNext
  <2> QED BY <1>5, <1>6, <2>1 DEF MembershipOK, BeforeNext
<1> QED BY <1>4, <1>8, <1>9, <1>10 DEF Books, ps2, sw2, pre2

(* The next epoch of a pool that is left alone: it has nothing.            *)
MaySkip(ps, sw, pre, due, e) ==
  /\ e \in 0 .. MaxEpoch
  /\ e + 1 \in 0 .. MaxEpoch
  /\ sw[e + 1] <= due
  /\ \A k \in Epochs : k > e + 2 => ps[k] = 0 /\ sw[k] = 0 /\ pre[k] = 0

NothingLeft(sw, pre, groups, owned, e) ==
  groups[e + 1] = 0 /\ sw[e + 2] = 0 /\ pre[e + 2] = 0 /\ owned = 0

LEMMA BooksSkip ==
  ASSUME NEW W, NEW S, NEW ps, NEW sw, NEW pre, NEW groups, NEW owned, NEW due,
         NEW e,
         Books(W, S, ps, sw, pre, groups, owned, due, e, FALSE, FALSE, TRUE),
         MaySkip(ps, sw, pre, due, e)
  PROVE  /\ NothingLeft(sw, pre, groups, owned, e)
         /\ Books(W, S, ps, sw, pre, groups, 0, 0, e + 1, FALSE, FALSE, FALSE)
<1> /\ e \in 0 .. MaxEpoch
    /\ e + 1 \in 0 .. MaxEpoch
    /\ sw[e + 1] <= due
    /\ \A k \in Epochs : k > e + 2 => ps[k] = 0 /\ sw[k] = 0 /\ pre[k] = 0
  BY DEF MaySkip
<1>1. /\ e \in Nat /\ e \in Epochs /\ e + 1 \in Epochs /\ e + 2 \in Epochs /\ e + 3 \in Epochs
      /\ \A a \in Epochs : a \in Nat
  BY EpochRange
<1>2. /\ W \in Nat /\ S \in Nat /\ owned \in Nat /\ due \in Nat /\ S <= W
      /\ ps \in [Epochs -> Nat] /\ sw \in [Epochs -> Nat] /\ pre \in [Epochs -> Nat]
      /\ groups \in [Epochs -> Nat]
  BY DEF Books, AmountsOK
<1>3. W = 0 /\ pre[e + 1] = 0 /\ pre[e + 2] = 0 /\ ps[e + 1] = 0
  BY DEF Books, MembershipOK
<1>4. ps[e + 1] = groups[e + 1] + pre[e + 2] /\ \A k \in Epochs : k > e + 1 => ps[k] = groups[k]
  BY DEF Books, PendingOK
<1>5. groups[e + 1] = 0
  BY <1>1, <1>2, <1>3, <1>4
<1>6. owned = 0 /\ due = 0 /\ sw[e + 2] = 0 /\ S = 0
  <2>1. owned + due + sw[e + 2] <= S
    BY DEF Books, SharesOK
  <2>2. sw[e + 2] \in Nat
    BY <1>1, <1>2
  <2> QED BY <1>2, <1>3, <2>1, <2>2
<1>7. (e + 1) + 1 = e + 2 /\ (e + 1) + 2 = e + 3
  BY <1>1
<1>8. AmountsOK(W, S, ps, sw, pre, groups, 0, 0)
  BY <1>2 DEF AmountsOK
<1>9. /\ \A k \in Epochs : k <= e => ps[k] = 0 /\ sw[k] = 0 /\ pre[k] = 0
      /\ ps[e + 1] = 0 /\ sw[e + 1] = 0 /\ pre[e + 1] = 0
  <2>1. sw[e + 1] \in Nat
    BY <1>1, <1>2
  <2> QED BY <1>3, <1>6, <2>1 DEF Books, PendingOK
<1>10. PendingOK(ps, sw, pre, groups, e + 1)
  <2>1. \A k \in Epochs : k <= e + 1 => ps[k] = 0 /\ sw[k] = 0 /\ pre[k] = 0
    <3> SUFFICES ASSUME NEW k \in Epochs, k <= e + 1 PROVE ps[k] = 0 /\ sw[k] = 0 /\ pre[k] = 0
      OBVIOUS
    <3>1. k <= e \/ k = e + 1
      BY <1>1
    <3> QED BY <1>9, <3>1
  <2>2. ps[e + 2] = groups[e + 2] + pre[e + 3]
    BY <1>1, <1>2, <1>4
  <2>3. \A k \in Epochs : k > e + 2 => ps[k] = groups[k]
    BY <1>1, <1>4
  <2> QED BY <1>7, <2>1, <2>2, <2>3 DEF PendingOK
<1>11. SharesOK(S, sw, 0, 0, e + 1)
  <2>1. sw[e + 3] = 0
    BY <1>1
  <2> QED BY <1>2, <1>7, <2>1 DEF SharesOK
<1>12. MembershipOK(W, S, ps, pre, 0, e + 1, FALSE, FALSE, FALSE)
  <2>1. pre[e + 3] = 0
    BY <1>1
  <2> QED BY <1>3, <1>7, <2>1 DEF MembershipOK
<1> QED BY <1>3, <1>5, <1>6, <1>8, <1>10, <1>11, <1>12 DEF Books, NothingLeft

-----------------------------------------------------------------------------
(* The books of a pool.                                                    *)

(* The shares that leave with the next epoch change.                       *)
Due(p, e) ==
  p.pending_shares_withdraw[e + 1] + ToShares(RateAt(p, e), p.pre_active_withdrawals[e + 1])

BooksOf(p, groups, e, cur, nxt, sel) ==
  Books(p.wal_balance, p.num_shares, p.pending_stake, p.pending_shares_withdraw,
        p.pre_active_withdrawals, groups, Owned(p, groups, e), Due(p, e), e, cur, nxt, sel)

(* No rate is recorded for a later epoch that the pool is updated in.      *)
RatesOK(p, e, outside) ==
  /\ KnownRates(p)
  /\ \A k \in Epochs : k > e /\ p.exchange_rates[k] # NoRate => k = e + 1 /\ outside

SharesInv ==
  /\ RatesOK(pool, epoch, selected /\ ~ in_next /\ ~ in_current)
  /\ BooksOf(pool, Groups(stakes), epoch, in_current, in_next, selected)

(* The balance in the next epoch.                                          *)
LEMMA BalanceIs ==
  ASSUME NEW p, KnownRates(p), NEW e \in Nat, e + 1 \in Epochs,
         p.pending_stake \in [Epochs -> Nat], p.pending_shares_withdraw \in [Epochs -> Nat],
         p.pre_active_withdrawals \in [Epochs -> Nat],
         \A k \in Epochs : k <= e => /\ p.pending_stake[k] = 0
                                     /\ p.pending_shares_withdraw[k] = 0
                                     /\ p.pre_active_withdrawals[k] = 0
  PROVE  BalanceAt(p, e + 1) = p.wal_balance + p.pending_stake[e + 1] - ToWal(CurrentRate(p), Due(p, e))
<1>1. ValueAt(p.pending_stake, e + 1) = p.pending_stake[e + 1]
  BY PendingValue
<1>2. ValueAt(p.pending_shares_withdraw, e + 1) = p.pending_shares_withdraw[e + 1]
  BY PendingValue
<1>3. PreActiveShares(p, e + 1) = ToShares(RateAt(p, e), p.pre_active_withdrawals[e + 1])
  BY PreActiveValue
<1> QED BY <1>1, <1>2, <1>3 DEF BalanceAt, SharesWithdrawn, Due

(* Commission is never more than the rewards.                              *)
LEMMA CommissionRange == Inv => pool.commission_rate \in 0 .. BasisPoints
<1> SUFFICES ASSUME Inv PROVE pool.commission_rate \in 0 .. BasisPoints
  OBVIOUS
<1>1. PICK u \in -1 .. epoch : UpdatedTo(u)
  BY DEF Inv
<1> DEFINE known == {k \in Epochs : k <= u /\ scheduled[k] # Unset}
<1>2. pool.commission_rate = IF known = {} THEN 0 ELSE scheduled[Max(known)]
  BY <1>1 DEF UpdatedTo, LatestValueAt
<1>3. scheduled \in [Epochs -> Rates] /\ known \in SUBSET Epochs
  BY DEF Inv, ShapeInv
<1>4. CASE known = {}
  BY <1>2, <1>4
<1>5. CASE known # {}
  <2>1. PICK m \in known : \A k \in known : m >= k
    <3> HIDE DEF known
    <3> QED BY <1>3, <1>5, LastEpoch
  <2>2. Max(known) = m
    <3> HIDE DEF known
    <3> QED BY <1>3, <2>1, MaxIsLast
  <2>3. scheduled[m] \in 0 .. BasisPoints
    BY <1>3 DEF Rates
  <2> QED BY <1>2, <1>5, <2>2, <2>3
<1> QED BY <1>4, <1>5

Earned(rewards) == rewards - (rewards * pool.commission_rate) \div BasisPoints

LEMMA EarnedType ==
  ASSUME Inv, NEW rewards \in Nat
  PROVE  Earned(rewards) \in Nat
<1> DEFINE c == pool.commission_rate
           d == (rewards * c) \div BasisPoints
<1>1. c \in Nat /\ c <= BasisPoints /\ BasisPoints \in Nat /\ BasisPoints > 0
  BY CommissionRange
<1> HIDE DEF c
<1>2. rewards * c \in Nat
  BY <1>1
<1>3. d \in Nat /\ d * BasisPoints <= rewards * c
  BY <1>1, <1>2, Quotient
<1> HIDE DEF d
<1>4. d <= rewards
  <2>1. SUFFICES ASSUME rewards + 1 <= d PROVE FALSE
    BY <1>3
  <2>2. (rewards + 1) * BasisPoints \in Nat /\ (rewards + 1) * BasisPoints <= d * BasisPoints
    BY <1>1, <1>3, <2>1, Times
  <2>3. c * rewards <= BasisPoints * rewards /\ c * rewards = rewards * c
    BY <1>1, Times
  <2>4. (rewards + 1) * BasisPoints = BasisPoints * rewards + BasisPoints /\ BasisPoints * rewards \in Nat
    BY <1>1
  <2>5. d * BasisPoints \in Nat
    BY <1>1, <1>3
  <2> QED BY <1>1, <1>2, <1>3, <2>2, <2>3, <2>4, <2>5
<1>5. Earned(rewards) = rewards - d
  BY DEF Earned, c, d
<1> QED BY <1>3, <1>4, <1>5

(* What the rewards and the pending stake change in the pool.              *)
LEMMA WithRewardsAmounts ==
  ASSUME ShapeInv, NEW rewards
  PROVE  /\ WithRewards(rewards).wal_balance = pool.wal_balance + Earned(rewards)
         /\ WithRewards(rewards).num_shares = pool.num_shares
         /\ WithRewards(rewards).activation_epoch = pool.activation_epoch
         /\ WithRewards(rewards).exchange_rates = pool.exchange_rates
<1> DEFINE earned == Earned(rewards)
           rate == LatestValueAt(pool.pending_commission_rate, epoch + 1, pool.commission_rate)
           pending == [e \in Epochs |-> IF e <= epoch + 1 THEN Unset
                                        ELSE pool.pending_commission_rate[e]]
           balance == pool.wal_balance + earned
           held == pool.rewards_pool + earned
<1>1. pool = [f \in Fields |-> pool[f]]
  BY DEF ShapeInv, PoolShape
<1>2. WithRewards(rewards) = [pool EXCEPT !.commission_rate = rate, !.pending_commission_rate = pending,
                                !.rewards_pool = held, !.wal_balance = balance]
  BY <1>1 DEF WithRewards, Fields, Earned
<1>3. balance = pool.wal_balance + Earned(rewards)
  OBVIOUS
<1> HIDE DEF earned, rate, pending, balance, held
<1> QED BY <1>1, <1>2, <1>3 DEF Fields

LEMMA ProcessPendingAmounts ==
  ASSUME NEW p, PoolShape(p), NEW e
  PROVE  /\ ProcessPending(p, e).wal_balance = BalanceAt(p, e)
         /\ ProcessPending(p, e).num_shares = ToShares(CurrentRate(p), BalanceAt(p, e))
         /\ ProcessPending(p, e).activation_epoch = p.activation_epoch
         /\ ProcessPending(p, e).exchange_rates = [p.exchange_rates EXCEPT ![e] = CurrentRate(p)]
<1> DEFINE balance == BalanceAt(p, e)
           shares == ToShares(CurrentRate(p), balance)
           rates == [p.exchange_rates EXCEPT ![e] = CurrentRate(p)]
           stake == Flush(p.pending_stake, e)
           pre_active == Flush(p.pre_active_withdrawals, e)
           withdraw == Flush(p.pending_shares_withdraw, e)
           q == ProcessPending(p, e)
<1>1. p = [f \in Fields |-> p[f]]
  BY DEF PoolShape
<1>2. q = [p EXCEPT !.exchange_rates = rates, !.wal_balance = balance, !.num_shares = shares,
             !.pending_stake = stake, !.pre_active_withdrawals = pre_active,
             !.pending_shares_withdraw = withdraw]
  BY <1>1 DEF ProcessPending, Fields
<1> HIDE DEF rates, balance, shares, q, stake, pre_active, withdraw
<1>3. /\ q.wal_balance = balance /\ q.num_shares = shares
      /\ q.activation_epoch = p.activation_epoch /\ q.exchange_rates = rates
  BY <1>1, <1>2 DEF Fields
<1> QED BY <1>3 DEF q, balance, shares, rates

-----------------------------------------------------------------------------
(* Every step keeps the books.                                             *)

(* The epoch change of pool p; w is the pool with its rewards.             *)
AdvancesTo(p, w, groups, e, cur, nxt) ==
  /\ e \in 0 .. MaxEpoch /\ cur \in BOOLEAN /\ nxt \in BOOLEAN
  /\ cur \/ nxt
  /\ KnownRates(p) /\ NothingAfter(p, e + 2) /\ BooksOf(p, groups, e, cur, nxt, TRUE)
  /\ PoolShape(w) /\ w.wal_balance \in Nat /\ p.wal_balance <= w.wal_balance
  /\ w.num_shares = p.num_shares /\ w.pending_stake = p.pending_stake
  /\ w.pending_shares_withdraw = p.pending_shares_withdraw
  /\ w.pre_active_withdrawals = p.pre_active_withdrawals
  /\ w.activation_epoch = p.activation_epoch /\ w.exchange_rates = p.exchange_rates

LEMMA AdvanceBooks ==
  ASSUME NEW p, NEW w, NEW groups, NEW e, NEW cur, NEW nxt, AdvancesTo(p, w, groups, e, cur, nxt)
  PROVE  /\ RateIsValid(w.wal_balance, w.num_shares)
         /\ BalanceAt(w, e + 1) >= 0
         /\ BalanceIsValid(ProcessPending(w, e + 1), e + 2)
         /\ KnownRates(ProcessPending(w, e + 1))
         /\ ProcessPending(w, e + 1).exchange_rates = [p.exchange_rates EXCEPT ![e + 1] = CurrentRate(w)]
         /\ e + 1 \in 0 .. MaxEpoch =>
              BooksOf(ProcessPending(w, e + 1), groups, e + 1, nxt, FALSE, FALSE)
<1>q. PICK q : q = ProcessPending(w, e + 1)
  OBVIOUS
<1> /\ e \in 0 .. MaxEpoch /\ cur \in BOOLEAN /\ nxt \in BOOLEAN
    /\ cur \/ nxt
    /\ KnownRates(p) /\ NothingAfter(p, e + 2) /\ BooksOf(p, groups, e, cur, nxt, TRUE)
    /\ PoolShape(w) /\ w.wal_balance \in Nat /\ p.wal_balance <= w.wal_balance
    /\ w.num_shares = p.num_shares /\ w.pending_stake = p.pending_stake
    /\ w.pending_shares_withdraw = p.pending_shares_withdraw
    /\ w.pre_active_withdrawals = p.pre_active_withdrawals
    /\ w.activation_epoch = p.activation_epoch /\ w.exchange_rates = p.exchange_rates
  BY DEF AdvancesTo
<1> DEFINE W == p.wal_balance
           S == p.num_shares
           ps == p.pending_stake
           sw == p.pending_shares_withdraw
           pre == p.pre_active_withdrawals
           owned == Owned(p, groups, e)
           due == Due(p, e)
<1>1. /\ e \in Nat /\ e \in Epochs /\ e + 1 \in Epochs /\ e + 2 \in Epochs
      /\ e + 1 \in Nat /\ (e + 1) + 1 = e + 2
  BY Around
<1>2. PICK X \in Nat : X = w.wal_balance
  OBVIOUS
<1> DEFINE rate == NewRate(X, S)
           balance == BalanceAfter(X, S, ps[e + 1], due)
           shares == SharesAfter(X, S, ps[e + 1], due)
           leaving == sw[e + 2] + ToShares(rate, pre[e + 2])
           own == owned + ToShares(rate, groups[e + 1])
<1>3. Books(W, S, ps, sw, pre, groups, owned, due, e, cur, nxt, TRUE)
  BY DEF BooksOf
<1>4. /\ W \in Nat /\ S \in Nat /\ groups \in [Epochs -> Nat] /\ owned \in Nat /\ due \in Nat
      /\ ps \in [Epochs -> Nat] /\ sw \in [Epochs -> Nat] /\ pre \in [Epochs -> Nat]
  BY <1>3 DEF Books, AmountsOK
<1>5. \A k \in Epochs : k <= e => ps[k] = 0 /\ sw[k] = 0 /\ pre[k] = 0
  BY <1>3 DEF Books, PendingOK
<1>6. CurrentRate(w) = rate
  BY <1>2 DEF CurrentRate
<1>7. W <= X
  BY <1>2
<1> HIDE DEF W, S, ps, sw, pre, owned, due
<1>8. /\ rate \in ValidRates
      /\ S <= X
      /\ balance \in Nat
      /\ shares \in Nat
      /\ shares <= balance
      /\ own + leaving <= shares
      /\ nxt => balance > 0
      /\ ~ nxt => balance = 0
  <2>1. BeforeAdvance(W, S, ps, sw, pre, groups, owned, due, e, cur, nxt, X)
    BY <1>3, <1>7 DEF BeforeAdvance
  <2>2. AfterAdvance(S, owned, groups[e + 1], pre[e + 2], sw[e + 2], nxt, rate, X, balance, shares)
    BY <2>1, BooksAdvance
  <2> HIDE DEF rate, balance, shares
  <2> QED BY <2>2 DEF AfterAdvance
<1> HIDE DEF rate, balance, shares
<1>9. own \in Nat /\ leaving \in Nat
  <2>1. ToShares(rate, groups[e + 1]) \in Nat /\ ToShares(rate, pre[e + 2]) \in Nat
    BY <1>1, <1>4, <1>8, SharesFacts
  <2>2. sw[e + 2] \in Nat
    BY <1>1, <1>4
  <2> QED BY <1>4, <2>1, <2>2
<1>10. /\ q.wal_balance = BalanceAt(w, e + 1)
       /\ q.num_shares = ToShares(CurrentRate(w), BalanceAt(w, e + 1))
       /\ q.activation_epoch = w.activation_epoch
       /\ q.exchange_rates = [w.exchange_rates EXCEPT ![e + 1] = CurrentRate(w)]
  <2>1. PoolShape(w)
    OBVIOUS
  <2>2. /\ ProcessPending(w, e + 1).wal_balance = BalanceAt(w, e + 1)
        /\ ProcessPending(w, e + 1).num_shares = ToShares(CurrentRate(w), BalanceAt(w, e + 1))
        /\ ProcessPending(w, e + 1).activation_epoch = w.activation_epoch
        /\ ProcessPending(w, e + 1).exchange_rates = [w.exchange_rates EXCEPT ![e + 1] = CurrentRate(w)]
    BY <2>1, ProcessPendingAmounts, Zenon
  <2> QED BY <1>q, <2>2, Zenon
<1>11. /\ q.pending_stake = Flush(ps, e + 1)
       /\ q.pending_shares_withdraw = Flush(sw, e + 1)
       /\ q.pre_active_withdrawals = Flush(pre, e + 1)
  BY <1>q, ProcessPendingFacts DEF ps, sw, pre
<1>12. BalanceAt(w, e + 1) = balance
  <2>1. KnownRates(w)
    BY DEF KnownRates
  <2>2. RateAt(w, e) = RateAt(p, e)
    BY SameRates
  <2>3. Due(w, e) = due
    BY <2>2 DEF Due, due
  <2>4. /\ w.pending_stake = ps /\ w.pending_shares_withdraw = sw /\ w.pre_active_withdrawals = pre
    BY DEF ps, sw, pre
  <2>5. BalanceAt(w, e + 1) = w.wal_balance + w.pending_stake[e + 1] - ToWal(CurrentRate(w), Due(w, e))
    BY <1>1, <1>4, <1>5, <2>1, <2>4, BalanceIs
  <2> QED BY <1>2, <1>6, <2>3, <2>4, <2>5 DEF balance, BalanceAfter, rate
<1>13. q.wal_balance = balance /\ q.num_shares = shares
  BY <1>6, <1>10, <1>12 DEF balance, shares, SharesAfter, rate
<1>14. /\ KnownRates(q) /\ RateAt(q, e + 1) = rate
       /\ \A a \in Epochs : a <= e => RateAt(q, a) = RateAt(p, a)
  <2>1. q.activation_epoch = p.activation_epoch /\ q.exchange_rates = [p.exchange_rates EXCEPT ![e + 1] = rate]
    BY <1>6, <1>10
  <2>2. RateRecorded(p, q, e, rate)
    BY <1>1, <1>8, <2>1 DEF RateRecorded
  <2> QED BY <2>2, RecordRate
<1>15. /\ q.pending_stake \in [Epochs -> Nat] /\ q.pending_shares_withdraw \in [Epochs -> Nat]
       /\ q.pre_active_withdrawals \in [Epochs -> Nat]
       /\ \A k \in Epochs : /\ q.pending_stake[k] = IF k <= e + 1 THEN 0 ELSE ps[k]
                            /\ q.pending_shares_withdraw[k] = IF k <= e + 1 THEN 0 ELSE sw[k]
                            /\ q.pre_active_withdrawals[k] = IF k <= e + 1 THEN 0 ELSE pre[k]
  BY <1>4, <1>11, FlushFacts
<1>16. Due(q, e + 1) = leaving
  <2>1. q.pending_shares_withdraw[e + 2] = sw[e + 2] /\ q.pre_active_withdrawals[e + 2] = pre[e + 2]
    BY <1>1, <1>15
  <2> QED BY <1>1, <1>14, <2>1 DEF Due
<1> HIDE DEF own, leaving
<1>17. BalanceAt(q, e + 2) >= 0
  <2>1. BalanceAt(q, (e + 1) + 1) =
          q.wal_balance + q.pending_stake[(e + 1) + 1] - ToWal(CurrentRate(q), Due(q, e + 1))
    BY <1>1, <1>14, <1>15, BalanceIs
  <2>2. leaving <= shares
    BY <1>8, <1>9
  <2>3. /\ ToWal(NewRate(balance, shares), leaving) \in Nat
        /\ ToWal(NewRate(balance, shares), leaving) <= balance
    BY <1>8, <1>9, <2>2, Leaving
  <2>4. q.pending_stake[e + 2] \in Nat
    BY <1>1, <1>15
  <2>5. CurrentRate(q) = NewRate(balance, shares)
    BY <1>13 DEF CurrentRate
  <2>6. BalanceAt(q, e + 2) = balance + q.pending_stake[e + 2] - ToWal(NewRate(balance, shares), leaving)
    BY <1>1, <1>13, <1>16, <2>1, <2>5
  <2> QED BY <1>8, <2>3, <2>4, <2>6
<1>18. ASSUME e + 1 \in 0 .. MaxEpoch
       PROVE  BooksOf(q, groups, e + 1, nxt, FALSE, FALSE)
  <2>1. Owned(q, groups, e + 1) = own
    BY <1>1, <1>4, <1>14, OwnedNext DEF own, owned
  <2>2. \A k \in Epochs : k > e + 2 => ps[k] = 0 /\ sw[k] = 0 /\ pre[k] = 0
    BY DEF NothingAfter, ps, sw, pre
  <2>3. balance \in Nat /\ shares \in Nat /\ shares <= balance /\ own + leaving <= shares
    BY <1>8
  <2>4. /\ nxt => balance > 0
        /\ ~ nxt => balance = 0
    BY <1>8
  <2>5. Books(balance, shares, Flush(ps, e + 1), Flush(sw, e + 1), Flush(pre, e + 1),
              groups, own, leaving, e + 1, nxt, FALSE, FALSE)
    <3>1. \A k \in Epochs : k > e + 1 => ps[k] = groups[k]
      BY <1>3 DEF Books, PendingOK
    <3>2. ~ nxt => pre[e + 2] = 0
      BY <1>3 DEF Books, MembershipOK
    <3>3. BeforeNext(ps, sw, pre, groups, e, nxt, balance, shares, own, leaving)
      BY <1>4, <1>9, <1>18, <2>2, <2>3, <2>4, <3>1, <3>2 DEF BeforeNext
    <3> QED BY <3>3, BooksNext
  <2> QED BY <1>11, <1>13, <1>16, <2>1, <2>5 DEF BooksOf
<1>19. RateIsValid(w.wal_balance, w.num_shares)
  BY <1>2, <1>8 DEF RateIsValid, S
<1>20. BalanceIsValid(q, e + 2)
  BY <1>8, <1>13, <1>17 DEF RateIsValid, BalanceIsValid
<1>21. BalanceAt(w, e + 1) >= 0
  BY <1>8, <1>12
<1>22. q.exchange_rates = [p.exchange_rates EXCEPT ![e + 1] = CurrentRate(w)]
  BY <1>10
<1> QED BY <1>q, <1>14, <1>18, <1>19, <1>20, <1>21, <1>22

(* The epoch change of a pool that is brought up to date succeeds.         *)
LEMMA AdvancePool ==
  ASSUME Inv, SharesInv, selected, in_current \/ in_next,
         NEW rewards \in Rewards, in_current \/ rewards = 0
  PROVE  /\ AdvanceSucceeds(rewards)
         /\ epoch + 1 \in 0 .. MaxEpoch =>
              /\ RatesOK(Advanced(rewards), epoch + 1, FALSE)
              /\ BooksOf(Advanced(rewards), Groups(stakes), epoch + 1, in_next, FALSE, FALSE)
<1> DEFINE w == WithRewards(rewards)
           q == ProcessPending(w, epoch + 1)
<1>1. ShapeInv /\ NothingAfter(pool, epoch + 2)
  BY DEF Inv, VoteEpoch
<1>2. /\ epoch \in 0 .. MaxEpoch /\ in_current \in BOOLEAN /\ in_next \in BOOLEAN
      /\ epoch \in Nat /\ epoch + 1 \in Epochs
  BY <1>1, Around DEF ShapeInv
<1>3. KnownRates(pool) /\ BooksOf(pool, Groups(stakes), epoch, in_current, in_next, TRUE)
  BY DEF SharesInv, RatesOK
<1>4. \A k \in Epochs : k > epoch => pool.exchange_rates[k] = NoRate
  BY DEF SharesInv, RatesOK
<1>5. pool.wal_balance \in Nat /\ (in_current => pool.wal_balance > 0)
  BY <1>3 DEF BooksOf, Books, AmountsOK, MembershipOK
<1>6. Earned(rewards) \in Nat
  BY RewardsAssumption, EarnedType
<1>7. /\ PoolShape(w)
      /\ w.num_shares = pool.num_shares
      /\ w.pending_stake = pool.pending_stake
      /\ w.pending_shares_withdraw = pool.pending_shares_withdraw
      /\ w.pre_active_withdrawals = pool.pre_active_withdrawals
      /\ w.activation_epoch = pool.activation_epoch /\ w.exchange_rates = pool.exchange_rates
  BY <1>1, WithRewardsFacts, WithRewardsAmounts
<1>8. w.wal_balance \in Nat /\ pool.wal_balance <= w.wal_balance
  <2>1. w.wal_balance = pool.wal_balance + Earned(rewards)
    BY <1>1, WithRewardsAmounts
  <2> HIDE DEF w
  <2> QED BY <1>5, <1>6, <2>1
<1>9. q = ProcessPending(w, epoch + 1)
  OBVIOUS
<1> HIDE DEF w, q
<1>10. /\ RateIsValid(w.wal_balance, w.num_shares)
       /\ BalanceAt(w, epoch + 1) >= 0
       /\ BalanceIsValid(q, epoch + 2)
       /\ KnownRates(q)
       /\ q.exchange_rates = [pool.exchange_rates EXCEPT ![epoch + 1] = CurrentRate(w)]
       /\ epoch + 1 \in 0 .. MaxEpoch => BooksOf(q, Groups(stakes), epoch + 1, in_next, FALSE, FALSE)
  <2>1. AdvancesTo(pool, w, Groups(stakes), epoch, in_current, in_next)
    BY <1>1, <1>2, <1>3, <1>7, <1>8 DEF AdvancesTo
  <2> QED BY <1>9, <2>1, AdvanceBooks
<1>11. AdvanceSucceeds(rewards)
  <2>1. pool.exchange_rates[epoch + 1] = NoRate
    BY <1>2, <1>4
  <2> QED BY <1>5, <1>10, <2>1 DEF AdvanceSucceeds, w, q
<1>12. RatesOK(q, epoch + 1, FALSE)
  <2>1. \A k \in Epochs : k > epoch + 1 => q.exchange_rates[k] = NoRate
    BY <1>2, <1>3, <1>4, <1>10, EpochRange DEF KnownRates
  <2> QED BY <1>10, <2>1 DEF RatesOK
<1> QED BY <1>10, <1>11, <1>12 DEF Advanced, q, w

(* A stake is added.                                                       *)
LEMMA GroupsGrow ==
  ASSUME NEW st \in [Stakes -> StakeRecords], NEW s \in Stakes, st[s].state # "staked",
         NEW sw \in StakeRecords, sw.state = "staked"
  PROVE  /\ Groups([st EXCEPT ![s] = sw]) \in [Epochs -> Nat]
         /\ Groups([st EXCEPT ![s] = sw])[sw.activation_epoch] =
              Groups(st)[sw.activation_epoch] + sw.principal
         /\ \A a \in Epochs : a # sw.activation_epoch =>
              Groups([st EXCEPT ![s] = sw])[a] = Groups(st)[a]
<1>1. [st EXCEPT ![s] = sw] \in [Stakes -> StakeRecords]
  OBVIOUS
<1>2. Groups(st) \in [Epochs -> Nat] /\ Groups([st EXCEPT ![s] = sw]) \in [Epochs -> Nat]
  BY <1>1, GroupsType
<1>3. \A a \in Epochs : Groups([st EXCEPT ![s] = sw])[a] = Groups(st)[a] - Counted(st[s], a) + Counted(sw, a)
  BY GroupsUpdate
<1>4. \A a \in Epochs : Groups(st)[a] \in Nat /\ Counted(st[s], a) = 0
  BY <1>2 DEF Counted
<1>5. sw.activation_epoch \in Epochs /\ sw.principal \in Nat
  BY DEF StakeRecords
<1>6. Counted(sw, sw.activation_epoch) = sw.principal
  BY DEF Counted
<1>7. \A a \in Epochs : a # sw.activation_epoch => Counted(sw, a) = 0
  BY DEF Counted
<1> HIDE DEF Counted
<1>8. Groups([st EXCEPT ![s] = sw])[sw.activation_epoch] = Groups(st)[sw.activation_epoch] - 0 + sw.principal
  BY <1>3, <1>4, <1>5, <1>6
<1>9. \A a \in Epochs : a # sw.activation_epoch => Groups([st EXCEPT ![s] = sw])[a] = Groups(st)[a] - 0 + 0
  BY <1>3, <1>4, <1>7
<1>10. PICK g, h : g = Groups(st) /\ h = Groups([st EXCEPT ![s] = sw])
  OBVIOUS
<1>11. g[sw.activation_epoch] \in Nat /\ h[sw.activation_epoch] = g[sw.activation_epoch] - 0 + sw.principal
  BY <1>4, <1>5, <1>8, <1>10
<1>12. h[sw.activation_epoch] = g[sw.activation_epoch] + sw.principal
  BY <1>5, <1>11
<1>13. \A a \in Epochs : g[a] \in Nat /\ (a # sw.activation_epoch => h[a] = g[a] - 0 + 0)
  BY <1>4, <1>9, <1>10
<1>14. \A a \in Epochs : a # sw.activation_epoch => h[a] = g[a]
  BY <1>13
<1> QED BY <1>2, <1>10, <1>12, <1>14

(* A stake is withdrawn.                                                   *)
LEMMA GroupsShrink ==
  ASSUME NEW st \in [Stakes -> StakeRecords], NEW s \in Stakes, st[s].state = "staked",
         NEW sw \in StakeRecords, sw.state # "staked"
  PROVE  /\ Groups([st EXCEPT ![s] = sw]) \in [Epochs -> Nat]
         /\ st[s].principal <= Groups(st)[st[s].activation_epoch]
         /\ Groups([st EXCEPT ![s] = sw])[st[s].activation_epoch] =
              Groups(st)[st[s].activation_epoch] - st[s].principal
         /\ \A a \in Epochs : a # st[s].activation_epoch =>
              Groups([st EXCEPT ![s] = sw])[a] = Groups(st)[a]
<1>0. PICK k \in Epochs, x \in Nat : k = st[s].activation_epoch /\ x = st[s].principal
  BY DEF StakeRecords
<1>1. [st EXCEPT ![s] = sw] \in [Stakes -> StakeRecords]
  OBVIOUS
<1>2. Groups(st) \in [Epochs -> Nat] /\ Groups([st EXCEPT ![s] = sw]) \in [Epochs -> Nat]
  BY <1>1, GroupsType
<1>3. \A a \in Epochs : Groups([st EXCEPT ![s] = sw])[a] = Groups(st)[a] - Counted(st[s], a) + Counted(sw, a)
  BY GroupsUpdate
<1>4. \A a \in Epochs : Groups(st)[a] \in Nat /\ Counted(sw, a) = 0
  BY <1>2 DEF Counted
<1>6. Counted(st[s], k) = x
  BY <1>0 DEF Counted
<1>7. \A a \in Epochs : a # k => Counted(st[s], a) = 0
  BY <1>0 DEF Counted
<1>8. Groups([st EXCEPT ![s] = sw])[k] = Groups(st)[k] - x + 0
  BY <1>3, <1>4, <1>6
<1>9. \A a \in Epochs : a # k => Groups([st EXCEPT ![s] = sw])[a] = Groups(st)[a] - 0 + 0
  BY <1>3, <1>4, <1>7
<1>10. x <= Groups(st)[k]
  BY <1>6, GroupsType
<1>11. PICK g, h : g = Groups(st) /\ h = Groups([st EXCEPT ![s] = sw])
  OBVIOUS
<1>12. g[k] \in Nat /\ h[k] = g[k] - x + 0
  BY <1>4, <1>8, <1>11
<1>13. h[k] = g[k] - x
  BY <1>12
<1>14. \A a \in Epochs : g[a] \in Nat /\ (a # k => h[a] = g[a] - 0 + 0)
  BY <1>4, <1>9, <1>11
<1>15. \A a \in Epochs : a # k => h[a] = g[a]
  BY <1>14
<1> QED BY <1>0, <1>2, <1>10, <1>11, <1>13, <1>15

(* The two pools have the same rates, balance and shares.                  *)
SameHoldings(p, q) ==
  /\ q.activation_epoch = p.activation_epoch /\ q.exchange_rates = p.exchange_rates
  /\ q.wal_balance = p.wal_balance /\ q.num_shares = p.num_shares

LEMMA SetPendingStake ==
  ASSUME NEW p, PoolShape(p), NEW k, NEW v
  PROVE  /\ SameHoldings(p, [p EXCEPT !.pending_stake[k] = v])
         /\ [p EXCEPT !.pending_stake[k] = v].pending_stake = [p.pending_stake EXCEPT ![k] = v]
         /\ [p EXCEPT !.pending_stake[k] = v].pending_shares_withdraw = p.pending_shares_withdraw
         /\ [p EXCEPT !.pending_stake[k] = v].pre_active_withdrawals = p.pre_active_withdrawals
BY DEF PoolShape, Fields, SameHoldings

LEMMA SetPreActive ==
  ASSUME NEW p, PoolShape(p), NEW k, NEW v
  PROVE  /\ SameHoldings(p, [p EXCEPT !.pre_active_withdrawals[k] = v])
         /\ [p EXCEPT !.pre_active_withdrawals[k] = v].pending_stake = p.pending_stake
         /\ [p EXCEPT !.pre_active_withdrawals[k] = v].pending_shares_withdraw = p.pending_shares_withdraw
         /\ [p EXCEPT !.pre_active_withdrawals[k] = v].pre_active_withdrawals =
               [p.pre_active_withdrawals EXCEPT ![k] = v]
BY DEF PoolShape, Fields, SameHoldings

(* What is owned and what is due do not depend on anything else.           *)
LEMMA SameOwned ==
  ASSUME NEW p, NEW q, SameHoldings(p, q), NEW e, NEW groups
  PROVE  /\ \A a : RateAt(q, a) = RateAt(p, a)
         /\ KnownRates(p) => KnownRates(q)
         /\ Owned(q, groups, e) = Owned(p, groups, e)
<1>1. \A a : RateAt(q, a) = RateAt(p, a)
  BY SameRates DEF SameHoldings
<1>2. Owned(q, groups, e) = Owned(p, groups, e)
  BY <1>1, OwnedSame
<1>3. KnownRates(p) => KnownRates(q)
  BY DEF SameHoldings, KnownRates
<1> QED BY <1>1, <1>2, <1>3

(* A step within an epoch.                                                 *)
LEMMA StepWithin ==
  ASSUME SharesInv, NEW q, NEW st, pool' = q, stakes' = st, UNCHANGED context, SameHoldings(pool, q),
         BooksOf(q, Groups(st), epoch, in_current, in_next, selected)
  PROVE  SharesInv'
BY DEF SharesInv, RatesOK, KnownRates, SameHoldings, context

LEMMA StakeShares ==
  ASSUME Inv, SharesInv, NEW s \in Stakes, NEW amount \in Amounts, Stake(s, amount)
  PROVE  SharesInv'
<1>1. PICK k \in Epochs : k = ActivationEpoch
  BY EpochFacts DEF Inv
<1> DEFINE q == [pool EXCEPT !.pending_stake[k] = @ + amount]
           sw == [state |-> "staked", principal |-> amount, activation_epoch |-> k, withdraw_epoch |-> 0]
           st == [stakes EXCEPT ![s] = sw]
<1>2. pool' = q /\ stakes' = st /\ UNCHANGED context /\ stakes[s] = NoStake
  BY <1>1 DEF Stake
<1>3. /\ PoolShape(pool) /\ stakes \in [Stakes -> StakeRecords] /\ epoch \in 0 .. MaxEpoch
      /\ amount \in Nat /\ 0 \in Epochs
  BY EpochRange DEF Inv, ShapeInv
<1>4. k \in {epoch + 1, epoch + 2} /\ (selected => k = epoch + 2)
  BY <1>1, EpochFacts DEF Inv, ActivationEpoch
<1>5. /\ SameHoldings(pool, q)
      /\ q.pending_stake = [pool.pending_stake EXCEPT ![k] = @ + amount]
      /\ q.pending_shares_withdraw = pool.pending_shares_withdraw
      /\ q.pre_active_withdrawals = pool.pre_active_withdrawals
  BY <1>3, SetPendingStake
<1>6. /\ Groups(st) \in [Epochs -> Nat] /\ Groups(st)[k] = Groups(stakes)[k] + amount
      /\ \A a \in Epochs : a # k => Groups(st)[a] = Groups(stakes)[a]
  <2>1. sw \in StakeRecords /\ sw.state = "staked" /\ sw.activation_epoch = k /\ sw.principal = amount
    BY <1>3 DEF StakeRecords
  <2>2. stakes[s].state # "staked"
    BY <1>2 DEF NoStake
  <2> HIDE DEF sw
  <2> QED BY <1>3, <2>1, <2>2, GroupsGrow
<1> HIDE DEF q, st
<1>7. Owned(q, Groups(st), epoch) = Owned(pool, Groups(stakes), epoch)
  <2>1. \A a \in Epochs : a <= epoch => Groups(stakes)[a] = Groups(st)[a] /\ RateAt(pool, a) = RateAt(q, a)
    BY <1>3, <1>4, <1>5, <1>6, SameOwned, EpochRange
  <2> QED BY <2>1, OwnedSame
<1>8. Due(q, epoch) = Due(pool, epoch)
  BY <1>5, SameOwned DEF Due
<1>9. MayStake(epoch, selected, k, amount, Groups(stakes), Groups(st))
  BY <1>3, <1>4, <1>6 DEF MayStake
<1>10. Books(pool.wal_balance, pool.num_shares, [pool.pending_stake EXCEPT ![k] = @ + amount],
             pool.pending_shares_withdraw, pool.pre_active_withdrawals, Groups(st),
             Owned(pool, Groups(stakes), epoch), Due(pool, epoch), epoch, in_current, in_next, selected)
  BY <1>9, BooksStake DEF SharesInv, BooksOf
<1>11. BooksOf(q, Groups(st), epoch, in_current, in_next, selected)
  BY <1>5, <1>7, <1>8, <1>10 DEF BooksOf, SameHoldings
<1> QED BY <1>2, <1>5, <1>11, StepWithin

(* A request marks the stake, which is not counted any more.               *)
LEMMA RequestGroups ==
  ASSUME stakes \in [Stakes -> StakeRecords], NEW s \in Stakes, NEW e \in Epochs,
         stakes[s].state = "staked", SetWithdrawing(s, e)
  PROVE  \E st \in [Stakes -> StakeRecords] :
            /\ stakes' = st
            /\ Groups(st) \in [Epochs -> Nat]
            /\ stakes[s].principal <= Groups(stakes)[stakes[s].activation_epoch]
            /\ Groups(st)[stakes[s].activation_epoch] =
                 Groups(stakes)[stakes[s].activation_epoch] - stakes[s].principal
            /\ \A a \in Epochs : a # stakes[s].activation_epoch => Groups(st)[a] = Groups(stakes)[a]
<1> DEFINE sw == [stakes[s] EXCEPT !.state = "withdrawing", !.withdraw_epoch = e]
           st == [stakes EXCEPT ![s] = sw]
<1>1. stakes' = st
  BY DEF SetWithdrawing
<1>2. stakes[s] \in StakeRecords
  OBVIOUS
<1>3. sw \in StakeRecords /\ sw.state # "staked"
  BY <1>2 DEF StakeRecords
<1> HIDE DEF sw
<1>4. st \in [Stakes -> StakeRecords]
  BY <1>3
<1>5. /\ Groups(st) \in [Epochs -> Nat]
      /\ stakes[s].principal <= Groups(stakes)[stakes[s].activation_epoch]
      /\ Groups(st)[stakes[s].activation_epoch] =
           Groups(stakes)[stakes[s].activation_epoch] - stakes[s].principal
      /\ \A a \in Epochs : a # stakes[s].activation_epoch => Groups(st)[a] = Groups(stakes)[a]
  BY <1>3, GroupsShrink
<1> HIDE DEF st
<1> QED BY <1>1, <1>4, <1>5

LEMMA RequestPreActiveShares ==
  ASSUME Inv, SharesInv, NEW s \in Stakes, RequestPreActive(s)
  PROVE  SharesInv'
<1>1. /\ PoolShape(pool) /\ stakes \in [Stakes -> StakeRecords] /\ epoch \in 0 .. MaxEpoch
      /\ epoch + 2 \in Epochs /\ epoch + 1 \in Epochs /\ epoch \in Nat
  BY EpochFacts DEF Inv, ShapeInv
<1>2. PICK x \in Nat : x = stakes[s].principal
  BY <1>1 DEF StakeRecords
<1> DEFINE q == [pool EXCEPT !.pre_active_withdrawals[epoch + 2] = @ + x]
<1>3. /\ pool' = q /\ SetWithdrawing(s, epoch + 2) /\ UNCHANGED context /\ in_next
      /\ stakes[s].state = "staked" /\ stakes[s].activation_epoch = epoch + 1
  BY <1>2 DEF RequestPreActive, CanWithdrawEarly
<1>4. PICK st \in [Stakes -> StakeRecords] :
         /\ stakes' = st
         /\ Groups(st) \in [Epochs -> Nat]
         /\ Groups(st)[epoch + 1] = Groups(stakes)[epoch + 1] - x
         /\ \A a \in Epochs : a # epoch + 1 => Groups(st)[a] = Groups(stakes)[a]
  BY <1>1, <1>2, <1>3, RequestGroups
<1>5. /\ SameHoldings(pool, q)
      /\ q.pending_stake = pool.pending_stake
      /\ q.pending_shares_withdraw = pool.pending_shares_withdraw
      /\ q.pre_active_withdrawals = [pool.pre_active_withdrawals EXCEPT ![epoch + 2] = @ + x]
  BY <1>1, SetPreActive
<1> HIDE DEF q
<1>6. Owned(q, Groups(st), epoch) = Owned(pool, Groups(stakes), epoch)
  <2>1. \A a \in Epochs : a <= epoch => Groups(stakes)[a] = Groups(st)[a] /\ RateAt(pool, a) = RateAt(q, a)
    <3>1. \A a \in Epochs : a <= epoch => a # epoch + 1
      BY <1>1, EpochRange
    <3>2. \A a : RateAt(q, a) = RateAt(pool, a)
      BY <1>5, SameOwned
    <3> QED BY <1>4, <3>1, <3>2
  <2> QED BY <2>1, OwnedSame
<1>7. Due(q, epoch) = Due(pool, epoch)
  <2>1. q.pre_active_withdrawals[epoch + 1] = pool.pre_active_withdrawals[epoch + 1]
    BY <1>1, <1>5 DEF PoolShape
  <2> QED BY <1>5, <2>1, SameOwned DEF Due
<1>8. MayLeaveAtOnce(epoch, in_next, x, Groups(stakes), Groups(st))
  BY <1>1, <1>3, <1>4 DEF MayLeaveAtOnce
<1>9. Books(pool.wal_balance, pool.num_shares, pool.pending_stake, pool.pending_shares_withdraw,
            [pool.pre_active_withdrawals EXCEPT ![epoch + 2] = @ + x], Groups(st),
            Owned(pool, Groups(stakes), epoch), Due(pool, epoch), epoch, in_current, in_next, selected)
  BY <1>8, BooksPreActive DEF SharesInv, BooksOf
<1>10. BooksOf(q, Groups(st), epoch, in_current, in_next, selected)
  BY <1>5, <1>6, <1>7, <1>9 DEF BooksOf, SameHoldings
<1> QED BY <1>3, <1>4, <1>5, <1>10, StepWithin

LEMMA RequestActiveShares ==
  ASSUME Inv, SharesInv, NEW s \in Stakes, RequestActive(s)
  PROVE  SharesInv'
<1>1. /\ PoolShape(pool) /\ stakes \in [Stakes -> StakeRecords] /\ epoch \in 0 .. MaxEpoch
      /\ epoch + 2 \in Epochs /\ epoch + 1 \in Epochs /\ epoch \in Nat
      /\ in_current \in BOOLEAN /\ in_next \in BOOLEAN /\ selected \in BOOLEAN
  BY EpochFacts DEF Inv, ShapeInv
<1>2. PICK x \in Nat, a \in Epochs : x = stakes[s].principal /\ a = stakes[s].activation_epoch
  BY <1>1 DEF StakeRecords
<1>3. PICK k \in {epoch + 1, epoch + 2} : k = WithdrawEpoch
  BY DEF WithdrawEpoch
<1>4. PICK h : h = ToShares(RateAt(pool, a), x)
  OBVIOUS
<1>5. h = SharesOf(stakes[s])
  BY <1>2, <1>4 DEF SharesOf
<1> DEFINE q == [pool EXCEPT !.pending_shares_withdraw[k] = @ + h]
<1>6. /\ pool' = q /\ SetWithdrawing(s, k) /\ UNCHANGED context /\ (in_next \/ in_current)
      /\ stakes[s].state = "staked" /\ a <= epoch /\ h # 0
  BY <1>2, <1>3, <1>5 DEF RequestActive
<1>7. k \in Epochs
  BY <1>1
<1>8. PICK st \in [Stakes -> StakeRecords] :
         /\ stakes' = st
         /\ Groups(st) \in [Epochs -> Nat]
         /\ x <= Groups(stakes)[a]
         /\ Groups(st)[a] = Groups(stakes)[a] - x
         /\ \A b \in Epochs : b # a => Groups(st)[b] = Groups(stakes)[b]
  BY <1>1, <1>2, <1>6, <1>7, RequestGroups
<1>9. /\ SameHoldings(pool, q)
      /\ q.pending_stake = pool.pending_stake
      /\ q.pending_shares_withdraw = [pool.pending_shares_withdraw EXCEPT ![k] = @ + h]
      /\ q.pre_active_withdrawals = pool.pre_active_withdrawals
  <2>1. PICK v : v = pool.pending_shares_withdraw[k] + h
    OBVIOUS
  <2>2. q = [pool EXCEPT !.pending_shares_withdraw[k] = v]
    BY <2>1
  <2>3. /\ SameHoldings(pool, q)
        /\ q.pending_stake = pool.pending_stake
        /\ q.pending_shares_withdraw = [pool.pending_shares_withdraw EXCEPT ![k] = v]
        /\ q.pre_active_withdrawals = pool.pre_active_withdrawals
    <3> HIDE DEF q
    <3>1. PoolShape(pool)
      BY <1>1
    <3> QED BY <2>2, <3>1 DEF PoolShape, Fields, SameHoldings
  <2> QED BY <2>1, <2>3
<1> HIDE DEF q
<1>10. KnownRates(pool) /\ Groups(stakes) \in [Epochs -> Nat]
  BY <1>1, GroupsType DEF SharesInv, RatesOK
<1>11. h \in Nat /\ Owned(pool, Groups(st), epoch) + h <= Owned(pool, Groups(stakes), epoch)
  BY <1>1, <1>4, <1>6, <1>8, <1>10, OwnedLess
<1>12. Owned(q, Groups(st), epoch) = Owned(pool, Groups(st), epoch)
  BY <1>9, SameOwned
<1>13. Owned(pool, Groups(st), epoch) \in Nat
  <2>1. epoch \in Int /\ Groups(st) \in [Epochs -> Nat] /\ KnownRates(pool)
    BY <1>1, <1>8, <1>10
  <2> QED BY <2>1, OwnedType
<1>14. Due(q, epoch) = IF in_next THEN Due(pool, epoch) ELSE Due(pool, epoch) + h
  <2>1. k = IF in_next THEN epoch + 2 ELSE epoch + 1
    BY <1>3 DEF WithdrawEpoch
  <2>2. pool.pending_shares_withdraw \in [Epochs -> Nat] /\ pool.pre_active_withdrawals \in [Epochs -> Nat]
    BY DEF SharesInv, BooksOf, Books, AmountsOK
  <2>3. PICK y : y = ToShares(RateAt(pool, epoch), pool.pre_active_withdrawals[epoch + 1])
    OBVIOUS
  <2>4. y \in Nat
    <3>1. RateAt(pool, epoch) \in ValidRates
      BY <1>1, <1>10, RateIsKnown, Around
    <3>2. pool.pre_active_withdrawals[epoch + 1] \in Nat
      BY <1>1, <2>2
    <3> QED BY <2>3, <3>1, <3>2, SharesFacts
  <2>5. Due(q, epoch) = q.pending_shares_withdraw[epoch + 1] + y
    BY <1>9, <2>3, SameOwned DEF Due
  <2>6. Due(pool, epoch) = pool.pending_shares_withdraw[epoch + 1] + y
    BY <2>3 DEF Due
  <2>7. q.pending_shares_withdraw[epoch + 1] = IF in_next THEN pool.pending_shares_withdraw[epoch + 1]
                                               ELSE pool.pending_shares_withdraw[epoch + 1] + h
    BY <1>1, <1>9, <2>1, <2>2
  <2>8. pool.pending_shares_withdraw[epoch + 1] \in Nat
    BY <1>1, <2>2
  <2> QED BY <1>11, <2>4, <2>5, <2>6, <2>7, <2>8
<1>15. MayLeave(epoch, in_current, in_next, selected, h, Groups(stakes), Groups(st),
                Owned(pool, Groups(stakes), epoch), Owned(pool, Groups(st), epoch), k,
                Due(pool, epoch), Due(q, epoch))
  <2>1. \A b \in Epochs : b > epoch => Groups(st)[b] = Groups(stakes)[b]
    BY <1>1, <1>6, <1>8, EpochRange
  <2>2. k = IF in_next THEN epoch + 2 ELSE epoch + 1
    BY <1>3 DEF WithdrawEpoch
  <2> QED BY <1>1, <1>6, <1>8, <1>11, <1>13, <1>14, <2>1, <2>2 DEF MayLeave
<1>16. Books(pool.wal_balance, pool.num_shares, pool.pending_stake,
             [pool.pending_shares_withdraw EXCEPT ![k] = @ + h], pool.pre_active_withdrawals,
             Groups(st), Owned(pool, Groups(st), epoch), Due(q, epoch), epoch,
             in_current, in_next, selected)
  BY <1>15, BooksActive DEF SharesInv, BooksOf
<1>17. BooksOf(q, Groups(st), epoch, in_current, in_next, selected)
  BY <1>9, <1>12, <1>16 DEF BooksOf, SameHoldings
<1> QED BY <1>6, <1>8, <1>9, <1>17, StepWithin

(* Nothing that is pending changes, and no stake is added.                 *)
SamePending(p, q) ==
  /\ q.pending_stake = p.pending_stake
  /\ q.pending_shares_withdraw = p.pending_shares_withdraw
  /\ q.pre_active_withdrawals = p.pre_active_withdrawals

LEMMA KeepBooks ==
  ASSUME NEW p, NEW q, NEW groups, NEW left, NEW e, NEW cur, NEW nxt, NEW sel,
         BooksOf(p, groups, e, cur, nxt, sel), SameHoldings(p, q), SamePending(p, q),
         OwnsLess(e, groups, left, Owned(p, groups, e), Owned(p, left, e))
  PROVE  BooksOf(q, left, e, cur, nxt, sel)
<1>1. Books(p.wal_balance, p.num_shares, p.pending_stake, p.pending_shares_withdraw,
            p.pre_active_withdrawals, left, Owned(p, left, e), Due(p, e), e, cur, nxt, sel)
  BY BooksLess DEF BooksOf
<1>2. Owned(q, left, e) = Owned(p, left, e)
  BY SameOwned
<1>3. Due(q, e) = Due(p, e)
  BY SameOwned DEF Due, SamePending
<1> QED BY <1>1, <1>2, <1>3 DEF BooksOf, SameHoldings, SamePending

(* Only the stakes change, and not what is counted.                        *)
LEMMA SameGroups ==
  ASSUME Inv, SharesInv, NEW q, SameHoldings(pool, q), SamePending(pool, q),
         NEW st \in [Stakes -> StakeRecords], pool' = q, stakes' = st, UNCHANGED context,
         \A a \in Epochs : Groups(st)[a] = Groups(stakes)[a]
  PROVE  SharesInv'
<1>1. /\ epoch \in 0 .. MaxEpoch /\ epoch \in Int /\ stakes \in [Stakes -> StakeRecords]
      /\ KnownRates(pool)
  BY EpochFacts DEF Inv, ShapeInv, SharesInv, RatesOK
<1>2. Groups(st) \in [Epochs -> Nat]
  BY GroupsType
<1>3. Owned(pool, Groups(st), epoch) = Owned(pool, Groups(stakes), epoch)
  BY OwnedSame
<1>4. Owned(pool, Groups(st), epoch) \in Nat
  BY <1>1, <1>2, OwnedType
<1>5. OwnsLess(epoch, Groups(stakes), Groups(st), Owned(pool, Groups(stakes), epoch),
               Owned(pool, Groups(st), epoch))
  BY <1>1, <1>2, <1>3, <1>4 DEF OwnsLess
<1>6. BooksOf(q, Groups(st), epoch, in_current, in_next, selected)
  BY <1>5, KeepBooks DEF SharesInv
<1> QED BY <1>6, StepWithin

(* Paying out changes the rewards pool only.                               *)
LEMMA PayRewardsFields ==
  ASSUME NEW p, PoolShape(p), NEW rewards
  PROVE  /\ SameHoldings(p, PayRewards(p, rewards))
         /\ SamePending(p, PayRewards(p, rewards))
<1> DEFINE v == p.rewards_pool - Min({rewards, p.rewards_pool})
<1>1. PayRewards(p, rewards) = [p EXCEPT !.rewards_pool = v]
  BY DEF PayRewards
<1> HIDE DEF v
<1> QED BY <1>1 DEF SameHoldings, SamePending, PoolShape, Fields

(* A stake that was counted is gone.                                       *)
IsCounted(st, s, x, k) ==
  /\ st \in [Stakes -> StakeRecords] /\ s \in Stakes /\ st[s].state = "staked"
  /\ x = st[s].principal /\ k = st[s].activation_epoch

Lowered(groups, left, k, x) ==
  /\ left \in [Epochs -> Nat]
  /\ x <= groups[k]
  /\ left[k] = groups[k] - x
  /\ \A a \in Epochs : a # k => left[a] = groups[a]

LEMMA GroupsGone ==
  ASSUME NEW st, NEW s, NEW x, NEW k, IsCounted(st, s, x, k)
  PROVE  Lowered(Groups(st), Groups([st EXCEPT ![s] = NoStake]), k, x)
<1> /\ st \in [Stakes -> StakeRecords] /\ s \in Stakes /\ st[s].state = "staked"
    /\ x = st[s].principal /\ k = st[s].activation_epoch
  BY DEF IsCounted
<1>1. NoStake \in StakeRecords /\ NoStake.state # "staked"
  BY NoStakeFacts DEF NoStake
<1>2. /\ Groups([st EXCEPT ![s] = NoStake]) \in [Epochs -> Nat]
      /\ st[s].principal <= Groups(st)[st[s].activation_epoch]
      /\ Groups([st EXCEPT ![s] = NoStake])[st[s].activation_epoch] =
           Groups(st)[st[s].activation_epoch] - st[s].principal
      /\ \A a \in Epochs : a # st[s].activation_epoch =>
           Groups([st EXCEPT ![s] = NoStake])[a] = Groups(st)[a]
  BY <1>1, GroupsShrink
<1> QED BY <1>2 DEF Lowered

LEMMA EarlyShares ==
  ASSUME Inv, SharesInv, NEW s \in Stakes, CanWithdrawEarly(stakes[s]),
         pool' = EarlyWithdrawal(stakes[s]), stakes' = [stakes EXCEPT ![s] = NoStake],
         UNCHANGED context
  PROVE  SharesInv'
<1>1. /\ PoolShape(pool) /\ stakes \in [Stakes -> StakeRecords] /\ epoch \in 0 .. MaxEpoch
      /\ epoch \in Nat
  BY EpochFacts DEF Inv, ShapeInv
<1>2. PICK x \in Nat, k \in Epochs : x = stakes[s].principal /\ k = stakes[s].activation_epoch
  BY <1>1 DEF StakeRecords
<1>3. k \in {epoch + 1, epoch + 2} /\ (in_next => k = epoch + 2) /\ stakes[s].state = "staked"
  BY <1>2 DEF CanWithdrawEarly
<1>4. PICK st : st = [stakes EXCEPT ![s] = NoStake]
  OBVIOUS
<1>5. /\ Groups(st) \in [Epochs -> Nat] /\ x <= Groups(stakes)[k]
      /\ Groups(st)[k] = Groups(stakes)[k] - x
      /\ \A a \in Epochs : a # k => Groups(st)[a] = Groups(stakes)[a]
  <2>1. IsCounted(stakes, s, x, k)
    BY <1>1, <1>2, <1>3 DEF IsCounted
  <2>2. Lowered(Groups(stakes), Groups(st), k, x)
    BY <1>4, <2>1, GroupsGone
  <2> QED BY <2>2 DEF Lowered
<1>6. PICK q : q = EarlyWithdrawal(stakes[s])
  OBVIOUS
<1>7. /\ SameHoldings(pool, q)
      /\ q.pending_stake = [pool.pending_stake EXCEPT ![k] = @ - x]
      /\ q.pending_shares_withdraw = pool.pending_shares_withdraw
      /\ q.pre_active_withdrawals = pool.pre_active_withdrawals
  <2>1. PICK v : v = pool.pending_stake[k] - x
    OBVIOUS
  <2>2. q = [pool EXCEPT !.pending_stake[k] = v]
    BY <1>2, <1>6, <2>1 DEF EarlyWithdrawal
  <2>3. /\ SameHoldings(pool, q)
        /\ q.pending_stake = [pool.pending_stake EXCEPT ![k] = v]
        /\ q.pending_shares_withdraw = pool.pending_shares_withdraw
        /\ q.pre_active_withdrawals = pool.pre_active_withdrawals
    <3>1. PoolShape(pool)
      BY <1>1
    <3> QED BY <2>2, <3>1 DEF PoolShape, Fields, SameHoldings
  <2> QED BY <2>1, <2>3
<1>8. Owned(q, Groups(st), epoch) = Owned(pool, Groups(stakes), epoch)
  <2>1. \A a \in Epochs : a <= epoch => a # k
    BY <1>1, <1>3, EpochRange
  <2>2. \A a : RateAt(q, a) = RateAt(pool, a)
    BY <1>7, SameOwned
  <2>3. \A a \in Epochs : a <= epoch => Groups(stakes)[a] = Groups(st)[a] /\ RateAt(pool, a) = RateAt(q, a)
    BY <1>5, <2>1, <2>2
  <2> QED BY <2>3, OwnedSame
<1>9. Due(q, epoch) = Due(pool, epoch)
  BY <1>7, SameOwned DEF Due
<1>10. MayLeaveEarly(epoch, in_next, k, x, Groups(stakes), Groups(st))
  BY <1>1, <1>3, <1>5 DEF MayLeaveEarly
<1>11. Books(pool.wal_balance, pool.num_shares, [pool.pending_stake EXCEPT ![k] = @ - x],
             pool.pending_shares_withdraw, pool.pre_active_withdrawals, Groups(st),
             Owned(pool, Groups(stakes), epoch), Due(pool, epoch), epoch, in_current, in_next, selected)
  BY <1>10, BooksEarly DEF SharesInv, BooksOf
<1>12. BooksOf(q, Groups(st), epoch, in_current, in_next, selected)
  BY <1>7, <1>8, <1>9, <1>11 DEF BooksOf, SameHoldings
<1> QED BY <1>4, <1>6, <1>7, <1>12, StepWithin

(* A node outside the committees has no shares to withdraw.                *)
LEMMA InactiveShares ==
  ASSUME Inv, SharesInv, NEW s \in Stakes, IsInactive(stakes[s]),
         pool' = InactiveWithdrawal(stakes[s]), stakes' = [stakes EXCEPT ![s] = NoStake],
         UNCHANGED context
  PROVE  SharesInv'
<1>1. /\ PoolShape(pool) /\ stakes \in [Stakes -> StakeRecords] /\ epoch \in 0 .. MaxEpoch
      /\ epoch \in Nat /\ epoch \in Epochs /\ epoch + 2 \in Epochs /\ KnownRates(pool)
  BY EpochFacts DEF Inv, ShapeInv, SharesInv, RatesOK
<1>2. PICK x \in Nat, a \in Epochs : x = stakes[s].principal /\ a = stakes[s].activation_epoch
  BY <1>1 DEF StakeRecords
<1>3. stakes[s].state = "staked" /\ a <= epoch /\ ~ in_current /\ ~ in_next
  BY <1>2 DEF IsInactive
<1>4. PICK st : st = [stakes EXCEPT ![s] = NoStake]
  OBVIOUS
<1>5. /\ Groups(st) \in [Epochs -> Nat]
      /\ Groups(st)[a] = Groups(stakes)[a] - x
      /\ \A b \in Epochs : b # a => Groups(st)[b] = Groups(stakes)[b]
  <2>1. IsCounted(stakes, s, x, a)
    BY <1>1, <1>2, <1>3 DEF IsCounted
  <2>2. Lowered(Groups(stakes), Groups(st), a, x)
    BY <1>4, <2>1, GroupsGone
  <2> QED BY <2>2 DEF Lowered
<1>6. PICK h : h = ToShares(RateAt(pool, a), x)
  OBVIOUS
<1>7. h = SharesOf(stakes[s])
  BY <1>2, <1>6 DEF SharesOf
<1>8. Groups(stakes) \in [Epochs -> Nat]
  BY <1>1, GroupsType
<1>9. /\ h \in Nat
      /\ Owned(pool, Groups(st), epoch) + h <= Owned(pool, Groups(stakes), epoch)
  <2>1. epoch \in Int
    BY <1>1
  <2> QED BY <1>1, <1>3, <1>5, <1>6, <1>8, <2>1, OwnedLess
<1>10. Owned(pool, Groups(st), epoch) \in Nat
  <2>1. epoch \in Int
    BY <1>1
  <2> QED BY <1>1, <1>5, <2>1, OwnedType
<1>11. Owned(pool, Groups(stakes), epoch) = 0
  <2>1. Books(pool.wal_balance, pool.num_shares, pool.pending_stake, pool.pending_shares_withdraw,
              pool.pre_active_withdrawals, Groups(stakes), Owned(pool, Groups(stakes), epoch),
              Due(pool, epoch), epoch, in_current, in_next, selected)
    BY DEF SharesInv, BooksOf
  <2>2. pool.wal_balance = 0
    BY <1>3, <2>1 DEF Books, MembershipOK
  <2>3. /\ pool.num_shares \in Nat /\ pool.num_shares <= pool.wal_balance
        /\ Owned(pool, Groups(stakes), epoch) \in Nat /\ Due(pool, epoch) \in Nat
        /\ pool.pending_shares_withdraw \in [Epochs -> Nat]
    BY <2>1 DEF Books, AmountsOK
  <2>4. Owned(pool, Groups(stakes), epoch) + Due(pool, epoch) + pool.pending_shares_withdraw[epoch + 2]
          <= pool.num_shares
    BY <2>1 DEF Books, SharesOK
  <2>5. pool.pending_shares_withdraw[epoch + 2] \in Nat
    BY <1>1, <2>3
  <2> QED BY <2>2, <2>3, <2>4, <2>5
<1>12. h = 0 /\ Owned(pool, Groups(st), epoch) = 0
  BY <1>9, <1>10, <1>11
<1>13. PICK p : p = [pool EXCEPT !.pending_shares_withdraw[epoch] = @ + SharesOf(stakes[s])]
  OBVIOUS
<1>14. p = pool
  <2>1. pool.pending_shares_withdraw \in [Epochs -> Nat]
    BY DEF SharesInv, BooksOf, Books, AmountsOK
  <2>2. pool.pending_shares_withdraw[epoch] + SharesOf(stakes[s]) = pool.pending_shares_withdraw[epoch]
    BY <1>1, <1>7, <1>12, <2>1
  <2>3. [pool.pending_shares_withdraw EXCEPT ![epoch] = pool.pending_shares_withdraw[epoch]] =
          pool.pending_shares_withdraw
    BY <1>1, <2>1
  <2>4. pool = [f \in Fields |-> pool[f]]
    BY <1>1 DEF PoolShape
  <2>5. p = [pool EXCEPT !.pending_shares_withdraw = pool.pending_shares_withdraw]
    BY <1>13, <2>2, <2>3
  <2> QED BY <2>4, <2>5 DEF Fields
<1>15. PICK rewards : InactiveWithdrawal(stakes[s]) = PayRewards(pool, rewards)
  BY <1>13, <1>14 DEF InactiveWithdrawal
<1>16. PICK q : q = PayRewards(pool, rewards)
  OBVIOUS
<1>17. SameHoldings(pool, q) /\ SamePending(pool, q)
  BY <1>1, <1>16, PayRewardsFields
<1>18. OwnsLess(epoch, Groups(stakes), Groups(st), Owned(pool, Groups(stakes), epoch),
                Owned(pool, Groups(st), epoch))
  <2>1. \A b \in Epochs : b > epoch => b # a
    BY <1>1, <1>3, EpochRange
  <2> QED BY <1>1, <1>5, <1>10, <1>11, <1>12, <2>1 DEF OwnsLess
<1>19. BooksOf(q, Groups(st), epoch, in_current, in_next, selected)
  BY <1>17, <1>18, KeepBooks DEF SharesInv
<1> QED BY <1>4, <1>15, <1>16, <1>17, <1>19, StepWithin

(* A stake that is being withdrawn is not counted.                         *)
LEMMA RequestedShares ==
  ASSUME Inv, SharesInv, NEW s \in Stakes, IsRequested(stakes[s]),
         pool' = RequestedWithdrawal(stakes[s]), stakes' = [stakes EXCEPT ![s] = NoStake],
         UNCHANGED context
  PROVE  SharesInv'
<1>1. PoolShape(pool) /\ stakes \in [Stakes -> StakeRecords]
  BY DEF Inv, ShapeInv
<1>2. PICK st : st = [stakes EXCEPT ![s] = NoStake]
  OBVIOUS
<1>3. st \in [Stakes -> StakeRecords]
  BY <1>1, <1>2, NoStakeFacts
<1>4. \A a \in Epochs : Groups(st)[a] = Groups(stakes)[a] - Counted(stakes[s], a) + Counted(NoStake, a)
  BY <1>1, <1>2, NoStakeFacts, GroupsUpdate
<1>5. \A a \in Epochs : Counted(stakes[s], a) = 0 /\ Counted(NoStake, a) = 0
  BY DEF Counted, IsRequested, NoStake
<1>6. \A a \in Epochs : Groups(stakes)[a] \in Nat
  BY <1>1, GroupsType
<1>7. \A a \in Epochs : Groups(st)[a] = Groups(stakes)[a]
  <2> SUFFICES ASSUME NEW a \in Epochs PROVE Groups(st)[a] = Groups(stakes)[a]
    OBVIOUS
  <2>1. Groups(st)[a] = Groups(stakes)[a] - 0 + 0 /\ Groups(stakes)[a] \in Nat
    BY <1>4, <1>5, <1>6
  <2> QED BY <2>1
<1>8. PICK q : q = RequestedWithdrawal(stakes[s])
  OBVIOUS
<1>9. SameHoldings(pool, q) /\ SamePending(pool, q)
  BY <1>1, <1>8, PayRewardsFields DEF RequestedWithdrawal
<1> QED BY <1>2, <1>3, <1>7, <1>8, <1>9, SameGroups

LEMMA WithdrawShares ==
  ASSUME Inv, SharesInv, NEW s \in Stakes, Withdraw(s)
  PROVE  SharesInv'
<1> DEFINE sw == stakes[s]
<1>1. sw.activation_epoch \in Int /\ epoch \in Int
  BY EpochFacts DEF Inv, ShapeInv, StakeRecords, Epochs
<1>2. /\ pool' = Withdrawal(sw) /\ UNCHANGED context /\ MayWithdraw(sw)
      /\ stakes' = [stakes EXCEPT ![s] = NoStake]
  BY DEF Withdraw
<1> HIDE DEF sw
<1>3. /\ CanWithdrawEarly(sw) => ~ IsInactive(sw) /\ ~ IsRequested(sw)
      /\ IsInactive(sw) => ~ IsRequested(sw)
  BY <1>1 DEF CanWithdrawEarly, IsInactive, IsRequested
<1>4. CASE CanWithdrawEarly(sw)
  <2>1. Withdrawal(sw) = EarlyWithdrawal(sw)
    BY <1>3, <1>4, Zenon DEF Withdrawal
  <2> QED BY <1>2, <1>4, <2>1, EarlyShares DEF sw
<1>5. CASE IsInactive(sw)
  <2>1. Withdrawal(sw) = InactiveWithdrawal(sw)
    BY <1>3, <1>5, Zenon DEF Withdrawal
  <2> QED BY <1>2, <1>5, <2>1, InactiveShares DEF sw
<1>6. CASE IsRequested(sw)
  <2>1. Withdrawal(sw) = RequestedWithdrawal(sw)
    BY <1>3, <1>6, Zenon DEF Withdrawal
  <2> QED BY <1>2, <1>6, <2>1, RequestedShares DEF sw
<1> QED BY <1>2, <1>4, <1>5, <1>6 DEF MayWithdraw

(* Two stakes change, and together they count as before.                   *)
CountAs(x, y, u, v) == \A a \in Epochs : Counted(x, a) + Counted(y, a) = Counted(u, a) + Counted(v, a)

LEMMA TwoStakes ==
  ASSUME Inv, SharesInv, UNCHANGED <<context, pool>>, NEW s \in Stakes, NEW t \in Stakes, s # t,
         NEW x \in StakeRecords, NEW y \in StakeRecords,
         stakes' = [stakes EXCEPT ![s] = x, ![t] = y],
         CountAs(x, y, stakes[s], stakes[t])
  PROVE  SharesInv'
<1>1. stakes \in [Stakes -> StakeRecords]
  BY DEF Inv, ShapeInv
<1>2. PICK one : one = [stakes EXCEPT ![s] = x]
  OBVIOUS
<1>3. PICK st : st = [one EXCEPT ![t] = y]
  OBVIOUS
<1>4. one \in [Stakes -> StakeRecords] /\ one[t] = stakes[t]
  BY <1>1, <1>2
<1>5. st \in [Stakes -> StakeRecords] /\ stakes' = st
  BY <1>1, <1>2, <1>3, <1>4
<1>6. ASSUME NEW a \in Epochs PROVE Groups(st)[a] = Groups(stakes)[a]
  <2>1. Groups(one)[a] = Groups(stakes)[a] - Counted(stakes[s], a) + Counted(x, a)
    BY <1>1, <1>2, GroupsUpdate
  <2>2. Groups(st)[a] = Groups(one)[a] - Counted(one[t], a) + Counted(y, a)
    BY <1>3, <1>4, GroupsUpdate
  <2>3. Groups(stakes)[a] \in Nat /\ Groups(one)[a] \in Nat
    BY <1>1, <1>4, GroupsType
  <2>4. /\ Counted(stakes[s], a) \in Nat /\ Counted(stakes[t], a) \in Nat
        /\ Counted(x, a) \in Nat /\ Counted(y, a) \in Nat
    BY <1>1 DEF Counted, StakeRecords
  <2>5. Counted(x, a) + Counted(y, a) = Counted(stakes[s], a) + Counted(stakes[t], a)
    BY DEF CountAs
  <2> QED BY <1>4, <2>1, <2>2, <2>3, <2>4, <2>5
<1>7. SameHoldings(pool, pool) /\ SamePending(pool, pool) /\ pool' = pool /\ UNCHANGED context
  BY DEF SameHoldings, SamePending
<1> QED BY <1>5, <1>6, <1>7, SameGroups

LEMMA SplitShares ==
  ASSUME Inv, SharesInv, NEW s \in Stakes, NEW t \in Stakes, NEW amount \in Amounts, Split(s, t, amount)
  PROVE  SharesInv'
<1>1. stakes \in [Stakes -> StakeRecords] /\ amount \in Nat /\ MinStake \in Nat
  BY DEF Inv, ShapeInv
<1>2. stakes[s] \in StakeRecords /\ stakes[s].principal \in Nat
  BY <1>1 DEF StakeRecords
<1> DEFINE rest == [stakes[s] EXCEPT !.principal = @ - amount]
           part == [stakes[s] EXCEPT !.principal = amount]
<1>3. stakes[s].principal - amount \in Nat
  BY <1>1, <1>2 DEF Split
<1>4. /\ rest \in StakeRecords /\ rest.activation_epoch = stakes[s].activation_epoch
      /\ rest.state = stakes[s].state /\ rest.principal = stakes[s].principal - amount
  BY <1>2, <1>3 DEF StakeRecords
<1>5. /\ part \in StakeRecords /\ part.activation_epoch = stakes[s].activation_epoch
      /\ part.state = stakes[s].state /\ part.principal = amount
  BY <1>1, <1>2 DEF StakeRecords
<1>6. s # t /\ stakes[t] = NoStake
  BY DEF Split
<1>7. stakes' = [stakes EXCEPT ![s] = rest, ![t] = part] /\ UNCHANGED <<context, pool>>
  BY <1>1, <1>6 DEF Split
<1> HIDE DEF rest, part
<1>8. ASSUME NEW a \in Epochs
      PROVE  Counted(rest, a) + Counted(part, a) = Counted(stakes[s], a) + Counted(stakes[t], a)
  <2>1. Counted(stakes[t], a) = 0
    BY <1>6 DEF Counted, NoStake
  <2>2. CASE stakes[s].state = "staked" /\ stakes[s].activation_epoch = a
    <3>1. /\ Counted(rest, a) = stakes[s].principal - amount /\ Counted(part, a) = amount
          /\ Counted(stakes[s], a) = stakes[s].principal
      BY <1>4, <1>5, <2>2 DEF Counted
    <3> QED BY <1>1, <1>2, <2>1, <3>1
  <2>3. CASE ~ (stakes[s].state = "staked" /\ stakes[s].activation_epoch = a)
    <3>1. Counted(rest, a) = 0 /\ Counted(part, a) = 0 /\ Counted(stakes[s], a) = 0
      BY <1>4, <1>5, <2>3 DEF Counted
    <3> QED BY <2>1, <3>1
  <2> QED BY <2>2, <2>3
<1>9. PICK x \in StakeRecords, y \in StakeRecords : x = rest /\ y = part
  BY <1>4, <1>5
<1>10. stakes' = [stakes EXCEPT ![s] = x, ![t] = y] /\ UNCHANGED <<context, pool>> /\ s # t
  BY <1>6, <1>7, <1>9
<1>11. CountAs(x, y, stakes[s], stakes[t])
  BY <1>8, <1>9 DEF CountAs
<1> QED BY <1>10, <1>11, TwoStakes

LEMMA JoinShares ==
  ASSUME Inv, SharesInv, NEW s \in Stakes, NEW t \in Stakes, Join(s, t)
  PROVE  SharesInv'
<1>1. stakes \in [Stakes -> StakeRecords]
  BY DEF Inv, ShapeInv
<1>2. /\ stakes[s] \in StakeRecords /\ stakes[t] \in StakeRecords
      /\ stakes[s].principal \in Nat /\ stakes[t].principal \in Nat
  BY <1>1 DEF StakeRecords
<1>3. PICK n \in Nat : n = stakes[s].principal + stakes[t].principal
  BY <1>2
<1> DEFINE sum == [stakes[s] EXCEPT !.principal = n]
<1>4. /\ sum \in StakeRecords /\ sum.activation_epoch = stakes[s].activation_epoch
      /\ sum.state = stakes[s].state /\ sum.principal = n
  BY <1>2 DEF StakeRecords
<1>5. s # t
  BY DEF Join
<1>6. stakes[t].state = stakes[s].state /\ stakes[t].activation_epoch = stakes[s].activation_epoch
  <2>1. [stakes[s] EXCEPT !.principal = 0] = [stakes[t] EXCEPT !.principal = 0]
    BY DEF Join
  <2> QED BY <1>2, <2>1 DEF StakeRecords
<1>7. stakes' = [stakes EXCEPT ![s] = sum, ![t] = NoStake] /\ UNCHANGED <<context, pool>>
  BY <1>1, <1>3, <1>5 DEF Join
<1> HIDE DEF sum
<1>8. ASSUME NEW a \in Epochs
      PROVE  Counted(sum, a) + Counted(NoStake, a) = Counted(stakes[s], a) + Counted(stakes[t], a)
  <2>1. Counted(NoStake, a) = 0
    BY DEF Counted, NoStake
  <2>2. CASE stakes[s].state = "staked" /\ stakes[s].activation_epoch = a
    <3>1. /\ Counted(sum, a) = n /\ Counted(stakes[s], a) = stakes[s].principal
          /\ Counted(stakes[t], a) = stakes[t].principal
      BY <1>4, <1>6, <2>2 DEF Counted
    <3> QED BY <1>2, <1>3, <2>1, <3>1
  <2>3. CASE ~ (stakes[s].state = "staked" /\ stakes[s].activation_epoch = a)
    <3>1. Counted(sum, a) = 0 /\ Counted(stakes[t], a) = 0 /\ Counted(stakes[s], a) = 0
      BY <1>4, <1>6, <2>3 DEF Counted
    <3> QED BY <2>1, <3>1
  <2> QED BY <2>2, <2>3
<1>9. PICK x \in StakeRecords, y \in StakeRecords : x = sum /\ y = NoStake
  BY <1>4, NoStakeFacts
<1>10. stakes' = [stakes EXCEPT ![s] = x, ![t] = y] /\ UNCHANGED <<context, pool>> /\ s # t
  BY <1>5, <1>7, <1>9
<1>11. CountAs(x, y, stakes[s], stakes[t])
  BY <1>8, <1>9 DEF CountAs
<1> QED BY <1>10, <1>11, TwoStakes

(* Announcing a commission rate changes neither stake nor shares.          *)
LEMMA SetNextCommissionShares ==
  ASSUME Inv, SharesInv, NEW rate, SetNextCommission(rate)
  PROVE  SharesInv'
<1>1. PoolShape(pool) /\ stakes \in [Stakes -> StakeRecords]
  BY DEF Inv, ShapeInv
<1>2. PICK q : q = [pool EXCEPT !.pending_commission_rate[epoch + 2] = rate]
  OBVIOUS
<1>3. SameHoldings(pool, q) /\ SamePending(pool, q)
  BY <1>1, <1>2 DEF PoolShape, Fields, SameHoldings, SamePending
<1>4. pool' = q /\ stakes' = stakes /\ UNCHANGED context
  BY <1>2 DEF SetNextCommission
<1>5. PICK st \in [Stakes -> StakeRecords] : st = stakes
  BY <1>1
<1>6. stakes' = st /\ \A a \in Epochs : Groups(st)[a] = Groups(stakes)[a]
  BY <1>4, <1>5
<1> QED BY <1>3, <1>4, <1>6, SameGroups

(* The node is selected exactly if its pool has a balance in the next      *)
(* epoch: an entry in the active set is that balance.                      *)
LEMMA SelectCommitteeShares ==
  ASSUME Inv, SharesInv, AlwaysSelected, NEW member \in BOOLEAN, SelectCommittee(member)
  PROVE  SharesInv'
<1>1. /\ epoch \in 0 .. MaxEpoch /\ epoch \in Nat /\ epoch + 1 \in Epochs
      /\ in_current \in BOOLEAN /\ in_next \in BOOLEAN /\ selected \in BOOLEAN
  BY EpochFacts DEF Inv, ShapeInv
<1>2. /\ ~ selected /\ selected' = TRUE /\ in_next' = member
      /\ UNCHANGED <<epoch, in_current, pool, stakes>>
      /\ member => active_stake > 0
      /\ BalanceAt(pool, VoteEpoch) > 0 => member
  BY DEF SelectCommittee
<1>3. in_next = FALSE /\ selected = FALSE
  BY <1>1, <1>2 DEF Inv, ShapeInv
<1>4. Books(pool.wal_balance, pool.num_shares, pool.pending_stake, pool.pending_shares_withdraw,
            pool.pre_active_withdrawals, Groups(stakes), Owned(pool, Groups(stakes), epoch),
            Due(pool, epoch), epoch, in_current, FALSE, FALSE)
  BY <1>3 DEF SharesInv, BooksOf
<1>5. KnownRates(pool)
  BY DEF SharesInv, RatesOK
<1>6. BalanceAt(pool, VoteEpoch) = pool.wal_balance + pool.pending_stake[epoch + 1]
                       - ToWal(NewRate(pool.wal_balance, pool.num_shares), Due(pool, epoch))
  <2>1. /\ pool.pending_stake \in [Epochs -> Nat] /\ pool.pending_shares_withdraw \in [Epochs -> Nat]
        /\ pool.pre_active_withdrawals \in [Epochs -> Nat]
    BY <1>4 DEF Books, AmountsOK
  <2>2. \A k \in Epochs : k <= epoch => /\ pool.pending_stake[k] = 0
                                        /\ pool.pending_shares_withdraw[k] = 0
                                        /\ pool.pre_active_withdrawals[k] = 0
    BY <1>4 DEF Books, PendingOK
  <2>3. BalanceAt(pool, epoch + 1) =
          pool.wal_balance + pool.pending_stake[epoch + 1] - ToWal(CurrentRate(pool), Due(pool, epoch))
    BY <1>1, <1>5, <2>1, <2>2, BalanceIs
  <2>4. VoteEpoch = epoch + 1
    BY <1>3 DEF VoteEpoch
  <2> QED BY <2>3, <2>4 DEF CurrentRate
<1>11. active_stake > 0 => BalanceAt(pool, VoteEpoch) > 0
  <2>1. active_stake = IF dropped THEN 0 ELSE BalanceAt(pool, VoteEpoch)
    BY <1>3 DEF Inv, ActiveSetIsCurrent, VoteEpoch
  <2> QED BY <2>1
<1>7. MaySelect(pool.wal_balance, pool.num_shares, pool.pending_stake, Due(pool, epoch), epoch,
                in_current, member)
  BY <1>1, <1>2, <1>6, <1>11 DEF MaySelect
<1>8. Books(pool.wal_balance, pool.num_shares, pool.pending_stake, pool.pending_shares_withdraw,
            pool.pre_active_withdrawals, Groups(stakes), Owned(pool, Groups(stakes), epoch),
            Due(pool, epoch), epoch, in_current, member, TRUE)
  BY <1>4, <1>7, BooksSelect
<1>9. BooksOf(pool, Groups(stakes), epoch, in_current, member, TRUE)
  BY <1>8 DEF BooksOf
<1>10. \A k \in Epochs : k > epoch => pool.exchange_rates[k] = NoRate
  BY <1>3 DEF SharesInv, RatesOK
<1> QED BY <1>2, <1>5, <1>9, <1>10 DEF SharesInv, RatesOK

(* The pool of a node outside the committees is empty.                     *)
LEMMA SkipEpochShares ==
  ASSUME Inv, SharesInv, SkipEpoch
  PROVE  SharesInv'
<1>1. /\ epoch \in 0 .. MaxEpoch /\ epoch \in Nat /\ epoch + 1 \in Epochs
      /\ in_current \in BOOLEAN /\ in_next \in BOOLEAN /\ selected \in BOOLEAN
      /\ stakes \in [Stakes -> StakeRecords] /\ KnownRates(pool)
  BY EpochFacts DEF Inv, ShapeInv, SharesInv, RatesOK
<1>2. NextEpoch /\ pool' = pool /\ ~ in_current /\ ~ in_next
  BY DEF SkipEpoch
<1>3. /\ selected /\ epoch' = epoch + 1 /\ epoch + 1 \in 0 .. MaxEpoch
      /\ stakes' = stakes /\ selected' = FALSE /\ in_current' = in_next /\ in_next' = FALSE
      /\ VoteEpoch = epoch + 2
  BY <1>2, NextEpochFacts
<1>4. in_current = FALSE /\ in_next = FALSE /\ selected = TRUE
  BY <1>1, <1>2, <1>3
<1>5. Books(pool.wal_balance, pool.num_shares, pool.pending_stake, pool.pending_shares_withdraw,
            pool.pre_active_withdrawals, Groups(stakes), Owned(pool, Groups(stakes), epoch),
            Due(pool, epoch), epoch, FALSE, FALSE, TRUE)
  BY <1>4 DEF SharesInv, BooksOf
<1>6. /\ pool.pending_shares_withdraw \in [Epochs -> Nat] /\ pool.pre_active_withdrawals \in [Epochs -> Nat]
      /\ Groups(stakes) \in [Epochs -> Nat]
  BY <1>5 DEF Books, AmountsOK
<1>7. \A a \in Epochs : RateAt(pool, a) \in ValidRates
  BY <1>1, RateIsKnown
<1>8. MaySkip(pool.pending_stake, pool.pending_shares_withdraw, pool.pre_active_withdrawals,
              Due(pool, epoch), epoch)
  <2>1. \A k \in Epochs : k > epoch + 2 =>
          pool.pending_stake[k] = 0 /\ pool.pending_shares_withdraw[k] = 0 /\ pool.pre_active_withdrawals[k] = 0
    BY <1>3 DEF Inv, NothingAfter
  <2>2. PICK y : y = ToShares(RateAt(pool, epoch), pool.pre_active_withdrawals[epoch + 1])
    OBVIOUS
  <2>3. y \in Nat
    <3>1. RateAt(pool, epoch) \in ValidRates /\ pool.pre_active_withdrawals[epoch + 1] \in Nat
      BY <1>1, <1>6, <1>7, Around
    <3> QED BY <2>2, <3>1, SharesFacts
  <2>4. Due(pool, epoch) = pool.pending_shares_withdraw[epoch + 1] + y
    BY <2>2 DEF Due
  <2>5. pool.pending_shares_withdraw[epoch + 1] \in Nat
    BY <1>1, <1>6
  <2>6. pool.pending_shares_withdraw[epoch + 1] <= Due(pool, epoch)
    BY <2>3, <2>4, <2>5
  <2> QED BY <1>1, <1>3, <2>1, <2>6 DEF MaySkip
<1>9. /\ Groups(stakes)[epoch + 1] = 0 /\ pool.pending_shares_withdraw[epoch + 2] = 0
      /\ pool.pre_active_withdrawals[epoch + 2] = 0 /\ Owned(pool, Groups(stakes), epoch) = 0
      /\ Books(pool.wal_balance, pool.num_shares, pool.pending_stake, pool.pending_shares_withdraw,
               pool.pre_active_withdrawals, Groups(stakes), 0, 0, epoch + 1, FALSE, FALSE, FALSE)
  <2>1. /\ NothingLeft(pool.pending_shares_withdraw, pool.pre_active_withdrawals, Groups(stakes),
                       Owned(pool, Groups(stakes), epoch), epoch)
        /\ Books(pool.wal_balance, pool.num_shares, pool.pending_stake, pool.pending_shares_withdraw,
                 pool.pre_active_withdrawals, Groups(stakes), 0, 0, epoch + 1, FALSE, FALSE, FALSE)
    BY <1>5, <1>8, BooksSkip
  <2> QED BY <2>1 DEF NothingLeft
<1>10. ToShares(RateAt(pool, epoch + 1), 0) = 0
  BY <1>1, <1>7, SharesFacts
<1>11. Owned(pool, Groups(stakes), epoch + 1) = 0
  <2>1. Owned(pool, Groups(stakes), epoch + 1) =
          Owned(pool, Groups(stakes), epoch) + ToShares(RateAt(pool, epoch + 1), Groups(stakes)[epoch + 1])
    BY <1>1, <1>6, OwnedNext
  <2> QED BY <1>9, <1>10, <2>1
<1>12. Due(pool, epoch + 1) = 0
  <2>1. (epoch + 1) + 1 = epoch + 2
    BY <1>1
  <2> QED BY <1>9, <1>10, <2>1 DEF Due
<1>13. BooksOf(pool, Groups(stakes), epoch + 1, FALSE, FALSE, FALSE)
  BY <1>9, <1>11, <1>12 DEF BooksOf
<1>14. RatesOK(pool, epoch + 1, FALSE)
  <2>1. \A k \in Epochs : k > epoch /\ pool.exchange_rates[k] # NoRate => k = epoch + 1
    BY DEF SharesInv, RatesOK
  <2>2. \A k \in Epochs : k > epoch + 1 => pool.exchange_rates[k] = NoRate
    BY <1>1, <2>1, EpochRange
  <2> QED BY <1>1, <2>2 DEF RatesOK
<1> QED BY <1>2, <1>3, <1>4, <1>13, <1>14 DEF SharesInv, RatesOK

LEMMA AdvanceEpochShares ==
  ASSUME Inv, SharesInv, NEW rewards \in Rewards, AdvanceEpoch(rewards)
  PROVE  SharesInv'
<1>1. /\ NextEpoch /\ pool' = Advanced(rewards) /\ (in_current \/ in_next)
      /\ in_current \/ rewards = 0
  BY DEF AdvanceEpoch
<1>2. /\ selected /\ epoch' = epoch + 1 /\ epoch + 1 \in 0 .. MaxEpoch
      /\ stakes' = stakes /\ selected' = FALSE /\ in_current' = in_next /\ in_next' = FALSE
  BY <1>1, NextEpochFacts
<1>3. /\ RatesOK(Advanced(rewards), epoch + 1, FALSE)
      /\ BooksOf(Advanced(rewards), Groups(stakes), epoch + 1, in_next, FALSE, FALSE)
  BY <1>1, <1>2, AdvancePool
<1>4. PICK q : q = Advanced(rewards)
  OBVIOUS
<1>5. RatesOK(q, epoch + 1, FALSE) /\ BooksOf(q, Groups(stakes), epoch + 1, in_next, FALSE, FALSE)
  BY <1>3, <1>4
<1>6. /\ \A outside : RatesOK(q, epoch + 1, outside)
  BY <1>5 DEF RatesOK
<1>7. pool' = q
  BY <1>1, <1>4
<1> QED BY <1>2, <1>5, <1>6, <1>7 DEF SharesInv

(* The books of a new pool are empty.                                      *)
LEMMA InitShares == Init => SharesInv
<1> SUFFICES ASSUME Init PROVE SharesInv
  OBVIOUS
<1>1. /\ epoch = 0 /\ selected \in BOOLEAN /\ in_current = FALSE /\ in_next = FALSE
      /\ stakes = [s \in Stakes |-> NoStake]
  BY DEF Init
<1>2. PICK act : act = IF selected THEN 1 ELSE 0
  OBVIOUS
<1>3. pool = NewPool(act)
  BY <1>1, <1>2 DEF Init
<1>4. /\ pool.activation_epoch = act /\ pool.wal_balance = 0 /\ pool.num_shares = 0
      /\ pool.pending_stake = Nothing /\ pool.pending_shares_withdraw = Nothing
      /\ pool.pre_active_withdrawals = Nothing
      /\ pool.exchange_rates = [e \in Epochs |-> IF e = act THEN Flat ELSE NoRate]
  BY <1>3 DEF NewPool
<1>5. /\ 0 \in Epochs /\ 1 \in Epochs /\ 2 \in Epochs /\ \A k \in Epochs : k \in Nat
  BY EpochRange
<1>6. Flat \in ValidRates
  BY DEF Flat, ValidRates
<1>7. KnownRates(pool)
  BY <1>1, <1>2, <1>4, <1>6 DEF KnownRates
<1>8. RatesOK(pool, 0, selected)
  BY <1>1, <1>2, <1>4, <1>5, <1>7 DEF RatesOK
<1>9. stakes \in [Stakes -> StakeRecords]
  BY <1>1, NoStakeFacts
<1>10. \A a \in Epochs : Groups(stakes)[a] = 0
  <2> SUFFICES ASSUME NEW a \in Epochs PROVE Groups(stakes)[a] = 0
    OBVIOUS
  <2>1. CountedAll(stakes, a) \in [Stakes -> Nat] /\ \A s \in Stakes : CountedAll(stakes, a)[s] = 0
    BY <1>1 DEF CountedAll, Counted, NoStake
  <2>2. SumFunction(CountedAll(stakes, a)) = 0
    BY <2>1, SumType, StakesAssumption
  <2> QED BY <2>2 DEF Groups
<1>11. Groups(stakes) \in [Epochs -> Nat]
  BY <1>9, GroupsType
<1>12. \A a \in Epochs : RateAt(pool, a) \in ValidRates
  BY <1>7, RateIsKnown
<1>13. \A a \in Epochs : ToShares(RateAt(pool, a), 0) = 0
  BY <1>12, SharesFacts
<1>14. Owned(pool, Groups(stakes), 0) = 0
  <2>1. \A a \in Epochs : SharesOfGroups(pool, Groups(stakes), 0)[a] = 0
    BY <1>10, <1>13 DEF SharesOfGroups
  <2>2. SharesOfGroups(pool, Groups(stakes), 0) \in [Epochs -> Nat]
    BY <1>7, <1>11, OwnedType
  <2> QED BY <2>1, <2>2, SumType, EpochsAreFinite DEF Owned
<1>15. \A k \in Epochs : Nothing[k] = 0
  BY DEF Nothing
<1>16. Nothing \in [Epochs -> Nat]
  BY DEF Nothing
<1>17. Due(pool, 0) = 0
  BY <1>4, <1>5, <1>13, <1>15 DEF Due
<1>18. AmountsOK(0, 0, Nothing, Nothing, Nothing, Groups(stakes), 0, 0)
  BY <1>11, <1>16 DEF AmountsOK
<1>19. PendingOK(Nothing, Nothing, Nothing, Groups(stakes), 0)
  BY <1>5, <1>10, <1>15 DEF PendingOK
<1>20. SharesOK(0, Nothing, 0, 0, 0)
  BY <1>5, <1>15 DEF SharesOK
<1>21. MembershipOK(0, 0, Nothing, Nothing, 0, 0, FALSE, FALSE, selected)
  BY <1>5, <1>15 DEF MembershipOK
<1>22. Books(0, 0, Nothing, Nothing, Nothing, Groups(stakes), 0, 0, 0, FALSE, FALSE, selected)
  BY <1>18, <1>19, <1>20, <1>21 DEF Books
<1>23. BooksOf(pool, Groups(stakes), 0, FALSE, FALSE, selected)
  BY <1>4, <1>14, <1>17, <1>22 DEF BooksOf
<1> QED BY <1>1, <1>8, <1>23 DEF SharesInv

(* Every step keeps the books.                                             *)
LEMMA NextShares == AlwaysSelected /\ Inv /\ SharesInv /\ [Next]_vars => SharesInv'
<1> SUFFICES ASSUME AlwaysSelected, Inv, SharesInv, [Next]_vars PROVE SharesInv'
  OBVIOUS
<1>1. ASSUME NEW s \in Stakes, NEW amount \in Amounts, Stake(s, amount) PROVE SharesInv'
  BY <1>1, StakeShares
<1>2. ASSUME NEW s \in Stakes, RequestPreActive(s) PROVE SharesInv'
  BY <1>2, RequestPreActiveShares
<1>3. ASSUME NEW s \in Stakes, RequestActive(s) PROVE SharesInv'
  BY <1>3, RequestActiveShares
<1>4. ASSUME NEW s \in Stakes, Withdraw(s) PROVE SharesInv'
  BY <1>4, WithdrawShares
<1>5. ASSUME NEW s \in Stakes, NEW t \in Stakes, NEW amount \in Amounts, Split(s, t, amount)
      PROVE  SharesInv'
  BY <1>5, SplitShares
<1>6. ASSUME NEW s \in Stakes, NEW t \in Stakes, Join(s, t) PROVE SharesInv'
  BY <1>6, JoinShares
<1>7. ASSUME NEW rate \in CommissionRates, SetNextCommission(rate) PROVE SharesInv'
  BY <1>7, SetNextCommissionShares
<1>8. ASSUME NEW member \in BOOLEAN, SelectCommittee(member) PROVE SharesInv'
  BY <1>8, SelectCommitteeShares
<1>9. ASSUME NEW rewards \in Rewards, AdvanceEpoch(rewards) PROVE SharesInv'
  BY <1>9, AdvanceEpochShares
<1>10. CASE SkipEpoch
  BY <1>10, SkipEpochShares
<1>12. CASE TryJoinActiveSet
  BY <1>12 DEF TryJoinActiveSet, context, SharesInv
<1>13. CASE Evicted
  BY <1>13 DEF Evicted, context, SharesInv
<1>11. CASE UNCHANGED vars
  BY <1>11 DEF vars, context, SharesInv
<1> QED BY <1>1, <1>2, <1>3, <1>4, <1>5, <1>6, <1>7, <1>8, <1>9, <1>10, <1>11, <1>12, <1>13 DEF Next

(* If the node is in every committee that it has stake for, the epoch      *)
(* change succeeds for its pool: none of the assertions and subtractions   *)
(* fails, whatever the rewards, the rounding and the withdrawals are.      *)
THEOREM EpochChangeIsNotBlocked == AlwaysSelected => (Spec => []EpochChangeNotBlocked)
<1> SUFFICES ASSUME AlwaysSelected PROVE Spec => []EpochChangeNotBlocked
  OBVIOUS
<1>1. Init => SharesInv
  BY InitShares
<1>2. Inv /\ SharesInv /\ [Next]_vars => SharesInv'
  BY NextShares
<1>3. Inv /\ SharesInv => EpochChangeNotBlocked
  BY AdvancePool DEF EpochChangeNotBlocked
<1> QED BY <1>1, <1>2, <1>3, PoolInvariance, PTL DEF Spec

=============================================================================
