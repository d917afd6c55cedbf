---------------------------- MODULE UsageSubsidies ----------------------------
(***************************************************************************)
(* The subsidies contract on top of the accounting of the system contract. *)
(* Anybody may call process_subsidies at any time: it pays the committee   *)
(* of the previous epoch a fixed amount, once per epoch, and adds to every *)
(* future account a percentage of what was added to it since the last      *)
(* call, which it keeps in a ring buffer of its own. That ring is brought  *)
(* up to date with the epoch only when subsidies are processed.            *)
(* The fixed amount is what all nodes of a committee get together.         *)
(***************************************************************************)
EXTENDS SystemState

CONSTANTS
  HundredPercent,  \* HUNDRED_PERCENT
  Rates,           \* rates that the admin sets, up to MAX_SUBSIDY_RATE
  FixedSubsidy,    \* base and per-shard subsidies of a committee
  Funds,           \* amounts that are added to the pool
  MaxPool          \* bound on what is added to the pool

ASSUME SubsidyAssumption ==
  /\ HundredPercent \in Nat \ {0}
  /\ Rates \subseteq Nat /\ Funds \subseteq Nat
  /\ {FixedSubsidy, MaxPool} \subseteq Nat

VARIABLES
  already_subsidized,  \* the ring buffer: its first epoch, and the balance by offset
  subsidy_pool,
  system_subsidy_rate,
  latest_epoch,        \* the last epoch with fixed subsidies
  history              \* funds added to the pool, usage subsidies paid

subsidyVars == <<already_subsidized, subsidy_pool, system_subsidy_rate, latest_epoch, history>>
allVars == <<vars, subsidyVars>>

Rewards(i) == slot_rewards[Slot(i)]

\* The contract is deployed at the start.
SubsidiesInit ==
  /\ Init
  /\ already_subsidized = [first |-> epoch, balances |-> [i \in Slots |-> Rewards(i)]]
  /\ subsidy_pool = 0
  /\ system_subsidy_rate \in Rates
  /\ latest_epoch = 0
  /\ history = [added |-> 0, paid |-> 0]

-----------------------------------------------------------------------------
(* The subsidies contract *)

AddBalance(funds) ==
  /\ history.added + funds <= MaxPool
  /\ subsidy_pool' = subsidy_pool + funds
  /\ history' = [history EXCEPT !.added = @ + funds]
  /\ UNCHANGED <<vars, already_subsidized, system_subsidy_rate, latest_epoch>>

SetSystemSubsidyRate(rate) ==
  /\ system_subsidy_rate' = rate
  /\ UNCHANGED <<vars, already_subsidized, subsidy_pool, latest_epoch, history>>

\* process_fixed_rate_subsidies: the previous epoch is paid for, unless it was already.
FixedDue == IF epoch > 0 /\ latest_epoch < epoch - 1 THEN FixedSubsidy ELSE 0

FixedDone == IF epoch > 0 /\ latest_epoch < epoch - 1 THEN epoch - 1 ELSE latest_epoch

NotPopped(ring_of_balances) == ring_of_balances.balances

\* Epochs that are over are popped, and new ones start without subsidies.
Popped(ring_of_balances) ==
  LET over == slot_epoch[Slot(0)] - ring_of_balances.first
  IN [i \in Slots |-> IF i + over < Length THEN ring_of_balances.balances[i + over] ELSE 0]

Balances == Popped(already_subsidized)

\* What was added to the account since the last call, at the current rate.
UsageSubsidy(i) == ((Rewards(i) - Balances[i]) * system_subsidy_rate) \div HundredPercent

UsageDue == SumFunction([i \in Slots |-> UsageSubsidy(i)])

\* The subsidy itself is not subsidised.
SubsidizedBalance(i) == Rewards(i) + UsageSubsidy(i)

\* The transaction aborts if a subtraction underflows or the pool does not suffice.
ProcessSubsidies ==
  /\ \A i \in Slots : Rewards(i) >= Balances[i]
  /\ FixedDue + UsageDue <= subsidy_pool
  /\ AddPerEpochSubsidies([i \in Slots |-> UsageSubsidy(i)])
  /\ already_subsidized' =
       [first |-> slot_epoch[Slot(0)], balances |-> [i \in Slots |-> SubsidizedBalance(i)]]
  /\ subsidy_pool' = subsidy_pool - FixedDue - UsageDue
  /\ latest_epoch' = FixedDone
  /\ history' = [history EXCEPT !.paid = @ + UsageDue]
  /\ UNCHANGED <<system_subsidy_rate, objects>>

SubsidiesNext ==
  \/ Next /\ UNCHANGED subsidyVars
  \/ \E funds \in Funds : AddBalance(funds)
  \/ \E rate \in Rates : SetSystemSubsidyRate(rate)
  \/ ProcessSubsidies

SubsidiesSpec == SubsidiesInit /\ [][SubsidiesNext]_allVars

-----------------------------------------------------------------------------
(* No epoch ever has less rewards than were recorded as subsidised, however *)
(* long nobody called process_subsidies and whatever epochs have passed: the *)
(* subtraction in process_usage_subsidies never underflows, which would      *)
(* abort all later calls until that epoch is over.                           *)
SubsidiesNotBlocked == \A i \in Slots : Rewards(i) >= Balances[i]

(* The rate is applied to the price paid to the system, once: usage          *)
(* subsidies add up to no more than the highest rate on what others have     *)
(* paid in, so that no payment, and no subsidy, is subsidised again          *)
(* (system_subsidy_rate, already_subsidized_balances). It does not hold:     *)
(* rewards that advance_epoch moves on to the next epoch are subsidised      *)
(* again there.                                                              *)
SubsidizedOnce ==
  LET highest == Max(Rates)
  IN history.paid * HundredPercent <= highest * (wal.paid_in - history.paid)
=============================================================================
