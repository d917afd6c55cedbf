----------------------------- MODULE FutureLedger -----------------------------
(***************************************************************************)
(* What the storage accounting of the system contract promises: there is   *)
(* one account for every epoch from the current one up to Length epochs    *)
(* ahead.  Capacity is only ever booked in open accounts and, apart from   *)
(* event blobs, within the total capacity; WAL that is paid for an epoch   *)
(* stays in the account of that epoch until the epoch ends; an account is  *)
(* closed exactly when its epoch ends, and what is not paid out is carried *)
(* over to the next one.                                                   *)
(*                                                                         *)
(* Module StorageAccounting implements this ledger with a ring buffer.     *)
(***************************************************************************)
EXTENDS Integers

CONSTANTS
  Length,    \* number of open accounts
  MaxEpoch   \* bound on the number of epochs

VARIABLES
  epoch,     \* the current epoch
  used,      \* capacity booked per epoch
  rewards,   \* WAL in the account of every epoch
  total      \* capacity that may be booked

ledger == <<epoch, used, rewards, total>>

Epochs == 0 .. (MaxEpoch + Length)

Open == epoch .. (epoch + Length - 1)

Init ==
  /\ epoch = 0
  /\ used = [e \in Epochs |-> 0]
  /\ rewards = [e \in Epochs |-> 0]
  /\ total = 0

\* The accounts of the period [start, end) grow by the given amount.
Grow(account, start, end, amount) ==
  [e \in Epochs |-> IF start <= e /\ e < end THEN account[e] + amount ELSE account[e]]

\* Capacity is sold for a period of open epochs, all at the same price.
Book(start, end) ==
  /\ epoch <= start /\ start < end /\ end <= epoch + Length
  /\ used'[start] >= used[start]
  /\ used' = Grow(used, start, end, used'[start] - used[start])
  /\ \A e \in Epochs : start <= e /\ e < end => used'[e] <= total
  /\ rewards'[start] >= rewards[start]
  /\ rewards' = Grow(rewards, start, end, rewards'[start] - rewards[start])
  /\ UNCHANGED <<epoch, total>>

\* Event blobs take capacity in all open epochs, without limit and for free.
BookEventBlob ==
  /\ used'[epoch] >= used[epoch]
  /\ used' = Grow(used, epoch, epoch + Length, used'[epoch] - used[epoch])
  /\ UNCHANGED <<epoch, rewards, total>>

\* WAL is added to open accounts (write fees, subsidies).
Fund ==
  /\ rewards' = [e \in Epochs |-> rewards'[e]]
  /\ \A e \in Epochs :
       /\ rewards'[e] >= rewards[e]
       /\ rewards'[e] # rewards[e] => e \in Open
  /\ UNCHANGED <<epoch, used, total>>

\* The epoch ends: its account is closed and the rest of it carried over.
Close ==
  /\ epoch' = epoch + 1
  /\ used' = [used EXCEPT ![epoch] = 0]
  /\ rewards'[epoch + 1] - rewards[epoch + 1] \in 0 .. rewards[epoch]
  /\ rewards' = [rewards EXCEPT ![epoch] = 0, ![epoch + 1] = rewards'[epoch + 1]]
  /\ total' >= used'[epoch']

Next ==
  \/ \E start, end \in Epochs : Book(start, end)
  \/ BookEventBlob
  \/ Fund
  \/ Close

Spec == Init /\ [][Next]_ledger
=============================================================================
