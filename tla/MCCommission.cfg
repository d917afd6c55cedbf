SPECIFICATION CommissionSpec
CONSTANTS
  n1 = n1
  n2 = n2
  Nodes <- MCNodes
  Shards = {1, 2, 3, 4}
  Committees <- MCCommittees
  EpochDuration = 2
  EpochZeroDuration = 1
  MaxEpoch = 2
  Amounts = {1}
  Subsidy = 1
  MaxCommission = 2
INVARIANTS
  DoneByQuorum
  HeldForSlashing
  SlashedByQuorum
CHECK_DEADLOCK FALSE
