SPECIFICATION FairSpec
CONSTANTS
  n1 = n1
  n2 = n2
  Nodes <- MCNodes
  Shards = {1, 2, 3, 4}
  Committees <- MCCommittees
  EpochDuration = 1
  EpochZeroDuration = 0
  MaxEpoch = 2
  Drivers = {n1}
  MaxFaults = 1
INVARIANTS
  NoFailure
  NeverEarly
  CaughtUpIsScheduled
  AttestationPending
PROPERTY
  EpochsAdvance
CHECK_DEADLOCK FALSE
