CONSTANTS
  Stakes = {s1, s2}
  Amounts = {8, 12}
  MinStake = 4
  Rewards = {0, 3}
  BasisPoints = 2
  CommissionRates = {1}
  AlwaysSelected = TRUE
  MaxStaked = 16
  MaxEpoch = 3
SYMMETRY StakeSymmetry
SPECIFICATION Spec
INVARIANTS
  EpochChangeNotBlocked
  ActiveSetIsCurrent
  CommissionAsAnnounced
CHECK_DEADLOCK FALSE
