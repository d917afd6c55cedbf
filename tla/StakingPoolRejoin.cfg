CONSTANTS
  Stakes = {s1, s2}
  Amounts = {8, 12}
  MinStake = 4
  Rewards = {0, 3}
  BasisPoints = 2
  CommissionRates = {}
  AlwaysSelected = FALSE
  MaxStaked = 20
  MaxEpoch = 5
SYMMETRY StakeSymmetry
SPECIFICATION Spec
INVARIANTS EpochChangeNotBlocked
CHECK_DEADLOCK FALSE
