SPECIFICATION SubsidiesSpec
CONSTANTS
  n1 = n1
  n2 = n2
  Length = 2
  MaxEpoch = 2
  Sizes = {2}
  UnitSize = 2
  Capacities = {4}
  Prices = {35}
  Subsidies = {101}
  DenySizes = {1}
  Nodes = {n1, n2}
  Committees <- TwoToOne
  MaxFunds = 210
  MaxUsed = 2
  Ids = {o1}
  HundredPercent = 2
  Rates = {1, 2}
  FixedSubsidy = 1
  Funds = {106}
  MaxPool = 106
CHECK_DEADLOCK FALSE
INVARIANTS
  WalConserved
  RewardsAreCovered
  SubsidiesNotBlocked
PROPERTIES
  ImplementsLedger
