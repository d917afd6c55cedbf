SPECIFICATION PoolSpec
CONSTANTS
  Length = 2
  MaxEpoch = 2
  Sizes = {1, 2}
  UnitSize = 2
  Capacities = {1, 3}
  Prices = {0}
  Subsidies = {}
  DenySizes = {}
  Nodes = {n1}
  Committees <- OneCommittee
  MaxFunds = 0
  MaxUsed = 3
  Ids = {o1, o2}
  BlobIds = {b1, b2}
SYMMETRY Symmetry
INVARIANTS
  CachedUsedCapacity
  BlobsAreBacked
  ClaimsAreBooked
  PoolsAreExact
PROPERTIES
  PermanentBlobsStay
