SPECIFICATION Spec
CONSTANTS
  o1 = o1
  o2 = o2
  p1 = p1
  Objects = {o1, o2}
  Pools = {p1}
  Kinds <- AllKinds
  MaxEpoch = 3
  MaxAhead = 2
  MaxEvents = 4
  MaxFaults = 1
  EpochsAtStart = {0, 3}
SYMMETRY Symmetry
INVARIANTS
  AggregateMatchesTables
  StatusIsExact
  InitialEpochIsExact
PROPERTY LiveDataIsKept
CHECK_DEADLOCK FALSE
