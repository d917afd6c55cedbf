SPECIFICATION FairSpec
CONSTANTS
  s1 = s1
  s2 = s2
  Shards = {s1, s2}
  NumPositions = 1
  MaxEpoch = 5
  Histories <- LongHistories
  RetryTransfer = TRUE
  MaxCrashes = 1
  MaxFailures = 1
INVARIANT ActiveIsComplete
CHECK_DEADLOCK FALSE
PROPERTY EventuallySynced
