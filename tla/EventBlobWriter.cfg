SPECIFICATION FairSpec
CONSTANTS
  n1 = n1
  n2 = n2
  Nodes = {n1, n2}
  Shards = {1, 2, 3, 4}
  BlobIds <- Ids
  Committee <- Joint
  Lookups = {"metadata", "blob", "none"}
  Threshold = 1
  FirstKept = 1
  MaxCrashes = 1
  MaxFailures = 1
  StoreFails = FALSE
  MaxCheckpoint = 2
  MaxEpoch = 2
INVARIANTS
  CertifiedByQuorum
  TrackedAreAhead
  NoBlobLost
  WritersAgree
  RecordedAreCertified
CHECK_DEADLOCK FALSE
PROPERTY AllBlobsCertified
