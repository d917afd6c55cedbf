SPECIFICATION Spec
CONSTANTS
  b1 = b1
  s1 = s1
  s2 = s2
  s3 = s3
  r1 = r1
  r2 = r2
  r3 = r3
  Blobs <- OneBlob
  Slivers <- ThreeSlivers
  Requests <- MCRequests
  MaxSlivers = 2
  MaxMetadata = 1
  MaxExpiries = 1
  MaxFaults = 1
  MaxDisconnects = 1
CHECK_DEADLOCK FALSE
SYMMETRY Symmetry
INVARIANTS
  AcknowledgedSliversKept
  NoLostWakeup
  AcknowledgedIsStored
