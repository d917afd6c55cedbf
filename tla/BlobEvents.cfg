SPECIFICATION FairSpec
CONSTANTS
  o1 = o1
  o2 = o2
  s1 = s1
  s2 = s2
  Objects <- MCObjects
  Shards <- MCShards
  MaxEvents = 5
  MaxCollections = 1
  MaxFaults = 1
CHECK_DEADLOCK FALSE
 
PROPERTY EventsAreCompleted
