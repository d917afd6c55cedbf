SPECIFICATION CursorSpec
CONSTANTS
  NumEvents = 5
  FirstAvailable = 1
  MaxCrashes = 2
INVARIANTS
  PersistedAreCompleted
  NothingLost
PROPERTIES
  AllEventsPersisted
