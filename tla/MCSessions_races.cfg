SPECIFICATION FairSpec
CONSTANTS
  Call = {r1, r2, r3, r4}
  None = None
  MaxTime = 2
  MaxInFlight = 3
INVARIANTS
  TypeOK
  CacheIsCommitted
PROPERTIES
  EventuallyFresh
CHECK_DEADLOCK FALSE
