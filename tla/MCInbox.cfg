CONSTANTS
  User = {a, b}
  Shouted = {a, b, r1, r2, r3, r4}
  Unregistered = {}
  Id <- MCId
  Ref <- MCRef
  Cast <- MCCast
  Call = {r1, r2, r3, r4, r5}
  None = None
  MaxInFlight = 3
  Early = {r1, r2, r3, r4}
  Reader = {v}
  Limit = 1
  a = a
  b = b
  r1 = r1
  r2 = r2
  r3 = r3
  r4 = r4
  r5 = r5
  v = v
SPECIFICATION MCSpec
SYMMETRY Symmetry
INVARIANTS
  OneToOneUnique
  ListedOnce
  NewestListed
  OneLiveFriendship
  NothingOverlooked
PROPERTIES
  DecisionIsFinal
CHECK_DEADLOCK FALSE
