CONSTANTS
  User = {a, b}
  Shouted = {b, r1, r2, r3, r4}
  Unregistered = {x}
  Id <- MCId
  Ref <- MCRef
  Cast <- MCCast
  Call = {r1, r2, r3, r4}
  None = None
  MaxInFlight = 2
  a = a
  b = b
  x = x
  r1 = r1
  r2 = r2
  r3 = r3
  r4 = r4
SPECIFICATION MCFairSpec
INVARIANTS
  TypeOK
  OneRequestPerDirection
  FriendsShareConversation
  PointersResolve
PROPERTIES
  ImplementsService
  EveryCallEnds
CHECK_DEADLOCK FALSE
