CONSTANTS
  User = {a, b, c}
  Shouted = {r1, r2, r3, r4}
  Unregistered = {}
  Id <- MCId
  Ref <- MCRef
  Cast <- MCCast
  Call = {r1, r2, r3, r4}
  None = None
  MaxInFlight = 2
  Client = {d}
  Limit = 1
  a = a
  b = b
  c = c
  d = d
  r1 = r1
  r2 = r2
  r3 = r3
  r4 = r4
SPECIFICATION MCSpec
SYMMETRY Symmetry
INVARIANTS
  DeliveryTypeOK
  MessagesFromMembers
  ShownToMembers
  NoGap
CHECK_DEADLOCK FALSE
