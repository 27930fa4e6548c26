CONSTANTS
  User = {a, b}
  Shouted = {}
  Unregistered = {x}
  Id <- MCId
  Ref <- MCRef
  Cast <- MCCast
  Call = {r1, r2}
  None = None
  MaxInFlight = 2
  a = a
  b = b
  x = x
  r1 = r1
  r2 = r2
SPECIFICATION Spec
SYMMETRY Symmetry
INVARIANTS
  OneToOneUnique
CHECK_DEADLOCK FALSE
