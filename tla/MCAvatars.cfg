SPECIFICATION Spec
CONSTANTS
  User = {u, v}
  Call = {r1, r2, r3, r4, r5}
  None = None
  MaxInFlight = 3
SYMMETRY Symmetry
INVARIANTS
  TypeOK
  AvatarResolves
  FoundFileExists
  TempAccountedFor
PROPERTIES
  AssetsBecomeAvatars
CHECK_DEADLOCK FALSE
