SPECIFICATION Spec
CONSTANTS
  Email = {e1}
  Call = {r1, r2, r3}
  None = None
  MaxInFlight = 2
SYMMETRY Symmetry
INVARIANTS
  TokenUsedOnce
CHECK_DEADLOCK FALSE
