SPECIFICATION Spec
CONSTANTS
  Call = {r1, r2, r3}
  None = None
  MaxTime = 3
  MaxInFlight = 1
SYMMETRY Symmetry
INVARIANTS
  OlderTokensRefused
CHECK_DEADLOCK FALSE
