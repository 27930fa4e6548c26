SPECIFICATION BrowserSpec
CONSTANTS
  Call = {r1, r2, r3}
  None = None
  MaxTime = 2
  MaxInFlight = 1
  Tabs = 1
SYMMETRY Symmetry
INVARIANTS
  LogoutEndsSession
CHECK_DEADLOCK FALSE
