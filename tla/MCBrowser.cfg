SPECIFICATION BrowserSpec
CONSTANTS
  Call = {r1, r2, r3, r4}
  None = None
  MaxTime = 4
  MaxInFlight = 3
  Tabs = 1
SYMMETRY Symmetry
CONSTRAINTS
  LoginsApart
  ChecksApart
INVARIANTS
  RefreshedIsCurrent
  NewSessionRefreshes
  CacheFresh
  OneSession
  LogoutEndsAccess
CHECK_DEADLOCK FALSE
