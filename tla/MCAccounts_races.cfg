SPECIFICATION Spec
CONSTANTS
  Email = {e1, e2}
  Call = {r1, r2, r3, r4, r5}
  None = None
  MaxInFlight = 3
SYMMETRY Symmetry
INVARIANTS
  TypeOK
  EmailUnique
  MailedTokensStored
  AccountsChangeByToken
PROPERTIES
  ImplementsService
CHECK_DEADLOCK FALSE
