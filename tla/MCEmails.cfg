SPECIFICATION MCSpec
CONSTANTS
  Email = {e1}
  Call = {1, 2, 3}
  None = None
  MaxInFlight = 3
  Attempts = 2
INVARIANTS
  QueueTypeOK
  ActivationInReach
  CopiesBounded
  OneLiveForgotToken
  TokenUsedOnce
PROPERTIES
  MailsArrive
CHECK_DEADLOCK FALSE
