SPECIFICATION FairSpec
CONSTANTS
  c1 = c1
  c2 = c2
  c3 = c3
  b1 = b1
  None = None
  NoDeadline = NoDeadline
  Connections = {c1, c2, c3}
  Clients = {c1}
  Bindings = {b1}
  ExpiryOf <- ExpiringAtOne
  ResumeWindow = 1
  LateAnswers = FALSE
  StoreFails = TRUE
  ChangesWhileConnecting = FALSE
  MaxTime = 2
INVARIANTS
  IdleAdapterIsCurrent
PROPERTIES
  LiveSessionKept
CHECK_DEADLOCK FALSE
