SPECIFICATION MCSpec
CONSTANTS
  c1 = c1
  c2 = c2
  None = None
  Calls = {c1, c2}
  Kinds = {"fill", "select", "batch", "click_at"}
  MaxGenerations = 1
  MaxAttempts = 2
  MaxDrops = 1
SYMMETRY Symmetric
INVARIANTS
  NeverReplayed
  RetryableIsUntouched
  ButtonLetGo
  LeaseReturned
CHECK_DEADLOCK FALSE
