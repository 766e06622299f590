SPECIFICATION MCSpec
CONSTANTS
  s1 = s1
  s2 = s2
  c1 = c1
  c2 = c2
  n1 = n1
  None = None
  Scopes = {s1}
  MaxPublishers = 2
  MaxMoves = 2
  MaxLosses = 1
  MaxEndings = 1
  Calls = {c1, c2}
  Names = {n1}
  MaxDocuments = 2
  MaxChanges = 1
  MaxSwitches = 1
  MaxTools = 1
  MaxEarly = 1
  k1 = k1
  k2 = k2
  Children = {k1, k2}
  Root = Root
  p1 = p1
  p2 = p2
  Prefixes = {p1, p2}
  RefusesDomains = FALSE
  MaxGenerations = 2
  MaxDisturbances = 1
  MaxCalls = 2
INVARIANTS
  NoStrayDebugger
  ServedIsHeld
  NoScopeOutlivesItsGrant
  NothingRunsUnheard
  SubscribersServed
  NoChildLeftWaiting
PROPERTIES
  AnswersAreCurrent
CHECK_DEADLOCK FALSE
