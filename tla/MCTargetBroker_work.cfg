SPECIFICATION Spec
CONSTANTS
  read = read
  control = control
  event = event
  a1 = a1
  a2 = a2
  t1 = t1
  t2 = t2
  c1 = c1
  c2 = c2
  c3 = c3
  p1 = p1
  p2 = p2
  o1 = o1
  s1 = s1
  None = None
  NoDeadline = NoDeadline
  Names <- MCNames
  Catalogue <- MCNames
  KernelOwned = {}
  EntryKind <- MCKind
  EntryLevel <- MCLevel
  Agents = {a1}
  TargetIds = {t1}
  Clients = {c1, c2}
  Principals = {p1}
  PrincipalOf <- TwoOfOnePrincipal
  Operations = {o1}
  Subscriptions = {s1}
  MethodSets <- WorkMethodSets
  TargetCapabilities <- OneCapability
  Authorities <- WorkAuthorities
  Durations = {1}
  MaximumDuration = NoDeadline
  MaximumLifetime = NoDeadline
  ReconnectGrace = 1
  TimerLimit = 3
  RevokeOnDisconnect = TRUE
  RepublishesOver = FALSE
  MaxGeneration = 2
  MaxConnection = 2
  MaxLease = 2
  MaxTime = 1
INVARIANTS
  NewestProviderServes
  LeaseOnPublishedTarget
  FencedWorkAborted
  NoOrphanLease
CHECK_DEADLOCK FALSE
