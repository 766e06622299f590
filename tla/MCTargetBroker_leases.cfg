SPECIFICATION FairSpec
CONSTANTS
  read = read
  control = control
  event = event
  a1 = a1
  a2 = a2
  t1 = t1
  t2 = t2
  c1 = c1
  c2 = c2
  c3 = c3
  p1 = p1
  p2 = p2
  o1 = o1
  s1 = s1
  None = None
  NoDeadline = NoDeadline
  Names <- MCNames
  Catalogue <- MCNames
  KernelOwned = {}
  EntryKind <- MCKind
  EntryLevel <- MCLevel
  Agents = {a1}
  TargetIds = {t1}
  Clients = {c1, c3}
  Principals = {p1, p2}
  PrincipalOf <- TwoRivals
  Operations = {}
  Subscriptions = {}
  MethodSets <- LeaseMethodSets
  TargetCapabilities <- TwoCapabilities
  Authorities <- LeaseAuthorities
  Durations = {1, 2}
  MaximumDuration = 2
  MaximumLifetime = 2
  ReconnectGrace = 1
  TimerLimit = 3
  RevokeOnDisconnect = TRUE
  RepublishesOver = FALSE
  MaxGeneration = 1
  MaxConnection = 1
  MaxLease = 2
  MaxTime = 3
INVARIANTS
  LeaseWithinTarget
PROPERTIES
  ImplementsLock
  LeaseEnds
CHECK_DEADLOCK FALSE
