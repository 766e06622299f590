SPECIFICATION FairSpec
CONSTANTS
  read = read
  r1 = r1
  p1 = p1
  t1 = t1
  None = None
  Names <- MCNames
  Catalogue <- MCNames
  KernelOwned = {}
  EntryKind <- MCKind
  EntryLevel <- MCLevel
  Requests = {r1}
  Providers = {p1}
  TargetIds = {t1}
  Capabilities <- OneCapability
  Requested = {None}
  Deadlines = {None, 1}
  MalformedApprovals = TRUE
  StoreFails = TRUE
  MaxConnection = 2
  MaxGeneration = 2
  MaxCommit = 2
  MaxTime = 1
PROPERTIES
  ImplementsLedger
  
  OverdueRequestsEnd
CHECK_DEADLOCK FALSE
