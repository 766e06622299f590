SPECIFICATION MCSpec
CONSTANTS
  a1 = a1
  a2 = a2
  o1 = o1
  o2 = o2
  t1 = t1
  t2 = t2
  Artifacts = {a1, a2}
  Owners = {o1, o2}
  Targets = {t1, t2}
  OwnerOf <- TwoOwners
  TargetOf <- TwoTargets
  MaximumBytes = 3
  MaximumBytesPerOwner = 2
  MaxLength = 3
  MaxCrashes = 2
  c1 = c1
  c2 = c2
  ToolCalls = {c1, c2}
  MaxPublications = 2
  MaxRebinds = 1
INVARIANTS
  RevokedIsGone
  ReleasedWithSession
PROPERTIES
  
  ImplementsPool
CHECK_DEADLOCK FALSE
