SPECIFICATION MCSpec
CONSTANTS
  l1 = l1
  l2 = l2
  l3 = l3
  s1 = s1
  s2 = s2
  u1 = u1
  u2 = u2
  k1 = k1
  k2 = k2
  None = None
  Leases = {l1, l2, l3}
  Subscriptions = {s1, s2}
  Users = {u1, u2}
  Calls = {k1, k2}
  SharedFailures = FALSE
  o1 = o1
  o2 = o2
  Operations = {o1, o2}
  Demanding = {o1}
  MaxGenerations = 2
  MaxProviders = 2
  w1 = w1
  Waits = {w1}
  WaitKinds = {"document", "other", "wait"}
  MaxShown = 3
  MaxRepublished = 1
INVARIANTS
  EnabledWhileHeld
  DisabledWhenFree
  HandlesFollowTarget
  MilestoneIsOfANewDocument

  
CHECK_DEADLOCK FALSE
