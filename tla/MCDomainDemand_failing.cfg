SPECIFICATION Spec
CONSTANTS
  l1 = l1
  l2 = l2
  l3 = l3
  s1 = s1
  s2 = s2
  u1 = u1
  u2 = u2
  k1 = k1
  k2 = k2
  None = None
  Leases = {l1, l2, l3}
  Subscriptions = {s1, s2}
  Users = {u1, u2}
  Calls = {k1, k2}
  SharedFailures = TRUE
PROPERTIES
  ReleasedWithLast
CHECK_DEADLOCK FALSE
