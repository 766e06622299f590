SPECIFICATION ProvidersFairSpec
CONSTANTS
  p1 = p1
  p2 = p2
  r1 = r1
  None = None
  Peers = {p1, p2}
  Requests = {r1}
  MaxAttempts = 2
  Tasks = {1, 2}
  HasAutomation = TRUE
  StoreFails = TRUE
PROPERTIES
  NewestConnectionServes
  GrantsOfLostProviderEnd
CHECK_DEADLOCK FALSE
