SPECIFICATION ClientFairSpec
CONSTANTS
  Handles = {h1, h2}
  MaxConnections = 3
  MaxChanges = 1
  Capacity = 2
INVARIANTS
  SubscriptionsMatch
PROPERTIES
  RequestsSettle
  Reconnects
CHECK_DEADLOCK FALSE
