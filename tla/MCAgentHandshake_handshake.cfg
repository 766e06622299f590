SPECIFICATION FairSpec
CONSTANTS
  MaxSockets = 2
  MaxUnauthenticated = 2
  PairingCodes = 2
INVARIANTS
  OneConnectionServed
  ServedIsAuthorized
PROPERTIES
  AbandonedPairingRevoked
CHECK_DEADLOCK FALSE
