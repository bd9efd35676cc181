SPECIFICATION FairSpec
CONSTANTS
  MaxAttempts = 3
  MaxMints = 2
  MaxFaults = 2
  MaxLost = 1
  MaxSlow = 2
INVARIANTS
  Accounted
  VaultLive
PROPERTIES
  MintReturns
CHECK_DEADLOCK FALSE
