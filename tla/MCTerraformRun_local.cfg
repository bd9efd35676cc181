SPECIFICATION FairSpec
CONSTANTS
  MaxAttempts = 3
  Locking = TRUE
  MaxFaults = 2
  MaxCuts = 2
INVARIANTS
  OneWriter
  ResultHolds
  NoWastedAttempt
PROPERTIES
  RetriesPrevail
  EverythingStops
  Implements
CHECK_DEADLOCK FALSE
