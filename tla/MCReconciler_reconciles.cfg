SPECIFICATION FairSpec
CONSTANTS
  Env <- MCEnv
  Retention = {7, 30}
  Absent = 0
  Reconciling = "reconciler"
  Driver = {"reconciler"}
  MaxFaults = 2
  MaxEdits = 1
  MaxSignals = 2
  MaxContinue = 1
INVARIANTS
  SingleWriter
  DestroysOnlyUnwanted
  StatusHonest
  Bookkeeping
  IntentKept
PROPERTIES
  DropsOnlyDestroyed
  Implements
  Converges
  DestroyHonoured
CHECK_DEADLOCK FALSE
