SPECIFICATION FairSpec
CONSTANTS
  Env <- MCEnv
  Retention = {7, 30}
  Absent = 0
  Reconciling = "reconciler"
  Driver = {"reconciler"}
  MaxFaults = 1
  MaxEdits = 0
  MaxSignals = 1
  MaxContinue = 0
PROPERTIES
  CredentialDelivered
CHECK_DEADLOCK FALSE
