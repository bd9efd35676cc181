SPECIFICATION Spec
CONSTANTS
  Env <- MCEnv
  Retention = {7, 30}
  Absent = 0
  Reconciling = "reconciler"
  Driver = {"reconciler"}
  MaxFaults = 1
  MaxEdits = 0
  MaxSignals = 2
  MaxContinue = 0
PROPERTIES
  TearsDownEverything
CHECK_DEADLOCK FALSE
