SPECIFICATION PlaneFairSpec
CONSTANTS
  Env <- MCEnv
  Retention = {7, 30}
  Absent = 0
  Reconciling = "reconciler"
  Driver = {"reconciler", "provision"}
  MaxFaults = 0
  MaxEdits = 0
  MaxSignals = 2
  MaxContinue = 0
  Provisioning = "provision"
  NoSpec = NoSpec
  MaxCommits = 2
  MaxApplies = 1
INVARIANTS
  OneOwner
PROPERTIES
  Converges
  ApplyReturns
  WritesAreAsked
CHECK_DEADLOCK FALSE
