SPECIFICATION FairSpec
CONSTANTS
  d1 = d1
  d2 = d2
  Drivers = {d1}
  Workflow <- All5
  Reads <- First
  MaxYields = 2
  MaxCrashes = 0
  MaxCancels = 1
INVARIANTS StepsGate EndsAsItsStepsSay
PROPERTIES ImplementsExecutionContract RunFinishes
CHECK_DEADLOCK FALSE
