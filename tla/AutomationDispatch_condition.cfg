SPECIFICATION Spec
CONSTANTS
  d1 = d1
  d2 = d2
  Drivers = {d1}
  Workflow <- Draft3
  Reads <- First
  MaxYields = 0
  MaxCrashes = 1
  MaxCancels = 0
INVARIANTS ConditionsGate
CHECK_DEADLOCK FALSE
