SPECIFICATION Spec
CONSTANTS
  d1 = d1
  d2 = d2
  Drivers = {d1, d2}
  Workflow <- Draft2
  Reads <- First
  MaxYields = 0
  MaxCrashes = 1
  MaxCancels = 1
INVARIANTS TypeOK NotifiedOnce FirstStepGate
PROPERTIES EndsAreKept
SYMMETRY DriverSymmetry
CHECK_DEADLOCK FALSE
