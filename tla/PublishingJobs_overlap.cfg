SPECIFICATION Spec
CONSTANTS
  r1 = r1
  r2 = r2
  good = good
  other = other
  bad = bad
  Runners = {r1, r2}
  Contents = {good, bad}
  Ready = {good}
  Publishable = {good}
  Slotted = {}
  MaxAttempts = 2
  Limit = 1
  Window = 2
  MaxOthers = 0
  MaxCrashes = 1
INVARIANTS AttemptsBounded PublicationIsBacked
SYMMETRY RunnerSymmetry
CHECK_DEADLOCK FALSE
