SPECIFICATION Spec
CONSTANTS
  r1 = r1
  r2 = r2
  good = good
  other = other
  bad = bad
  Runners = {r1}
  Contents = {good, other}
  Ready = {good, other}
  Publishable = {good, other}
  Slotted = {other}
  MaxAttempts = 3
  Limit = 1
  Window = 2
  MaxOthers = 0
  MaxCrashes = 0
INVARIANTS VisibleIffSucceeded
CHECK_DEADLOCK FALSE
