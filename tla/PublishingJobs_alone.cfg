SPECIFICATION FairSpec
CONSTANTS
  r1 = r1
  r2 = r2
  good = good
  other = other
  bad = bad
  Runners = {r1}
  Contents = {good, other}
  Ready = {good, other}
  Publishable = {good, other}
  Slotted = {other}
  MaxAttempts = 2
  Limit = 1
  Window = 2
  MaxOthers = 1
  MaxCrashes = 1
PROPERTIES ImplementsJobContract QueueDrains
CHECK_DEADLOCK FALSE
