SPECIFICATION LiveSyncSpec
CONSTANTS
  Terminals = {m1}
  Calls = {k1}
  NoCall = NoCall
  Time <- SameMillisecond
  BatchSize = 1
  MaxDeletes = 0
INVARIANTS LosesNothing
CHECK_DEADLOCK FALSE
