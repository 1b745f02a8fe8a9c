SPECIFICATION FairSpec
CONSTANTS
  c1 = c1
  c2 = c2
  c3 = c3
  reserve0 = reserve0
  reserve1 = reserve1
  topup0 = topup0
  refund0 = refund0
  Callers = {c1, c2}
  ChargeKeys = {reserve0, topup0}
  RefundKeys = {refund0}
  Amounts = {0, 1, 2}
  Terms <- TwoTerms
  Store = "memory"
  MaxAttempts = 2
  MaxCalls = 3
  MaxLapses = 0
INVARIANTS TypeOK
PROPERTIES ImplementsAccount CallsReturn
CHECK_DEADLOCK FALSE
