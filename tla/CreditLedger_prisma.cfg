SPECIFICATION Spec
CONSTANTS
  c1 = c1
  c2 = c2
  c3 = c3
  reserve0 = reserve0
  reserve1 = reserve1
  topup0 = topup0
  refund0 = refund0
  Callers = {c1, c2}
  ChargeKeys = {reserve0, topup0, reserve1}
  RefundKeys = {refund0}
  Amounts = {1, 2}
  Terms <- OneTerm
  Store = "prisma"
  MaxAttempts = 2
  MaxCalls = 4
  MaxLapses = 1
INVARIANTS AnswersMatchRows OverdrawBounded NoticesBounded
SYMMETRY CallerSymmetry
CHECK_DEADLOCK FALSE
