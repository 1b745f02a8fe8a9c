SPECIFICATION Spec
CONSTANTS
  t1 = t1
  t2 = t2
  Tickers = {t1}
  PlanLength = 3
  Price <- MixedPrice
  MaxSteps = 8
  MaxToolCalls = 6
  MaxCreditCost = 2
  MaxCrashes = 3
INVARIANTS BudgetHolds
PROPERTIES ImplementsContract
CHECK_DEADLOCK FALSE
