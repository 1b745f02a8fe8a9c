SPECIFICATION FairSpec
CONSTANTS
  t1 = t1
  t2 = t2
  Tickers = {t1, t2}
  PlanLength = 2
  Price <- FlatPrice
  MaxSteps = 4
  MaxToolCalls = 3
  MaxCreditCost = 2
  MaxCrashes = 1
INVARIANTS TypeOK SucceededMeansDone WorkIsPaid StepsBounded
PROPERTIES StatusMoves RunEnds
CHECK_DEADLOCK FALSE
