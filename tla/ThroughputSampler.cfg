\* A rate limiter under updates and a clock that is set back.
SPECIFICATION ThroughputSpec
CONSTANTS
  CreditUnit = 4
  Second = 2
  Rate = {0, 1, 4}
  MaxTime = 8
  MaxDebt = 4
INVARIANTS
  RateRespected
  LowerBoundGuaranteed
