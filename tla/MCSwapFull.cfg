CONSTANTS
  Q = 32
  FEE_RATE_DENOMINATOR_VALUE = 10
  OverflowChecks = FALSE
  MAX_TICK = 3
  SqrtPriceAt <- MCSqrtPriceAt
  Books <- MCBooks
  Prices <- MCPrices
  FeeRates <- MCFeeRates
  Amounts <- MCAmounts
  Limits <- MCLimits
  CheckedLimits = TRUE
  MAX_STEPS = 3
SPECIFICATION Spec
INVARIANTS
  TypeOK
  WalkMatchesBook
  ResultIsOnBook
  LimitRespected
  SpecifiedAmountIsMet
  FeeTotalAtLeastRate
  CapOnlyAfterManyTicks
  OnlyAmountErrors
PROPERTIES
  WalksForward
CHECK_DEADLOCK FALSE
