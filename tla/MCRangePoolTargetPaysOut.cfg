CONSTANTS
  Q = 16
  FEE_RATE_DENOMINATOR_VALUE = 10
  OverflowChecks = FALSE
  Liquidities <- MCLiquidities
  StartPrices <- MCStartPrices
  Targets <- MCTargets
  FeeRates <- MCFeeRates
  Amounts <- MCAmounts
  MaxCalls = 1
SPECIFICATION Spec
INVARIANT TargetPaysOut
CHECK_DEADLOCK FALSE
