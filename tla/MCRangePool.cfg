CONSTANTS
  Q = 16
  FEE_RATE_DENOMINATOR_VALUE = 10
  OverflowChecks = FALSE
  Liquidities <- MCLiquidities
  StartPrices <- MCStartPrices
  Targets <- MCTargets
  FeeRates <- MCFeeRates
  Amounts <- MCAmounts
  MaxCalls = 2
SPECIFICATION Spec
INVARIANTS
  TypeOK
  ReservesCoverCurve
  StepConsumesOrReaches
  TargetIsPaidFor
  FeeAtLeastRate
  NoPanic
  ExactOutQuoteBounded
  SplitNeverPays
CHECK_DEADLOCK FALSE
