CONSTANTS
  Q = 32
  FEE_RATE_DENOMINATOR_VALUE = 10
  OverflowChecks = TRUE
  MAX_TICK = 3
  SqrtPriceAt <- MCSqrtPriceAt
  Books = {}
  Prices = {}
  FeeRates <- MCFeeRates
  Amounts <- MCAmounts
  Limits <- MCLimits
  CheckedLimits = TRUE
  MAX_STEPS = 5
  Owners = {alice, bob}
  Ranges <- MCRanges
  Offers <- MCOffers
  InitialPrices <- MCInitialPrices
  MAX_OPERATIONS = 4
SPECIFICATION LedgerSpec
SYMMETRY OwnerSymmetry
INVARIANTS
  LedgerTypeOK
  EveryoneCanWithdraw
  DepositWithinOffer
PROPERTIES
  ImplementsCurveSwap
CHECK_DEADLOCK FALSE
