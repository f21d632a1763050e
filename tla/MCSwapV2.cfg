CONSTANTS
  Q = 32
  FEE_RATE_DENOMINATOR_VALUE = 10
  OverflowChecks = FALSE
  MAX_FEE_BASIS_POINTS = 10
  TransferFees <- MCTransferFees
  Ranges <- MCRanges
  FeeRates <- MCFeeRates
  Requests <- MCRequests
SPECIFICATION Spec
INVARIANTS
  TypeOK
  TargetIsDelivered
  InputIsEnough
  SizedOutputIsLeast
  QuoteBackBounded
CHECK_DEADLOCK FALSE
