CONSTANTS
  Q = 32768
  MAX_TICK = 50
  MIN_PRICE_LITERAL = 195
  MAX_PRICE_LITERAL = 5506368
  FRACTION_BITS = 15
  LOG_BITS = 10
  BIT_PRECISION = 5
  Factors <- MCFactors
  INVERSE_LOG = 6932
  LOW_MARGIN = 10485
  HIGH_MARGIN = 897685
  SqrtPrices <- MCSqrtPrices
SPECIFICATION Spec
INVARIANTS
  TypeOK
  TableMeetsAssumption
  MarginsEncloseTick
  TickIsGreatest
CHECK_DEADLOCK FALSE
