CONSTANTS
  TICK_ARRAY_SIZE = 2
  TICK_ARRAY_BITMAP_SIZE = 3
  MAX_TICK = 9
  WordSizes <- MCWordSizes
  Spacings <- MCSpacings
  ArraySets <- MCArraySets
SPECIFICATION Spec
INVARIANTS
  TypeOK
  NoArraySkipped
  TurningLosesNothing
  GatheredInOrder
  AssertOnlyBeyondDomain
  AnswersInDefaultBitmap
  WordsHoldBitmap
CHECK_DEADLOCK FALSE
