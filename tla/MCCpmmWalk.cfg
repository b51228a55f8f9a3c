SPECIFICATION Spec
CONSTANTS
  Tolerance = 3
  Liquidity = 100
  BetAmounts <- MCBetAmounts
  MaxMoves = 6
INVARIANTS
  CompleteSets
  AnswersArePromised
  GainIsBounded
CHECK_DEADLOCK FALSE
