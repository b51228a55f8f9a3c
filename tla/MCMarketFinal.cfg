CONSTANTS
  t1 = t1
  t2 = t2
  t3 = t3
  creator = creator
  none = none
  Creator = creator
  None = none
  Traders <- TwoTraders
  Tolerance = 1
  Scale <- MCScale
  Liquidity <- MCLiquidity
  StartBalance <- MCStartBalance
  BetAmounts <- OneAmount
  MaxTrades = 1
  MaxQuestions = 1
  MaxTransitions = 0
  MaxFixes = 0
  MaxFailures = 0
CHECK_DEADLOCK FALSE
SPECIFICATION Spec
PROPERTIES ResolvedIsFinal
