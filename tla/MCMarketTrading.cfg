CONSTANTS
  t1 = t1
  t2 = t2
  t3 = t3
  creator = creator
  none = none
  Creator = creator
  None = none
  Traders <- ThreeTraders
  Tolerance = 1
  Scale <- MCScale
  Liquidity <- MCLiquidity
  StartBalance <- MCStartBalance
  BetAmounts <- TwoAmounts
  MaxTrades = 3
  MaxQuestions = 1
  MaxTransitions = 1
  MaxFixes = 0
  MaxFailures = 0
CHECK_DEADLOCK FALSE
SPECIFICATION Spec
CONSTRAINT AtMostTwoOrYes
SYMMETRY TraderSymmetry
INVARIANTS TypeOK Conservation SettledInFull Solvent CommitteeRepresents
