CONSTANTS
  t1 = t1
  t2 = t2
  t3 = t3
  creator = creator
  none = none
  Creator = creator
  None = none
  Traders <- TwoTraders
  Tolerance = 1
  Scale <- MCScale
  Liquidity <- MCLiquidity
  StartBalance <- MCStartBalance
  BetAmounts <- OneAmount
  MaxTrades = 2
  MaxQuestions = 1
  MaxTransitions = 1
  MaxFixes = 1
  MaxFailures = 1
CHECK_DEADLOCK FALSE
SPECIFICATION FairSpec
CONSTRAINT TradesAndQuestions
INVARIANTS BooksAgree PaidAtMostOnce SettlementPaysFirst
PROPERTIES CommitteeWindow OnlyTheResolverRewrites ClosedLeavesOpen
