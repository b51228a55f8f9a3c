CONSTANTS
  b1 = b1
  b2 = b2
  u1 = u1
  u2 = u2
  u3 = u3
  u4 = u4
  u5 = u5
  w1 = w1
  w2 = w2
  none = none
  None = none
  Bounties <- TwoBounties
  Users <- FiveUsers
  Workers <- OneWorker
  Amount = 10
  StartBalance = 10
  VotesNeeded = 3
  MaxFailures = 1
CHECK_DEADLOCK FALSE
SPECIFICATION Spec
SYMMETRY Symmetry
INVARIANTS TypeOK SettledOnce SettlementMatches
PROPERTIES ImplementsEscrow
