CONSTANTS
  u1 = u1
  u2 = u2
  c1 = c1
  None = None
  Filters = {"ACTIVE", "ALL"}
  Endpoints = {"history", "bets"}
  Markets = {1, 2}
  ListTtl = 0
  HistoryTtl = 1
  MaxTime = 1
  NumResolvers = 3
  RequiredMajority = 2
  Members = {u1, u2}
  Creator = u1
  ScriptUser = u2
  Clients = {c1}
  Limits = {1, 2}
  Offsets = {0, 1}
  MaxTrades = 2
  MaxRounds = 1
  MaxReads = 2
  MaxCuts = 1
  MaxRuns = 1
  MaxRestarts = 1
  MaxTransitions = 1
CHECK_DEADLOCK FALSE
CONSTRAINT Bounds
SPECIFICATION Spec
INVARIANTS TypeOK ListFresh TagsTellFromOneOffset HistoryComplete ReportTruthful ClaimsHaveGrounds
