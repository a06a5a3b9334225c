SPECIFICATION FairSpec
CONSTANTS
  Clients = {c1}
  Servers = {s1, s2}
  None = None
  MaxQueries = 1
  TopK = 0
  PoolSize = 1
  MaxIds = 2
  MaxDials = 2
  MaxBreaks = 1
  MaxReports = 2
  CountMod = 4
INVARIANTS ResponseCount NothingMissing
PROPERTIES EveryQueryAnswered WaitReturns EverySearchEnds
CHECK_DEADLOCK FALSE
