SPECIFICATION Spec
CONSTANTS
  Clients = {c1, c2}
  Servers = {s1}
  None = None
  MaxQueries = 2
  TopK = 0
  PoolSize = 1
  MaxIds = 2
  MaxDials = 1
  MaxBreaks = 1
  MaxReports = 1
  CountMod = 4
INVARIANTS TypeOK OwnAnswer OneResult WaitMeansAnswered
CHECK_DEADLOCK FALSE
SYMMETRY Symmetry
ACTION_CONSTRAINT TwoQueries
