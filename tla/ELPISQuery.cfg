CONSTANTS
  root = root
  i1 = i1
  i2 = i2
  l1 = l1
  l2 = l2
  l3 = l3
  l4 = l4
  Leaves <- FourLeaves
  Inner = {root, i1, i2}
  Root = root
  Children <- Tree
  Leads <- Below
  K = 2
  Probes = 3
  NumWorkers = 2
  FlagMod = 65536
  MaxDist = 2
  MaxFound = 1
  MaxQueries = 1
SPECIFICATION Spec
INVARIANTS
  AnswersMerged
  PrunedSafe
  KthBound
SYMMETRY Symmetry
ACTION_CONSTRAINT Small
CHECK_DEADLOCK FALSE
