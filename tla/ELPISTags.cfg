CONSTANTS
  root = root
  i1 = i1
  i2 = i2
  l1 = l1
  l2 = l2
  l3 = l3
  l4 = l4
  Leaves <- FourLeaves
  Inner = {root, i1, i2}
  Root = root
  Children <- Tree
  Leads <- Below
  K = 1
  Probes = 1
  NumWorkers = 1
  FlagMod = 65536
  MaxDist = 1
  MaxFound = 0
  MaxQueries = 2
SPECIFICATION Spec
INVARIANT TagsFresh
SYMMETRY Symmetry
ACTION_CONSTRAINT Small
CHECK_DEADLOCK FALSE
