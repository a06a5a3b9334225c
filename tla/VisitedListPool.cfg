CONSTANTS
  Threads = {t1, t2}
  Elements = {e1, e2}
  Lists = {l1, l2, l3}
  InitialLists = {l1}
  Tags = 3
SPECIFICATION Spec
INVARIANTS
  Exclusive
  PoolBound
PROPERTIES
  VisitedSpec
