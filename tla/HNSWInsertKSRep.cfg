CONSTANTS
  MaxElements = 4
  M = 2
  EfConstruction = 2
  MaxLevel = 0
  UpdateLocks = 4
  NumThreads = 2
  SampleMin = 2
  SampleMargin = 2
  SampleSize = 1
SPECIFICATION SpecKSRep
INVARIANTS
  NoCircularWait
