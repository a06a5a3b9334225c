CONSTANTS
  MaxElements = 5
  M = 2
  EfConstruction = 2
  MaxLevel = 0
  UpdateLocks = 4
  NumThreads = 1
  SampleMin = 2
  SampleMargin = 1
  SampleSize = 1
SPECIFICATION SpecKSRep
INVARIANTS
  NoCircularWait
