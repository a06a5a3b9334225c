CONSTANTS
  MaxElements = 4
  M = 2
  EfConstruction = 2
  MaxLevel = 1
  UpdateLocks = 3
  NumThreads = 3
SPECIFICATION FairSpec
INVARIANTS
  NoCircularWait
  LinksWellFormed
  ReadsAllocated
  DegreeBound
  BlankOwnList
  SettledNeighbours
  LinkedOnce
  KeepsNeighbour
PROPERTIES
  EntryRises
  LockedListsStable
  AllInserted
