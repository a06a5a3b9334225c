CONSTANTS
  Tags = {g1, g2, g3, g4}
  MaxPoints = 3
  InitialPoints = 3
  Liberties = {}
  R = 1
  NumSyncs = 2
SPECIFICATION GraphSpec
SYMMETRY Symmetry
INVARIANTS
  EdgesKnown
  TagsLead
  DisableAccepts
  NextSlotFree
  SaveComplete
  StartKept
PROPERTIES
  StoreSpec
