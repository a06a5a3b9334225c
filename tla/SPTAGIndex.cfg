CONSTANTS
  Adders = {t1, t2}
  Saver = Saver
  Metas = {a, b}
  Empty = Empty
  Garbage = Garbage
  NoOne = NoOne
  DataCapacity = 3
  DeletePercent = 40
  MaxVectors = 4
  MaxBatch = 2
SPECIFICATION Spec
INVARIANTS
  TypeOK
  RowsAgree
  MetadataAligned
  LatestIsMapped
  Compacted
PROPERTIES
  StoreSpec
SYMMETRY Symmetry
