CONSTANTS
  Tags = {g1, g2, g3, g4, g5}
  MaxPoints = 4
  InitialPoints = 3
  Liberties = {"save_first"}
SPECIFICATION Spec
INVARIANTS
  LockReleased
