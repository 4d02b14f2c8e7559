SPECIFICATION Spec
CONSTANTS
  d = d
  e = e
  f = f
  Names = {d, e, f}
  Paths <- TwoDirs
  Keys = {k1, k2}
  Values = {v1}
  Bodies = {b1, b2}
  MaxId = 2
  Nothing = Nothing
  Dir = Dir
  Dangling = Dangling
SYMMETRY Symmetry
INVARIANTS
  TypeOK
  Agreement
  MetadataOwned
PROPERTIES
  RenamePreserves
