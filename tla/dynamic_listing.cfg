SPECIFICATION Spec
CONSTANTS
  t1 = t1
  t2 = t2
  dir = dir
  one = one
  two = two
  top = top
  val = val
  Paths <- Files
  Places <- RealFiles
  Keys = {}
  Values = {val}
  Threads = {t1, t2}
  OfFolders <- FolderQueries
  OfFiles <- FileQueries
  Access <- OutAndIn
  SubQuery = SubQuery
  MaxId = 1
  Names = {dir, one, two, top, val}
  MaxCopies = 2
SYMMETRY Symmetry
INVARIANTS
  TypeOK
  ListedFound
  CacheCurrent
  CacheBounded
