SPECIFICATION Spec
CONSTANTS
  top = top
  all = all
  bad = bad
  odd = odd
  lost = lost
  ka = ka
  kb = kb
  vx = vx
  vy = vy
  f1 = f1
  f2 = f2
  Paths = {f1, f2}
  Keys = {ka, kb}
  Values = {vx, vy}
  SubQuery = SubQuery
  Query <- Queries
  Listers = {t1}
  Walkers = {t2}
  Known <- Folders
  Tables <- AllTables
  Names = {top, all, bad, odd, lost, vx, vy, Foreign}
  Listed <- Lists
  Resolved <- Finds
  NewFolders <- Adds
  NewFiles <- AddsFile
  MaxNodes = 5
  Leftover <- Remains
  Foreign = Foreign
  Nobody = Nobody
  None = None
SYMMETRY Symmetry
INVARIANTS
  TypeOK
  ListingRight
  LookupRight
PROPERTIES
  AddedFound
  OthersStayFound
