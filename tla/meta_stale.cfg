SPECIFICATION Spec
CONSTANTS
  t1 = t1
  t2 = t2
  a = a
  b = b
  c = c
  k1 = k1
  k2 = k2
  Paths = {b, c}
  Keys = {k1}
  Values = {v1, v2}
  Threads = {t1}
  Access <- OneAlone
  Relinked = {b, c}
  MaxId = 2
  PrepareErrors = {}
  Missing = Missing
  Failed = Failed
SYMMETRY Symmetry
PROPERTIES
  AlwaysCurrent
