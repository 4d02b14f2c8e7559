SPECIFICATION Spec
CONSTANTS
  t1 = t1
  t2 = t2
  a = a
  b = b
  c = c
  k1 = k1
  k2 = k2
  Paths = {a}
  Keys = {k1, k2}
  Values = {v1}
  Threads = {t1}
  Access <- BothAlone
  Relinked = {}
  MaxId = 1
  PrepareErrors = {1}
  Missing = Missing
  Failed = Failed
INVARIANTS
  KeyidOfKey
