\* A reader pool of one or two workers whose threads and connections never fail.
SPECIFICATION FairSpec
CONSTANTS
  Workers = {w1, w2}
  Ops = {o1, o2}
  NoOp = NoOp
  Minimum = 1
  Maximum = 2
  Faults = {"nomem"}
INVARIANTS
  NoStrandedJob
PROPERTIES
  Served
  Drains
  DestroyEnds
  Shrinks
\* After Free nothing is left to do.
CHECK_DEADLOCK FALSE
