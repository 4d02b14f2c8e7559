\* A reader pool of one to three workers, stopped while requests still come.
SPECIFICATION Spec
CONSTANTS
  Workers = {w1, w2, w3}
  Ops = {o1, o2, o3}
  NoOp = NoOp
  Minimum = 1
  Maximum = 3
  Faults = {"create", "open"}
SYMMETRY Symmetry
INVARIANTS
  TypeOK
  Accounting
  ExactlyOnce
  FreedSafe
  UntimedFit
PROPERTIES
  DrainComplete
  ImplementsJobQueue
\* After Free nothing is left to do.
CHECK_DEADLOCK FALSE
