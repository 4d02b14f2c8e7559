\* The write pool, whose only worker may fail to open its connection.
SPECIFICATION FairSpec
CONSTANTS
  Workers = {w1}
  Ops = {o1, o2}
  NoOp = NoOp
  Minimum = 1
  Maximum = 1
  Faults = {"open"}
PROPERTY
  Served
\* After Free nothing is left to do.
CHECK_DEADLOCK FALSE
