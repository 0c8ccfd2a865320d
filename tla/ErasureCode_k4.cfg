\* K = 4 at the smallest N with a loss that four parity frames do not repair.
SPECIFICATION Spec
CONSTANTS
  Columns <- MCColumns
  Losses <- MCLosses
\* The walk ends when the holes are filled or left.
CHECK_DEADLOCK FALSE
INVARIANTS EnoughRowsSuffice
