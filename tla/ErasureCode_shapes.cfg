\* XOR and GF(256), in blocks of up to 5 frames and at the border N = 21, 22 of what K = 4 repairs.
SPECIFICATION Spec
CONSTANTS
  Columns <- MCColumns
  Losses <- MCLosses
\* The walk ends when the holes are filled or left.
CHECK_DEADLOCK FALSE
INVARIANTS ECTypeOK RecoveredIsOriginal SystemHoldsForSent OnlyGapsDefeat
