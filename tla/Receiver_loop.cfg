\* Three generations, stop after two blocks; deadline min(60, 4, 3) = 3 ms.
SPECIFICATION RSpec
CONSTANTS
  g1 = g1
  g2 = g2
  g3 = g3
  oA = oA
  oB = oB
  Gens <- MCGens
  Origins <- MCOrigins
  Frames <- MCFrames
  Singular = {}
  Missing = Missing
  Garbage = Garbage
  NoBlock = NoBlock
  ReorderMs = 3
  Fps = 1000
  MaxPayloadLen = 2
  Ticks = {1, 2}
  MaxTime = 5
  Expect = 2
\* The loop ends after Expect blocks or on a receive error.
CHECK_DEADLOCK FALSE
INVARIANTS RTypeOK EveryOpenBlockIsTried DueIsAhead StopsAtExpect SeenIsOpen
PROPERTIES IntactTurnLeavesNothingDue
