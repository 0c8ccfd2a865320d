\* Two blocks of 2 + 1, nothing lost, delays that reorder.
SPECIFICATION LFairSpec
CONSTANTS
  Gens <- MCGens
  Origins <- MCOrigins
  Frames <- MCFrames
  Missing = Missing
  Garbage = Garbage
  NoBlock = NoBlock
  Singular = {}
  TxN = 2
  TxK = 1
  TxLens = {1}
  Blocks = 2
  Expect = 2
  InterBlockMs = 0
  GenWrap = 9
  MaxRuns = 1
  MaxPayloadLen = 1300
  ReorderMs = 50
  Fps = 1000
  Ticks = {1}
  MaxTime = 7
  Oversleep = 0
  MaxDelay = 2
  MaxLoss = 0
  MaxCopies = 0
  MayFail = FALSE
\* Both programs end.
CHECK_DEADLOCK FALSE
INVARIANTS LTypeOK OkMeansDistinctBlocks
PROPERTIES ReceiverFinishes
