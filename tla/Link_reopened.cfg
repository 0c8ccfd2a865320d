\* Blocks of 2 + 2, nothing lost, two blocks expected.
SPECIFICATION LSpec
CONSTANTS
  Gens <- MCGens
  Origins <- MCOrigins
  Frames <- MCFrames
  Missing = Missing
  Garbage = Garbage
  NoBlock = NoBlock
  Singular = {}
  TxN = 2
  TxK = 2
  TxLens = {1}
  Blocks = 2
  Expect = 2
  InterBlockMs = 5
  GenWrap = 3
  MaxRuns = 1
  MaxPayloadLen = 1300
  ReorderMs = 50
  Fps = 1000
  Ticks = {1}
  MaxTime = 8
  Oversleep = 0
  MaxDelay = 1
  MaxLoss = 0
  MaxCopies = 0
  MayFail = FALSE
\* Both programs end.
CHECK_DEADLOCK FALSE
INVARIANTS OkMeansDistinctBlocks
