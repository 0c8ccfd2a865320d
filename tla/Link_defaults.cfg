\* The default stream (N = 8, K = 1, 30 fps) on a perfect path.
SPECIFICATION LSpec
CONSTANTS
  Gens <- MCGens
  Origins <- MCOrigins
  Frames <- MCFrames
  Missing = Missing
  Garbage = Garbage
  NoBlock = NoBlock
  Singular = {}
  TxN = 8
  TxK = 1
  TxLens = {1}
  Blocks = 1
  Expect = 2
  InterBlockMs = 0
  GenWrap = 1
  MaxRuns = 1
  MaxPayloadLen = 1300
  ReorderMs = 200
  Fps = 30
  Ticks = {33}
  MaxTime = 264
  Oversleep = 0
  MaxDelay = 0
  MaxLoss = 0
  MaxCopies = 0
  MayFail = FALSE
\* Both programs end.
CHECK_DEADLOCK FALSE
INVARIANTS FirstCloseWhole
