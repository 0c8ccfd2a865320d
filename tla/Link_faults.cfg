\* Two blocks of 2 + 1, one loss, one copy, a kill and a restart; a frame is at most 3 ms behind its block's first, the deadline 4 ms.
SPECIFICATION LSpec
CONSTANTS
  Gens <- MCGens
  Origins <- MCOrigins
  Frames <- MCFrames
  Missing = Missing
  Garbage = Garbage
  NoBlock = NoBlock
  Singular = {}
  TxN = 2
  TxK = 1
  TxLens = {1}
  Blocks = 2
  Expect = 3
  InterBlockMs = 1
  GenWrap = 6
  MaxRuns = 2
  MaxPayloadLen = 1300
  ReorderMs = 50
  Fps = 1000
  Ticks = {1}
  MaxTime = 4
  Oversleep = 0
  MaxDelay = 2
  MaxLoss = 1
  MaxCopies = 1
  MayFail = TRUE
\* Both programs end.
CHECK_DEADLOCK FALSE
INVARIANTS FirstCloseWhole BlockIntegrity
