\* One block of 2 + 1, one frame lost, and then silence.
SPECIFICATION LFairSpec
CONSTANTS
  Gens <- MCGens
  Origins <- MCOrigins
  Frames <- MCFrames
  Missing = Missing
  Garbage = Garbage
  NoBlock = NoBlock
  Singular = {}
  TxN = 2
  TxK = 1
  TxLens = {1}
  Blocks = 1
  Expect = 1
  InterBlockMs = 0
  GenWrap = 1
  MaxRuns = 1
  MaxPayloadLen = 1300
  ReorderMs = 50
  Fps = 1000
  Ticks = {1}
  MaxTime = 10
  Oversleep = 0
  MaxDelay = 1
  MaxLoss = 1
  MaxCopies = 0
  MayFail = FALSE
\* Both programs end.
CHECK_DEADLOCK FALSE
PROPERTIES EveryBlockCloses
