\* Three blocks of 2 + 1 at one frame per ms, killed and restarted once.
SPECIFICATION SSpec
CONSTANTS
  Gens <- MCGens
  Origins <- MCOrigins
  TxN = 2
  TxK = 1
  TxLens = {0, 1}
  MaxPayloadLen = 1300
  Fps = 1000
  InterBlockMs = 0
  Blocks = 3
  Ticks = {1, 2}
  MaxTime = 8
  GenWrap = 1000
  MaxRuns = 2
\* The program ends.
CHECK_DEADLOCK FALSE
INVARIANTS STypeOK GenNamesOneBlock BurstBound OkMeansAllSent
