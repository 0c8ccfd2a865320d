\* XOR (2 + 1) and GF(256) (2 + 2), due 4 ms (twice their span) after the first frame, beside a
\* generation id that two senders share (N = 2 or 3; for N = 3 the reorder window comes first).
SPECIFICATION Spec
CONSTANTS
  g1 = g1
  g2 = g2
  g3 = g3
  o1 = o1
  o2 = o2
  oA = oA
  oB = oB
  Gens = {g1, g2, g3}
  Honest <- MCHonest
  Origins <- MCOrigins
  OriginOf <- MCOriginOf
  Frames <- MCFrames
  Singular <- MCSingular
  Missing = Missing
  Garbage = Garbage
  NoBlock = NoBlock
  TxN <- MCTxN
  TxK <- MCTxK
  TxLen <- MCTxLen
  MaxPayloadLen = 2
  ReorderMs = 5
  Fps = 1000
  Ticks = {2}
  MaxTime = 6
INVARIANTS TypeOK OneSizePerBlock TrackersAgree Integrity
PROPERTIES DueStaysDue CloseKeepsArrived DeliverySpec
