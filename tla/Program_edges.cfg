SPECIFICATION Spec
CONSTANTS
  Numeral <- MCNumeral
  Interfaces = {"10.0.0.7"}
  Msg <- MCMsg
  Gens = {7, 65535, 16909060}
  Origins = {"o"}
  Scenarios <- MCScenarios
  MaxRows = 4
  BufferSize = 25
  None = None
CHECK_DEADLOCK FALSE
INVARIANTS
  PTypeOK
  AddressReadRight
  SocketIsReady
  FileTellsTheExit
  ColumnsLineUp
  TableGetsTheRate
  IntactIsUnderstood
  NoForeignPayload
  TrailerIsRemainder
