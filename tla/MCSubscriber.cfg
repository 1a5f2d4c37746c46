SPECIFICATION SubSpec
CONSTANTS
  Writer = {w1, w2}
  Reader = {r1}
  Byte = {b1, b2}
  StartOffset = {0}
  MaxChunk = 1
  ReadLen = 1
  ChannelExpire = 1
  MaxLen = 2
  MaxQueue = 1
  MaxEpoch = 1
  ChanCap = 1
  retries = 2
INVARIANTS
  SubTypeOK
  ClientInOrder
  ResponseComplete
  ClosedWithRequest
PROPERTIES
  NoContentJustified
SYMMETRY Symmetry
CHECK_DEADLOCK FALSE
