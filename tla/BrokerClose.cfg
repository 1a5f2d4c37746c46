SPECIFICATION FairSpec
CONSTANTS
  Writer = {w1}
  Reader = {r1}
  Byte = {b1}
  StartOffset = {0}
  MaxChunk = 1
  ReadLen = 1
  ChannelExpire = 2
  MaxLen = 2
  MaxQueue = 3
  MaxEpoch = 0
PROPERTY CloseEndsEveryReader
CHECK_DEADLOCK FALSE
