SPECIFICATION SubFairSpec
CONSTANTS
  Writer = {w1, w2}
  Reader = {r1}
  Byte = {b1}
  StartOffset = {0}
  MaxChunk = 1
  ReadLen = 1
  ChannelExpire = 1
  MaxLen = 1
  MaxQueue = 2
  MaxEpoch = 0
  ChanCap = 2
  retries = 1
PROPERTIES
  DataReachesClient
  KillEndsResponse
  GoroutineEnds
CHECK_DEADLOCK FALSE
