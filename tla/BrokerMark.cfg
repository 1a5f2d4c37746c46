SPECIFICATION Spec
CONSTANTS
  Writer = {w1}
  Reader = {r1}
  Byte = {b1}
  StartOffset = {0}
  MaxChunk = 1
  ReadLen = 1
  ChannelExpire = 2
  MaxLen = 2
  MaxQueue = 3
  MaxEpoch = 0
INVARIANT DoneTellsClosed
CHECK_DEADLOCK FALSE
