SPECIFICATION ArchiveSpec
CONSTANTS
  Writer = {w1}
  Reader = {}
  Byte = {b1, b2}
  StartOffset = {}
  MaxChunk = 1
  ReadLen = 1
  ChannelExpire = 1
  MaxLen = 2
  MaxQueue = 1
  MaxEpoch = 1
  retries = 3
  Absent = Absent
  Tolerated = {"cleared", "overlap", "retry"}
INVARIANT BodyArchived
CHECK_DEADLOCK FALSE
