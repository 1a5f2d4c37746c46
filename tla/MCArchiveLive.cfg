SPECIFICATION ArchiveFairSpec
CONSTANTS
  Writer = {w1}
  Reader = {}
  Byte = {b1}
  StartOffset = {}
  MaxChunk = 1
  ReadLen = 1
  ChannelExpire = 1
  MaxLen = 2
  MaxQueue = 1
  MaxEpoch = 1
  retries = 3
  Absent = Absent
  Tolerated = {}
PROPERTIES
  StorerStops
  UploadEnds
CHECK_DEADLOCK FALSE
