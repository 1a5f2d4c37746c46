SPECIFICATION ArchiveSpec
CONSTANTS
  Writer = {w1, w2}
  Reader = {}
  Byte = {b1}
  StartOffset = {}
  MaxChunk = 1
  ReadLen = 1
  ChannelExpire = 1
  MaxLen = 2
  MaxQueue = 1
  MaxEpoch = 1
  retries = 1
  Absent = Absent
  Tolerated = {}
INVARIANTS
  ArchiveTypeOK
  ArchivedAtRest
PROPERTIES
  UploadsExtend
SYMMETRY Symmetry
CHECK_DEADLOCK FALSE
