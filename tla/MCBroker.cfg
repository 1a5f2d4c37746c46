SPECIFICATION Spec
CONSTANTS
  Writer = {w1, w2}
  Reader = {r1}
  Byte = {b1, b2}
  StartOffset = {0, 1}
  MaxChunk = 2
  ReadLen = 2
  ChannelExpire = 1
  MaxLen = 3
  MaxQueue = 3
  MaxEpoch = 1
INVARIANTS
  TypeOK
  DeliveredInOrder
  EOFComplete
  NoLostWakeup
PROPERTIES
  ImplementsStream
SYMMETRY Symmetry
CHECK_DEADLOCK FALSE
