SPECIFICATION ResumeFairSpec
CONSTANTS
  Byte = {120, 10}
  Newline = 10
  ReadLen = 6
  MaxInt = 12
  FirstOffset <- FirstOffsets
  MaxLen = 3
  Key <- StreamKey
  Others <- OtherKeys
INVARIANTS
  ResumeTypeOK
  ResumesExactly
  WireFaithful
PROPERTIES
  StopsComplete
  ClientStops
CHECK_DEADLOCK FALSE
