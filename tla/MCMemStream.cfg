SPECIFICATION StreamSpec
CONSTANTS
  Images <- MCImages
  Buffers <- MCBuffers
  Requests <- MCRequests
  FirstLen = 2
  HalfLen = 4
  MaxLen = 7
  MaxCalls = 6
INVARIANTS ImageWhole
PROPERTIES WriteEnds ActsAsFile
