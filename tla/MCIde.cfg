SPECIFICATION FairSpec

CONSTANTS
  Callers = {c1, c2}
  Parts = 2
  Bytes = {0, 1}
  Sectors <- MCSectors
  Bad <- MCBad
  Words = 2
  Values = {0, 1}
  Buffers <- MCBuffers
  Serial = TRUE
  MaskedOps = {"write"}
  Unread = Unread

INVARIANT InStep
PROPERTIES
  Implements
  CallsReturn
