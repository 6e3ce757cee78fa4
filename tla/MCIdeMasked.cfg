\* A task that reads with interrupts masked, as msleep may leave it.
SPECIFICATION FairSpec

CONSTANTS
  Callers = {c1, c2}
  Parts = 2
  Bytes = {0, 1}
  Sectors <- MCSectors
  Bad <- MCBad
  Words = 2
  Values = {0, 1}
  Buffers <- MCBuffers
  Serial = TRUE
  MaskedOps = {"read"}
  Unread = Unread

\* A processor halted with interrupts masked does nothing any more.
CHECK_DEADLOCK FALSE
PROPERTIES
  CallsReturn
