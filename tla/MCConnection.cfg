SPECIFICATION Spec
CONSTANTS
  Byte <- MCByte
  NotUtf8 <- MCNotUtf8
  CR = 13
  LF = 10
  ReplyNull = 0
  ReplyGranted = 90
  ReplyLength = 3
  Chunk = 2
  SizeMod = 8
  VectorSizes <- MCVectorSizes
  MaxSent = 4
INVARIANTS
  TypeOK
  NothingLost
  FinishedReadHasItsBytes
PROPERTIES
  ImplementsFifoStream
CHECK_DEADLOCK FALSE
