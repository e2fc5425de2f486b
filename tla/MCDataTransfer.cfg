SPECIFICATION FairSpec
CONSTANTS
  Chunks = 2
  Writes = 2
  Window = 2
  ReadMax = 3
  maxBufferedAmount = 2
  bufferedAmountLowThreshold = 1
  MaxMessage = 1
INVARIANTS
  SizesAreRead
  NoWriteAfterClose
  MediaYieldToData
  BufferBounded
PROPERTIES
  RunEndsAfterCancel
  MediaGetTheRateBack
CHECK_DEADLOCK FALSE
