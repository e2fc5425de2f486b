SPECIFICATION FairSpec
CONSTANTS
  Rates <- MCRates
  MinRate = 2
  MaxRate = 12
  InitRate = 6
  ByteRate = 2
  PacketSize = 4
  EncodedSizes = {0, 2}
  MaxFrames = 4
  QueueSize = 4
  MaxUpdates = 2
INVARIANTS
  PacketsInOrder
  PanicsOnEmptyPayload
PROPERTIES
  EveryFrameIsSent
  CloseEventuallyReturns
  RateReachesEncoder
CHECK_DEADLOCK FALSE
