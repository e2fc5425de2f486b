SPECIFICATION FairSpec
CONSTANTS
  S = S
  R = R
  Bins = {S, R}
  Setups <- MCSetups
  MaxTraffic <- MCMaxTraffic
  Packets = 3
  Modulus = 2
  MaxBuffer = 1
  MaxCopies = 1
INVARIANTS
  PipelineIsWhole
  MarkIsOfThePacket
PROPERTIES
  MediaAndFeedbackFlow
CHECK_DEADLOCK FALSE
