SPECIFICATION DepacketizerSpec
CONSTANTS
  Packets = 5
  FrameOf <- MCLongFrame
  Modulus = 7
  FirstSeq = 4
  MinStart = 2
INVARIANT OnlyCompleteFrames
CHECK_DEADLOCK FALSE
