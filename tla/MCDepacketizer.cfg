SPECIFICATION FairDepacketizerSpec
CONSTANTS
  Packets = 5
  FrameOf <- MCFrameOf
  Modulus = 7
  FirstSeq = 4
  MinStart = 2
INVARIANTS
  IntactFramesDelivered
  DeliveredIsSuffixOfFrame
  InOrderUnlessLate
PROPERTIES
  PlayoutGoesOn
CHECK_DEADLOCK FALSE
