SPECIFICATION FairStreamSpec
CONSTANTS
  c1 = c1
  c2 = c2
  x = x
  y = y
  z = z
  RTP = RTP
  NoChannel = NoChannel
  NoStream = NoStream
  Channels = {c1, c2}
  Streams = {x, y, z}
  Flows <- MCFlows
PROPERTY ReceiverGetsItsChannel
CHECK_DEADLOCK FALSE
