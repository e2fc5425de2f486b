SPECIFICATION FairSpec
CONSTANTS
  s1 = s1
  s2 = s2
  u1 = u1
  u2 = u2
  Streams = {s1, s2}
  Subs = {u1, u2}
  Configurations <- OneOrBoth
  QueueSize = 2
  MaxMessages <- ThreeAndOne
INVARIANTS
  ReceivedInOrder
  NoneForgotten
  DeadlockNeedsSecondSubscribe
PROPERTIES
  CallsReturn
CHECK_DEADLOCK FALSE
