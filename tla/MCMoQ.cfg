SPECIFICATION FairSpec
CONSTANTS
  c1 = c1
  c2 = c2
  Clients = {c1, c2}
  Breakable = {c2}
  StreamLimit = 2
  MaxObjects = 3
INVARIANTS
  NoneMissed
  CrashOnlyForMissingTrack
PROPERTIES
  SubscribersAreServed
CHECK_DEADLOCK FALSE
