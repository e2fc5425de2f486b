SPECIFICATION FairSpec
CONSTANTS
  c1 = c1
  c2 = c2
  Conns = {c1, c2}
  t1 = t1
  t2 = t2
  TCPConns = {t1, t2}
  Configurations <- Programs
INVARIANTS
  LeftAfterReturn
  ForgottenOnlyAtTheEnd
PROPERTIES
  ReturnsAfterH1
CHECK_DEADLOCK FALSE
