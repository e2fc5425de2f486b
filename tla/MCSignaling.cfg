SPECIFICATION FairSpec
CONSTANTS
  Candidates = 3
  MaxOffers = 2
  MaxFailures = 2
INVARIANTS
  NoCandidateBeforeDescription
PROPERTIES
  EveryCandidateArrives
  NegotiationEnds
CHECK_DEADLOCK FALSE
