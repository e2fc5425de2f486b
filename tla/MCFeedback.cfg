SPECIFICATION FairSpec
CONSTANTS
  MaxPN = 3
  MaxHandshake = 1
  Rates <- MCRates
INVARIANTS
  Truthful
  LossOnlyAfterHeldAck
  StrandedOnlyBelowHorizon
PROPERTIES
  LedgerSpec
  SettledIsReported

