SPECIFICATION Spec
CONSTANTS
  Workers = {w1}
  LastPage = 3
  MaxRetries = 3
  EndlessServer = FALSE
INVARIANTS
  TypeOK
  TokenFollowsPages
  AcceptedOnce
  RequestsBounded
  OneBatchAfterStop
PROPERTIES
  FeedsPages
  HarvestReturns
