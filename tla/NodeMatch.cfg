SPECIFICATION FairSpec
CONSTANTS
  Request <- MatchRequests
  Scenarios <- Matching
  Workers = {w1}
  MaxBlock = 3
INVARIANT CancelledNotSent
INVARIANT SentInRange
PROPERTY EveryBundleLeaves
CHECK_DEADLOCK FALSE
