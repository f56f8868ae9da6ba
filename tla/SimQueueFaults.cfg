SPECIFICATION FairSpec
CONSTANTS
  Clients = {c1}
  Workers = {w1}
  Outcomes <- AllOutcomes
  MaxRetries = 2
  MaxQueuedProcessableItemsLowPrio = 1
  MaxQueuedProcessableItemsHighPrio = 2
  MaxQueuedUnprocessableItemsLowPrio = 1
  MaxQueuedUnprocessableItemsHighPrio = 2
  CanCancel = TRUE
  MaxBlock = 2
  MaxPushes = 1
  MaxTries = 1
  MaxFaults = 1
  MaxCrashes = 1
INVARIANT TypeOK
INVARIANT ProcessedInRange
INVARIANT RetriesCounted
INVARIANT SimsBounded
INVARIANT NothingVanishes
PROPERTY EventuallyLeaves
PROPERTY WorkersExit
CHECK_DEADLOCK FALSE
