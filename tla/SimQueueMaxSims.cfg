SPECIFICATION Spec
CONSTANTS
  Clients = {c1}
  Workers = {w1}
  Outcomes <- NormalOutcomes
  MaxRetries = 1
  MaxQueuedProcessableItemsLowPrio = 5
  MaxQueuedProcessableItemsHighPrio = 5
  MaxQueuedUnprocessableItemsLowPrio = 5
  MaxQueuedUnprocessableItemsHighPrio = 5
  CanCancel = FALSE
  MaxBlock = 3
  MaxPushes = 1
  MaxTries = 1
  MaxFaults = 0
  MaxCrashes = 0
INVARIANT SimsWithinMaxRetries
CHECK_DEADLOCK FALSE
