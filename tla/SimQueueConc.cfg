SPECIFICATION LimitSpec
CONSTANTS
  Clients = {c1, c2}
  Workers = {w1, w2}
  Outcomes = {"ok", "lagging", "other"}
  MaxRetries = 1
  MaxQueuedProcessableItemsLowPrio = 1
  MaxQueuedProcessableItemsHighPrio = 2
  MaxQueuedUnprocessableItemsLowPrio = 1
  MaxQueuedUnprocessableItemsHighPrio = 1
  CanCancel = FALSE
  MaxBlock = 2
  MaxPushes = 2
  MaxTries = 1
  MaxFaults = 0
  MaxCrashes = 0
SYMMETRY Symmetry
INVARIANT ClaimedOnce
INVARIANT DropsJustified
INVARIANT LimitExceededByRacesOnly
PROPERTY HighPriorityFirst
PROPERTY ImplementsItemQueue
