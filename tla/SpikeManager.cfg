SPECIFICATION FairSpec
CONSTANTS
  Calls = {c1, c2, c3}
  Keys = {k1}
  taskQueueLen = 1
  MaxVersion = 1
INVARIANT SingleFlight
INVARIANT TaskInOnePlace
INVARIANT MonotoneReads
PROPERTY CallsReturn
CHECK_DEADLOCK FALSE
