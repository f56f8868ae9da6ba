SPECIFICATION FairSpec
CONSTANTS
  Callers = {c1, c2}
  Cancelled = {h}
  SlotTime = 3
  Jitter = 1
  MaxSlot = 2
  Validity = 1
  MaxLatency = 1
  Window = 2
INVARIANT AnswersAreFresh
INVARIANT AnswersNeverDecrease
INVARIANT CancelledForBlocks
PROPERTY CallsReturn
CHECK_DEADLOCK FALSE
