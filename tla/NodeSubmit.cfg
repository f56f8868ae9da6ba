SPECIFICATION Spec
CONSTANTS
  Request <- Requests
  Scenarios <- Submitting
  Workers = {w1, w2}
  MaxBlock = 3
SYMMETRY Symmetry
INVARIANT TypeOK
INVARIANT ReplacedNotSent
INVARIANT NewestIsSent
INVARIANT HintOnce
INVARIANT HintedIsMatchable
INVARIANT KnownIsCovered
PROPERTY RowsOnlyAdvance
CHECK_DEADLOCK FALSE
