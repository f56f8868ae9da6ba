SPECIFICATION Spec
CONSTANTS
  Request <- OneReplaceable
  Scenarios <- One
  Workers = {w1}
  MaxBlock = 3
INVARIANT HintsPublished
CHECK_DEADLOCK FALSE
