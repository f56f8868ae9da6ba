SPECIFICATION FairSpec
CONSTANTS
  Internal = {"i1"}
  External = {"e1", "e2"}
  Settings <- Delaying
PROPERTY WaitEnds
CHECK_DEADLOCK FALSE
