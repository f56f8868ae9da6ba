SPECIFICATION FairSpec
CONSTANTS
  Internal = {"i1"}
  External = {"e1", "e2"}
  Settings <- AllSettings
INVARIANT SentExactly
INVARIANT NothingLeftBehind
INVARIANT SentCleanStoredComplete
PROPERTY ShutdownFinishes
CHECK_DEADLOCK FALSE
