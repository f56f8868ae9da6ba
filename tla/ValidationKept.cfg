SPECIFICATION Spec
CONSTANTS
  MaxNestingLevel = 1
  MaxBlockOffset = 1
  MaxBlockRange = 2
  MaxBodySize = 2
  Inputs <- KeepingInputs
  TxLogs <- LogsOfTxs
  Txs = {"t1", "t2"}
  Names = {"x", "y"}
  Addresses = {"r1", "r2"}
  CurrentBlocks = {3}
INVARIANT NoHashBelowTop
CHECK_DEADLOCK FALSE
