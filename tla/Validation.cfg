SPECIFICATION Spec
CONSTANTS
  MaxNestingLevel = 1
  MaxBlockOffset = 1
  MaxBlockRange = 2
  MaxBodySize = 2
  Inputs <- AllInputs
  TxLogs <- LogsOfTxs
  Txs = {"t1", "t2"}
  Names = {"x", "y"}
  Addresses = {"r1", "r2"}
  CurrentBlocks = {3}
INVARIANT InclusionIsCommon
INVARIANT OneHashInFront
INVARIANT BuildersAreCommon
INVARIANT HintsWithinPrivacy
INVARIANT SimulatedAsAsked
INVARIANT RefundAsAsked
CHECK_DEADLOCK FALSE
