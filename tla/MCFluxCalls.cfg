SPECIFICATION Spec
CONSTANTS
  Workers = {w1, w2}
  StateKey = {"x", "y"}
  Values <- MCValues
  Receipts <- MCReceipts
  Base <- MCBase
  NumTxns = 3
  MaxReads = 2
  Program <- MCContractCalls
INVARIANT
  OutputIsSequential
