SPECIFICATION FairSpec
CONSTANTS
  Workers = {w1, w2, w3}
  StateKey = {"x", "y"}
  Values <- MCValues
  Receipts <- MCReceipts
  Base <- MCBase
  NumTxns = 3
  MaxReads = 2
  Program <- MCTransfers
INVARIANTS
  WorkersCoordinated
  CommitsWhatItRead
PROPERTIES
  ImplementsSerial
  BlockFinishes
