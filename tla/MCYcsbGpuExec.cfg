\* Three blocks of two warps for five pieces, two blocks on the device at a
\* time, two epochs
SPECIFICATION ExecSpec
CONSTANTS
  NumRecords = 2
  NumVersions = 1
  Words = {w1}
  PlanKeys <- MCPlanKeys
  Batches <- MCBatches
  MaxEpoch = 2
  CopiesVersionValue = TRUE
  NumTxns = 5
  NumPieces = 1
  PlanWords = 3
  NumWarps = 2
  MaxResident = 2
INVARIANTS
  KernelInv
  WriterHasStarted
PROPERTIES
  ImplementsStorage
  EpochsComplete
