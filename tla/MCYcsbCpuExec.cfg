\* Three threads, two epochs, the accesses of storage.h
SPECIFICATION CpuSpec
CONSTANTS
  NumRecords = 2
  NumVersions = 4
  Words = {w1}
  PlanKeys <- MCPlanKeys
  Batches <- MCBatches
  MaxEpoch = 2
  CopiesVersionValue = FALSE
  NumTxns = 4
  NumPieces = 2
  PlanWords = 2
  NumThreads = 3
INVARIANTS
  CpuInv
PROPERTIES
  CpuImplementsStorage
  CpuEpochsComplete
