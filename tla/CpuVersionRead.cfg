\* What a version read returns on the CPU
SPECIFICATION CpuSpec
CONSTANTS
  NumRecords = 2
  NumVersions = 4
  Words = {w1}
  PlanKeys <- MCPlanKeys
  Batches <- MCBatches
  MaxEpoch = 2
  CopiesVersionValue = FALSE
  NumTxns = 4
  NumPieces = 2
  PlanWords = 2
  NumThreads = 3
INVARIANT ReadsSerial
