\* Three blocks of two threads for six pieces, two of them on the device,
\* two epochs
SPECIFICATION ExecSpec
CONSTANTS
  NumRecords = 3
  NumVersions = 6
  Words = {w1, w2}
  PlanKeys <- MCPlanKeys
  Batches <- MCBatches
  MaxEpoch = 2
  MaxNumOps = 6
  NumThreads = 6
  BlockSize = 2
  MaxResident = 2
  Program <- MCProgram
INVARIANTS
  OneHolderPerRow
  KernelInv
  IInv
PROPERTIES
  ImplementsLocks
  EpochsComplete
