\* Three blocks of one thread each, two of them on the device, one epoch
SPECIFICATION ExecSpec
CONSTANTS
  NumRecords = 19
  NumVersions = 9
  Words = {w1}
  PlanKeys <- MCPlanKeys
  Batches <- MCBatches
  MaxEpoch = 1
  MaxNumOps = 40
  NumThreads = 3
  BlockSize = 1
  MaxResident = 2
  Program <- MCProgram
INVARIANTS
  TurnComes
PROPERTIES
  ImplementsSerial
  EpochsComplete
