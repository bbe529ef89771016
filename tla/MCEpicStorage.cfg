\* Two epochs, two records, two-word values
SPECIFICATION Spec
CONSTANTS
  NumRecords = 2
  NumVersions = 2
  Words = {w1, w2}
  PlanKeys <- MCPlanKeys
  Batches <- MCBatches
  MaxEpoch = 2
  CopiesVersionValue = TRUE
INVARIANTS
  ReadsSerial
  EpochCommits
  OneWriterPerSlot
  IInv
PROPERTIES
  CommittedValueStable
  ImplementsSerial
