\* Two epochs, batches of up to six operations
SPECIFICATION PlannerSpec
CONSTANTS
  NumRecords = 2
  NumVersions = 6
  Words = {w}
  MaxOps = 6
  PlanKeys <- MCPlanKeys
  Batches <- MCBatches
  MaxEpoch = 2
INVARIANTS
  PlannerInv
  ReadsPlacedAtTheirWrites
