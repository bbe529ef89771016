\* Both loops and both execution devices, two epochs, arrays of three words.
SPECIFICATION Spec
CONSTANTS
  MaxEpoch = 2
  NumTxns = 2
  Capacity = 3
  PackedIndex <- Sizes
INVARIANTS BridgeInv PhasesReadTheirEpoch
PROPERTY CopiesUndisturbed
CHECK_DEADLOCK FALSE
