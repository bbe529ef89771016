\* What getTxn asserts of a packed array's size.
SPECIFICATION Spec
CONSTANTS
  MaxEpoch = 2
  NumTxns = 2
  Capacity = 3
  PackedIndex <- Sizes
INVARIANT EntriesWithinSize
CHECK_DEADLOCK FALSE
