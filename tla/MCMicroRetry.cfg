\* Three epochs of two transactions, every choice of the aborting ones.
SPECIFICATION Spec
CONSTANTS
  NumTxns = 2
  MaxEpoch = 3
INVARIANTS IInv RunsAsPlanned
PROPERTIES ImplementsRetryQueue AbortedAreRetried
CHECK_DEADLOCK FALSE
