\* Two epochs, so that a shorter batch follows a longer one
SPECIFICATION SubmitSpec
CONSTANTS
  NumTxns = 2
  NumPieces = 2
  NumFields = 2
  Params <- MCParams
  MaxEpoch = 2
INVARIANTS
  SubmittedInOrder
  ExecutesWhatWasSubmitted
  SubmitInv
