\* One warehouse of two districts with two orders each, all delivered; two
\* epochs of three transactions
SPECIFICATION EpochSpec
CONSTANTS
  NumWarehouses = 1
  NumDistricts = 2
  InitialOrders = 2
  InitialDelivered = 2
  InitialItems <- MCInitialItems
  NumItems = 2
  MaxLines = 2
  Window = 2
  Slots = 9
  Requests <- MCRequests
  NumTxns = 3
  MaxEpoch = 2
INVARIANTS
  AnswersAsOfTheirPlace
  LookupsFindRows
  OneRowPerKey
  AccessesWherePlanned
  VersionsFit
  OrdersInv
  EpochInv
