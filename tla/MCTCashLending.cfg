SPECIFICATION LendingSpec
CONSTANTS
  Accounts = {borrower, winner, manager}
  Borrowers = {borrower}
  Bidders = {winner}
  AuctionManagers = {manager, winner}
  NoOne = NoOne
  Amounts = {8}
  TokenAmounts = {}
  Lots = {}
  MaxBid = 8
  MaxBalance = 0
  InitDuration = 1
  MaxDuration = 1
  MaxAuctions = 2
  DIR = 5000
  MCT = 750000
  LT = 500000
  RC = 2
  MinLoan = 1
  OneDay = 9
  UnitPrices = {1}
  TCashPrices = {1}
  TATTotals = {9}
  Values = {4}
  RepayAmounts = {3}
  InitBalance = 9
  Overrides = FALSE
  MaxLoans = 2
  MaxIST = 2
  MaxCollateral = 8
  MaxTime = 2
INVARIANTS
  ClearedMeansPaid
  OutstandingReconciles
  UnitReconciles
CHECK_DEADLOCK FALSE
