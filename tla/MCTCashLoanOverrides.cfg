SPECIFICATION LoanSpec
CONSTANTS
  Accounts = {u1}
  Borrowers = {u1}
  DIR = 5000
  MCT = 750000
  LT = 500000
  RC = 2
  MinLoan = 1
  OneDay = 1
  UnitPrices = {1, 2}
  TCashPrices = {1}
  TATTotals = {9}
  Values = {4}
  RepayAmounts = {3}
  InitBalance = 2
  Overrides = TRUE
  MaxLoans = 2
  MaxIST = 2
  MaxCollateral = 8
  MaxTime = 1
INVARIANTS
  BooksBalance
  CountersCount
PROPERTIES
  PaidOffIsFinal
CHECK_DEADLOCK FALSE
