SPECIFICATION BankSpec
CONSTANTS
  Accounts = {u, w, m}
  Holders = {w}
  AuctionManager = m
  MintBackFloor = 4
  UnitPrices = {1, 2}
  USTNPrices = {1}
  Bidders = {u, w}
  NoOne = NoOne
  BidDuration = 1
  MaxAuctions = 2
  MaxTime = 2
  Depositors = {u}
  Borrowers = {u}
  LiquidatorExists = TRUE
  BasisPoints = 100
  Multiple = 100
  ReserveRatios = {0, 25}
  LoanPledgeRate = 82
  LoanInterestRate = 40
  WarnRatio = 99
  LiquidationRatio = 90
  Period = 2
  MinAmount = 1
  DepositAmounts = {8}
  Mortgages = {3}
  RepayAmounts = {2}
  BidAmounts = {6, 7}
  DirectAmounts = {10}
  MaxLoans = 2
  MaxSetAside = 8
  MaxMortgage = 4
  TopUps = {1}
  MaxBid = 7
  MaxSupply = 10
  MaxUnbacked = 10
INVARIANTS
  BankTypeOK
  LimitReconciles
  InterestIsMinted
  SupplyCoversClaims
PROPERTIES
  IsUSTNSale
CHECK_DEADLOCK FALSE
