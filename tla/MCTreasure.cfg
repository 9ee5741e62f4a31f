SPECIFICATION TreasureSpec
CONSTANTS
  Accounts = {producer, dapp}
  Depositors = {producer, dapp}
  NoOne = NoOne
  Ratios = {0, 50}
  MaxHolders = 2
  MaxPieces = 100
  MaxDoubled = 50
  Payments = {6}
  MaxFunds = 18
  NoRequest = 0
  MaxRequests = 2
  Kinds = {"OIL", "BTC"}
  Periods = {1}
  Discounts = {9000}
  UnitValues = {1}
  Amounts = {10}
  TrustedAmounts = {10, 18}
  MarginRatio = 10000
  MaxAmount = 20
  MaxPaid = 2
SYMMETRY AccountsAlike
INVARIANTS
  RequestsFollowStatus
  PaidIsAudited
  MarginsAreBacked
  SharesReconcile
PROPERTIES
  ListedUntilMoved
CHECK_DEADLOCK FALSE
