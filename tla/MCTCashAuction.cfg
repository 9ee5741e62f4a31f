SPECIFICATION AuctionSpec
CONSTANTS
  Accounts = {u1, u2, manager}
  Bidders = {u1, u2}
  AuctionManagers = {u1, u2, manager}
  NoOne = NoOne
  Amounts = {2, 3}
  TokenAmounts = {1}
  MaxBid = 4
  MaxBalance = 3
  InitDuration = 1
  MaxDuration = 2
  MaxTime = 3
  MaxAuctions = 2
CONSTANT Lots <- MCLots
INVARIANTS
  LocksAreBids
PROPERTIES
  IsSale
CHECK_DEADLOCK FALSE
SYMMETRY BidderSymmetry
