SPECIFICATION LockerSpec
CONSTANTS
  Accounts = {m, u}
  Beneficiaries = {u}
  Deployer = m
  PlanIDs = {p1, p2}
  LockedIDs = {l1}
  Amounts = {1, 2}
  Times = {1}
  ClaimBatch = 2
  MaxFunds = 3
  MaxAvailable = 3
  MaxRecords = 3
  MaxTime = 1
INVARIANTS
  AllocationCoversRecords
  LockedIsHeldOrPaid
PROPERTIES
  ClaimPaysWhatItRemoves
SYMMETRY PlanSymmetry
CHECK_DEADLOCK FALSE
