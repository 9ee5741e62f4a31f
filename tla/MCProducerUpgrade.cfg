SPECIFICATION FairSpec
CONSTANTS
  MaxVersions = 2
  MaxFaults = 1
CONSTANT KindList <- TwoKinds
INVARIANT ReportsHold
PROPERTIES
  NeverDowngrades
  EventuallyFixed
CHECK_DEADLOCK FALSE
