SPECIFICATION FairSpec
CONSTANTS
  MaxCrashes = 1
  MaxRetries = 1
  MaxBases = 2
  MaxSides = 1
CONSTANT Treasures <- OneKind
CONSTANT Plan <- FullPlan
CONSTANT SideTargets <- OtherTargets
INVARIANTS
  RecordsAreDeployed
  CompleteIsWired
PROPERTIES
  RecordsAreKept
  StrandedNeedsNewEntry
  EventuallyDeployed
CHECK_DEADLOCK FALSE
