SPECIFICATION DAOSpec
CONSTANTS
  manual = manual
  reform = reform
  Voters = {v1, v2}
  Proposals = {manual, reform}
  Content <- MCContent
  Amounts = {2, 3}
  Unit = 2
  BlockTimes = {1}
  InitialDelay = 1
  InitialPeriod = 1
  DeployedBlock = 2
  MaxBlock = 7
  MaxSurplus = 2
INVARIANTS
  VotesAreStaked
  StakesAreBacked
PROPERTIES
  VotesStand
  IsBallot
SYMMETRY VoterSymmetry
CHECK_DEADLOCK FALSE
