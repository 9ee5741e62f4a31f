SPECIFICATION FairSpec
CONSTANTS
  m1 = m1
  m2 = m2
  MulSig = mulsig
  Principals = {m1, m2, mulsig}
  Managers = {m1, m2}
  AuctionManagers = {}
  Feeders = {}
  ConfirmDuration = 1
  Treasures = {"OIL"}
  DApps = {"otter"}
  Tokens = {"UNIT"}
  TokenInfos = {"ethereum"}
  NoToken = NoToken
  NoContent = NoContent
  MaxProposals = 3
  MaxTime = 3
  MaxPool = 2
  MaxStrays = 1
  MaxFaults = 1
CONSTANTS
  Agenda <- Proposals
  Owner <- Keys
  Registration <- Otter
  Mappings <- UnitMapping
INVARIANTS
  ExecutedIsRegistered
  FinishedIsSetUp
PROPERTIES
  VotedUnlessSetup
  EventuallyRegistered
CHECK_DEADLOCK FALSE
