SPECIFICATION MulSigSpec
CONSTANTS
  m1 = m1
  m2 = m2
  MulSig = mulsig
  Principals = {m1, m2, mulsig}
  Managers = {m1, m2}
  AuctionManagers = {}
  Feeders = {}
  ConfirmDuration = 1
  Treasures = {"OIL"}
  DApps = {"otter"}
  Tokens = {"TCASH"}
  TokenInfos = {"ethereum"}
  NoToken = NoToken
  NoContent = NoContent
  MaxProposals = 2
  MaxTime = 1
CONSTANT Agenda <- MixedAgenda
INVARIANTS
  VotesAreDistinct
PROPERTIES
  NothingRunsTwice
  ExecutionKeepsManagers
CHECK_DEADLOCK FALSE
