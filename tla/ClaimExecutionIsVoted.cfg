SPECIFICATION MulSigSpec
CONSTANTS
  m1 = m1
  m2 = m2
  MulSig = mulsig
  Principals = {m1, m2, mulsig}
  Managers = {m1, m2}
  AuctionManagers = {}
  Feeders = {}
  ConfirmDuration = 1
  Treasures = {}
  DApps = {}
  Tokens = {}
  TokenInfos = {}
  NoToken = NoToken
  NoContent = NoContent
  MaxProposals = 2
  MaxTime = 1
CONSTANT Agenda <- RoleAgenda
PROPERTY ExecutionIsVoted
CHECK_DEADLOCK FALSE
