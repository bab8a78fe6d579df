SPECIFICATION FairSpec
CONSTANTS
  careful = careful
  careless = careless
  r1 = r1
  r2 = r2
  None = None
  Clients = {careful, careless}
  Refreshes = {r1, r2}
  MaxTokens = 3
  REFRESH_TOKEN_TTL = 1
  SerialClients = {careful}
  Faults = TRUE
INVARIANTS ExchangesBounded HeldTokenGood OnlyHeldTokenGood SessionInv
PROPERTIES RowsRemoved
