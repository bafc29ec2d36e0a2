SPECIFICATION Spec
CONSTANTS
  LineBreaks = {}
  U64Max = 6
  Bad = Bad
  wA = wA
  wA2 = wA2
  wB = wB
  wS = wS
  Servers <- MCServers
  Audiences <- MCAudiences
  Wits <- MCWits
  WitKey <- MCWitKey
  ClientWits = {wA}
  ServerWit <- MCServerWit
  HopKey <- MCHopKey
  Plain <- MCPlainOne
  Extras <- NoneOf
  Labels = {"sig1"}
  HopHeaders <- MCReplyHeaders
  HopRequestLines <- NoneOf
  HopBodies <- NoneOf
  Statuses = {}
  ExpiresIn = 2
  Leeway = 1
  MaxAge <- MCMaxAge
  MaxSkew = 1
  MaxTime = 6
  MaxRequests = 1
  MaxHops = 1
  MaxReplyHops = 1
  MaxAnswers = 0
  MaxAccepted = 2
INVARIANTS
  TypeOK
  AcceptedInWindow
  IntactRequestAccepted
CHECK_DEADLOCK FALSE
