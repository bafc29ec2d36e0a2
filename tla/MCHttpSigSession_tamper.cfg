SPECIFICATION Spec
CONSTANTS
  LineBreaks = {}
  U64Max = 6
  Bad = Bad
  wA = wA
  wA2 = wA2
  wB = wB
  wS = wS
  Servers <- MCServers
  Audiences <- MCAudiences
  Wits <- MCWits
  WitKey <- MCWitKey
  ClientWits = {wA, wB}
  ServerWit <- MCServerWit
  HopKey <- MCHopKey
  Plain <- MCPlain
  Extras <- MCExtras
  Labels = {"sig1", "sig2"}
  HopHeaders <- MCHopHeaders
  HopRequestLines <- MCLines
  HopBodies <- MCBodies
  Statuses = {}
  ExpiresIn = 2
  Leeway = 1
  MaxAge <- NoneOf
  MaxSkew = 0
  MaxTime = 1
  MaxRequests = 1
  MaxHops = 2
  MaxReplyHops = 1
  MaxAnswers = 0
  MaxAccepted = 1
INVARIANTS
  RequestAuthentic
  BodyAuthentic
  IntactRequestAccepted
CHECK_DEADLOCK FALSE
