SPECIFICATION Spec
CONSTANTS
  LineBreaks = {}
  U64Max = 6
  Bad = Bad
  wA = wA
  wA2 = wA2
  wB = wB
  wS = wS
  Servers = {"transfer"}
  Audiences <- MCAudiences
  Wits <- MCWits
  WitKey <- MCWitKey
  ClientWits = {wA}
  ServerWit <- MCServerWit
  HopKey <- MCHopKey
  Plain <- MCPlainTwo
  Extras <- NoneOf
  Labels = {"sig1"}
  HopHeaders <- MCReplyHeaders
  HopRequestLines <- NoneOf
  HopBodies <- NoneOf
  Statuses = {"200", "403"}
  ExpiresIn = 0
  Leeway = 0
  MaxAge <- NoneOf
  MaxSkew = 0
  MaxTime = 0
  MaxRequests = 2
  MaxHops = 0
  MaxReplyHops = 1
  MaxAnswers = 2
  MaxAccepted = 2
INVARIANTS
  ResponseAuthentic
PROPERTIES
  ImplementsExchange
CHECK_DEADLOCK FALSE
