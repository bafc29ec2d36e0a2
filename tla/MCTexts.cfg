SPECIFICATION Spec
CONSTANTS
  MaxIdLen = 17
  MaxTrustDomainLen = 2
  Half = 2
  LowerWords <- MCLowerWords
  Numbers = {"5"}
  Pieces <- MCPieces
  MaxPieces = 4
  Tokens <- MCTokens
  MaxTokens = 3
  LowerOf <- MCLowerOf
  ArgumentPieces <- MCArgumentPieces
  MaxArgumentPieces = 2
  RawOctets = {0, 1, 127, 128}
  DerOctets = {0, 1, 2, 128}
  MaxEdits = 1
INVARIANTS
  AcceptedIsNormal
  NormalIsAccepted
  FieldReadsBack
  TextBindsRequest
  DerReadsBack
CHECK_DEADLOCK FALSE
