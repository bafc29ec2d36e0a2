SPECIFICATION Spec
CONSTANTS
  U64Max = 9
  Keys <- MCKeys
  BootKeys <- MCOneBoot
  ForeignKey <- MCForeignKey
  Iss = "https://issuer"
  Subjects = {"a"}
  CnfJwks <- MCCnfJwks
  Ttls <- MCDefault
  CommandKeys <- MCWorkloadKeys
  CommandTtls = {}
  WorkloadKeys <- MCWorkloadKeys
  ProofTtl = 1
  TxnTokens <- MCTxnTokens
  OtherTokens <- MCOthers
  Verifiers <- MCVerifiers
  Audience <- MCAudience
  DefaultTtl = 2
  Leeway = 0
  MaxLifetime <- NoneOf
  MaxSkew = 0
  MaxTime = 0
  MaxIssued = 1
  MaxMinted = 1
  MaxDamaged = 1
  MaxAccepted = 1
INVARIANTS
  CredentialAuthentic
  ConfirmedKeyIsWhole
CHECK_DEADLOCK FALSE
