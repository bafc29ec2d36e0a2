SPECIFICATION Spec
CONSTANTS
  U64Max = 5
  Keys <- MCKeys
  BootKeys <- MCBootKeys
  ForeignKey <- MCForeignKey
  Iss = "https://issuer"
  Subjects = {"a"}
  CnfJwks <- MCCnfA
  Ttls <- MCTtls
  CommandKeys <- MCWorkloadKey
  CommandTtls = {0, 3}
  WorkloadKeys <- MCWorkloadKey
  ProofTtl = 2
  TxnTokens <- MCNoTxn
  OtherTokens <- MCPadded
  Verifiers <- MCOne
  Audience <- MCAudience
  DefaultTtl = 2
  Leeway = 1
  MaxLifetime <- MCMaxLifetime
  MaxSkew = 1
  MaxTime = 5
  MaxIssued = 1
  MaxMinted = 1
  MaxDamaged = 0
  MaxAccepted = 1
INVARIANTS
  TypeOK
  CredentialAuthentic
  AcceptedInLifetime
  IntactAccepted
  VerifiesOnlyItsStart
CHECK_DEADLOCK FALSE
