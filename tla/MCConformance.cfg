SPECIFICATION Spec
CONSTANTS
  Keys <- VectorKeys
  U64Max = 2147483647
  TimeMax = 2147483647
  LineBreaks = {}
  Bad = Bad
  Identifiers = {"spiffe://example.org/workload/api"}
  MaxIdLen = 2048
  MaxTrustDomainLen = 255
  Vectors <- MCVectors
  Releases <- MCReleases
  Sound <- MCEvolving
  Evolving <- MCEvolving
  FormatOf <- MCFormatOf
  ManifestOf <- MCManifestOf
  WritesOf <- MCWritesOf
  NegativeOf <- MCNegativeOf
  AcceptedOf <- MCAcceptedOf
  Reasons = {"Expired"}
  Produced <- MCProduced
  Verdict <- MCVerdict
  VectorPaths <- MCVectors
  DirOf <- MCDirOf
  KnownSuites <- MCKnownSuites
  SuiteNames <- MCSuiteNames
  MaxChanges = 1
  MaxGenerations = 1
  MaxRuns = 1
INVARIANTS
  GreenIsConformant
  
  SoundIsGreen
  RegressionIsRed
PROPERTIES
  RunsEnd
CHECK_DEADLOCK FALSE
