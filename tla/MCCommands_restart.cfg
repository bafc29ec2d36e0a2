SPECIFICATION Spec
CONSTANTS
  TimeMax = 2
  Keys <- MCKeys
  Runs = {"r"}
  CaKeys <- MCCaKey
  WorkloadKeys <- MCWorkloadKeys
  Identifiers = {"a", "b"}
  Subjects = {"a"}
  Ttls = {0, 1}
  CaTtls = {1, 2}
  OtherUris <- NoneOf
  MaxTime = 2
  MaxIssued = 2
  MaxExports = 0
  MaxEdits = 0
  MaxAccepted = 1
INVARIANTS
  SameKeySameCa
CHECK_DEADLOCK FALSE
