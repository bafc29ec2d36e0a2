SPECIFICATION Spec
CONSTANTS
  TimeMax = 2
  Keys <- MCKeys
  Runs = {"r"}
  CaKeys <- MCCaKeys
  WorkloadKeys <- MCWorkloadKeys
  Identifiers = {"a", "b"}
  Subjects = {"a", "b"}
  Ttls = {1}
  CaTtls = {1}
  OtherUris <- MCOtherUris
  MaxTime = 1
  MaxIssued = 1
  MaxExports = 1
  MaxEdits = 1
  MaxAccepted = 1
INVARIANTS
  AdvertisesItsKey
  WicAuthentic
CHECK_DEADLOCK FALSE
