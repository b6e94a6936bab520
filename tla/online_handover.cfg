SPECIFICATION FairSpec
CONSTANTS
  a = a
  b = b
  r1 = r1
  r2 = r2
  NoDevice = NoDevice
  Device <- Devices
  Request <- One
  Retirable <- OnlyA
  MaxClaims = 2
  MaxLost = 0
  MaxJobs = 1
  MaxPulls = 1
INVARIANTS
  ProcessingIsReserved
  HiddenRequestIsAccounted
PROPERTIES
  AcceptanceArrives
CHECK_DEADLOCK FALSE
