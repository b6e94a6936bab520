SPECIFICATION Spec
CONSTANTS
  a = a
  b = b
  r1 = r1
  r2 = r2
  NoDevice = NoDevice
  Device <- Devices
  Request <- One
  Retirable <- Nobody
  MaxClaims = 2
  MaxLost = 1
  MaxJobs = 1
  MaxPulls = 1
SYMMETRY Symmetric
INVARIANTS
  AcceptanceIsProtected
PROPERTIES
  DecidedOnce
CHECK_DEADLOCK FALSE
