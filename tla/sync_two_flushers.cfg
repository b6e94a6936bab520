SPECIFICATION Spec
CONSTANTS
  o1 = o1
  o2 = o2
  s1 = s1
  s2 = s2
  NoEvent = NoEvent
  Order <- OneOrder
  DeliveryOrder <- OneOrder
  Service <- TwoServices
  MaxRevision = 0
  BatchLimit = 1
  PageSize = 1
  PaidOrder <- NoOrder
  InitialStock = 0
  MaxSupply = 1
  MaxDraws = 0
  MaxFaults = 0
INVARIANT
  NoSilentDivergence
CHECK_DEADLOCK FALSE
