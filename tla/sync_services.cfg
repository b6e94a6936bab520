SPECIFICATION FairSpec
CONSTANTS
  o1 = o1
  o2 = o2
  s1 = s1
  s2 = s2
  NoEvent = NoEvent
  Order <- OneOrder
  DeliveryOrder <- OneOrder
  Service <- TwoServices
  MaxRevision = 2
  BatchLimit = 2
  PageSize = 1
  PaidOrder <- NoOrder
  InitialStock = 0
  MaxSupply = 1
  MaxDraws = 0
  MaxFaults = 1
INVARIANTS
  CanonicalHistoryHasNoGaps
  DivergenceIsQuarantined
PROPERTIES
  ImplementsOrderedLog
  EveryEventSettles
  CancellationArrives
CHECK_DEADLOCK FALSE
