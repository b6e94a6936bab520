SPECIFICATION Spec
CONSTANTS
  o1 = o1
  o2 = o2
  s1 = s1
  s2 = s2
  NoEvent = NoEvent
  Order <- TwoOrders
  DeliveryOrder <- TwoOrders
  Service <- OneService
  MaxRevision = 1
  BatchLimit = 2
  PageSize = 2
  PaidOrder <- OnePaid
  InitialStock = 1
  MaxSupply = 1
  MaxDraws = 1
  MaxFaults = 1
INVARIANTS
  NothingPendingBehindQuarantine
  StockIsConserved
  ReservationsAreBacked
  OnlyConflictsQuarantine
  NoSilentDivergence
PROPERTIES
  CanonicalOnlyAdvances
  LocalOnlyAdvances
CHECK_DEADLOCK FALSE
