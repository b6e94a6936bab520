SPECIFICATION FairSpec
CONSTANTS
  o1 = o1
  o2 = o2
  o3 = o3
  t1 = t1
  t2 = t2
  NoTransaction = NoTransaction
  Order <- OnePair
  Transaction <- Connections
  OwnOrder <- Own
  DeliveryOrder <- Nothing
  PaidOrder <- Nothing
  MaxRevision = 1
  PageSize = 1
  MaxRollbacks = 1
PROPERTY
  ConnectedDeviceConverges
CHECK_DEADLOCK FALSE
