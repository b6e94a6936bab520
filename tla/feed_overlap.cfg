SPECIFICATION FairSpec
CONSTANTS
  o1 = o1
  o2 = o2
  o3 = o3
  t1 = t1
  t2 = t2
  NoTransaction = NoTransaction
  Order <- Orders
  Transaction <- Connections
  OwnOrder <- Own
  DeliveryOrder <- Others
  PaidOrder <- Paid
  MaxRevision = 2
  PageSize = 2
  MaxRollbacks = 1
INVARIANTS
  NoCanonicalChangeIsSkipped
  CaughtUpDeviceAgrees
PROPERTY
  DeviceConvergesUnlessOvertaken
CHECK_DEADLOCK FALSE
