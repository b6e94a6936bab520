CONSTANTS
  i1 = i1
  i2 = i2
  eaten = eaten
  undone = undone
  receipt = receipt
  wasted = wasted
  restored = restored
  None = None
  Connection = {c1, c2}
  Tab = {t1, t2}
  Item = {i1, i2}
  Movement = {eaten, receipt, wasted}
  ItemOf <- ToTwo
  Undoes <- Compensates
  Own = {eaten}
  Consumption = {eaten}
  Receipt = {receipt}
  Cost = {0, 1}
  PageSize = 1
  MaxAborts = 1
  ForeignKeys = TRUE
SPECIFICATION FairSpec
INVARIANT CursorCovers
PROPERTY DeviceConverges
CHECK_DEADLOCK FALSE
