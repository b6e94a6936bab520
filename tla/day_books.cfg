CONSTANTS
  t1 = t1
  t2 = t2
  o1 = o1
  o2 = o2
  u = u
  v = v
  CashMethod = cash
  OtherMethod = card
  NoAmount = NoAmount
  NoWorker = NoWorker
  Tab = {t1, t2}
  Worker = {u, v}
  Order = {o1, o2}
  Expense = {e1}
  Draft <- Drafts
  policy <- SmallPolicy
  Amount = {2}
  OpeningStock = 1
  MaxChanges = 4
  MaxEdits = 1
  MaxShifts = 1
  MaxCommands = 5
SPECIFICATION Spec
SYMMETRY Symmetric
CONSTRAINT FewCommands
INVARIANTS OrdersBalance StockFollowsOrders LedgerIsLastRow BulkUndoneOnce ReconciliationIsTheTill
PROPERTIES ClosedBooksAreFinal
CHECK_DEADLOCK FALSE
