CONSTANTS
  a = a
  b = b
  Device = {a, b}
  MaxDays = 2
  MaxSessions <- OneEach
  Stalls = {a, b}
SPECIFICATION FairSpec
INVARIANT ClosedDayIsReconciled
PROPERTIES EndedSessionIsFenced EndedDayStaysEnded DaysFollowOneAnother EndedLeaseStaysEnded ExitLeavesSomebody
CHECK_DEADLOCK FALSE
