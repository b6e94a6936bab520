CONSTANTS
  a = a
  b = b
  Device = {a, b}
  MaxDays = 1
  MaxSessions <- TwoAndOne
  Stalls = {}
SPECIFICATION FairSpec
INVARIANTS LocalSessionHasDay NoGhostSession
PROPERTIES SessionEndArrives
CHECK_DEADLOCK FALSE
