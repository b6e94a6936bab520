SPECIFICATION FairSpec
CONSTANTS
  s1 = s1
  s2 = s2
  NoRequest = NoRequest
  Service <- Two
  LastInstant = 2
  BatchLimit = 2
  MaxFaults = 1
INVARIANTS
  InOrderUnlessTheClockSteps
  RefusedStartIsKnown
PROPERTY
  EveryRowSettles
CHECK_DEADLOCK FALSE
