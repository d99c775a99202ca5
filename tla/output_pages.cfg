CONSTANTS
  r1 = r1
  r2 = r2
  Read = {r1, r2}
  MaxOut = 1
  Limit = 1
SPECIFICATION FairPaging
CONSTRAINT TypesHold
INVARIANT StopMeansAll
PROPERTY WaitingPaysOff
CHECK_DEADLOCK FALSE
