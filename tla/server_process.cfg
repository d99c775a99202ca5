CONSTANTS
  r1 = r1
  Requests = {r1}
  Sizes = {1, 2}
  MaxBytes = 3
  MaxBatch = 2
  MaxLines = 3
  MaxFailures = 1
  MaxMoves = 1
  Ageing = TRUE
  MaxSignals = 2
  Threshold = 3
  Horizon = 5
  s1 = s1
  s2 = s2
  s3 = s3
  c1 = c1
  c2 = c2
  c3 = c3
  Server = {s1, s2, s3}
  Call = {c1, c2, c3}
  CallerOf <- OneCaller
  Situations <- MCSituations
  Unfit = {c2}
  Searches = {c3}
  MaxLivePerCaller = 1
  MaxLiveTotal = 2
  Mortal = {s1}
SPECIFICATION MCSpec
CONSTRAINT TypesAsserted
INVARIANTS LogIsSound SyncStartsAreWhole
PROPERTIES AlarmsAreTrue LinesAndStallsEnd
CHECK_DEADLOCK FALSE
