CONSTANTS
  p1 = p1
  p2 = p2
  s1 = s1
  s2 = s2
  c1 = c1
  c2 = c2
  q1 = q1
  Call = {p1, p2}
  CallerOf <- OneCaller
  IdentityOf <- OwnIdentity
  Repairable = {p1}
  Protected = {}
  Sync = {p2}
  MaxLivePerCaller = 2
  MaxLiveTotal = 1
  MaxCompleted = 1
  MaxSteps = 2
  Server = {s1, s2}
  Recall = {c1, c2}
  Search = {q1}
  HomeOf <- Homes
  Life = 2
  Interval = 1
  MaxTime = 3
  MaxFaults = 1
SPECIFICATION MCSpec
CONSTRAINT TypesHold
INVARIANTS ExitMeansChildGone HostCapBoundsChildren StopHolds
PROPERTY OutcomeIsFinal
CHECK_DEADLOCK FALSE
