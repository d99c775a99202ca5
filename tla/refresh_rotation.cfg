CONSTANTS
  s1 = s1
  s2 = s2
  Provider = {s1, s2}
  MaxRefresh = 5
  Grace = 1
  Life = 3
SPECIFICATION RefreshSpec
CONSTRAINT TypesHold
SYMMETRY Interchangeable
INVARIANTS FamilyIsOneLine OnlyReplayEndsFamily
CHECK_DEADLOCK FALSE
