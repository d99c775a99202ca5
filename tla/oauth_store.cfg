CONSTANTS
  s1 = s1
  s2 = s2
  r1 = r1
  r2 = r2
  Server = {s1, s2}
  Request = {r1, r2}
  MaxTokens = 2
  MaxMishaps = 1
SPECIFICATION Spec
CONSTRAINTS TypesHold Claimed
SYMMETRY Interchangeable
INVARIANTS MutationsExclude AnswersHoldEverywhere
CHECK_DEADLOCK FALSE
