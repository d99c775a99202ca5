CONSTANTS
  v1 = v1
  v2 = v2
  a1 = a1
  a2 = a2
  s1 = s1
  Server = {v1, v2}
  Actor = {a1, a2}
  Scope = {s1}
  MaxLease = 2
  MaxTime = 5
  Torn = FALSE
  Misread = FALSE
SPECIFICATION Spec
CONSTRAINT TypesHold
SYMMETRY Symmetry
INVARIANT FileSpeaksTrue
PROPERTY LeaseSpec
CHECK_DEADLOCK FALSE
