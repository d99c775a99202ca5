CONSTANTS
  r1 = r1
  r2 = r2
  k1 = k1
  k2 = k2
  h1 = h1
  h2 = h2
  None = None
  Request = {r1}
  Sweep = {k1, k2}
  Handler = {h1, h2}
  MaxRuns = 3
SPECIFICATION FairSpec
CONSTRAINT TypesHold
INVARIANT EffectIsTakenOnce
PROPERTY MailboxEmpties
CHECK_DEADLOCK FALSE
