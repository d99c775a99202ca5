CONSTANTS
  m1 = m1
  m2 = m2
  Manager = {m1, m2}
  Proc <- OneEach
  ManagerOf <- FirstOfPair
  MaxLiveTotal = 2
  Crashing = {m1}
  c1 = c1
  c2 = c2
  c3 = c3
  MaxSteps = 2
  Call = {c1, c2, c3}
  CallerOf <- OneCaller
  IdentityOf <- TheOther
  Long = {c1, c2}
  Plain = {c3}
  Signalled = {c1}
  MaxLivePerCaller = 1
SPECIFICATION MCSpec
CONSTRAINT TypesHold
INVARIANTS OneHolderPerSlot StartsAreChecked
PROPERTIES DeadSlotIsHandedOn CallsAreAnswered ProcessSettles
CHECK_DEADLOCK FALSE
