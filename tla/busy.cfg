CONSTANTS
  w1 = w1
  w2 = w2
  w3 = w3
  Writer <- Three
  Coordinator = {w3}
  Crashing = {w1, w3}
  NoPid = {w2}
  HeldUp = {"opened", "inside"}
  g1 = g1
  a1 = a1
  o1 = o1
  o2 = o2
  Guard = {g1}
  Actor = {a1}
  Id = {o1, o2}
  Lease = 3
  MaxLease = 2
  Beat = 1
  MaxOps = 1
SPECIFICATION MCSpec
CONSTRAINT TypesHold
INVARIANTS OneWriterInside GuardIsHonest EffectOnce
PROPERTIES LockGoesOn CommandsAreStopped
CHECK_DEADLOCK FALSE
