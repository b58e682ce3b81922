SPECIFICATION Spec
CONSTANTS
  r1 = r1  r2 = r2  c1 = c1  c2 = c2  w1 = w1  w2 = w2  w3 = w3
  NoRepo = NoRepo  NoOne = NoOne
  Repos = {r1}
  Clients = {c1, c2}
  Consumers = {w1, w2}
  Mortal = {w1, w2}
  MaxTasks = 2
  BatchSize = 2
  Faults <- SendOnce
SYMMETRY Symmetric
INVARIANTS TypeOK ExclusiveWork NoOverlapWithoutRace
  GateOpenNeedsRace StuckTaskHasCause
PROPERTY LifecycleKept
CHECK_DEADLOCK FALSE
