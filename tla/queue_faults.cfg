SPECIFICATION FairSpec
CONSTANTS
  r1 = r1  r2 = r2  c1 = c1  c2 = c2  w1 = w1  w2 = w2  w3 = w3
  NoRepo = NoRepo  NoOne = NoOne
  Repos = {r1}
  Clients = {c1}
  Consumers = {w1, w2}
  Mortal = {w1, w2}
  MaxTasks = 2
  BatchSize = 2
  Faults <- ReadFaults
INVARIANT ActiveTaskTraceable
PROPERTY DeliveredTaskEnds
CHECK_DEADLOCK FALSE
