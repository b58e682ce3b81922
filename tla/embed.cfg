SPECIFICATION FairSpec
CONSTANTS
  N = 4
  Concurrency = 2
INVARIANTS TypeOK CallsBounded CauseReported VectorsInPlace
PROPERTY Drains
CHECK_DEADLOCK FALSE
