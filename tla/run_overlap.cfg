SPECIFICATION Spec
CONSTANTS
  f1 = f1  f2 = f2  a = a  b = b  x = x  j1 = j1  j2 = j2  j3 = j3
  NoJob = NoJob
  Files = {f1, f2}
  Names = {a, b, x}
  Source <- Ambiguous
  NoName = NoName
  Jobs = {j1, j2, j3}
  Kinds <- Full
  Faults <- None
  Overlap = TRUE
  MaxWrites = 1
INVARIANT OverlapHarmless
CHECK_DEADLOCK FALSE
