SPECIFICATION Spec
CONSTANTS
  f1 = f1  f2 = f2  a = a  b = b  x = x  j1 = j1  j2 = j2  j3 = j3
  NoJob = NoJob
  Files = {f1, f2}
  Names = {a, b, x}
  Source <- Mutual
  NoName = NoName
  Jobs = {j1, j2, j3}
  Kinds <- FullOrDefault
  Faults <- Store
  Overlap = FALSE
  MaxWrites = 1
INVARIANT SkippedFileIndexed
CHECK_DEADLOCK FALSE
