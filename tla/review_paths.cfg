SPECIFICATION Spec
CONSTANTS
  r1 = r1
  Requests = {r1}
  Functions <- Three
  Graphs <- Shapes
  Roots <- AbsoluteRoot
  Depths = {1, 2, 3}
  MaxRuns = 2
INVARIANT ChangedFunctionsAnalysed
CHECK_DEADLOCK FALSE
