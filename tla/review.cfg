SPECIFICATION FairSpec
CONSTANTS
  r1 = r1
  Requests = {r1}
  Functions <- Three
  Graphs <- Shapes
  Roots <- AnyRoot
  Depths = {1, 2, 3}
  MaxRuns = 2
INVARIANTS TypeOK ReportExact CommentOncePerEvent LostEventNeedsCause
PROPERTY DeliveryEnds
CHECK_DEADLOCK FALSE
