SPECIFICATION FairSpec
CONSTANTS
  Capacity = 2
  MaxCalls = 3
  MaxTexts = 3
  MaxTurn = 2
  MaxAsks = 2
INVARIANTS TypeOK FinalUnlessLost
PROPERTIES StreamKept AnswerEnds LeavingEndsWork
CHECK_DEADLOCK FALSE
