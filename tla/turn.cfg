SPECIFICATION Spec
CONSTANTS
  MaxCalls = 3
  MaxParts = 2
INVARIANTS TypeOK LossNeedsCause ErrorNeedsCause
PROPERTY TurnKept
CHECK_DEADLOCK FALSE
