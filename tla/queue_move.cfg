SPECIFICATION Spec
CONSTANTS
  Jobs = {j1}
  NoJob = NoJob
  Flows = {w1, w2}
  Kinds <- MoveKind
  MaxAttempts = 2
  MaxFaults = 1
  SlowRead = FALSE
PROPERTY AnswersAreFinal
CHECK_DEADLOCK FALSE
