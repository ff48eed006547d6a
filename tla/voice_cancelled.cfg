SPECIFICATION Spec
CONSTANTS
  Ops = {"edit", "plan"}
  PlanOps = {"plan"}
  Entities = {"row"}
  TargetOf <- MCTargetOf
  NoEntity = "no row"
  IdCounts = {2}
  MaxTurns = 5
  MaxSids = 1
  MaxEpochs = 1
  MaxEdits = 0
  MaxDrops = 0
INVARIANT CancelledStaysOut
CHECK_DEADLOCK FALSE
