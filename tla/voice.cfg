SPECIFICATION Spec
CONSTANTS
  Ops = {"edit", "plan"}
  PlanOps = {"plan"}
  Entities = {"row"}
  TargetOf <- MCTargetOf
  NoEntity = "no row"
  IdCounts = {2}
  MaxTurns = 4
  MaxSids = 1
  MaxEpochs = 2
  MaxEdits = 1
  MaxDrops = 1
INVARIANTS TypeOK ShownIsApplied NothingChangedUnseen DispatchedOnce SilentNotResent CancelledOrApplied
CHECK_DEADLOCK FALSE
