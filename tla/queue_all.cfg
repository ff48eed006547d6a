SPECIFICATION Spec
CONSTANTS
  Jobs = {j1}
  NoJob = NoJob
  Flows = {w1, w2, w3}
  Kinds <- AllKinds
  MaxAttempts = 2
  MaxFaults = 3
  SlowRead = FALSE
INVARIANTS SoleOwner NotStranded PlacementsPaidFor OutcomeOfLatestClaim
PROPERTY KeepsPromise
CHECK_DEADLOCK FALSE
