SPECIFICATION SpecLinked
CONSTANTS
  Tasks = {t1}
  NoTask = NoTask
  Workers = {w1, w2}
  MaxAttempts = 2
  MaxEdits = 1
  MaxSyncs = 1
  MaxGrants = 2
  MaxCrashes = 1
  MaxStalls = 0
  SlowCommit = FALSE
  SlowSweep = FALSE
INVARIANTS NothingForgotten FailedAtNewest OneSenderPerClaim
PROPERTIES EveryRowSettles
CHECK_DEADLOCK FALSE
