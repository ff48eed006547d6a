SPECIFICATION Spec
CONSTANTS
  LastDay = 4
  Week = 2
  Horizon = 3
  MaxSeries = 2
  MaxCopies = 1
  MaxRequests = 2
  MaxTime = 4
INVARIANTS SkipsAreKept
CHECK_DEADLOCK FALSE
