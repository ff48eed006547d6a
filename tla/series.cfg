SPECIFICATION Spec
CONSTANTS
  LastDay = 4
  Week = 2
  Horizon = 3
  MaxSeries = 3
  MaxCopies = 2
  MaxRequests = 3
  MaxTime = 5
INVARIANTS TypeOK OneOccurrence NoDayLost
PROPERTIES StaysSkipped HistoryStays
CHECK_DEADLOCK FALSE
