SPECIFICATION SpecOneFixed
CONSTANTS
  Calls = {c1, c2, c3}
  NoCall = NoCall
  Users = {u1, u2}
  Processes = {p1, p2}
  Keys = {k1}
  KeyOf <- TwoShareAKey
  PoolSize = 1
  Distributed = TRUE
  MaxCrashes = 1
  MaxDrops = 1
INVARIANTS ExclusiveSessions InCallOrder
PROPERTIES LockComesBack EveryCallEnds
CHECK_DEADLOCK FALSE
