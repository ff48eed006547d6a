SPECIFICATION Spec
CONSTANTS
  None = None
  Step = 2
  Buffer = 1
  MaxPulls = 2
  MaxSpins = 8
  OneOffs = {t1, t2}
  Series = {s1}
  Days = {0, 1}
  DayLen = 10
  Awake = 8
  Phases <- MCPhases
  HomeOf <- MCHome
  Durs = {2}
  Clocks = {3}
  Deadlines = {6}
  Drops = {2, 15}
  Kinds = {"flexible", "fixed"}
  Moments = {6}
  MaxOps = 4
SYMMETRY MCSymmetry
INVARIANTS TypeOK DayHasOneHolder NoDoubleBooking NobodyLost GapStartsAreExact
PROPERTIES PushedStaysOnItsDay FillingUsesHoles RetryKeepsSeat
CHECK_DEADLOCK FALSE
