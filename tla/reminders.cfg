SPECIFICATION Spec
CONSTANTS
  Instances = {i1, i2}
  Blocks = {b1}
  Seats = {2, 4}
  Browsers = {s1, s2}
  Nowhere = Nowhere
  Lookahead = 2
  Ttl = 2
  MaxTick = 1
  MaxTime = 4
  MaxMishaps = 2
SYMMETRY Symmetry
INVARIANTS NotSentAgain
PROPERTIES NobodyMissed
CHECK_DEADLOCK FALSE
