SPECIFICATION Spec
CONSTANTS
  Requests = {1, 2}
  NoRequest = 0
  Slots = {"form", "payload"}
  NoSlot = "no slot"
  Forms = {"form"}
  Bodies = {"a", "b"}
  NoBody = "nothing"
  MaxOpens = 2
  MaxLapses = 2
  MaxLost = 2
INVARIANTS OneTaskPerKey AnswersFit WipedStaysEmpty
CHECK_DEADLOCK FALSE
