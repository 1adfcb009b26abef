\* Any three requests for the slots, overrides and calendar of a batch race.
SPECIFICATION Spec
CONSTANTS
  r1 = r1
  r2 = r2
  r3 = r3
  s1 = s1
  o1 = o1
  Requests = {r1, r2, r3}
  Calls <- AllCalls
  Slots0 <- Mondays0
  Overrides0 <- Moved0
  SessionCount = 3
  MaxDay = 13
  Offset = 1
  Null = Null
  NoRow = NoRow
  NoCall = NoCall
  NoView = NoView
SYMMETRY Symmetry
INVARIANTS TypeOK NoDangling OverrideOnce ShownOnce
PROPERTIES CapWhenAlone FitsStays
CHECK_DEADLOCK FALSE
