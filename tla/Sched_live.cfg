SPECIFICATION FairSpec
CONSTANTS
  Owners = {o1, o2}
  Ops <- Replacing
  Locked = FALSE
  MaxId = 2
  MaxTime = 2
  MaxAgain = 0
  Delays = {0, 1}
  Ms = 2
  DelTries = 2
  MayFail = FALSE
  NoOwner = NoOwner
CHECK_DEADLOCK FALSE
INVARIANTS
  NotEarly
  TimeoutIsEnough
PROPERTIES
  EventHandled
  DestroyEnds
