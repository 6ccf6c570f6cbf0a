SPECIFICATION Spec
CONSTANTS
  Owners = {o1}
  Ops <- Deleting
  Locked = FALSE
  MaxId = 3
  MaxTime = 3
  MaxAgain = 1
  Delays = {0, 1}
  Ms = 2
  DelTries = 2
  MayFail = TRUE
  NoOwner = NoOwner
CHECK_DEADLOCK FALSE
INVARIANTS
  DeletedStaysDeleted
  RefsExact
  IdNamesEvent
