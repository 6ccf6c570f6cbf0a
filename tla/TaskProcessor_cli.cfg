SPECIFICATION Spec
CONSTANTS
  Users = {u1, u2}
  CliThreads = {c1}
  MaxInst = 2
  MaxTask = 1
  MayFail = TRUE
  NoThread = NoThread
SYMMETRY Symmetry
CHECK_DEADLOCK FALSE
INVARIANTS
  RefCountExact
