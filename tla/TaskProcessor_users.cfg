SPECIFICATION FairSpec
CONSTANTS
  Users = {u1, u2, u3}
  CliThreads = {}
  MaxInst = 2
  MaxTask = 3
  MayFail = FALSE
  NoThread = NoThread
CHECK_DEADLOCK FALSE
INVARIANTS
  NoUseAfterFree
  OneWorker
  ExecutedInOrder
PROPERTIES
  TaskHandled
  DestroyEnds
