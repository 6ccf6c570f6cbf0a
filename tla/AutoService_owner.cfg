SPECIFICATION FairSpec
CONSTANTS
  c1 = c1
  c2 = c2
  t1 = t1
  t2 = t2
  Chans = {c1, c2}
  Callers = {t1}
  Uses <- TwoChannels
  MaxEnt = 3
  MaxFrame = 2
  MaxNest = 1
  MaxMons = 1
  DtmfOnly = {c1}
  StateMod = 2
  MayLap = FALSE
  MayFail = FALSE
  NoChan = NoChan
CHECK_DEADLOCK FALSE
INVARIANTS
  ReadqInOrder
  FramesKeptUntilHangup
  DtmfFlagRestored
PROPERTIES
  StopReturns
