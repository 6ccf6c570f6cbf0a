SPECIFICATION Spec
CONSTANTS
  c1 = c1
  c2 = c2
  t1 = t1
  t2 = t2
  Chans = {c1}
  Callers = {t1, t2}
  Uses <- OneChannel
  MaxEnt = 3
  MaxFrame = 1
  MaxNest = 2
  MaxMons = 1
  DtmfOnly = {}
  StateMod = 2
  MayLap = TRUE
  MayFail = TRUE
  NoChan = NoChan
CHECK_DEADLOCK FALSE
INVARIANTS
  EntryExclusive
  ChannelInUse
  UseCountExact
