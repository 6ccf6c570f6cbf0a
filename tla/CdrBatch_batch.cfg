SPECIFICATION CdrSpec
CONSTANTS
  Channels = {a}
  Consoles = {cli}
  CdrThread = thread
  Reloader = reloader
  Quitter = quitter
  Modes <- EveryMode
  DefaultSize = 100
  Attempts = 2
  Lacking = FALSE
  MaxCdrs = 2
  MaxAsked = 2
  EventIds = {1, 2, 3, 4, 5, 6, 7}
  NoEvent = NoEvent
  Nobody = Nobody
  Cancelled = Cancelled
CHECK_DEADLOCK FALSE
INVARIANTS RecordInOnePlace FullBatchAnnounced BatchServed
