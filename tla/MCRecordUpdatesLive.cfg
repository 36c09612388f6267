SPECIFICATION FairSpec
CONSTANTS
  c1 = c1
  c2 = c2
  Nothing = Nothing
  Calls <- TwoCalls
  Transports <- BothTransports
  MaxRequests = 1
  RequestTimeout = 2
  MaxIngress = 1
  Updaters <- PolicyOnly
  Requests <- OneRequest
  Reserve = 1
  Budget = 1
  MaxEdits = 1
INVARIANTS
  BoundsAreKept
  OverwriteIsDisclosed
PROPERTIES
  EveryCallEnds
  BusyOnlyBehindDetached
CHECK_DEADLOCK FALSE
