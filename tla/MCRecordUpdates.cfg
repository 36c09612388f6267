SPECIFICATION Spec
CONSTANTS
  c1 = c1
  c2 = c2
  Nothing = Nothing
  Calls <- TwoCalls
  Transports <- BothTransports
  MaxRequests = 2
  RequestTimeout = 3
  MaxIngress = 1
  Updaters <- AllUpdaters
  Requests <- TwoRequests
  Reserve = 2
  Budget = 1
  MaxEdits = 0
SYMMETRY CallSymmetry
INVARIANTS
  TypeOK
  AcknowledgedIsReported
  ReportIsTrue
CHECK_DEADLOCK FALSE
