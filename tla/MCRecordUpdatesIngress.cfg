SPECIFICATION Spec
CONSTANTS
  c1 = c1
  c2 = c2
  Nothing = Nothing
  Calls <- OneCall
  Transports <- HttpOnly
  MaxRequests = 1
  RequestTimeout = 4
  MaxIngress = 2
  Updaters <- DeviceOnly
  Requests <- OneRequest
  Reserve = 1
  Budget = 2
  MaxEdits = 0
INVARIANT
  AcknowledgedIsReported
CHECK_DEADLOCK FALSE
