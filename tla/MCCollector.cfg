SPECIFICATION Spec
CONSTANTS
  full = full
  partial = partial
  b1 = b1
  b2 = b2
  NoReport = NoReport
  NoPending = NoPending
  NoStatus = NoStatus
  Full = {full}
  Partial = {partial}
  Hour = 2
  Delay = 1
  Histories <- TwoHours
  Correction = 1
  PerCycle = 2
  Cap = 3
  Batches = 1
  Bindings <- OneBinding
  MaxTime = 9
  MaxLate = 0
  MaxBacks = 0
  DiskFaults = TRUE
INVARIANTS
  TypeOK
  ClaimsAreBacked
  GapsAreExact
  NoErrorMeansNothingStuck
PROPERTIES
  PendingIsSettledFirst
  ImplementsArchive
