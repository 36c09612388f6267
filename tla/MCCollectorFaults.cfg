SPECIFICATION Spec
CONSTANTS
  full = full
  partial = partial
  b1 = b1
  b2 = b2
  NoReport = NoReport
  NoPending = NoPending
  NoStatus = NoStatus
  Full = {full}
  Partial = {partial}
  Hour = 1
  Delay = 0
  Histories <- TwoHours
  Correction = 1
  PerCycle = 1
  Cap = 3
  Batches = 2
  Bindings <- TwoBindings
  MaxTime = 2
  MaxLate = 1
  MaxBacks = 1
  DiskFaults = FALSE
INVARIANTS
  SelectorIsComplete
  CheckpointsAreBacked
  PublishedWhereCollected
