SPECIFICATION FairSpec
CONSTANTS
  full = full
  partial = partial
  b1 = b1
  b2 = b2
  NoReport = NoReport
  NoPending = NoPending
  NoStatus = NoStatus
  Full = {full}
  Partial = {partial}
  Hour = 1
  Delay = 0
  Histories <- ThreeHours
  Correction = 1
  PerCycle = 1
  Cap = 3
  Batches = 1
  Bindings <- OneBinding
  MaxTime = 3
  MaxLate = 0
  MaxBacks = 0
  DiskFaults = FALSE
PROPERTIES
  NoHourStarves
