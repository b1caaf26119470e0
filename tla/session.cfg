SPECIFICATION Spec
CONSTANTS
  d1 = d1
  d2 = d2
  LastBlock = 2
  Slots = {0, 1}
  Data = {d1, d2}
  Erased = Erased
  Mixed = Mixed
  NoCmd = NoCmd
  NoJob = NoJob
  TfsFirst = 1
  TfsLast = 2
  Jobs <- MenuJobs
  Contents <- Phones
  Faults = {}
  MaxJobs = 2
  MaxFaults = 0
  MaxSessions = 0
INVARIANTS Delivered ChipErased
PROPERTY Serves
CHECK_DEADLOCK FALSE
