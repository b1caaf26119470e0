SPECIFICATION FairSpec
CONSTANTS
  d1 = d1
  d2 = d2
  LastBlock = 2
  Slots = {0, 1}
  Data = {d1, d2}
  Erased = Erased
  Mixed = Mixed
  NoCmd = NoCmd
  NoJob = NoJob
  TfsFirst = 1
  TfsLast = 2
  Jobs <- NoisyJobs
  Contents <- OldPhones
  Faults = {"opcode", "payload", "data", "hangup"}
  MaxJobs = 1
  MaxFaults = 2
  MaxSessions = 0
INVARIANTS TypeOK InStep Framing BusyBacklog Delivered LockedAfterTfs
PROPERTIES Serves JobEnds
CHECK_DEADLOCK FALSE
