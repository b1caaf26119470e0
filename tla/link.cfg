SPECIFICATION FairSpec
CONSTANTS
  Slow = Slow
  Fast = Fast
  Odd = Odd
  MaxSyns = 2
  NapTicks = 6
  MaxCuts = 1
  MaxRuns = 1
INVARIANTS LinkTypeOK ReadyToTalk Answered
PROPERTIES DownloadEnds CommandEnds
CHECK_DEADLOCK FALSE
