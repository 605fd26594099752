CONSTANTS
  MaxBusy = 2
  MaxTasks = 3
  MaxUnderway = 2
SPECIFICATION FairSpec
INVARIANTS
  UnregistersIdle
  PoolLeftClean
PROPERTIES
  BackOnlyByLateRequests
  SignalEnds
