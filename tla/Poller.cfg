CONSTANTS
  Workers = {w1, w2}
  TaskIDs = {t1, t2}
  MaxEvents = 3
  MaxBatch = 2
  MaxRequests = 2
  NoTask = NoTask
SPECIFICATION FairSpec
INVARIANTS
  TypeOK
  ProcessingInv
  RunningGauge
  EventsConserved
  DrainFindsTick
PROPERTIES
  ImplementsTaskExecution
  ShutdownReturns
  EveryEventDisposed
