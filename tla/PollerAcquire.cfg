CONSTANTS
  Workers = {w1, w2}
  TaskIDs = {t1}
  MaxEvents = 2
  MaxBatch = 2
  MaxRequests = 1
  NoTask = NoTask
SPECIFICATION Spec
INVARIANT AcquiredOnce
