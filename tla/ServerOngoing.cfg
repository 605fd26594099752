CONSTANTS
  MaxBusy = 2
  MaxTasks = 3
  MaxUnderway = 1
SPECIFICATION Spec
INVARIANT OngoingTasksComplete
