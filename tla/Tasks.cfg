\* Listing and reading threads while they end and tids are used again.
SPECIFICATION FairTasksSpec
CONSTANTS
  Tids <- MCTids
  Pid = 1
  MaxThreads = 4
  Batch = 2
CHECK_DEADLOCK FALSE
INVARIANTS
  TasksOfProcess
  TasksNoneMissed
  TasksNoneTwice
PROPERTIES
  TaskReadsOwn
  TasksEnd
