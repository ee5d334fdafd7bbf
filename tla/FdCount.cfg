\* A count that is not the number of descriptors.
SPECIFICATION FdSpec
CONSTANTS
  input = input
  log = log
  latin1 = latin1
  Fds <- MCFds
  Files <- MCFiles
  Closed = Closed
  Mode <- MCMode
  Nameable <- MCNameable
  Batch = 2
  SpareFiles = 2
CHECK_DEADLOCK FALSE
INVARIANTS
  CountExact
