\* Listing while the process redirects its descriptors.
SPECIFICATION FairFdSpec
CONSTANTS
  input = input
  log = log
  latin1 = latin1
  Fds <- MCFds
  Files <- MCFiles
  Closed = Closed
  Mode <- MCMode
  Nameable <- MCNameable
  Batch = 2
  SpareFiles = 2
CHECK_DEADLOCK FALSE
INVARIANTS
  FdTypeOK
  FdNoneMissed
  FdNoneTwice
PROPERTIES
  ImplementsListing
  FdCallEnds
