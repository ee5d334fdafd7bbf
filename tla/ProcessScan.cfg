\* A consumer that may keep every handle, with two more files than the directory.
SPECIFICATION FairScanSpec
CONSTANTS
  me = me
  p1 = p1
  p2 = p2
  p3 = p3
  Pids <- MCPids
  Processes <- MCProcesses
  Myself = me
  Batch = 2
  MaxFiles = 3
CHECK_DEADLOCK FALSE
INVARIANTS
  NoneMissed
  NoneTwice
PROPERTIES
  ImplementsListing
  ScanEnds
