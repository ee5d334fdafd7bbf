\* A process that cannot be made is not reported.
SPECIFICATION ScanSpec
CONSTANTS
  me = me
  p1 = p1
  p2 = p2
  p3 = p3
  Pids <- MCPids
  Processes <- MCProcesses
  Myself = me
  Batch = 2
  MaxFiles = 4
CHECK_DEADLOCK FALSE
INVARIANTS
  FailuresReported
