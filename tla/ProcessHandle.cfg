\* Two clients, pid reuse, files for all but the last read.
SPECIFICATION FairHandleSpec
CONSTANTS
  c1 = c1
  c2 = c2
  me = me
  p1 = p1
  p2 = p2
  Clients <- MCClients
  Pids <- MCPids
  Processes <- MCProcesses
  Myself = me
  NoHandle = NoHandle
  Bare <- MCBare
  MaxFiles = 3
  Calls <- MCCalls
INVARIANTS
  HandleTypeOK
  DeadOrNoFiles
  EnvironVariables
  AuxvWhole
PROPERTIES
  AliveMeansRunning
  DeathIsNotFound
  ImplementsRef
  CallsEnd
