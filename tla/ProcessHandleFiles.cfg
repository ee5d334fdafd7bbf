\* One file only: is_alive cannot open stat.
SPECIFICATION HandleSpec
CONSTANTS
  c1 = c1
  c2 = c2
  me = me
  p1 = p1
  p2 = p2
  Clients <- MCClients
  Pids <- MCPids
  Processes <- MCProcesses
  Myself = me
  NoHandle = NoHandle
  Bare <- MCBare
  MaxFiles = 1
  Calls <- MCReads
INVARIANTS
  NotAliveMeansDead
