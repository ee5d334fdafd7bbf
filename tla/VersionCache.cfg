\* Three tasks, three roots: safety, refinement and liveness of the cache.
SPECIFICATION FairSpec
CONSTANTS
  LittleEndian = TRUE
  c1 = c1
  c2 = c2
  c3 = c3
  oldRoot = oldRoot
  newRoot = newRoot
  badRoot = badRoot
  Callers <- MCCallers
  Roots <- MCRoots
  OsRelease <- MCOsRelease
INVARIANTS
  TypeOK
  AnswersAreReleases
  OneStorePerCaller
PROPERTIES
  ImplementsOracle
  CallsEnd
