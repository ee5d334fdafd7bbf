\* Kernels 2.6.32 and 6.1: refusals and the range check.
SPECIFICATION LimitSpec
CONSTANTS
  LittleEndian = TRUE
  c1 = c1
  c2 = c2
  rootA = rootA
  rootB = rootB
  Callers <- MCCallers
  Roots <- MCRoots
  OsRelease <- MCMixed
  Limits <- MCLimits
  InitialLimit = 4096
SYMMETRY MCSymmetry
INVARIANTS
  LimitTypeOK
  RangeChecked
  RefusalsJustified
