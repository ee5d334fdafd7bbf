\* Kernel 5.0: the range check does not happen.
SPECIFICATION LimitSpec
CONSTANTS
  LittleEndian = TRUE
  c1 = c1
  c2 = c2
  rootA = rootA
  rootB = rootB
  Callers <- MCCallers
  Roots <- MCRoots
  OsRelease <- MCMinorZero
  Limits <- MCLimits
  InitialLimit = 4096
SYMMETRY MCSymmetry
INVARIANTS
  RangeChecked
