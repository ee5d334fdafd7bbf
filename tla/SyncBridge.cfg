\* Blocking calls from every runtime flavour, pools of every size.
SPECIFICATION FairBridgeSpec
CONSTANTS
  c1 = c1
  c2 = c2
  other = other
  w1 = w1
  w2 = w2
  Callers <- MCCallers
  Others <- MCOthers
  Workers <- MCWorkers
  Sole = w1
  Limits <- MCLimits
CHECK_DEADLOCK FALSE
INVARIANTS
  BridgeTypeOK
PROPERTIES
  BridgeEnds
  PanicsOnlyUndriven
  OthersRun
