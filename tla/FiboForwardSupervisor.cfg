SPECIFICATION FairSpec
CONSTANTS
  BarLength = 3
  Start = 3
  End = 12
  Delay = 1
  Lag = 1
  CycleLimit = 0
  Poll = 1
  Skew = 2
  Last = 13
INVARIANTS
  BoundariesAccounted
PROPERTIES
  OnlyLiveEvidence
  WindowEnds
CHECK_DEADLOCK FALSE
