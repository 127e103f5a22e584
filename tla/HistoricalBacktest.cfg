SPECIFICATION Spec
CONSTANTS
  Left = 1
  Right = 1
  Tolerance = 1
  DisplacementLookback = 2
  DisplacementRatio = 2
  Required = 8
  Spread = 0
  Slippage = 1
  RewardRiskRatio = 2
  Shape <- Some
  Beginnings <- Markets
  Warmup = 6
  MaxCandles = 9
INVARIANTS
  LookbackSuffices
  LiveParity
  SignalsAccounted
PROPERTIES
  SwingsNeverRepaint
CHECK_DEADLOCK FALSE
