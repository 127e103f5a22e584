SPECIFICATION Spec
CONSTANTS
  Runner = {r1}
  MaxEpoch = 3
  MaxAttempts = 2
  MaxStops = 1
PROPERTIES
  StartedBlocks
CHECK_DEADLOCK FALSE
