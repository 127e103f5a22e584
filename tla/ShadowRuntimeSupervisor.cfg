SPECIFICATION Spec
CONSTANTS
  MaxGap = 1
  Horizon = 4
  MaxCycles = 4
INVARIANTS
  NeverInvalid
  BlocksAreCounted
  NoSilentStall
