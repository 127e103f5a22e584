SPECIFICATION Spec
CONSTANTS
  Runner = {r1}
  MaxEpoch = 4
  MaxAttempts = 2
  MaxStops = 2
INVARIANTS
  TypeOK
  LedgerVerifies
  CompletedIsDurable
  NoWriteIsTruthful
PROPERTIES
  ImplementsLedger
CHECK_DEADLOCK FALSE
