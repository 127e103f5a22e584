SPECIFICATION Spec
CONSTANTS
  View = {v1, v2}
  NoView = NoView
  Payload = {a, b, c}
  NoPayload = NoPayload
  Tear = {"unterminated"}
  RacingRebuild = FALSE
  MaxWrites = 3
INVARIANTS
  AckedDurable
SYMMETRY Interchangeable
