SPECIFICATION Spec
CONSTANTS
  View = {v1, v2}
  NoView = NoView
  Payload = {a, b, c}
  NoPayload = NoPayload
  Tear = {"fragment"}
  RacingRebuild = FALSE
  MaxWrites = 3
INVARIANTS
  IndexMatchesAuthority
  AckedDurable
  AppendOnce
PROPERTIES
  DamageIsPreserved
  ImplementsLog
