SPECIFICATION FairSpec
CONSTANTS
  xau = xau
  eur = eur
  Pair = {xau, eur}
  EntryAt <- TwoBoundaries
  FinalBar = 2
  End = 4
  MaxStops = 1
INVARIANTS
  NoOrphanPosition
  FrozenSettlement
  SettlesInsideExperiment
  FinishedMeansComplete
PROPERTIES
  MissedWindowIsFinal
  EvidenceIsImmutable
  ImplementsLifecycle
  TradesSettle
  DecisionsGetEntries
