SPECIFICATION Spec
CONSTANTS
  gold = gold
  euro = euro
  metal = metal
  forex = forex
  Symbol = {gold, euro}
  AssetClass <- ClassOf
  Priority <- RankOf
  MaxOrders = 2
  BarLength = 1
  EntryWindow = 0
  MaxResidual = 0
  LegacySymbol = {gold}
  LegacyDelay = 0
  Last = 2
  LastBar <- BarsOf
INVARIANTS
  JournalsAgree
  BrokerIsMirrored
  OfflineClosureIsTheDeal
  OneOrderPerBar
PROPERTIES
  ImplementsExposure
