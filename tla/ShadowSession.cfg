SPECIFICATION FairSpec
CONSTANTS
  gold = gold
  euro = euro
  metal = metal
  forex = forex
  Symbol = {gold, euro}
  AssetClass <- ClassOf
  Priority <- RankOf
  FirstGeneration = 0
  LastGeneration = 3
  ObservedAtStart = TRUE
  Last <- TwoBars
  SymbolLists <- FullList
  ImportAnytime = FALSE
INVARIANTS
  TypeOK
  NoFreshPortfolio
  PositionIsMonitored
  EachBarOnce
PROPERTIES
  ReachedPositionCloses
  ImplementsSingleExposure
