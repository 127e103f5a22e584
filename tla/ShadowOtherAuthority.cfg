SPECIFICATION Spec
CONSTANTS
  gold = gold
  euro = euro
  metal = metal
  forex = forex
  Symbol = {gold, euro}
  AssetClass <- ClassOf
  Priority <- RankOf
  FirstGeneration = 3
  LastGeneration = 3
  ObservedAtStart = TRUE
  Last <- OneBar
  SymbolLists <- FullList
  ImportAnytime = FALSE
INVARIANTS
  OwnAuthorityCounts
