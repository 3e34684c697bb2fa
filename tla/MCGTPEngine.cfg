SPECIFICATION EngineSpec
CONSTANTS
  MAX_LEN = 3
  NUM_RECENT_BOARDS = 2
  BoardSizes <- MCBoardSizes
  Setups <- MCSetups
  Sgfs <- MCSgfs
  TaxRules <- MCTaxRules
  Komis <- MCKomis
  ponderingEnabled = TRUE
  MaxMoves = 2
INVARIANTS PositionIsReplay ResultIsOfBoard
CHECK_DEADLOCK FALSE
