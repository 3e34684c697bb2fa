SPECIFICATION Spec
CONSTANTS
  MAX_LEN = 2
  NUM_RECENT_BOARDS = 2
  BoardSize <- MCBoardSize
  PosSamples <- MCPosSamples
  maxMovesPerGame = 2
  MaxForks = 1
  MaxSidePositions = 2
  MaxNetChanges = 1
INVARIANTS RowsAreOfTheirPositions NetsBehindAreCounted ForksAreLegalGames
CHECK_DEADLOCK FALSE
