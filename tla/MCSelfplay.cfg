SPECIFICATION FairSpec
CONSTANTS
  Datas = {d1, d2}
  Names = {n1, n2}
  NoModel = NoModel
  maxDataQueueSize = 1
  autoCleanupAllButLatestIfUnused = TRUE
  GameThreads = {g1, g2}
  maxGamesTotal = 2
  MaxLoads = 3
INVARIANTS NoUseAfterDelete NoGameIsLost
PROPERTIES ShutdownEnds
