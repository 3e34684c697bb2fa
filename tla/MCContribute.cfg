SPECIFICATION FairSpec
CONSTANTS
  TaskLoops = {l1, l2}
  GameThreads = {g1}
  Datas = {d1, d2}
  n1 = n1  n2 = n2
  Names <- MCNames
  NoModel = NoModel
  SelfplayNames <- MCSelfplayNames
  RatingPairs <- MCRatingPairs
  maxRatingMatches = 1
  taskRepFactor = 1
  NoThread = NoThread
  MaxFailures = 1
INVARIANTS GamesHaveTheirNets RatingGamesAreBounded
PROPERTIES ShutdownEnds
