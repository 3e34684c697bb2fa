SPECIFICATION FairSpec
CONSTANTS
  MaxSearchId = 2
  SearchMayThrow = TRUE
PROPERTY StopAlwaysReturns
