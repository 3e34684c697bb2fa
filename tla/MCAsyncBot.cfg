SPECIFICATION FairSpec
CONSTANTS
  MaxSearchId = 2
  SearchMayThrow = TRUE
INVARIANTS EditsAlone NoReportAfterAnswer NoStaleStop
PROPERTIES StopReturns ImplementsService
