SPECIFICATION FairSpec
CONSTANTS
  t1 = t1
  t2 = t2
  r1 = r1
  r2 = r2
  Threads = {t1, t2}
  Requests = {r1, r2}
  Priority <- MCPriority
  Reporting = {r1}
  MaxDuring = 1
  InQueue = InQueue
  Popped = Popped
  Terminated = Terminated
  Nothing = Nothing
INVARIANTS FinalIsLast NoUseAfterFree StopsItsOwnSearch
PROPERTIES BotsFollowService RequestsAreAnswered QuitExits
