SPECIFICATION BookSpec
CONSTANTS
  t1 = t1
  t2 = t2
  Root = "r"
  Child <- MCChild
  Polite <- MCPolite
  Progress <- MCProgress
  WhiteToMove = {"r", "x"}
  Threads = {t1, t2}
  NumIterations = 3
  NumToExpandPerIteration = 2
  SaveEveryIterations = 2
  Lines <- MCLines
  Values = {0, 1}
  MaxRuns = 2
SYMMETRY ThreadSymmetry
INVARIANTS LinksStayWhole FileIsEvaluated BookIsSettled
CHECK_DEADLOCK FALSE
