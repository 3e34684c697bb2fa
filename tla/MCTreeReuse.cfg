SPECIFICATION Spec
CONSTANTS
  n1 = n1
  n2 = n2
  n3 = n3
  n4 = n4
  NULL = NULL
  Nodes <- MCNodes
  MaxChildren = 2
  numShards = 1
  MaxThreads = 2
  AgeLimit = 2
  MaxAge = 3
SYMMETRY NodeSymmetry
INVARIANTS TableIsTheTree WalkIsPostOrderOnce TasksOutliveTheirUse
