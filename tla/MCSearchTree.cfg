SPECIFICATION MCSpec
CONSTANTS
  t1 = t1  t2 = t2  r = r  x = x  y = y  z = z  w = w  xy = xy  zy = zy
  m1 = m1  m2 = m2  m3 = m3  None = None
  Threads = {t1, t2}
  Root = r
  Nodes <- MCNodes
  Plies <- MCPlies
  Child <- MCChild
  Terminal = {w}
  Capacity <- MCCapacity
  MaxPlayouts = 1
  MaxVisits = 7
INVARIANTS NoPlayoutLost ExpandedIsReady EdgesAccounted
PROPERTIES OnlyForward SearchEnds
