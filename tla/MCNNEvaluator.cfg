SPECIFICATION FairSpec
CONSTANTS
  c1 = c1
  c2 = c2
  s1 = s1
  e1 = e1
  Nobody = Nobody
  Clients = {c1, c2}
  Servers = {s1}
  MaxNumRows = 2
  MaxConcurrentEvals = 2
  NumResultBufss = 4
  Positions = {"p", "q"}
  OwnerMaps = {FALSE, TRUE}
  Slots = {e1}
  SlotOf <- OneSlot
INVARIANTS OneRowPerCall WaitersAccounted ResultIsTheOneAsked
PROPERTIES CallsReturn
