SPECIFICATION QueueFairSpec
CONSTANTS
  Producers = {p1, p2}
  Consumers = {c1, c2}
  MaxSize = 2
  MaxPushes = 5
  p1 = p1
  p2 = p2
  c1 = c1
  c2 = c2
INVARIANTS NoMissedWakeup FirstInFirstOut
PROPERTIES EveryoneReleased
