CONSTANTS
  k1 = k1
  k2 = k2
  o1 = o1
  p1 = p1
  p2 = p2
  Market = {k1, k2}
  Price = {p1, p2}
  NoPrice = NoPrice
  Order = {}
  QMax = 1
  MaxWorkers = 0
SPECIFICATION FairSpec
INVARIANT OnTheWayOnce
PROPERTY NewestIsSeen
