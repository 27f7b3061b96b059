CONSTANTS
  k1 = k1
  k2 = k2
  o1 = o1
  p1 = p1
  p2 = p2
  Market = {}
  Price = {p1, p2}
  NoPrice = NoPrice
  Order = {o1}
  QMax = 1
  MaxWorkers = 2
SPECIFICATION FairSpec
INVARIANT GateCoversDrop
PROPERTIES DoneIsBooked AcksAreServed
