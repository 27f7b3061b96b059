CONSTANTS
  o1 = o1
  o2 = o2
  m1 = m1
  Order = {o1}
  None = None
  Buys = {}
  PartialExits = {}
  NoBasis = {}
  Market = {m1}
  MarketOf <- OneMarket
  Lots = 3
  Submitters = {s1}
  CycleThreads = {c1}
  FastThreads = {}
  LockHolders = {s1}
  TickThreads = {}
  SwallowErrors = FALSE
  GatewayErrors = TRUE
  SaveMayFail = FALSE
  MaxEvents = 2
  MaxBooked = 4
  MaxCrashes = 0
SPECIFICATION Spec
INVARIANT ClearedOnlyWhenSold
 
