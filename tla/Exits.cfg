CONSTANTS
  o1 = o1
  o2 = o2
  m1 = m1
  Order = {o1, o2}
  None = None
  Buys = {}
  PartialExits = {o2}
  NoBasis = {}
  Market = {m1}
  MarketOf <- OneMarket
  Lots = 1
  Submitters = {s1, s2}
  CycleThreads = {c1}
  FastThreads = {}
  LockHolders = {s1, s2}
  TickThreads = {s1}
  SwallowErrors = FALSE
  GatewayErrors = FALSE
  SaveMayFail = FALSE
  MaxEvents = 1
  MaxBooked = 2
  MaxCrashes = 1
SPECIFICATION FairSpec
INVARIANTS  OneLiveExit
PROPERTIES ClosedOrderSettles GateReopens
