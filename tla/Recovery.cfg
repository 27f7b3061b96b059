CONSTANTS
  o1 = o1
  o2 = o2
  m1 = m1
  Order = {o1}
  None = None
  Buys = {o1}
  PartialExits = {}
  NoBasis = {}
  Market = {m1}
  MarketOf <- OneMarket
  Lots = 2
  Submitters = {s1}
  CycleThreads = {c1}
  FastThreads = {f1}
  LockHolders = {s1}
  TickThreads = {}
  SwallowErrors = FALSE
  GatewayErrors = TRUE
  SaveMayFail = FALSE
  MaxEvents = 2
  MaxBooked = 3
  MaxCrashes = 1
SPECIFICATION Spec
INVARIANTS FilledIsBooked IntentIsDurable
PROPERTY TerminalIsFinal
