CONSTANTS
  Market = {m1}

  None = None
  NoDay = NoDay
  DayLength = 4
  MaxNow = 6
  StopPause = 2
  TimePause = 1
  ProfitPause = 1
  ListingPause = 2
  LimitPause = 3
  Retain = 2
  KnifeExtra = 1
  MaxLosses = 2
  MaxCount = 3
  Equities = {0, 2, 40}
  Unrealized <- OpenResults
  MinStart = 5
  LossUnits = 20
  MaxTrades = 3
  Reasons = {"stop", "time", "profit"}
  MayReset = TRUE
  MaxCrashes = 1
SPECIFICATION Spec
INVARIANTS RestartKeepsCooldowns LossesAreKept ExitsAreCounted
PROPERTIES NoBuyInPause KillSwitchHolds TwoLossesBlock
