CONSTANTS
  Mode = {"SCALP"}
  NoMode = NoMode
  AdoptedMode = "SCALP"
  Hard <- MinusOne
  Stop <- MinusOne
  Top = 1
  BreakevenLine = 0
  AutoBreakeven = 1
  Tp1 = 1
  Tp2 = 2
  Start = 1
  Defence = 1
  Drop = 1
  Gap = 1
  Buffer = 0
  MaxAge = 0
  Lots = 2
  Hits = 2
  MaxCrashes = 0
SPECIFICATION FairSpec
PROPERTIES StopWorks
