CONSTANTS
  Mode = {"SCALP"}
  NoMode = NoMode
  AdoptedMode = "SCALP"
  Hard <- MinusOne
  Stop <- MinusOne
  Top = 2
  BreakevenLine = 0
  AutoBreakeven = 1
  Tp1 = 1
  Tp2 = 2
  Start = 1
  Defence = 1
  Drop = 1
  Gap = 1
  Buffer = 0
  MaxAge = 1
  Lots = 3
  Hits = 1
  MaxCrashes = 1
SPECIFICATION Spec
INVARIANTS SoldIsMarked OneSeller
PROPERTIES  ProtectionKept
