CONSTANTS
  m1 = m1
  m2 = m2
  Market = {m1, m2}
  Caps = {1, 2}
  MaxAI = 2
  CashLevel = {60}
  Manual = {0, 40}
  OrdersCross = FALSE
  Kind = {"CONFIRMED", "MOMENTUM_BREAKOUT", "SHAKEOUT_SWEEP", "SWING"}
  Direct = TRUE
  Promising = 50
  Enforced = TRUE
  Slots = 6
  MaxShare = 20
  Ceiling = 2
  Exposure = 90
  SwingCap = 1
  ListingCap = 1
SYMMETRY Symmetry
SPECIFICATION Spec
INVARIANTS HeldAreVisited SlotIsTaken  
PROPERTIES OwnSignalInRiskOff ShockIsDefensive
