CONSTANTS
  N = 7
  Operators = {"ann"}
  Signals = TRUE
  EarlyKill = FALSE
  SaveMayFail = TRUE
  SlotChoices <- MCChoices
SPECIFICATION SettingsSpec
INVARIANTS  StopIsFinal Findable StaleIsReported
PROPERTIES Recovers
