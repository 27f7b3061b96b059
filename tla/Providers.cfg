CONSTANTS
  Exchanges = {"upbit", "bithumb"}
  Order <- Lites
  Limit = 3
  Normal = 1
  Emergency = 2
  Day = 2
  MaxAI = 2
SPECIFICATION FairSpec
 
PROPERTIES NewDayReopens LatchReopens
