SPECIFICATION Spec
CONSTANTS
  COLUMNS = 24
  PAGES = 3
  WORD = 65536
  Calls <- Drawings
  OLED_F8X16 <- F8X16
  OLED_F6x8 <- F6x8
  OLED_Hzk <- Hzk
  Screens <- Dirty
  Interrupted <- Killed
  MaxCalls = 3
  MaxKills = 2
INVARIANTS TypeOK Drawn Recovered
PROPERTY IsDisplay
CHECK_DEADLOCK FALSE
