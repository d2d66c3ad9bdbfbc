CONSTANTS
  OpenPages <- EveryPage
  MaxPresses = 2
  MaxTroubles = 1
SPECIFICATION BrowserSpec
INVARIANT
  WritesAreShown
  NoDeadButton
  RolesCanWork
  
CHECK_DEADLOCK FALSE
