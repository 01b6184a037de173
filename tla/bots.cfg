SPECIFICATION BotsSpec
CONSTANTS
  x = x
  y = y
  Others <- MCOthers
  Observations <- MCObservations
  ClearTicks = 5
  GrudgeTTL = 3
  WaitDeadline = 4
  ChatPeriod = 2
  FleeClear = 3
  Width = 3
  Height = 3
  Rooms <- MCRooms
  Starts <- MCStarts
  Vision = 2
  Bounds <- MCBounds
INVARIANTS BotsSafe WalkSafe
PROPERTIES BotsGoOn
CHECK_DEADLOCK FALSE
