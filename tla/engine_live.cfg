SPECIFICATION EngineSpec
CONSTANTS
  Ids = {a1, a2}
  Objects = {}
  Loaded = {a1, a2}
  Walkable <- Porch
  Doors <- Door
  Verbs <- AllVerbs
  HalfWalk = 1
  FullWalk = 2
  MaxTimer = 1
  Radius = 8
  NoOne = NoOne
  Over = over
  Agents = {a}
  Rooms = {r}
  Watched = {a}
  MaxGen = 2
  MaxQueue = 2
  Actions <- ThreeEach
PROPERTIES MovesEnd AnsweredUnlessUnloaded TheGoneAreCut
CHECK_DEADLOCK FALSE
