SPECIFICATION MindsSpec
CONSTANTS
  Others = {x}
  Every = 4
  MinGap = 3
  Gaps = {1, 2}
  MaxCycles = 1
  RingSize = 2
  MaxViolent = 2
  Replies <- MCReplies
  People = {1, 2, 3}
  RegisterCap = 2
  ReflectiveEvery = 3
  MaxGoals = 2
  Views <- MCViews
  Scenes <- MCScenes
  Planned <- MCPlanned
INVARIANT NoVerbDropped
CHECK_DEADLOCK FALSE
