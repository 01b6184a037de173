SPECIFICATION Spec
CONSTANTS
  Slots <- Pair
  Bodies <- Three
  NoBody = 0
  Llm <- OneLlm
  Agents <- Three
  NoAgent = 0
  MaxLines = 3
  MaxTick = 3
  Cadence <- Cadences
  CapAgent = 1
  CapGlobal = 2
  MaxQwen = 1
  MaxClaude = 1
  IdleExit = TRUE
  Procs = {batch, user}
  NoOwner = NoOwner
  Batches = {batch}
  MaxRun = 2
  MaxTurns <- Turns
  StudyRuns = 3
  Threads = {t1, t2}
  NoThread = NoThread
  Costs = {1, 3}
  Tripwires = {2, 4}
  MaxTotal = 5
  MaxResets = 1
INVARIANTS NarratorSafe LauncherSafe ResearchSafe StudySafe SpendSafe
PROPERTIES RecordsAreTrue EndsForGood
CHECK_DEADLOCK FALSE

