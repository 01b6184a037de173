SPECIFICATION RunSpec
CONSTANTS
  Loaded = {}
  Fresh = {a, b, c}
  MaxContracts = 2
  MaxDeals = 3
  Manipulators = {a}
  Actors = {"p", "q", "r"}
  Endowment <- Purses
  Health = 2
  MaxDeeds = 3
INVARIANTS LedgerSafe ScoreIsTrue
PROPERTIES LedgersOnlyAdvance
SYMMETRY Interchangeable
CHECK_DEADLOCK FALSE
