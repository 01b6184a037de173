SPECIFICATION ConnectionSpec
CONSTANTS
  Agents = {a1, a2}
  Conns = {c1, c2}
  Loaded = {b}
  Fresh = {f, g}
  Nobody = Nobody
  Callers = {brain, other}
  Loop = brain
  InboxSize = 2
  MaxBatch = 2
  Defects = {"unknown_sound", "unknown_phase"}
  MaxObs = 3
  MaxActions = 2
INVARIANTS SessionSafe ClientSafe
PROPERTIES FreshOnYield NobodyHangs
CHECK_DEADLOCK FALSE
