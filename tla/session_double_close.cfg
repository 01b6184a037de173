SPECIFICATION Spec
CONSTANTS
  Agents = {a1}
  Conns = {c1, c2}
  Loaded = {b}
  Fresh = {f}
  Nobody = Nobody
INVARIANTS DoneClosedOnce
CHECK_DEADLOCK FALSE
