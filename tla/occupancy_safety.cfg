SPECIFICATION CorridorSpec
CONSTANTS
  Ids = {a1, a2, rock}
  Objects = {rock}
  Loaded = {a1, rock}
  Walkable <- Long
  Doors <- NoDoor
  Verbs <- Inside
  HalfWalk = 2
  FullWalk = 3
  MaxTimer = 1
  Radius = 8
  NoOne = NoOne
INVARIANTS TypeOK OwnTile NoOverlap
PROPERTIES NoTeleport PacedWalk
CHECK_DEADLOCK FALSE
