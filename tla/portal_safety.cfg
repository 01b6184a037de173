SPECIFICATION PortalSpec
CONSTANTS
  Ids = {a1, a2}
  Objects = {}
  Loaded = {a1, a2}
  Walkable <- Strip
  Doors <- Door
  Verbs <- Inside
  HalfWalk = 1
  FullWalk = 2
  MaxTimer = 1
  Radius = 8
  NoOne = NoOne
SYMMETRY Interchangeable
INVARIANTS PortalTypeOK
PROPERTIES LoopKeepsClaims NoTeleportByPortal
