SPECIFICATION UnwatchedSpec
CONSTANTS
  Over = over
  Agents = {a, b}
  Rooms = {r, s}
  Watched = {}
  MaxGen = 2
  MaxQueue = 1
  Actions <- TwoEach
INVARIANTS HubSafe OneRequestInFlight
PROPERTIES BodiesMoveThroughDoors
SYMMETRY Interchangeable
