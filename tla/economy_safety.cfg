SPECIFICATION Spec
CONSTANTS
  Agents = {a, b, c}
  Things = {t, u, v}
  Slots = {weapon, shield}
  NoThing = NoThing
  MaxSlots = 2
  Denoms <- Coins
  StartingGold = 2
  WorkPayment = 1
  FoodPrice = 2
  Yields = {1, 2}
  Damages = {0, 1, 3}
  MaxHP = 2
  HungerDamage = 1
  RespawnCap = 2
  MaxWealth = 6
INVARIANTS WithinBounds MoneyAddsUp ThingsInOnePlace NoWalkingDead
PROPERTIES ThingsAreKept
SYMMETRY Interchangeable
CHECK_DEADLOCK FALSE
