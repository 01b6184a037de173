------------------------------ MODULE Economy ------------------------------
(***************************************************************************)
(* Gold, things and lives: the verbs of the systems money, trade,          *)
(* inventory, resources and combat, with what the tick does for vitals and *)
(* respawn (engine/internal/systems).                                      *)
(*                                                                         *)
(* Every verb and every tick runs under the lock of the overworld, so a    *)
(* step is one of them; what makes them hard is their order.  Where bodies *)
(* stand is left out: a verb whose target is too far does nothing.  A      *)
(* thing is an item that is no money; it keeps its name here as the code   *)
(* renames it at every pickup and drop, and cooking, which replaces a      *)
(* thing by another in its place, changes nothing here.                    *)
(***************************************************************************)
EXTENDS Integers, Sequences, FiniteSets, Functions

CONSTANTS
  Agents,         \* names of bodies, and
  Things,         \* of things: each is free again when its bearer is gone
  Slots,          \* what a thing can be equipped as
  NoThing,        \* an empty slot
  MaxSlots,       \* DefaultMaxSlots, maxInventorySlots
  Denoms,         \* values of the coin piles a death leaves, largest first
  StartingGold, WorkPayment, FoodPrice, Yields, Damages, MaxHP,
  HungerDamage,   \* hunger_damage_rate
  RespawnCap,     \* items on the ground that stop the respawn
  MaxWealth       \* bound of the model: no gold is made above it

ASSUME EconomyConstants ==
  /\ IsFiniteSet(Agents) /\ IsFiniteSet(Things) /\ NoThing \notin Things
  /\ MaxSlots \in Nat /\ StartingGold \in Nat /\ WorkPayment \in Nat
  /\ FoodPrice \in Nat /\ Damages \subseteq Nat /\ MaxHP \in Nat \ {0}
  /\ HungerDamage \in Nat \ {0}
  /\ Yields \subseteq Nat \ {0} /\ RespawnCap \in Nat /\ MaxWealth \in Nat
  /\ Denoms \in Seq(Nat \ {0}) /\ Denoms # <<>> /\ Denoms[Len(Denoms)] = 1

Piles == DOMAIN Denoms

VARIABLES
  bodies,     \* the agent bodies in the world
  gold, hp,   \* extras of each body
  inv,        \* extras.inventory
  eq,         \* extras.equipped
  ground,     \* things that lie on the map
  piles,      \* how many coin piles of each denomination lie there
  due,        \* history: starting gold + wages + respawned coins - meals - what left
  book,       \* history: what the events tell of each body's gold
  left        \* history: bodies that were removed as their agent hung up

vars == <<bodies, gold, hp, inv, eq, ground, piles, due, book, left>>

Empty == [s \in Slots |-> NoThing]
Worn(a) == {eq[a][s] : s \in Slots} \ {NoThing}
Present == ground \cup UNION {inv[a] \cup Worn(a) : a \in Agents}

TypeOK ==
  /\ bodies \subseteq Agents /\ left \subseteq Agents \ bodies
  /\ gold \in [Agents -> Nat] /\ hp \in [Agents -> 0..MaxHP]
  /\ inv \in [Agents -> SUBSET Things]
  /\ eq \in [Agents -> [Slots -> Things \cup {NoThing}]]
  /\ ground \subseteq Things /\ piles \in [Piles -> Nat]
  /\ due \in Nat /\ book \in [Agents -> Int]

Init ==
  /\ bodies = {} /\ left = {}
  /\ gold = [a \in Agents |-> 0] /\ hp = [a \in Agents |-> 0]
  /\ inv = [a \in Agents |-> {}] /\ eq = [a \in Agents |-> Empty]
  /\ ground = {} /\ piles = [p \in Piles |-> 0]
  /\ due = 0 /\ book = [a \in Agents |-> 0]

-----------------------------------------------------------------------------
(* Bodies *)

(* The seedSpawn of each system.                                           *)
Spawn(a) ==
  /\ a \notin bodies
  /\ due + StartingGold <= MaxWealth
  /\ bodies' = bodies \cup {a}
  /\ gold' = [gold EXCEPT ![a] = StartingGold]
  /\ book' = [book EXCEPT ![a] = StartingGold]
  /\ hp' = [hp EXCEPT ![a] = MaxHP]
  /\ due' = due + StartingGold /\ left' = left \ {a}
  /\ UNCHANGED <<inv, eq, ground, piles>>

(* A body is removed with all it has when its agent hangs up.              *)
Leave(a) ==
  /\ a \in bodies /\ bodies' = bodies \ {a} /\ left' = left \cup {a}
  /\ due' = due - gold[a]
  /\ gold' = [gold EXCEPT ![a] = 0] /\ hp' = [hp EXCEPT ![a] = 0]
  /\ inv' = [inv EXCEPT ![a] = {}] /\ eq' = [eq EXCEPT ![a] = Empty]
  /\ book' = [book EXCEPT ![a] = 0]
  /\ UNCHANGED <<ground, piles>>

-----------------------------------------------------------------------------
(* Money *)

(* service.Pay, and the event it queues.                                   *)
Pay(from, to, n) ==
  /\ gold[from] >= n
  /\ gold' = [gold EXCEPT ![from] = @ - n, ![to] = @ + n]
  /\ book' = [book EXCEPT ![from] = @ - n, ![to] = @ + n]

(* service.Grant.                                                          *)
Grant(a, n) ==
  gold' = [gold EXCEPT ![a] = @ + n] /\ book' = [book EXCEPT ![a] = @ + n]

HandlePay(a, b, n) ==
  /\ {a, b} \subseteq bodies /\ a # b /\ n > 0 /\ Pay(a, b, n)
  /\ UNCHANGED <<bodies, hp, inv, eq, ground, piles, due, left>>

Work(a) ==
  /\ a \in bodies /\ due + WorkPayment <= MaxWealth
  /\ Grant(a, WorkPayment) /\ due' = due + WorkPayment
  /\ UNCHANGED <<bodies, hp, inv, eq, ground, piles, left>>

BuyFood(a) ==
  /\ a \in bodies /\ gold[a] >= FoodPrice
  /\ gold' = [gold EXCEPT ![a] = @ - FoodPrice]
  /\ book' = [book EXCEPT ![a] = @ - FoodPrice]
  /\ due' = due - FoodPrice
  /\ UNCHANGED <<bodies, hp, inv, eq, ground, piles, left>>

-----------------------------------------------------------------------------
(* Things *)

Carried(a) == Cardinality(inv[a])

(* Mutant: the cap of the buyer is not looked at.                          *)
TradeUncapped(a, b, t, n) ==
  /\ {a, b} \subseteq bodies /\ a # b /\ t \in inv[a]
  /\ Pay(b, a, n)
  /\ inv' = [inv EXCEPT ![a] = @ \ {t}, ![b] = @ \cup {t}]
  /\ UNCHANGED <<bodies, hp, eq, ground, piles, due, left>>

(* b pays n for t of a.                                                    *)
Trade(a, b, t, n) ==
  /\ {a, b} \subseteq bodies /\ a # b /\ t \in inv[a]
  /\ Carried(b) < MaxSlots
  /\ Pay(b, a, n)
  /\ inv' = [inv EXCEPT ![a] = @ \ {t}, ![b] = @ \cup {t}]
  /\ UNCHANGED <<bodies, hp, eq, ground, piles, due, left>>

Give(a, b, t) ==
  /\ {a, b} \subseteq bodies /\ a # b /\ t \in inv[a]
  /\ Carried(b) < MaxSlots
  /\ inv' = [inv EXCEPT ![a] = @ \ {t}, ![b] = @ \cup {t}]
  /\ UNCHANGED <<bodies, gold, hp, eq, ground, piles, due, book, left>>

Pickup(a, t) ==
  /\ a \in bodies /\ t \in ground /\ Carried(a) < MaxSlots
  /\ ground' = ground \ {t} /\ inv' = [inv EXCEPT ![a] = @ \cup {t}]
  /\ UNCHANGED <<bodies, gold, hp, eq, piles, due, book, left>>

(* A coin pile turns into gold and takes no slot.                          *)
PickupCoins(a, p) ==
  /\ a \in bodies /\ piles[p] > 0
  /\ Grant(a, Denoms[p]) /\ piles' = [piles EXCEPT ![p] = @ - 1]
  /\ UNCHANGED <<bodies, hp, inv, eq, ground, due, left>>

DropThing(a, t) ==
  /\ a \in bodies /\ t \in inv[a]
  /\ inv' = [inv EXCEPT ![a] = @ \ {t}] /\ ground' = ground \cup {t}
  /\ UNCHANGED <<bodies, gold, hp, eq, piles, due, book, left>>

(* Mutant: the thing stays in the inventory too.                           *)
EquipCopy(a, t, s) ==
  /\ a \in bodies /\ t \in inv[a]
  /\ eq' = [eq EXCEPT ![a][s] = t]
  /\ inv' = [inv EXCEPT ![a] = @ \cup ({eq[a][s]} \ {NoThing})]
  /\ UNCHANGED <<bodies, gold, hp, ground, piles, due, book, left>>

(* A thing moves to its slot, and what was there to the inventory.         *)
Equip(a, t, s) ==
  /\ a \in bodies /\ t \in inv[a]
  /\ eq' = [eq EXCEPT ![a][s] = t]
  /\ inv' = [inv EXCEPT ![a] = (@ \ {t}) \cup ({eq[a][s]} \ {NoThing})]
  /\ UNCHANGED <<bodies, gold, hp, ground, piles, due, book, left>>

Eat(a, t) ==
  /\ a \in bodies /\ t \in inv[a] /\ inv' = [inv EXCEPT ![a] = @ \ {t}]
  /\ UNCHANGED <<bodies, gold, hp, eq, ground, piles, due, book, left>>

(* chop, mine (all a source yields, or nothing) and forage (one thing).    *)
Gather(a, S) ==
  /\ a \in bodies /\ S \cap Present = {} /\ Cardinality(S) \in Yields
  /\ Carried(a) + Cardinality(S) <= MaxSlots
  /\ inv' = [inv EXCEPT ![a] = @ \cup S]
  /\ UNCHANGED <<bodies, gold, hp, eq, ground, piles, due, book, left>>

Lying == Cardinality(ground) + SumFunction(piles)

(* respawn.tick, one item of its batch.                                    *)
RespawnThing(t) ==
  /\ Lying < RespawnCap /\ t \notin Present /\ ground' = ground \cup {t}
  /\ UNCHANGED <<bodies, gold, hp, inv, eq, piles, due, book, left>>

RespawnCoins(p) ==
  /\ Lying < RespawnCap /\ due + Denoms[p] <= MaxWealth
  /\ piles' = [piles EXCEPT ![p] = @ + 1] /\ due' = due + Denoms[p]
  /\ UNCHANGED <<bodies, gold, hp, inv, eq, ground, book, left>>

-----------------------------------------------------------------------------
(* Lives *)

(* goldDropDenoms: as many of each pile, from the largest, as fit in what  *)
(* is left.                                                                *)
Rest(n) ==
  LET rest[p \in {0} \cup Piles] == IF p = 0 THEN n ELSE rest[p - 1] % Denoms[p]
  IN  rest

(* Mutant: one pile of each denomination at most.                          *)
DropDenomsOnce(n) ==
  [p \in Piles |-> IF Rest(n)[p - 1] >= Denoms[p] THEN 1 ELSE 0]

DropDenoms(n) == [p \in Piles |-> Rest(n)[p - 1] \div Denoms[p]]

(* Mutant: what a body wears goes with it.                                 *)
DieWearing(a) ==
  /\ bodies' = bodies \ {a} /\ hp' = [hp EXCEPT ![a] = 0]
  /\ ground' = ground \cup inv[a]
  /\ piles' = [p \in Piles |-> piles[p] + DropDenoms(gold[a])[p]]
  /\ inv' = [inv EXCEPT ![a] = {}] /\ eq' = [eq EXCEPT ![a] = Empty]
  /\ gold' = [gold EXCEPT ![a] = 0] /\ book' = [book EXCEPT ![a] = 0]

(* A body that dies drops what it carries and wears, and its gold, and is  *)
(* removed.                                                                *)
Die(a) ==
  /\ bodies' = bodies \ {a} /\ hp' = [hp EXCEPT ![a] = 0]
  /\ ground' = ground \cup inv[a] \cup Worn(a)
  /\ piles' = [p \in Piles |-> piles[p] + DropDenoms(gold[a])[p]]
  /\ inv' = [inv EXCEPT ![a] = {}] /\ eq' = [eq EXCEPT ![a] = Empty]
  /\ gold' = [gold EXCEPT ![a] = 0] /\ book' = [book EXCEPT ![a] = 0]

(* service.DealDamage.                                                     *)
DealDamage(a, n) ==
  /\ IF hp[a] > 0 /\ hp[a] <= n
       THEN Die(a)
       ELSE /\ hp' = [hp EXCEPT ![a] = IF @ > n THEN @ - n ELSE 0]
            /\ UNCHANGED <<bodies, gold, inv, eq, ground, piles, book>>
  /\ UNCHANGED <<due, left>>

(* The blow of another, by its weapon and the guard of the one it hits.    *)
Attack(a, b, n) == {a, b} \subseteq bodies /\ a # b /\ DealDamage(b, n)

(* Mutant: hunger takes the last point and leaves the body.                *)
StarveUndead(a) ==
  /\ a \in bodies /\ hp[a] >= HungerDamage
  /\ hp' = [hp EXCEPT ![a] = @ - HungerDamage]
  /\ UNCHANGED <<bodies, gold, inv, eq, ground, piles, due, book, left>>

(* vitals.tickHunger for a starving body; who has no more than that dies.   *)
Starve(a) ==
  /\ a \in bodies /\ hp[a] > 0
  /\ IF hp[a] <= HungerDamage
       THEN DealDamage(a, hp[a])
       ELSE /\ hp' = [hp EXCEPT ![a] = @ - HungerDamage]
            /\ UNCHANGED <<bodies, gold, inv, eq, ground, piles, due, book, left>>

(* combat.handleHeal (of oneself or another) and tickRegen, which add some *)
(* up to max_hp.                                                           *)
Heal(a) ==
  /\ a \in bodies /\ hp[a] > 0
  /\ \E h \in hp[a]..MaxHP : hp' = [hp EXCEPT ![a] = h]
  /\ UNCHANGED <<bodies, gold, inv, eq, ground, piles, due, book, left>>

-----------------------------------------------------------------------------
Next ==
  \/ \E a \in Agents :
       \/ Spawn(a) \/ Leave(a) \/ Work(a) \/ BuyFood(a) \/ Starve(a) \/ Heal(a)
       \/ \E p \in Piles : PickupCoins(a, p)
       \/ \E S \in SUBSET Things : Gather(a, S)
       \/ \E t \in Things :
            \/ Pickup(a, t) \/ DropThing(a, t) \/ Eat(a, t)
            \/ \E s \in Slots : Equip(a, t, s)
       \/ \E b \in Agents :
            \/ \E n \in Damages : Attack(a, b, n)
            \/ \E n \in 1..MaxWealth : HandlePay(a, b, n)
            \/ \E t \in Things :
                 Give(a, b, t) \/ \E n \in 0..MaxWealth : Trade(a, b, t, n)
  \/ \E t \in Things : RespawnThing(t)
  \/ \E p \in Piles : RespawnCoins(p)

Spec == Init /\ [][Next]_vars

-----------------------------------------------------------------------------
(* Properties *)

(* Gold is made by spawns, wages and respawned coins and unmade by meals   *)
(* and departures, and by nothing else: payments, sales, deaths and the    *)
(* coins a death leaves keep the sum (combat.go: "so gold conservation     *)
(* holds").                                                                *)
GoldConserved ==
  SumFunction(gold) + SumFunction([p \in Piles |-> piles[p] * Denoms[p]]) = due

(* The events tell what each body has: gold never changes hands without    *)
(* one (money.go: GoldTransferred, GoldSpent, which the economy metrics    *)
(* are computed from).                                                     *)
BooksBalance == \A a \in bodies : gold[a] = book[a]

(* A thing is in one place: on the ground, in one inventory or in one slot *)
(* of one body, so that no death drops it twice (inventory.go: "the two    *)
(* collections are DISJOINT").                                             *)
ThingsInOnePlace ==
  /\ \A a \in Agents :
       /\ (inv[a] \cup Worn(a)) \cap ground = {}
       /\ inv[a] \cap Worn(a) = {}
       /\ \A s, r \in Slots : eq[a][s] = eq[a][r] /\ eq[a][s] # NoThing => s = r
       /\ \A b \in Agents \ {a} :
            (inv[a] \cup Worn(a)) \cap (inv[b] \cup Worn(b)) = {}
  /\ \A a \in Agents \ bodies : inv[a] = {} /\ Worn(a) = {}

(* No order of harvests, purchases, gifts, pickups and changes of weapon   *)
(* fills an inventory beyond its slots (inventory.go: DefaultMaxSlots).    *)
InventoryCapped == \A a \in Agents : Carried(a) <= MaxSlots

(* Who is in the world is alive: no body is left at no hp, to be fed,      *)
(* traded with or looted (combat.go: "corpses were NEVER removed"; the     *)
(* verb loot, which asks for a target without hp, can therefore do         *)
(* nothing).                                                               *)
NoWalkingDead == \A a \in Agents : a \in bodies <=> hp[a] > 0

(* A thing that is in the world stays in it, unless the one that carries   *)
(* it eats it or hangs up with it: death, sale, change of weapon lose none.*)
ThingsAreKept ==
  [][\A t \in Present \ Present' :
       \E a \in bodies :
         \/ a \in left' /\ t \in inv[a] \cup Worn(a)
         \/ a \in bodies' /\ t \in inv[a] /\ inv'[a] = inv[a] \ {t}]_vars

(* Gold is neither made nor lost but by the transfers that are booked.     *)
MoneyAddsUp == GoldConserved /\ BooksBalance

(* Nobody has more, of anything, than there is room for.                   *)
WithinBounds == TypeOK /\ InventoryCapped
=============================================================================
