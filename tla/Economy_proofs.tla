--------------------------- MODULE Economy_proofs ---------------------------
(***************************************************************************)
(* For any bodies, things, slots, prices and weapons: a thing is in one    *)
(* place and is not lost, who is in the world is alive, gold adds up and   *)
(* inventories stay within their slots.                                    *)
(***************************************************************************)
EXTENDS Economy, FiniteSetTheorems, WellFoundedInduction, TLAPS

(* What the two invariants need to know of the types; what gold there is   *)
(* does not matter to them.                                                *)
Shape ==
  /\ bodies \subseteq Agents /\ ground \subseteq Things
  /\ hp \in [Agents -> 0..MaxHP]
  /\ inv \in [Agents -> SUBSET Things]
  /\ eq \in [Agents -> [Slots -> Things \cup {NoThing}]]

IInv == Shape /\ ThingsInOnePlace /\ NoWalkingDead

LEMMA Start == Init => IInv
  <1> SUFFICES ASSUME Init PROVE IInv
    OBVIOUS
  <1>1. Shape
    BY EconomyConstants DEF EconomyConstants, Init, Shape, Empty
  <1>2. \A a \in Agents : inv[a] = {} /\ Worn(a) = {}
    BY DEF Init, Worn, Empty
  <1>3. ThingsInOnePlace
    BY <1>2 DEF ThingsInOnePlace, Init, Empty
  <1>4. NoWalkingDead
    BY DEF NoWalkingDead, Init
  <1> QED BY <1>1, <1>3, <1>4 DEF IInv

(* Steps that move no thing.                                               *)
LEMMA NothingMoves ==
  ASSUME IInv, UNCHANGED <<inv, eq, ground>>, bodies \subseteq bodies', bodies' \subseteq Agents,
         hp' \in [Agents -> 0..MaxHP], \A a \in Agents : a \in bodies' <=> hp'[a] > 0
  PROVE  IInv'
  <1>1. \A a \in Agents : Worn(a)' = Worn(a)
    BY DEF Worn
  <1>2. ThingsInOnePlace'
    BY <1>1 DEF IInv, ThingsInOnePlace
  <1> QED BY <1>2 DEF IInv, Shape, NoWalkingDead

(* Steps of inventories and the ground.                                    *)
LEMMA InventoriesMove ==
  ASSUME IInv, UNCHANGED <<eq, bodies, hp>>, ground' \subseteq Things,
         inv' \in [Agents -> SUBSET Things],
         \A a \in Agents \ bodies : inv'[a] = {},
         \A a \in Agents : inv'[a] \cap ground' = {},
         \A a \in Agents : Worn(a) \cap ground' = {},
         \A a, b \in Agents : a # b => inv'[a] \cap inv'[b] = {},
         \A a, b \in Agents : inv'[a] \cap Worn(b) = {}
  PROVE  IInv'
  <1>1. \A a \in Agents : Worn(a)' = Worn(a)
    BY DEF Worn
  <1>2. \A a, b \in Agents : a # b => Worn(a) \cap Worn(b) = {}
    BY DEF IInv, ThingsInOnePlace
  <1>3. ThingsInOnePlace'
    BY <1>1, <1>2 DEF IInv, ThingsInOnePlace
  <1> QED BY <1>3 DEF IInv, Shape, NoWalkingDead

(* Steps that take a body away, with or without its things.                *)
LEMMA BodiesGo ==
  ASSUME IInv, NEW a \in bodies,
         bodies' = bodies \ {a}, hp' = [hp EXCEPT ![a] = 0],
         inv' = [inv EXCEPT ![a] = {}], eq' = [eq EXCEPT ![a] = Empty],
         ground \subseteq ground', ground' \subseteq ground \cup inv[a] \cup Worn(a)
  PROVE  IInv'
  <1> USE DEF IInv
  <1>1. a \in Agents
    BY DEF Shape
  <1>2. Worn(a)' = {} /\ \A b \in Agents \ {a} : Worn(b)' = Worn(b)
    BY <1>1 DEF Worn, Empty, Shape
  <1>3. inv'[a] = {} /\ \A b \in Agents \ {a} : inv'[b] = inv[b] /\ eq'[b] = eq[b]
    BY <1>1 DEF Shape
  <1>4. Worn(a) \subseteq Things
    BY <1>1 DEF Worn, Shape
  <1>5. Shape'
    <2>1. bodies' \subseteq Agents /\ ground' \subseteq Things
      BY <1>1, <1>4 DEF Shape
    <2>2. hp' \in [Agents -> 0..MaxHP]
      BY EconomyConstants DEF EconomyConstants, Shape
    <2>3. Empty \in [Slots -> Things \cup {NoThing}]
      BY DEF Empty
    <2> QED BY <2>1, <2>2, <2>3 DEF Shape
  <1>6. \A b \in Agents : (inv'[b] \cup Worn(b)') \cap ground' = {}
    BY <1>1, <1>2, <1>3 DEF ThingsInOnePlace
  <1>7. \A s, r \in Slots : eq'[a][s] = eq'[a][r] /\ eq'[a][s] # NoThing => s = r
    BY <1>1 DEF Empty, Shape
  <1>8. ThingsInOnePlace'
    BY <1>1, <1>2, <1>3, <1>6, <1>7 DEF ThingsInOnePlace
  <1>9. NoWalkingDead'
    BY <1>1 DEF NoWalkingDead, Shape
  <1> QED BY <1>5, <1>8, <1>9

(* A thing that is equipped leaves the inventory, and the one it displaces *)
(* comes back to it: each had one place, and each has one.                 *)
LEMMA EquipMoves ==
  ASSUME IInv, NEW a \in Agents, NEW t \in Things, NEW s \in Slots, Equip(a, t, s)
  PROVE  IInv'
  <1> USE DEF IInv
  <1>1. a \in bodies /\ t \in inv[a] /\ UNCHANGED <<bodies, hp, ground>>
    BY DEF Equip
  <1>2. t # NoThing
    BY EconomyConstants DEF EconomyConstants
  <1>3. /\ eq'[a][s] = t
        /\ \A r \in Slots \ {s} : eq'[a][r] = eq[a][r]
        /\ \A b \in Agents \ {a} : eq'[b] = eq[b]
    BY DEF Equip, Shape
  <1>4. /\ inv'[a] = (inv[a] \ {t}) \cup ({eq[a][s]} \ {NoThing})
        /\ \A b \in Agents \ {a} : inv'[b] = inv[b]
    BY DEF Equip, Shape
  <1>5. Shape'
    BY <1>1, EconomyConstants DEF EconomyConstants, Shape, Equip
  <1> DEFINE Others == {eq[a][r] : r \in Slots \ {s}} \ {NoThing}
  <1>6. {eq'[a][r] : r \in Slots} = {t} \cup {eq[a][r] : r \in Slots \ {s}}
    BY <1>3
  <1>7. Worn(a)' = {t} \cup Others
    BY <1>2, <1>6 DEF Worn
  <1>8. Worn(a) = Others \cup ({eq[a][s]} \ {NoThing})
    BY DEF Worn
  <1>9. inv[a] \cap Worn(a) = {} /\ eq[a][s] \notin Others /\ \A r \in Slots : eq[a][r] # t
    BY <1>1, <1>2 DEF ThingsInOnePlace, Worn
  <1> HIDE DEF Others
  <1>10. inv'[a] \cap Worn(a)' = {}
    BY <1>4, <1>7, <1>8, <1>9
  <1>11. inv'[a] \cup Worn(a)' = inv[a] \cup Worn(a)
    BY <1>1, <1>4, <1>7, <1>8
  <1>12. \A b \in Agents \ {a} : Worn(b)' = Worn(b) /\ inv'[b] = inv[b]
    BY <1>3, <1>4 DEF Worn
  <1>13. \A r, q \in Slots : eq'[a][r] = eq'[a][q] /\ eq'[a][r] # NoThing => r = q
    BY <1>3, <1>9 DEF ThingsInOnePlace
  <1>14. ThingsInOnePlace'
    <2>1. \A b \in Agents : (inv'[b] \cup Worn(b)') \cap ground' = {} /\ inv'[b] \cap Worn(b)' = {}
      BY <1>1, <1>10, <1>11, <1>12 DEF ThingsInOnePlace
    <2>2. \A b \in Agents : \A r, q \in Slots :
             eq'[b][r] = eq'[b][q] /\ eq'[b][r] # NoThing => r = q
      BY <1>3, <1>13 DEF ThingsInOnePlace
    <2>3. \A b, c \in Agents : b # c => (inv'[b] \cup Worn(b)') \cap (inv'[c] \cup Worn(c)') = {}
      BY <1>11, <1>12 DEF ThingsInOnePlace
    <2>4. \A b \in Agents \ bodies' : inv'[b] = {} /\ Worn(b)' = {}
      BY <1>1, <1>12 DEF ThingsInOnePlace
    <2> QED BY <2>1, <2>2, <2>3, <2>4 DEF ThingsInOnePlace
  <1>15. NoWalkingDead'
    BY <1>1 DEF NoWalkingDead
  <1> QED BY <1>5, <1>14, <1>15

(* Damage kills or leaves some hp.                                         *)
LEMMA DamageKillsOrNot ==
  ASSUME IInv, NEW a \in bodies, NEW n \in Nat, DealDamage(a, n)
  PROVE  IInv'
  <1>1. a \in Agents /\ hp[a] \in Nat /\ hp[a] > 0
    BY EconomyConstants DEF EconomyConstants, IInv, Shape, NoWalkingDead
  <1>2. CASE hp[a] <= n
    <2>1. Die(a)
      BY <1>1, <1>2 DEF DealDamage
    <2> QED BY <2>1, BodiesGo DEF Die
  <1>3. CASE ~ hp[a] <= n
    <2>1. /\ hp' = [hp EXCEPT ![a] = IF @ > n THEN @ - n ELSE 0]
          /\ UNCHANGED <<bodies, inv, eq, ground>>
      BY <1>1, <1>3 DEF DealDamage
    <2>2. hp'[a] = hp[a] - n /\ hp'[a] > 0 /\ hp'[a] \in 0..MaxHP
      BY <1>1, <1>3, <2>1, EconomyConstants DEF EconomyConstants, IInv, Shape
    <2>3. \A b \in Agents \ {a} : hp'[b] = hp[b]
      BY <2>1 DEF IInv, Shape
    <2>4. hp' \in [Agents -> 0..MaxHP]
      BY <2>1, <2>2, <2>3, <1>1 DEF IInv, Shape
    <2>5. \A b \in Agents : b \in bodies' <=> hp'[b] > 0
      BY <2>1, <2>2, <2>3 DEF IInv, NoWalkingDead
    <2> QED BY <2>1, <2>4, <2>5, NothingMoves DEF IInv, Shape
  <1> QED BY <1>2, <1>3

(* Each step keeps the invariant.                                          *)
LEMMA NextKeeps == IInv /\ [Next]_vars => IInv'
  <1> SUFFICES ASSUME IInv, [Next]_vars PROVE IInv'
    OBVIOUS
  <1>0. /\ bodies \subseteq Agents /\ ground \subseteq Things
        /\ hp \in [Agents -> 0..MaxHP] /\ inv \in [Agents -> SUBSET Things]
        /\ \A b \in Agents : b \in bodies <=> hp[b] > 0
        /\ \A b \in Agents : Worn(b) \subseteq Things
    BY DEF IInv, Shape, NoWalkingDead, Worn
  <1>apart. /\ \A b \in Agents : (inv[b] \cup Worn(b)) \cap ground = {}
            /\ \A b \in Agents : inv[b] \cap Worn(b) = {}
            /\ \A b, c \in Agents : b # c => (inv[b] \cup Worn(b)) \cap (inv[c] \cup Worn(c)) = {}
            /\ \A b \in Agents \ bodies : inv[b] = {}
    BY DEF IInv, ThingsInOnePlace
  <1>1. ASSUME NEW a \in Agents, Spawn(a) PROVE IInv'
    <2>1. hp' = [hp EXCEPT ![a] = MaxHP] /\ MaxHP \in 0..MaxHP /\ MaxHP > 0
      BY <1>1, EconomyConstants DEF EconomyConstants, Spawn
    <2>2. hp' \in [Agents -> 0..MaxHP] /\ \A b \in Agents : b \in bodies' <=> hp'[b] > 0
      BY <1>0, <1>1, <2>1 DEF Spawn
    <2> QED BY <1>0, <1>1, <2>2, NothingMoves DEF Spawn
  <1>2. ASSUME NEW a \in Agents, Leave(a) PROVE IInv'
    BY <1>2, BodiesGo DEF Leave
  <1>3. ASSUME NEW a \in Agents, Work(a) \/ BuyFood(a) \/ \E p \in Piles : PickupCoins(a, p)
        PROVE  IInv'
    <2>1. UNCHANGED <<inv, eq, ground, bodies, hp>>
      BY <1>3 DEF Work, BuyFood, PickupCoins
    <2> QED BY <1>0, <2>1, NothingMoves
  <1>4. ASSUME NEW a \in Agents, Starve(a) PROVE IInv'
    <2>1. CASE hp[a] <= HungerDamage
      <3>1. a \in bodies /\ hp[a] \in Nat /\ DealDamage(a, hp[a])
        BY <1>0, <1>4, <2>1, EconomyConstants DEF Starve, EconomyConstants
      <3> QED BY <3>1, DamageKillsOrNot
    <2>2. CASE ~ hp[a] <= HungerDamage
      <3>1. a \in bodies /\ hp[a] > HungerDamage /\ hp' = [hp EXCEPT ![a] = @ - HungerDamage]
            /\ UNCHANGED <<inv, eq, ground, bodies>>
        BY <1>0, <1>4, <2>2, EconomyConstants DEF Starve, EconomyConstants
      <3>2. hp' \in [Agents -> 0..MaxHP] /\ \A b \in Agents : b \in bodies' <=> hp'[b] > 0
        BY <1>0, <3>1, EconomyConstants DEF EconomyConstants
      <3> QED BY <1>0, <3>1, <3>2, NothingMoves
    <2> QED BY <2>1, <2>2
  <1>5. ASSUME NEW a \in Agents, Heal(a) PROVE IInv'
    <2>1. PICK h \in hp[a]..MaxHP : hp' = [hp EXCEPT ![a] = h]
      BY <1>5 DEF Heal
    <2>2. a \in bodies /\ h \in 0..MaxHP /\ h > 0
      BY <1>0, <1>5, EconomyConstants DEF Heal, EconomyConstants
    <2>3. hp' \in [Agents -> 0..MaxHP] /\ \A b \in Agents : b \in bodies' <=> hp'[b] > 0
      BY <1>0, <1>5, <2>1, <2>2 DEF Heal
    <2> QED BY <1>0, <1>5, <2>3, NothingMoves DEF Heal
  <1>6. ASSUME NEW a \in Agents, NEW S \in SUBSET Things, Gather(a, S) PROVE IInv'
    <2>1. S \cap ground = {} /\ \A b \in Agents : S \cap (inv[b] \cup Worn(b)) = {}
      BY <1>6 DEF Gather, Present
    <2>2. a \in bodies /\ inv' = [inv EXCEPT ![a] = @ \cup S]
          /\ UNCHANGED <<eq, bodies, hp, ground>>
      BY <1>6 DEF Gather
    <2>3. inv'[a] = inv[a] \cup S /\ \A b \in Agents \ {a} : inv'[b] = inv[b]
      BY <1>0, <2>2
    <2>4. inv' \in [Agents -> SUBSET Things]
      BY <1>0, <2>2
    <2>5. \A b, c \in Agents : b # c => inv'[b] \cap inv'[c] = {}
      BY <1>apart, <2>1, <2>3
    <2>6. \A b, c \in Agents : inv'[b] \cap Worn(c) = {}
      BY <1>apart, <2>1, <2>3
    <2>7. \A b \in Agents : inv'[b] \cap ground' = {} /\ Worn(b) \cap ground' = {}
      BY <1>apart, <2>1, <2>2, <2>3
    <2> QED BY <1>0, <1>apart, <2>2, <2>3, <2>4, <2>5, <2>6, <2>7, InventoriesMove
  <1>7. ASSUME NEW a \in Agents, NEW t \in Things, Pickup(a, t) \/ DropThing(a, t) \/ Eat(a, t)
        PROVE  IInv'
    <2>1. /\ a \in bodies /\ UNCHANGED <<eq, bodies, hp>>
          /\ inv' \in [Agents -> SUBSET Things] /\ ground' \subseteq Things
          /\ \A b \in Agents \ {a} : inv'[b] = inv[b]
      BY <1>0, <1>7 DEF Pickup, DropThing, Eat
    <2>2. inv'[a] \cup ground' \subseteq inv[a] \cup ground /\ inv'[a] \cap ground' = {}
      BY <1>0, <1>7, <1>apart DEF Pickup, DropThing, Eat
    <2>3. \A b, c \in Agents : b # c => inv'[b] \cap inv'[c] = {}
      BY <1>apart, <2>1, <2>2
    <2>4. \A b, c \in Agents : inv'[b] \cap Worn(c) = {}
      BY <1>apart, <2>1, <2>2
    <2>5. \A b \in Agents : inv'[b] \cap ground' = {} /\ Worn(b) \cap ground' = {}
      BY <1>apart, <2>1, <2>2
    <2> QED BY <1>0, <1>apart, <2>1, <2>3, <2>4, <2>5, InventoriesMove
  <1>8. ASSUME NEW a \in Agents, NEW t \in Things, NEW s \in Slots, Equip(a, t, s) PROVE IInv'
    BY <1>8, EquipMoves
  <1>9. ASSUME NEW a \in Agents, NEW b \in Agents, NEW n \in Damages, Attack(a, b, n) PROVE IInv'
    <2>1. n \in Nat /\ b \in bodies /\ DealDamage(b, n)
      BY <1>9, EconomyConstants DEF EconomyConstants, Attack
    <2> QED BY <2>1, DamageKillsOrNot
  <1>10. ASSUME NEW a \in Agents, NEW b \in Agents, NEW n \in 1..MaxWealth, HandlePay(a, b, n)
         PROVE  IInv'
    BY <1>0, <1>10, NothingMoves DEF HandlePay
  <1>11. ASSUME NEW a \in Agents, NEW b \in Agents, NEW t \in Things,
                Give(a, b, t) \/ \E n \in 0..MaxWealth : Trade(a, b, t, n)
         PROVE  IInv'
    <2>1. /\ {a, b} \subseteq bodies /\ a # b /\ t \in inv[a]
          /\ inv' = [inv EXCEPT ![a] = @ \ {t}, ![b] = @ \cup {t}]
          /\ UNCHANGED <<eq, bodies, hp, ground>>
      BY <1>11 DEF Give, Trade
    <2>2. /\ inv'[a] = inv[a] \ {t} /\ inv'[b] = inv[b] \cup {t}
          /\ \A c \in Agents \ {a, b} : inv'[c] = inv[c]
          /\ inv' \in [Agents -> SUBSET Things]
      BY <1>0, <2>1
    <2>3. /\ \A c \in Agents : t \notin Worn(c)
          /\ \A c \in Agents \ {a} : t \notin inv[c]
          /\ t \notin ground
      BY <1>apart, <2>1
    <2>4. \A c, d \in Agents : c # d => inv'[c] \cap inv'[d] = {}
      <3>1. \A c \in Agents \ {a} : inv'[a] \cap inv'[c] = {}
        BY <1>apart, <2>1, <2>2
      <3>2. \A c \in Agents \ {a, b} : inv'[b] \cap inv'[c] = {}
        BY <1>apart, <2>1, <2>2, <2>3
      <3>3. \A c, d \in Agents \ {a, b} : c # d => inv'[c] \cap inv'[d] = {}
        BY <1>apart, <2>2
      <3> QED BY <2>1, <3>1, <3>2, <3>3
    <2>5. \A c, d \in Agents : inv'[c] \cap Worn(d) = {}
      BY <1>apart, <2>1, <2>2, <2>3
    <2>6. \A c \in Agents : inv'[c] \cap ground' = {} /\ Worn(c) \cap ground' = {}
      BY <1>apart, <2>1, <2>2, <2>3
    <2>7. \A c \in Agents \ bodies : inv'[c] = {}
      BY <1>apart, <2>1, <2>2
    <2> QED BY <1>0, <2>1, <2>2, <2>4, <2>5, <2>6, <2>7, InventoriesMove
  <1>12. ASSUME NEW t \in Things, RespawnThing(t) PROVE IInv'
    <2>1. /\ UNCHANGED <<inv, eq, bodies, hp>> /\ ground' = ground \cup {t}
          /\ \A b \in Agents : t \notin inv[b] \cup Worn(b)
      BY <1>12 DEF RespawnThing, Present
    <2>2. \A b, c \in Agents : inv[b] \cap Worn(c) = {}
      BY <1>apart
    <2> QED BY <1>0, <1>apart, <2>1, <2>2, InventoriesMove
  <1>13. ASSUME NEW p \in Piles, RespawnCoins(p) PROVE IInv'
    BY <1>0, <1>13, NothingMoves DEF RespawnCoins
  <1>14. CASE UNCHANGED vars
    BY <1>0, <1>14, NothingMoves DEF vars
  <1> QED
    BY <1>1, <1>2, <1>3, <1>4, <1>5, <1>6, <1>7, <1>8, <1>9, <1>10, <1>11, <1>12, <1>13, <1>14
    DEF Next

(* Whatever the bodies, things, slots, prices and weapons are: no order of *)
(* pickups, drops, sales, gifts, changes of weapon, meals and deaths puts  *)
(* a thing in two places, as inventory.go promises of its collections.     *)
THEOREM ThingsHaveOnePlace == Spec => []ThingsInOnePlace
  <1>1. IInv => ThingsInOnePlace
    BY DEF IInv
  <1> QED BY Start, NextKeeps, <1>1, PTL DEF Spec

(* However blows, hunger and healing follow one another, the body that     *)
(* loses its last point is gone with it (combat.go, service.DealDamage).   *)
THEOREM BodiesAreAlive == Spec => []NoWalkingDead
  <1>1. IInv => NoWalkingDead
    BY DEF IInv
  <1> QED BY Start, NextKeeps, <1>1, PTL DEF Spec

-----------------------------------------------------------------------------
(* Sums over finite sets. *)

(* The sum of f over S.                                                    *)
Total(f, S) == SumFunctionOnSet(f, S)

Pick(s) == CHOOSE x \in s : TRUE

SumsUp(f, S, g) ==
  g = [s \in SUBSET S |-> IF s = {} THEN 0 ELSE f[Pick(s)] + g[s \ {Pick(s)}]]

(* What SumFunctionOnSet of the community modules chooses.                 *)
LEMMA TotalDef ==
  ASSUME NEW f, NEW S
  PROVE  Total(f, S) = (CHOOSE g : SumsUp(f, S, g))[S]
  BY Zenon DEF Total, SumFunctionOnSet, FoldFunctionOnSet, MapThenFoldSet, SumsUp, Pick

LEMMA PickIsIn == ASSUME NEW s, s # {} PROVE Pick(s) \in s
  BY DEF Pick

(* Induction over finite sets: a set of subsets of S has a least element.  *)
(* A claim about all subsets is proved by taking a least one it fails for. *)
LEMMA SmallestSet ==
  ASSUME NEW S, IsFiniteSet(S), NEW T \in SUBSET SUBSET S, T # {}
  PROVE  \E x \in T : \A y \in T : y \subseteq x => y = x
  <1>1. T \subseteq FiniteSubsetsOf(S)
    BY FS_Subset DEF FiniteSubsetsOf
  <1>2. PICK x \in T : \A y \in T : <<y, x>> \notin StrictSubsetOrdering(S)
    BY <1>1, WFMin, FS_StrictSubsetOrderingWellFounded
  <1> QED BY <1>2 DEF StrictSubsetOrdering

(* There is one function that sums up, on S and on what is in S.           *)
LEMMA SumsUpUnique ==
  ASSUME NEW f, NEW S, IsFiniteSet(S), NEW U \in SUBSET S,
         NEW g, NEW h, SumsUp(f, S, g), SumsUp(f, U, h)
  PROVE  \A s \in SUBSET U : g[s] = h[s]
  <1> DEFINE Bad == {s \in SUBSET U : g[s] # h[s]}
  <1> SUFFICES ASSUME Bad # {} PROVE FALSE
    OBVIOUS
  <1>1. PICK s \in Bad : \A r \in Bad : r \subseteq s => r = s
    <2>1. Bad \in SUBSET SUBSET S
      OBVIOUS
    <2> HIDE DEF Bad
    <2> QED BY <2>1, SmallestSet
  <1>2. s # {}
    BY DEF SumsUp
  <1>3. Pick(s) \in s
    BY <1>2, PickIsIn
  <1>4. s \ {Pick(s)} \notin Bad
    BY <1>1, <1>3
  <1>5. g[s \ {Pick(s)}] = h[s \ {Pick(s)}]
    BY <1>4
  <1>6. g[s] = f[Pick(s)] + g[s \ {Pick(s)}]
    BY <1>2 DEF SumsUp
  <1>7. h[s] = f[Pick(s)] + h[s \ {Pick(s)}]
    BY <1>2 DEF SumsUp
  <1> QED BY <1>5, <1>6, <1>7

(* There is such a function.                                               *)
LEMMA SumsUpExists ==
  ASSUME NEW f, NEW S, IsFiniteSet(S)
  PROVE  \E g : SumsUp(f, S, g)
  <1> DEFINE Bad == {U \in SUBSET S : ~ \E g : SumsUp(f, U, g)}
  <1> SUFFICES ASSUME Bad # {} PROVE FALSE
    OBVIOUS
  <1>1. PICK U \in Bad : \A V \in Bad : V \subseteq U => V = U
    <2>1. Bad \in SUBSET SUBSET S
      OBVIOUS
    <2> HIDE DEF Bad
    <2> QED BY <2>1, SmallestSet
  <1> DEFINE G(V) == CHOOSE g : SumsUp(f, V, g)
  <1>2. \A V \in SUBSET U : V # U => SumsUp(f, V, G(V))
    <2> TAKE V \in SUBSET U
    <2> HAVE V # U
    <2>1. \E g : SumsUp(f, V, g)
      BY <1>1
    <2> QED BY <2>1
  <1> HIDE DEF G
  <1> DEFINE val(s) == IF s = {} THEN 0 ELSE f[Pick(s)] + G(s \ {Pick(s)})[s \ {Pick(s)}]
             h == [s \in SUBSET U |-> val(s)]
  <1>3. ASSUME NEW V \in SUBSET U, V # U PROVE h[V] = G(V)[V]
    <2>1. CASE V = {}
      BY <2>1, <1>2, <1>3 DEF SumsUp
    <2>2. CASE V # {}
      <3>1. Pick(V) \in V
        BY <2>2, PickIsIn
      <3> DEFINE W == V \ {Pick(V)}
      <3>2. W \in SUBSET V /\ W \in SUBSET U /\ W # U
        BY <3>1, <1>3
      <3>3. IsFiniteSet(V)
        BY <1>1, FS_Subset
      <3>4. SumsUp(f, W, G(W)) /\ SumsUp(f, V, G(V))
        BY <1>2, <1>3, <3>2
      <3>5. G(V)[W] = G(W)[W]
        <4> HIDE DEF W
        <4> QED BY <3>2, <3>3, <3>4, SumsUpUnique
      <3>6. G(V)[V] = f[Pick(V)] + G(V)[W]
        BY <2>2, <3>4 DEF SumsUp
      <3> QED BY <2>2, <3>5, <3>6
    <2> QED BY <2>1, <2>2
  <1>4. ASSUME NEW s \in SUBSET U, s # {} PROVE h[s] = f[Pick(s)] + h[s \ {Pick(s)}]
    <2>1. Pick(s) \in s
      BY <1>4, PickIsIn
    <2>2. s \ {Pick(s)} \in SUBSET U /\ s \ {Pick(s)} # U
      BY <2>1
    <2>3. h[s \ {Pick(s)}] = G(s \ {Pick(s)})[s \ {Pick(s)}]
      <3> HIDE DEF h
      <3> QED BY <1>3, <2>2
    <2> QED BY <1>4, <2>3
  <1>5. h[{}] = 0
    OBVIOUS
  <1>6. h = [s \in SUBSET U |-> IF s = {} THEN 0 ELSE f[Pick(s)] + h[s \ {Pick(s)}]]
    <2>1. h = [s \in SUBSET U |-> h[s]]
      OBVIOUS
    <2> HIDE DEF h
    <2> QED BY <2>1, <1>4, <1>5
  <1>7. SumsUp(f, U, h)
    <2> HIDE DEF h
    <2> QED BY <1>6 DEF SumsUp
  <1> QED BY <1>1, <1>7

(* The sum, by its elements.                                               *)
LEMMA TotalStep ==
  ASSUME NEW f, NEW S, IsFiniteSet(S)
  PROVE  /\ Total(f, {}) = 0
         /\ S # {} => Total(f, S) = f[Pick(S)] + Total(f, S \ {Pick(S)})
  <1> DEFINE G(V) == CHOOSE g : SumsUp(f, V, g)
  <1>1. ASSUME NEW V \in SUBSET S PROVE SumsUp(f, V, G(V)) /\ Total(f, V) = G(V)[V]
    <2>1. IsFiniteSet(V)
      BY FS_Subset
    <2>2. \E g : SumsUp(f, V, g)
      BY <2>1, SumsUpExists
    <2> QED BY <2>2, TotalDef
  <1> HIDE DEF G
  <1>2. Total(f, {}) = 0
    BY <1>1 DEF SumsUp
  <1>3. ASSUME S # {} PROVE Total(f, S) = f[Pick(S)] + Total(f, S \ {Pick(S)})
    <2> DEFINE W == S \ {Pick(S)}
    <2>1. W \in SUBSET S
      OBVIOUS
    <2>2. G(S)[S] = f[Pick(S)] + G(S)[W]
      BY <1>1, <1>3 DEF SumsUp
    <2>3. G(S)[W] = G(W)[W]
      <3> HIDE DEF W
      <3>1. SumsUp(f, S, G(S)) /\ SumsUp(f, W, G(W))
        BY <1>1, <2>1
      <3> QED BY <2>1, <3>1, SumsUpUnique
    <2> QED BY <1>1, <2>1, <2>2, <2>3
  <1> QED BY <1>2, <1>3

(* A sum of integers is one.                                               *)
LEMMA TotalType ==
  ASSUME NEW f, NEW S, IsFiniteSet(S), \A x \in S : f[x] \in Int
  PROVE  Total(f, S) \in Int
  <1> DEFINE Bad == {U \in SUBSET S : Total(f, U) \notin Int}
  <1> SUFFICES ASSUME Bad # {} PROVE FALSE
    OBVIOUS
  <1>1. PICK U \in Bad : \A V \in Bad : V \subseteq U => V = U
    <2>1. Bad \in SUBSET SUBSET S
      OBVIOUS
    <2> HIDE DEF Bad
    <2> QED BY <2>1, SmallestSet
  <1>2. IsFiniteSet(U)
    BY FS_Subset
  <1>3. U # {} /\ Pick(U) \in U
    <2>1. Total(f, {}) = 0
      BY <1>2, TotalStep
    <2>2. U # {}
      BY <2>1
    <2> QED BY <2>2, PickIsIn
  <1>4. Total(f, U \ {Pick(U)}) \in Int
    BY <1>1, <1>3
  <1> QED BY <1>2, <1>3, <1>4, TotalStep

(* A sum of naturals is one.                                               *)
LEMMA TotalNat ==
  ASSUME NEW f, NEW S, IsFiniteSet(S), \A x \in S : f[x] \in Nat
  PROVE  Total(f, S) \in Nat
  <1> DEFINE Bad == {U \in SUBSET S : Total(f, U) \notin Nat}
  <1> SUFFICES ASSUME Bad # {} PROVE FALSE
    OBVIOUS
  <1>1. PICK U \in Bad : \A V \in Bad : V \subseteq U => V = U
    <2>1. Bad \in SUBSET SUBSET S
      OBVIOUS
    <2> HIDE DEF Bad
    <2> QED BY <2>1, SmallestSet
  <1>2. IsFiniteSet(U)
    BY FS_Subset
  <1>3. U # {} /\ Pick(U) \in U
    <2>1. Total(f, {}) = 0
      BY <1>2, TotalStep
    <2>2. U # {}
      BY <2>1
    <2> QED BY <2>2, PickIsIn
  <1>4. Total(f, U \ {Pick(U)}) \in Nat
    BY <1>1, <1>3
  <1> QED BY <1>2, <1>3, <1>4, TotalStep

(* Any element may be taken out first, not only the one the sum picks.     *)
LEMMA TotalRemove ==
  ASSUME NEW f, NEW S, IsFiniteSet(S), \A x \in S : f[x] \in Int
  PROVE  \A y \in S : Total(f, S) = f[y] + Total(f, S \ {y})
  <1> DEFINE Bad == {U \in SUBSET S : \E y \in U : Total(f, U) # f[y] + Total(f, U \ {y})}
  <1> SUFFICES ASSUME Bad # {} PROVE FALSE
    OBVIOUS
  <1>1. PICK U \in Bad : \A V \in Bad : V \subseteq U => V = U
    <2>1. Bad \in SUBSET SUBSET S
      OBVIOUS
    <2> HIDE DEF Bad
    <2> QED BY <2>1, SmallestSet
  <1>2. PICK y \in U : Total(f, U) # f[y] + Total(f, U \ {y})
    BY <1>1
  <1>3. PICK x \in U : Total(f, U) = f[x] + Total(f, U \ {x})
    <2>1. IsFiniteSet(U)
      BY FS_Subset
    <2> QED BY <1>2, <2>1, PickIsIn, TotalStep
  <1>4. x # y
    BY <1>2, <1>3
  <1> DEFINE W == U \ {x, y}
  <1>5. Total(f, U \ {x}) = f[y] + Total(f, W)
    <2>1. U \ {x} \notin Bad /\ y \in U \ {x} /\ (U \ {x}) \ {y} = W
      BY <1>1, <1>4
    <2> HIDE DEF W
    <2> QED BY <2>1
  <1>6. Total(f, U \ {y}) = f[x] + Total(f, W)
    <2>1. U \ {y} \notin Bad /\ x \in U \ {y} /\ (U \ {y}) \ {x} = W
      BY <1>1, <1>4
    <2> HIDE DEF W
    <2> QED BY <2>1
  <1>7. Total(f, W) \in Int /\ f[x] \in Int /\ f[y] \in Int
    <2>1. IsFiniteSet(W) /\ W \subseteq S
      BY FS_Subset
    <2> QED BY <2>1, TotalType
  <1> HIDE DEF W
  <1> QED BY <1>2, <1>3, <1>5, <1>6, <1>7

(* The sum depends on the values over S only.                              *)
LEMMA TotalSame ==
  ASSUME NEW f, NEW g, NEW S, IsFiniteSet(S), \A x \in S : f[x] = g[x]
  PROVE  Total(f, S) = Total(g, S)
  <1> DEFINE Bad == {U \in SUBSET S : Total(f, U) # Total(g, U)}
  <1> SUFFICES ASSUME Bad # {} PROVE FALSE
    OBVIOUS
  <1>1. PICK U \in Bad : \A V \in Bad : V \subseteq U => V = U
    <2>1. Bad \in SUBSET SUBSET S
      OBVIOUS
    <2> HIDE DEF Bad
    <2> QED BY <2>1, SmallestSet
  <1>2. IsFiniteSet(U)
    BY FS_Subset
  <1>3. U # {} /\ Pick(U) \in U
    <2>1. Total(f, {}) = 0 /\ Total(g, {}) = 0
      BY <1>2, TotalStep
    <2>2. U # {}
      BY <2>1
    <2> QED BY <2>2, PickIsIn
  <1>4. Total(f, U \ {Pick(U)}) = Total(g, U \ {Pick(U)})
    BY <1>1, <1>3
  <1> QED BY <1>2, <1>3, <1>4, TotalStep

(* Sums add up.                                                            *)
LEMMA TotalPlus ==
  ASSUME NEW f, NEW g, NEW h, NEW S, IsFiniteSet(S),
         \A x \in S : f[x] \in Int /\ g[x] \in Int /\ h[x] = f[x] + g[x]
  PROVE  Total(h, S) = Total(f, S) + Total(g, S)
  <1> DEFINE Bad == {U \in SUBSET S : Total(h, U) # Total(f, U) + Total(g, U)}
  <1> SUFFICES ASSUME Bad # {} PROVE FALSE
    OBVIOUS
  <1>1. PICK U \in Bad : \A V \in Bad : V \subseteq U => V = U
    <2>1. Bad \in SUBSET SUBSET S
      OBVIOUS
    <2> HIDE DEF Bad
    <2> QED BY <2>1, SmallestSet
  <1>2. IsFiniteSet(U)
    BY FS_Subset
  <1>3. U # {} /\ Pick(U) \in U
    <2>1. Total(f, {}) = 0 /\ Total(g, {}) = 0 /\ Total(h, {}) = 0
      BY <1>2, TotalStep
    <2>2. Total(h, {}) = Total(f, {}) + Total(g, {})
      BY <2>1
    <2>3. U # {}
      BY <2>2
    <2> QED BY <2>3, PickIsIn
  <1> DEFINE V == U \ {Pick(U)}
  <1>4. Total(h, V) = Total(f, V) + Total(g, V)
    BY <1>1, <1>3
  <1>5. Total(f, V) \in Int /\ Total(g, V) \in Int
    <2>1. IsFiniteSet(V) /\ V \subseteq S
      BY FS_Subset
    <2> QED BY <2>1, TotalType
  <1> HIDE DEF V
  <1>6. /\ Total(f, U) = f[Pick(U)] + Total(f, V)
        /\ Total(g, U) = g[Pick(U)] + Total(g, V)
        /\ Total(h, U) = h[Pick(U)] + Total(h, V)
    BY <1>2, <1>3, TotalStep DEF V
  <1> QED BY <1>1, <1>3, <1>4, <1>5, <1>6

(* One value changes.                                                      *)
LEMMA TotalChange ==
  ASSUME NEW f, NEW g, NEW S, IsFiniteSet(S), NEW y \in S,
         \A x \in S : f[x] \in Int /\ g[x] \in Int,
         \A x \in S \ {y} : g[x] = f[x]
  PROVE  Total(g, S) = Total(f, S) + g[y] - f[y]
  <1> DEFINE W == S \ {y}
  <1>1. Total(f, W) \in Int /\ Total(g, W) = Total(f, W)
    <2>1. IsFiniteSet(W)
      BY FS_Subset
    <2> QED BY <2>1, TotalType, TotalSame
  <1>2. Total(f, S) = f[y] + Total(f, W) /\ Total(g, S) = g[y] + Total(g, W)
    BY TotalRemove
  <1> HIDE DEF W
  <1> QED BY <1>1, <1>2

(* A set of numbers has a least one.                                       *)
LEMMA LeastOf ==
  ASSUME NEW k \in Nat, NEW T \in SUBSET (0..k), T # {}
  PROVE  \E x \in T : \A y \in T : x <= y
  <1> DEFINE Up == {1..x : x \in T}
             K == 1..k
  <1>1. PICK I \in Up : \A J \in Up : J \subseteq I => J = I
    <2>1. \A x \in T : 1..x \subseteq 1..k
      OBVIOUS
    <2>2. Up \in SUBSET SUBSET K /\ Up # {}
      BY <2>1
    <2>3. IsFiniteSet(K)
      BY FS_Interval
    <2> HIDE DEF Up, K
    <2> QED BY <2>2, <2>3, SmallestSet
  <1>2. PICK x \in T : I = 1..x
    OBVIOUS
  <1>3. ASSUME NEW y \in T, y < x PROVE FALSE
    <2>1. 1..y \in Up /\ 1..y \subseteq I /\ x \in I /\ x \notin 1..y
      BY <1>2, <1>3
    <2> QED BY <1>1, <2>1
  <1> QED BY <1>3

LEMMA DivMod ==
  ASSUME NEW n \in Nat, NEW d \in Nat \ {0}
  PROVE  n % d \in Nat /\ n \div d \in Nat /\ (n \div d) * d + (n % d) = n
  OBVIOUS

LEMMA ModOne ==
  ASSUME NEW n \in Nat
  PROVE  n % 1 = 0
  OBVIOUS

(* What is left after the piles of each value (combat.go goldDropDenoms).  *)
LEMMA RestStep ==
  ASSUME NEW n \in Nat
  PROVE  /\ Rest(n) \in [{0} \cup Piles -> Nat]
         /\ Rest(n)[0] = n
         /\ \A p \in Piles : Rest(n)[p] = Rest(n)[p - 1] % Denoms[p]
  <1> DEFINE Is(k, g) == g = [p \in 0..k |-> IF p = 0 THEN n ELSE g[p - 1] % Denoms[p]]
             N == Len(Denoms)
  <1>1. N \in Nat /\ Piles = 1..N /\ {0} \cup Piles = 0..N /\ \A p \in Piles : Denoms[p] \in Nat \ {0}
    BY EconomyConstants DEF EconomyConstants, Piles
  <1>2. \A k \in 0..N : \E g : Is(k, g)
    <2> DEFINE Bad == {k \in 0..N : ~ \E g : Is(k, g)}
    <2> SUFFICES ASSUME Bad # {} PROVE FALSE
      OBVIOUS
    <2>1. PICK k \in Bad : \A j \in Bad : k <= j
      <3>1. Bad \in SUBSET (0..N)
        OBVIOUS
      <3> HIDE DEF Bad, N
      <3> QED BY <1>1, <3>1, LeastOf
    <2>2. k # 0
      <3>1. Is(0, [p \in 0..0 |-> n])
        OBVIOUS
      <3> HIDE DEF Is
      <3> QED BY <3>1
    <2>3. PICK g : Is(k - 1, g)
      <3>1. k \in 0..N /\ k - 1 \in 0..N
        BY <1>1, <2>2
      <3>2. k - 1 \notin Bad
        <4> HIDE DEF Bad
        <4> QED BY <1>1, <2>1, <3>1
      <3> QED BY <3>1, <3>2
    <2> DEFINE h == [p \in 0..k |-> IF p = k THEN g[k - 1] % Denoms[k] ELSE g[p]]
    <2>4. \A p \in 0..k : h[p] = IF p = 0 THEN n ELSE h[p - 1] % Denoms[p]
      BY <1>1, <2>2, <2>3
    <2>5. Is(k, h)
      BY <2>4
    <2> HIDE DEF h, Is
    <2> QED BY <2>1, <2>5
  <1>3. Is(N, Rest(n))
    <2>1. Rest(n) = CHOOSE g : Is(N, g)
      BY <1>1, Zenon DEF Rest
    <2>2. N \in 0..N
      BY <1>1
    <2>3. \E g : Is(N, g)
      BY <1>2, <2>2
    <2> HIDE DEF Is
    <2> QED BY <2>1, <2>3
  <1>4. Rest(n)[0] = n /\ \A p \in 1..N : Rest(n)[p] = Rest(n)[p - 1] % Denoms[p]
    <2> HIDE DEF N
    <2> QED BY <1>1, <1>3
  <1>5. \A p \in 0..N : Rest(n)[p] \in Nat
    <2> DEFINE Bad == {p \in 0..N : Rest(n)[p] \notin Nat}
    <2> SUFFICES ASSUME Bad # {} PROVE FALSE
      OBVIOUS
    <2>1. PICK p \in Bad : \A q \in Bad : p <= q
      <3>1. Bad \in SUBSET (0..N)
        OBVIOUS
      <3> HIDE DEF Bad, N
      <3> QED BY <1>1, <3>1, LeastOf
    <2>2. p # 0 /\ p \in 1..N
      BY <1>1, <1>4
    <2>3. Rest(n)[p - 1] \in Nat
      <3>1. p - 1 \in 0..N /\ p - 1 \notin Bad
        BY <1>1, <2>1, <2>2
      <3> QED BY <3>1
    <2> QED BY <1>1, <1>4, <2>2, <2>3, DivMod
  <1>6. Rest(n) = [p \in 0..N |-> Rest(n)[p]]
    <2> HIDE DEF N
    <2> QED BY <1>3
  <1> HIDE DEF Is, N
  <1> QED BY <1>1, <1>4, <1>5, <1>6

(* The coins a death leaves are worth what the body had, as the least of   *)
(* them is worth one ("recoverable exactly on pickup").                    *)
LEMMA DropsAll ==
  ASSUME NEW n \in Nat
  PROVE  /\ DropDenoms(n) \in [Piles -> Nat]
         /\ Total([p \in Piles |-> DropDenoms(n)[p] * Denoms[p]], Piles) = n
  <1> DEFINE N == Len(Denoms)
             f == [p \in Piles |-> DropDenoms(n)[p] * Denoms[p]]
  <1>1. /\ N \in Nat \ {0} /\ Piles = 1..N /\ \A p \in Piles : Denoms[p] \in Nat \ {0}
        /\ Denoms[N] = 1
    BY EconomyConstants DEF EconomyConstants, Piles
  <1>2. \A p \in 0..N : Rest(n)[p] \in Nat
    BY <1>1, RestStep
  <1>3. ASSUME NEW p \in 1..N
        PROVE  /\ DropDenoms(n)[p] \in Nat /\ f[p] \in Nat
               /\ f[p] + Rest(n)[p] = Rest(n)[p - 1]
    <2>1. /\ Rest(n)[p - 1] \in Nat /\ Rest(n)[p] = Rest(n)[p - 1] % Denoms[p]
          /\ Denoms[p] \in Nat \ {0}
      BY <1>1, <1>2, RestStep
    <2>2. DropDenoms(n)[p] = Rest(n)[p - 1] \div Denoms[p]
      BY <1>1 DEF DropDenoms
    <2>3. f[p] = DropDenoms(n)[p] * Denoms[p]
      BY <1>1
    <2>4. DropDenoms(n)[p] \in Nat
      BY <2>1, <2>2, DivMod
    <2>5. f[p] \in Nat
      BY <2>1, <2>3, <2>4
    <2>6. f[p] + Rest(n)[p] = Rest(n)[p - 1]
      <3>1. \A r \in Nat, d \in Nat \ {0} : (r \div d) * d + (r % d) = r
        BY DivMod
      <3>2. f[p] = (Rest(n)[p - 1] \div Denoms[p]) * Denoms[p]
        BY <2>2, <2>3
      <3> HIDE DEF f
      <3>3. f[p] + (Rest(n)[p - 1] % Denoms[p]) = Rest(n)[p - 1]
        BY <2>1, <3>1, <3>2
      <3> QED BY <2>1, <3>3
    <2> QED BY <2>4, <2>5, <2>6
  <1> HIDE DEF f
  <1>4. \A k \in 0..N : Total(f, 1..k) + Rest(n)[k] = n
    <2> DEFINE Bad == {k \in 0..N : Total(f, 1..k) + Rest(n)[k] # n}
    <2> SUFFICES ASSUME Bad # {} PROVE FALSE
      OBVIOUS
    <2>1. PICK k \in Bad : \A j \in Bad : k <= j
      <3>1. Bad \in SUBSET (0..N)
        OBVIOUS
      <3> HIDE DEF Bad, N
      <3> QED BY <1>1, <3>1, LeastOf
    <2>2. Total(f, 1..0) + Rest(n)[0] = n
      <3>1. Total(f, {}) = 0
        BY TotalStep, FS_EmptySet
      <3>2. 1..0 = {}
        OBVIOUS
      <3> QED BY <3>1, <3>2, RestStep
    <2>3. k \in 0..N /\ k # 0 /\ k - 1 \in 0..N /\ k \in 1..N
      BY <1>1, <2>2
    <2>4. k - 1 \notin Bad
      <3> HIDE DEF Bad
      <3> QED BY <1>1, <2>1, <2>3
    <2>5. Total(f, 1..(k - 1)) + Rest(n)[k - 1] = n
      BY <2>3, <2>4
    <2>6. Total(f, 1..k) = f[k] + Total(f, 1..(k - 1))
      <3>0. k \in Nat \ {0}
        BY <1>1, <2>3
      <3>1. (1..k) \ {k} = 1..(k - 1) /\ k \in 1..k
        BY <3>0
      <3>3. IsFiniteSet(1..k)
        BY <3>0, FS_Interval
      <3>2. \A x \in 1..k : f[x] \in Int
        BY <1>1, <1>3, <2>3
      <3> QED BY <3>1, <3>2, <3>3, TotalRemove, SMTT(20)
    <2>7. Total(f, 1..(k - 1)) \in Int
      <3> DEFINE m == k - 1
      <3>1. m \in Nat
        BY <1>1, <2>3
      <3>2. \A x \in 1..m : f[x] \in Int
        BY <1>1, <1>3, <2>3
      <3> HIDE DEF m
      <3>3. IsFiniteSet(1..m)
        BY <3>1, FS_Interval
      <3>4. Total(f, 1..m) \in Int
        BY <3>2, <3>3, TotalType
      <3> QED BY <3>4 DEF m
    <2>8. Total(f, 1..k) + Rest(n)[k] = n
      <3> HIDE DEF Bad, N
      <3> QED BY <1>2, <1>3, <2>3, <2>5, <2>6, <2>7
    <2> QED BY <2>8
  <1>5. Rest(n)[N] = 0
    <2> HIDE DEF N
    <2>1. N \in Piles /\ N - 1 \in 0..N
      BY <1>1
    <2>2. Rest(n)[N] = Rest(n)[N - 1] % Denoms[N]
      BY <2>1, RestStep
    <2>3. Rest(n)[N - 1] \in Nat
      BY <1>2, <2>1
    <2> QED BY <1>1, <2>2, <2>3, ModOne
  <1>6. Total(f, Piles) = n
    <2> HIDE DEF N
    <2>1. N \in 0..N /\ \A p \in Piles : f[p] \in Int
      BY <1>1, <1>3
    <2>3. IsFiniteSet(Piles)
      BY <1>1, FS_Interval
    <2>2. Total(f, Piles) \in Int
      BY <2>1, <2>3, TotalType
    <2> QED BY <1>1, <1>4, <1>5, <2>1, <2>2
  <1>7. DropDenoms(n) \in [Piles -> Nat]
    BY <1>1, <1>3 DEF DropDenoms
  <1> QED BY <1>6, <1>7 DEF f

-----------------------------------------------------------------------------
(* Gold. *)

Value(pp) == [p \in Piles |-> pp[p] * Denoms[p]]

(* Whose gold counts: a body that is gone has none, which is what makes a  *)
(* new body's starting gold the only gold it brings.                       *)
Purses ==
  /\ bodies \subseteq Agents /\ left \subseteq Agents \ bodies
  /\ gold \in [Agents -> Nat] /\ book \in [Agents -> Int] /\ piles \in [Piles -> Nat]
  /\ \A a \in Agents \ bodies : gold[a] = 0

Wealth == Total(gold, Agents) + Total(Value(piles), Piles)

MoneyInv == Purses /\ Wealth = due /\ BooksBalance

LEMMA PilesFinite ==
  /\ IsFiniteSet(Piles) /\ IsFiniteSet(Agents)
  /\ \A p \in Piles : Denoms[p] \in Nat \ {0}
  <1>1. Len(Denoms) \in Nat /\ Piles = 1..Len(Denoms) /\ \A p \in Piles : Denoms[p] \in Nat \ {0}
    BY EconomyConstants DEF EconomyConstants, Piles
  <1> QED BY <1>1, FS_Interval, EconomyConstants DEF EconomyConstants

LEMMA ValueType ==
  ASSUME NEW pp \in [Piles -> Nat]
  PROVE  /\ \A p \in Piles : Value(pp)[p] \in Nat /\ Value(pp)[p] = pp[p] * Denoms[p]
         /\ Total(Value(pp), Piles) \in Nat
  <1>1. \A x, y \in Nat : x * y \in Nat
    OBVIOUS
  <1>2. \A p \in Piles : Value(pp)[p] = pp[p] * Denoms[p] /\ pp[p] \in Nat /\ Denoms[p] \in Nat
    BY PilesFinite DEF Value
  <1>3. \A p \in Piles : Value(pp)[p] \in Nat
    BY <1>1, <1>2
  <1> QED BY <1>2, <1>3, PilesFinite, TotalNat

LEMMA GoldType ==
  ASSUME NEW g \in [Agents -> Nat]
  PROVE  /\ SumFunction(g) = Total(g, Agents) /\ Total(g, Agents) \in Nat
         /\ \A a \in Agents : g[a] \in Int
  BY PilesFinite, TotalNat DEF SumFunction, Total

LEMMA WealthIsConserved ==
  Purses => (GoldConserved <=> Wealth = due)
  <1> SUFFICES ASSUME Purses PROVE GoldConserved <=> Wealth = due
    OBVIOUS
  <1>1. SumFunction(gold) = Total(gold, Agents)
    BY GoldType DEF Purses
  <1>2. SumFunction([p \in Piles |-> piles[p] * Denoms[p]]) = Total(Value(piles), Piles)
    BY DEF SumFunction, Total, Value
  <1> QED BY <1>1, <1>2 DEF GoldConserved, Wealth

(* One purse is filled or emptied.                                         *)
LEMMA PurseChanges ==
  ASSUME NEW g \in [Agents -> Nat], NEW a \in Agents, NEW n \in Nat
  PROVE  Total([g EXCEPT ![a] = n], Agents) = Total(g, Agents) + n - g[a]
  <1> DEFINE h == [g EXCEPT ![a] = n]
  <1>1. /\ \A b \in Agents : g[b] \in Int /\ h[b] \in Int
        /\ h[a] = n /\ \A b \in Agents \ {a} : h[b] = g[b]
    OBVIOUS
  <1> HIDE DEF h
  <1>2. Total(h, Agents) = Total(g, Agents) + h[a] - g[a]
    BY <1>1, PilesFinite, TotalChange
  <1> QED BY <1>1, <1>2 DEF h

(* The number of piles of one value changes.                               *)
LEMMA PileChanges ==
  ASSUME NEW pp \in [Piles -> Nat], NEW p \in Piles, NEW n \in Nat
  PROVE  Total(Value([pp EXCEPT ![p] = n]), Piles)
           = Total(Value(pp), Piles) + (n * Denoms[p]) - (pp[p] * Denoms[p])
  <1> DEFINE qq == [pp EXCEPT ![p] = n]
  <1>1. qq \in [Piles -> Nat] /\ qq[p] = n /\ \A r \in Piles \ {p} : qq[r] = pp[r]
    OBVIOUS
  <1> HIDE DEF qq
  <1>2. /\ \A r \in Piles : Value(pp)[r] \in Int /\ Value(qq)[r] \in Int
        /\ \A r \in Piles \ {p} : Value(qq)[r] = Value(pp)[r]
        /\ Value(qq)[p] = n * Denoms[p] /\ Value(pp)[p] = pp[p] * Denoms[p]
    BY <1>1, ValueType
  <1> HIDE DEF Value
  <1>3. Total(Value(qq), Piles) = Total(Value(pp), Piles) + Value(qq)[p] - Value(pp)[p]
    BY <1>2, PilesFinite, TotalChange
  <1> QED BY <1>2, <1>3 DEF qq

(* Coins are added to the piles that lie there.                            *)
LEMMA PilesAdd ==
  ASSUME NEW pp \in [Piles -> Nat], NEW n \in Nat
  PROVE  LET qq == [p \in Piles |-> pp[p] + DropDenoms(n)[p]]
         IN  qq \in [Piles -> Nat] /\ Total(Value(qq), Piles) = Total(Value(pp), Piles) + n
  <1> DEFINE qq == [p \in Piles |-> pp[p] + DropDenoms(n)[p]]
             dd == DropDenoms(n)
  <1>1. dd \in [Piles -> Nat] /\ Total(Value(dd), Piles) = n
    BY DropsAll DEF Value
  <1>2. qq \in [Piles -> Nat] /\ \A p \in Piles : qq[p] = pp[p] + dd[p]
    BY <1>1
  <1> HIDE DEF qq, dd
  <1>3. \A p \in Piles : Value(qq)[p] = Value(pp)[p] + Value(dd)[p]
    <2>1. \A x, y, z \in Nat : (x + y) * z = (x * z) + (y * z)
      OBVIOUS
    <2>2. \A p \in Piles : pp[p] \in Nat /\ dd[p] \in Nat /\ Denoms[p] \in Nat
      BY <1>1, PilesFinite
    <2>3. \A p \in Piles : /\ Value(qq)[p] = (pp[p] + dd[p]) * Denoms[p]
                           /\ Value(pp)[p] = pp[p] * Denoms[p]
                           /\ Value(dd)[p] = dd[p] * Denoms[p]
      BY <1>1, <1>2, ValueType
    <2> QED BY <2>1, <2>2, <2>3
  <1>4. \A p \in Piles : Value(pp)[p] \in Int /\ Value(dd)[p] \in Int
    BY <1>1, ValueType
  <1>5. Total(Value(qq), Piles) = Total(Value(pp), Piles) + Total(Value(dd), Piles)
    BY <1>3, <1>4, PilesFinite, TotalPlus
  <1> QED BY <1>1, <1>2, <1>5 DEF qq

LEMMA MoneyStart == Init => MoneyInv
  <1> SUFFICES ASSUME Init PROVE MoneyInv
    OBVIOUS
  <1>1. Purses /\ BooksBalance
    BY DEF Init, Purses, BooksBalance
  <1>2. ASSUME NEW f, NEW S, IsFiniteSet(S), \A x \in S : f[x] = 0 PROVE Total(f, S) = 0
    <2> DEFINE Bad == {U \in SUBSET S : Total(f, U) # 0}
    <2> SUFFICES ASSUME Bad # {} PROVE FALSE
      BY <1>2
    <2>1. PICK U \in Bad : \A V \in Bad : V \subseteq U => V = U
      <3>1. Bad \in SUBSET SUBSET S
        OBVIOUS
      <3> HIDE DEF Bad
      <3> QED BY <1>2, <3>1, SmallestSet
    <2>2. IsFiniteSet(U)
      BY <1>2, FS_Subset
    <2>3. U # {} /\ Pick(U) \in U
      <3>1. Total(f, {}) = 0
        BY <2>2, TotalStep
      <3>2. U # {}
        BY <3>1
      <3> QED BY <3>2, PickIsIn
    <2>4. Total(f, U \ {Pick(U)}) = 0
      BY <2>1, <2>3
    <2> QED BY <1>2, <2>2, <2>3, <2>4, TotalStep
  <1>3. \A a \in Agents : gold[a] = 0
    BY DEF Init
  <1>4. \A p \in Piles : Value(piles)[p] = 0
    BY PilesFinite DEF Init, Value
  <1>5. Total(gold, Agents) = 0 /\ Total(Value(piles), Piles) = 0
    BY <1>2, <1>3, <1>4, PilesFinite
  <1> QED BY <1>1, <1>5 DEF MoneyInv, Wealth, Init

(* Steps that touch neither purses nor coins.                              *)
LEMMA MoneyRests ==
  ASSUME MoneyInv, UNCHANGED <<bodies, gold, piles, due, book, left>>
  PROVE  MoneyInv'
  BY DEF MoneyInv, Purses, Wealth, BooksBalance

(* Steps that change one purse, and the balance as much.                   *)
LEMMA MoneyComesOrGoes ==
  ASSUME MoneyInv, NEW a \in Agents, NEW n \in Nat,
         gold' = [gold EXCEPT ![a] = n], due' = due + n - gold[a], piles' = piles,
         book' \in [Agents -> Int], \A b \in Agents \ {a} : book'[b] = book[b],
         a \in bodies' => book'[a] = n, a \notin bodies' => n = 0,
         bodies' \subseteq bodies \cup {a}, bodies \subseteq bodies' \cup {a},
         left' \subseteq Agents \ bodies'
  PROVE  MoneyInv'
  <1>1. gold \in [Agents -> Nat] /\ piles \in [Piles -> Nat]
    BY DEF MoneyInv, Purses
  <1>2. Purses'
    BY DEF MoneyInv, Purses
  <1>3. Total(gold', Agents) = Total(gold, Agents) + n - gold[a]
    BY <1>1, PurseChanges
  <1>4. Wealth' = due'
    <2>1. /\ Wealth' = Total(gold', Agents) + Total(Value(piles), Piles)
          /\ Total(gold, Agents) \in Nat /\ Total(Value(piles), Piles) \in Nat /\ gold[a] \in Int
      BY <1>1, GoldType, ValueType DEF Wealth
    <2> QED BY <1>3, <2>1 DEF MoneyInv, Wealth
  <1>5. BooksBalance'
    BY <1>1 DEF MoneyInv, Purses, BooksBalance
  <1> QED BY <1>2, <1>4, <1>5 DEF MoneyInv

(* A payment takes from one purse what it puts into another.               *)
LEMMA PayKeeps ==
  ASSUME MoneyInv, NEW a \in bodies, NEW b \in bodies, a # b, NEW n \in Nat, Pay(a, b, n),
         UNCHANGED <<bodies, piles, due, left>>
  PROVE  MoneyInv'
  <1>1. /\ gold \in [Agents -> Nat] /\ piles \in [Piles -> Nat] /\ book \in [Agents -> Int]
        /\ a \in Agents /\ b \in Agents
    BY DEF MoneyInv, Purses
  <1>2. gold[a] - n \in Nat /\ gold[b] + n \in Nat
    BY <1>1 DEF Pay
  <1> DEFINE half == [gold EXCEPT ![a] = gold[a] - n]
  <1>3. half \in [Agents -> Nat] /\ half[b] = gold[b] /\ half[a] = gold[a] - n
    BY <1>1, <1>2
  <1>4. gold' = [half EXCEPT ![b] = gold[b] + n]
    BY <1>1 DEF Pay
  <1>5. Total(half, Agents) = Total(gold, Agents) + (gold[a] - n) - gold[a]
    BY <1>1, <1>2, PurseChanges
  <1> HIDE DEF half
  <1>6. Total(gold', Agents) = Total(half, Agents) + (gold[b] + n) - half[b]
    BY <1>1, <1>2, <1>3, <1>4, PurseChanges
  <1>7. Wealth' = due'
    <2>1. /\ Wealth' = Total(gold', Agents) + Total(Value(piles), Piles)
          /\ Total(gold, Agents) \in Nat /\ Total(Value(piles), Piles) \in Nat
          /\ gold[a] \in Int /\ gold[b] \in Int
      BY <1>1, GoldType, ValueType DEF Wealth
    <2>2. Total(gold', Agents) = Total(gold, Agents)
      BY <1>3, <1>5, <1>6, <2>1
    <2> QED BY <2>1, <2>2 DEF MoneyInv, Wealth
  <1>8. /\ gold' \in [Agents -> Nat] /\ book' \in [Agents -> Int]
        /\ \A c \in Agents \ {a, b} : gold'[c] = gold[c] /\ book'[c] = book[c]
        /\ gold'[a] = gold[a] - n /\ book'[a] = book[a] - n
        /\ gold'[b] = gold[b] + n /\ book'[b] = book[b] + n
    BY <1>1, <1>2 DEF Pay
  <1>9. Purses'
    BY <1>1, <1>8 DEF MoneyInv, Purses
  <1>10. BooksBalance'
    BY <1>1, <1>8 DEF MoneyInv, Purses, BooksBalance
  <1> QED BY <1>7, <1>9, <1>10 DEF MoneyInv

(* A coin pile becomes gold.                                               *)
LEMMA CoinsKeep ==
  ASSUME MoneyInv, NEW a \in Agents, NEW p \in Piles, PickupCoins(a, p)
  PROVE  MoneyInv'
  <1>1. /\ gold \in [Agents -> Nat] /\ piles \in [Piles -> Nat] /\ book \in [Agents -> Int]
        /\ a \in bodies /\ piles[p] \in Nat \ {0} /\ Denoms[p] \in Nat
    BY PilesFinite DEF MoneyInv, Purses, PickupCoins
  <1> DEFINE d == Denoms[p]
             g == gold[a] + d
             k == piles[p] - 1
  <1>2. /\ gold' = [gold EXCEPT ![a] = g] /\ book' = [book EXCEPT ![a] = book[a] + d]
        /\ piles' = [piles EXCEPT ![p] = k] /\ UNCHANGED <<bodies, due, left>>
        /\ g \in Nat /\ k \in Nat
    BY <1>1 DEF PickupCoins, Grant
  <1>3. Total(gold', Agents) = Total(gold, Agents) + g - gold[a]
    <2> HIDE DEF g
    <2> QED BY <1>1, <1>2, PurseChanges
  <1>4. Total(Value(piles'), Piles) = Total(Value(piles), Piles) + (k * d) - (piles[p] * d)
    <2> HIDE DEF k
    <2> QED BY <1>1, <1>2, PileChanges
  <1>5. (k * d) - (piles[p] * d) = - d
    <2>1. \A x \in Nat \ {0}, y \in Nat : ((x - 1) * y) - (x * y) = - y
      OBVIOUS
    <2> QED BY <1>1, <2>1
  <1>6. Wealth' = due'
    <2>1. /\ Wealth' = Total(gold', Agents) + Total(Value(piles'), Piles)
          /\ Total(gold, Agents) \in Nat /\ Total(Value(piles), Piles) \in Nat
          /\ gold[a] \in Int /\ (k * d) \in Int /\ (piles[p] * d) \in Int
      <3>1. \A x \in Int, y \in Int : x * y \in Int
        OBVIOUS
      <3> QED BY <1>1, <1>2, <3>1, GoldType, ValueType DEF Wealth
    <2> QED BY <1>1, <1>2, <1>3, <1>4, <1>5, <2>1 DEF MoneyInv, Wealth
  <1>7. Purses'
    BY <1>1, <1>2 DEF MoneyInv, Purses
  <1>8. BooksBalance'
    BY <1>1, <1>2 DEF MoneyInv, BooksBalance
  <1> QED BY <1>6, <1>7, <1>8 DEF MoneyInv

(* Coins appear on the ground, and the balance grows as much.              *)
LEMMA RespawnKeeps ==
  ASSUME MoneyInv, NEW p \in Piles, RespawnCoins(p)
  PROVE  MoneyInv'
  <1>1. gold \in [Agents -> Nat] /\ piles \in [Piles -> Nat] /\ Denoms[p] \in Nat
    BY PilesFinite DEF MoneyInv, Purses
  <1> DEFINE d == Denoms[p]
             k == piles[p] + 1
  <1>2. /\ piles' = [piles EXCEPT ![p] = k] /\ due' = due + d /\ k \in Nat
        /\ UNCHANGED <<bodies, gold, book, left>>
    BY <1>1 DEF RespawnCoins
  <1>3. Total(Value(piles'), Piles) = Total(Value(piles), Piles) + (k * d) - (piles[p] * d)
    <2> HIDE DEF k
    <2> QED BY <1>1, <1>2, PileChanges
  <1>4. (k * d) - (piles[p] * d) = d
    <2>1. \A x \in Nat, y \in Nat : ((x + 1) * y) - (x * y) = y
      OBVIOUS
    <2> QED BY <1>1, <2>1
  <1>5. Wealth' = due'
    <2>1. /\ Wealth' = Total(gold, Agents) + Total(Value(piles'), Piles)
          /\ Total(gold, Agents) \in Nat /\ Total(Value(piles), Piles) \in Nat
          /\ (k * d) \in Int /\ (piles[p] * d) \in Int
      <3>1. \A x \in Int, y \in Int : x * y \in Int
        OBVIOUS
      <3> QED BY <1>1, <1>2, <3>1, GoldType, ValueType DEF Wealth
    <2> QED BY <1>1, <1>2, <1>3, <1>4, <2>1 DEF MoneyInv, Wealth
  <1>6. Purses' /\ BooksBalance'
    BY <1>1, <1>2 DEF MoneyInv, Purses, BooksBalance
  <1> QED BY <1>5, <1>6 DEF MoneyInv

(* A death turns a purse into coin piles of the same worth.                *)
LEMMA DeathKeeps ==
  ASSUME MoneyInv, NEW a \in bodies, Die(a), UNCHANGED <<due, left>>
  PROVE  MoneyInv'
  <1>1. /\ gold \in [Agents -> Nat] /\ piles \in [Piles -> Nat] /\ book \in [Agents -> Int]
        /\ a \in Agents /\ gold[a] \in Nat
    BY DEF MoneyInv, Purses
  <1>2. /\ gold' = [gold EXCEPT ![a] = 0] /\ book' = [book EXCEPT ![a] = 0]
        /\ piles' = [p \in Piles |-> piles[p] + DropDenoms(gold[a])[p]]
        /\ bodies' = bodies \ {a}
    BY DEF Die
  <1>3. Total(gold', Agents) = Total(gold, Agents) + 0 - gold[a]
    BY <1>1, <1>2, PurseChanges
  <1>4. /\ piles' \in [Piles -> Nat]
        /\ Total(Value(piles'), Piles) = Total(Value(piles), Piles) + gold[a]
    BY <1>1, <1>2, PilesAdd
  <1>5. Wealth' = due'
    <2>1. /\ Wealth' = Total(gold', Agents) + Total(Value(piles'), Piles)
          /\ Total(gold, Agents) \in Nat /\ Total(Value(piles), Piles) \in Nat
      BY <1>1, GoldType, ValueType DEF Wealth
    <2> QED BY <1>1, <1>3, <1>4, <2>1 DEF MoneyInv, Wealth
  <1>6. Purses'
    BY <1>1, <1>2, <1>4 DEF MoneyInv, Purses
  <1>7. BooksBalance'
    BY <1>1, <1>2 DEF MoneyInv, BooksBalance
  <1> QED BY <1>5, <1>6, <1>7 DEF MoneyInv

(* Each step keeps the balance.                                            *)
LEMMA NextKeepsMoney == MoneyInv /\ IInv /\ [Next]_vars => MoneyInv'
  <1> SUFFICES ASSUME MoneyInv, IInv, [Next]_vars PROVE MoneyInv'
    OBVIOUS
  <1>0. /\ bodies \subseteq Agents /\ left \subseteq Agents \ bodies
        /\ gold \in [Agents -> Nat] /\ book \in [Agents -> Int]
        /\ \A a \in Agents \ bodies : gold[a] = 0
        /\ \A a \in bodies : book[a] = gold[a]
        /\ StartingGold \in Nat /\ WorkPayment \in Nat /\ FoodPrice \in Nat /\ due \in Int
        /\ hp \in [Agents -> Nat]
    <2>1. Wealth \in Int
      BY GoldType, ValueType DEF MoneyInv, Purses, Wealth
    <2>2. hp \in [Agents -> Nat]
      BY EconomyConstants DEF EconomyConstants, IInv, Shape
    <2> QED BY <2>1, <2>2, EconomyConstants DEF EconomyConstants, MoneyInv, Purses, BooksBalance
  <1>1. ASSUME NEW a \in Agents, Spawn(a) PROVE MoneyInv'
    <2>1. /\ gold' = [gold EXCEPT ![a] = StartingGold] /\ book' = [book EXCEPT ![a] = StartingGold]
          /\ due' = due + StartingGold - gold[a] /\ piles' = piles
          /\ bodies' = bodies \cup {a} /\ left' = left \ {a}
      BY <1>0, <1>1 DEF Spawn
    <2>2. /\ book' \in [Agents -> Int] /\ book'[a] = StartingGold
          /\ \A b \in Agents \ {a} : book'[b] = book[b]
      BY <1>0, <2>1
    <2>3. left' \subseteq Agents \ bodies' /\ a \in bodies'
      BY <1>0, <2>1
    <2>4. bodies' \subseteq bodies \cup {a} /\ bodies \subseteq bodies' \cup {a}
      BY <2>1
    <2> QED BY <1>0, <2>1, <2>2, <2>3, <2>4, MoneyComesOrGoes
  <1>2. ASSUME NEW a \in Agents, Leave(a) PROVE MoneyInv'
    <2>1. /\ gold' = [gold EXCEPT ![a] = 0] /\ book' = [book EXCEPT ![a] = 0]
          /\ due' = due + 0 - gold[a] /\ piles' = piles
          /\ bodies' = bodies \ {a} /\ left' = left \cup {a}
      BY <1>0, <1>2 DEF Leave
    <2>2. book' \in [Agents -> Int] /\ \A b \in Agents \ {a} : book'[b] = book[b]
      BY <1>0, <2>1
    <2>3. left' \subseteq Agents \ bodies' /\ a \notin bodies'
      BY <1>0, <2>1
    <2>4. bodies' \subseteq bodies \cup {a} /\ bodies \subseteq bodies' \cup {a}
      BY <2>1
    <2> QED BY <1>0, <2>1, <2>2, <2>3, <2>4, MoneyComesOrGoes
  <1>3. ASSUME NEW a \in Agents, Work(a) PROVE MoneyInv'
    <2> DEFINE n == gold[a] + WorkPayment
    <2>1. /\ gold' = [gold EXCEPT ![a] = n] /\ book' = [book EXCEPT ![a] = book[a] + WorkPayment]
          /\ due' = due + n - gold[a] /\ piles' = piles /\ n \in Nat
          /\ a \in bodies /\ bodies' = bodies /\ left' = left
      BY <1>0, <1>3 DEF Work, Grant
    <2>2. book'[a] = n /\ book' \in [Agents -> Int] /\ \A b \in Agents \ {a} : book'[b] = book[b]
      BY <1>0, <2>1
    <2> HIDE DEF n
    <2> QED BY <1>0, <2>1, <2>2, MoneyComesOrGoes
  <1>4. ASSUME NEW a \in Agents, BuyFood(a) PROVE MoneyInv'
    <2> DEFINE n == gold[a] - FoodPrice
    <2>1. /\ gold' = [gold EXCEPT ![a] = n] /\ book' = [book EXCEPT ![a] = book[a] - FoodPrice]
          /\ due' = due + n - gold[a] /\ piles' = piles /\ n \in Nat
          /\ a \in bodies /\ bodies' = bodies /\ left' = left
      BY <1>0, <1>4 DEF BuyFood
    <2>2. book'[a] = n /\ book' \in [Agents -> Int] /\ \A b \in Agents \ {a} : book'[b] = book[b]
      BY <1>0, <2>1
    <2> HIDE DEF n
    <2> QED BY <1>0, <2>1, <2>2, MoneyComesOrGoes
  <1>5. ASSUME NEW a \in bodies, NEW n \in Nat, DealDamage(a, n) PROVE MoneyInv'
    <2>1. CASE hp[a] > 0 /\ hp[a] <= n
      BY <1>5, <2>1, DeathKeeps DEF DealDamage
    <2>2. CASE ~ (hp[a] > 0 /\ hp[a] <= n)
      BY <1>5, <2>2, MoneyRests DEF DealDamage
    <2> QED BY <2>1, <2>2
  <1>6. ASSUME NEW a \in Agents, Starve(a) PROVE MoneyInv'
    <2>1. CASE hp[a] <= HungerDamage
      <3>1. a \in bodies /\ hp[a] \in Nat /\ DealDamage(a, hp[a])
        BY <1>0, <1>6, <2>1 DEF Starve
      <3> QED BY <1>5, <3>1
    <2>2. CASE ~ hp[a] <= HungerDamage
      BY <1>6, <2>2, MoneyRests DEF Starve
    <2> QED BY <2>1, <2>2
  <1>7. ASSUME NEW a \in Agents, NEW b \in Agents, NEW n \in Damages, Attack(a, b, n) PROVE MoneyInv'
    <2>1. n \in Nat /\ b \in bodies /\ DealDamage(b, n)
      BY <1>7, EconomyConstants DEF EconomyConstants, Attack
    <2> QED BY <1>5, <2>1
  <1>8. ASSUME NEW a \in Agents, NEW p \in Piles, PickupCoins(a, p) PROVE MoneyInv'
    BY <1>8, CoinsKeep
  <1>9. ASSUME NEW p \in Piles, RespawnCoins(p) PROVE MoneyInv'
    BY <1>9, RespawnKeeps
  <1>10. ASSUME NEW a \in Agents, NEW b \in Agents, NEW n \in 1..MaxWealth, HandlePay(a, b, n)
         PROVE  MoneyInv'
    BY <1>10, PayKeeps DEF HandlePay
  <1>11. ASSUME NEW a \in Agents, NEW b \in Agents, NEW t \in Things, NEW n \in 0..MaxWealth,
                Trade(a, b, t, n)
         PROVE  MoneyInv'
    BY <1>11, PayKeeps DEF Trade
  <1>12. ASSUME NEW a \in Agents, NEW S \in SUBSET Things, Heal(a) \/ Gather(a, S) PROVE MoneyInv'
    BY <1>12, MoneyRests DEF Heal, Gather
  <1>13. ASSUME NEW a \in Agents, NEW t \in Things,
                \/ Pickup(a, t) \/ DropThing(a, t) \/ Eat(a, t)
                \/ \E s \in Slots : Equip(a, t, s)
                \/ \E b \in Agents : Give(a, b, t)
         PROVE  MoneyInv'
    <2>1. UNCHANGED <<bodies, gold, piles, due, book, left>>
      BY <1>13 DEF Pickup, DropThing, Eat, Equip, Give
    <2> QED BY <2>1, MoneyRests
  <1>14. ASSUME NEW t \in Things, RespawnThing(t) PROVE MoneyInv'
    BY <1>14, MoneyRests DEF RespawnThing
  <1>15. CASE UNCHANGED vars
    BY <1>15, MoneyRests DEF vars
  <1> QED
    <2>1. ASSUME NEW a \in Agents, Heal(a) PROVE MoneyInv'
      BY <1>12, <2>1
    <2>2. ASSUME NEW a \in Agents, NEW S \in SUBSET Things, Gather(a, S) PROVE MoneyInv'
      BY <1>12, <2>2
    <2> QED
      BY <1>1, <1>2, <1>3, <1>4, <1>6, <1>7, <1>8, <1>9, <1>10, <1>11, <1>13, <1>14, <1>15,
         <2>1, <2>2
      DEF Next

-----------------------------------------------------------------------------
(* Inventories. *)

LEMMA CarriedType ==
  ASSUME NEW iv \in [Agents -> SUBSET Things], NEW a \in Agents
  PROVE  IsFiniteSet(iv[a]) /\ Cardinality(iv[a]) \in Nat
  <1>1. iv[a] \in SUBSET Things /\ IsFiniteSet(Things)
    BY EconomyConstants DEF EconomyConstants
  <1>2. IsFiniteSet(iv[a])
    BY <1>1, FS_Subset
  <1> QED BY <1>2, FS_CardinalityType

(* One inventory changes within its cap, the others only shrink.           *)
LEMMA CapHolds ==
  ASSUME inv \in [Agents -> SUBSET Things], inv' \in [Agents -> SUBSET Things],
         InventoryCapped, NEW b \in Agents,
         \A c \in Agents \ {b} : inv'[c] \subseteq inv[c],
         Cardinality(inv'[b]) <= MaxSlots
  PROVE  InventoryCapped'
  <1>1. ASSUME NEW c \in Agents \ {b} PROVE Cardinality(inv'[c]) <= MaxSlots
    <2>1. /\ IsFiniteSet(inv[c]) /\ Cardinality(inv[c]) \in Nat
          /\ Cardinality(inv'[c]) \in Nat
      BY CarriedType
    <2>2. Cardinality(inv'[c]) <= Cardinality(inv[c])
      BY <2>1, FS_Subset
    <2>3. Cardinality(inv[c]) <= MaxSlots
      BY DEF InventoryCapped, Carried
    <2> QED BY <2>1, <2>2, <2>3, EconomyConstants DEF EconomyConstants
  <1> QED BY <1>1 DEF InventoryCapped, Carried

(* Every inventory shrinks or stays.                                       *)
LEMMA CapShrinks ==
  ASSUME inv \in [Agents -> SUBSET Things], inv' \in [Agents -> SUBSET Things],
         InventoryCapped, \A c \in Agents : inv'[c] \subseteq inv[c]
  PROVE  InventoryCapped'
  <1> SUFFICES ASSUME NEW b \in Agents PROVE Cardinality(inv'[b]) <= MaxSlots
    BY DEF InventoryCapped, Carried
  <1>1. /\ IsFiniteSet(inv[b]) /\ Cardinality(inv[b]) \in Nat /\ Cardinality(inv'[b]) \in Nat
    BY CarriedType
  <1>2. Cardinality(inv'[b]) <= Cardinality(inv[b])
    BY <1>1, FS_Subset
  <1>3. Cardinality(inv[b]) <= MaxSlots
    BY DEF InventoryCapped, Carried
  <1> QED BY <1>1, <1>2, <1>3, EconomyConstants DEF EconomyConstants

(* A thing more fits where there was room for it.                          *)
LEMMA OneMore ==
  ASSUME NEW X, IsFiniteSet(X), NEW t, Cardinality(X) < MaxSlots
  PROVE  Cardinality(X \cup {t}) <= MaxSlots
  <1>1. Cardinality(X) \in Nat
    BY FS_CardinalityType
  <1>2. Cardinality(X \cup {t}) = IF t \in X THEN Cardinality(X) ELSE Cardinality(X) + 1
    BY FS_AddElement
  <1> QED BY <1>1, <1>2, EconomyConstants DEF EconomyConstants

(* A thing leaves and at most one comes.                                   *)
LEMMA OneForOne ==
  ASSUME NEW X, IsFiniteSet(X), NEW t \in X, NEW u
  PROVE  /\ Cardinality(X \ {t}) <= Cardinality(X)
         /\ Cardinality((X \ {t}) \cup {u}) <= Cardinality(X)
  <1> DEFINE Y == X \ {t}
  <1>1. IsFiniteSet(Y) /\ Cardinality(Y) = Cardinality(X) - 1
    BY FS_RemoveElement
  <1>2. Cardinality(X) \in Nat /\ Cardinality(Y) \in Nat
    BY <1>1, FS_CardinalityType
  <1> HIDE DEF Y
  <1>3. Cardinality(Y \cup {u}) = IF u \in Y THEN Cardinality(Y) ELSE Cardinality(Y) + 1
    BY <1>1, FS_AddElement
  <1>4. Cardinality(Y) <= Cardinality(X) /\ Cardinality(Y \cup {u}) <= Cardinality(X)
    BY <1>1, <1>2, <1>3
  <1> QED BY <1>4 DEF Y

(* Each step keeps the cap.                                                *)
LEMMA NextKeepsCap == IInv /\ IInv' /\ InventoryCapped /\ [Next]_vars => InventoryCapped'
  <1> SUFFICES ASSUME IInv, IInv', InventoryCapped, [Next]_vars PROVE InventoryCapped'
    OBVIOUS
  <1>0. /\ inv \in [Agents -> SUBSET Things] /\ inv' \in [Agents -> SUBSET Things]
        /\ bodies \subseteq Agents
    BY DEF IInv, Shape
  <1>cap. \A c \in Agents : /\ IsFiniteSet(inv[c]) /\ Cardinality(inv[c]) \in Nat
                            /\ Cardinality(inv[c]) <= MaxSlots
    BY <1>0, CarriedType DEF InventoryCapped, Carried
  <1>1. ASSUME UNCHANGED inv PROVE InventoryCapped'
    BY <1>1 DEF InventoryCapped, Carried
  <1>2. ASSUME NEW a \in Agents, inv' = [inv EXCEPT ![a] = {}] PROVE InventoryCapped'
    <2>1. \A c \in Agents : inv'[c] \subseteq inv[c]
      BY <1>0, <1>2
    <2> QED BY <1>0, <2>1, CapShrinks
  <1>3. ASSUME NEW a \in Agents, NEW t \in Things, inv' = [inv EXCEPT ![a] = @ \ {t}]
        PROVE  InventoryCapped'
    <2>1. \A c \in Agents : inv'[c] \subseteq inv[c]
      BY <1>0, <1>3
    <2> QED BY <1>0, <2>1, CapShrinks
  <1>4. ASSUME NEW a \in Agents, NEW n \in Nat, DealDamage(a, n) PROVE InventoryCapped'
    BY <1>1, <1>2, <1>4 DEF DealDamage, Die
  <1>5. ASSUME NEW a \in Agents, Starve(a) PROVE InventoryCapped'
    <2>1. CASE hp[a] <= HungerDamage
      <3>1. hp[a] \in Nat
        BY EconomyConstants DEF EconomyConstants, IInv, Shape
      <3> QED BY <1>4, <1>5, <2>1, <3>1 DEF Starve
    <2>2. CASE ~ hp[a] <= HungerDamage
      BY <1>1, <1>5, <2>2 DEF Starve
    <2> QED BY <2>1, <2>2
  <1>6. ASSUME NEW a \in Agents, NEW S \in SUBSET Things, Gather(a, S) PROVE InventoryCapped'
    <2>1. /\ inv'[a] = inv[a] \cup S /\ \A c \in Agents \ {a} : inv'[c] \subseteq inv[c]
          /\ Cardinality(inv[a]) + Cardinality(S) <= MaxSlots
      BY <1>0, <1>6 DEF Gather, Carried
    <2>2. IsFiniteSet(S) /\ Cardinality(S) \in Nat
      BY EconomyConstants, FS_Subset, FS_CardinalityType DEF EconomyConstants
    <2> DEFINE both == inv[a] \cap S
    <2>3. Cardinality(inv[a] \cup S) = Cardinality(inv[a]) + Cardinality(S) - Cardinality(both)
      BY <1>cap, <2>2, FS_Union
    <2>4. Cardinality(both) \in Nat
      BY <2>2, FS_Subset, FS_CardinalityType
    <2> HIDE DEF both
    <2>5. Cardinality(inv'[a]) <= MaxSlots
      BY <1>cap, <2>1, <2>2, <2>3, <2>4, EconomyConstants DEF EconomyConstants
    <2> QED BY <1>0, <2>1, <2>5, CapHolds
  <1>7. ASSUME NEW a \in Agents, NEW t \in Things, Pickup(a, t) PROVE InventoryCapped'
    <2>1. /\ inv'[a] = inv[a] \cup {t} /\ \A c \in Agents \ {a} : inv'[c] \subseteq inv[c]
          /\ Cardinality(inv[a]) < MaxSlots
      BY <1>0, <1>7 DEF Pickup, Carried
    <2>2. Cardinality(inv'[a]) <= MaxSlots
      BY <1>cap, <2>1, OneMore
    <2> QED BY <1>0, <2>1, <2>2, CapHolds
  <1>8. ASSUME NEW a \in Agents, NEW t \in Things, NEW s \in Slots, Equip(a, t, s)
        PROVE  InventoryCapped'
    <2>1. /\ inv'[a] = (inv[a] \ {t}) \cup ({eq[a][s]} \ {NoThing}) /\ t \in inv[a]
          /\ \A c \in Agents \ {a} : inv'[c] \subseteq inv[c]
      BY <1>0, <1>8 DEF Equip
    <2>2. inv'[a] = inv[a] \ {t} \/ inv'[a] = (inv[a] \ {t}) \cup {eq[a][s]}
      BY <2>1
    <2>3. Cardinality(inv'[a]) <= Cardinality(inv[a])
      BY <1>cap, <2>1, <2>2, OneForOne
    <2>4. Cardinality(inv'[a]) \in Nat
      BY <1>0, CarriedType
    <2>5. Cardinality(inv'[a]) <= MaxSlots
      BY <1>cap, <2>3, <2>4, EconomyConstants DEF EconomyConstants
    <2> QED BY <1>0, <2>1, <2>5, CapHolds
  <1>9. ASSUME NEW a \in Agents, NEW b \in Agents, NEW t \in Things,
               Give(a, b, t) \/ \E n \in 0..MaxWealth : Trade(a, b, t, n)
        PROVE  InventoryCapped'
    <2>1. /\ inv' = [inv EXCEPT ![a] = @ \ {t}, ![b] = @ \cup {t}] /\ a # b
          /\ Cardinality(inv[b]) < MaxSlots
      BY <1>9 DEF Give, Trade, Carried
    <2>2. inv'[b] = inv[b] \cup {t} /\ \A c \in Agents \ {b} : inv'[c] \subseteq inv[c]
      BY <1>0, <2>1
    <2>3. Cardinality(inv'[b]) <= MaxSlots
      BY <1>cap, <2>1, <2>2, OneMore
    <2> QED BY <1>0, <2>2, <2>3, CapHolds
  <1>10. ASSUME NEW a \in Agents,
                \/ Spawn(a) \/ Work(a) \/ BuyFood(a) \/ Heal(a)
                \/ \E p \in Piles : PickupCoins(a, p)
                \/ \E b \in Agents : \E n \in 1..MaxWealth : HandlePay(a, b, n)
         PROVE  InventoryCapped'
    BY <1>1, <1>10 DEF Spawn, Work, BuyFood, Heal, PickupCoins, HandlePay
  <1>11. ASSUME NEW a \in Agents, Leave(a) PROVE InventoryCapped'
    BY <1>2, <1>11 DEF Leave
  <1>12. ASSUME NEW a \in Agents, NEW t \in Things, DropThing(a, t) \/ Eat(a, t)
         PROVE  InventoryCapped'
    BY <1>3, <1>12 DEF DropThing, Eat
  <1>13. ASSUME NEW a \in Agents, NEW b \in Agents, NEW n \in Damages, Attack(a, b, n)
         PROVE  InventoryCapped'
    <2>1. n \in Nat
      BY EconomyConstants DEF EconomyConstants
    <2> QED BY <1>4, <1>13, <2>1 DEF Attack
  <1>14. ASSUME (\E t \in Things : RespawnThing(t)) \/ \E p \in Piles : RespawnCoins(p)
         PROVE  InventoryCapped'
    BY <1>1, <1>14 DEF RespawnThing, RespawnCoins
  <1>15. CASE UNCHANGED vars
    BY <1>1, <1>15 DEF vars
  <1> QED
    BY <1>5, <1>6, <1>7, <1>8, <1>9, <1>10, <1>11, <1>12, <1>13, <1>14, <1>15 DEF Next

LEMMA CapStart == Init => InventoryCapped
  <1> SUFFICES ASSUME Init, NEW a \in Agents PROVE Cardinality(inv[a]) <= MaxSlots
    BY DEF InventoryCapped, Carried
  <1>1. inv[a] = {}
    BY DEF Init
  <1>2. Cardinality({}) = 0
    BY FS_EmptySet
  <1> QED BY <1>1, <1>2, EconomyConstants DEF EconomyConstants

-----------------------------------------------------------------------------
(* Whatever the starting gold, wages, prices and coin values: a payment, a *)
(* sale, a coin picked up, and a death that leaves its gold as coins keep  *)
(* the sum of the gold, and each body has what the events of the money     *)
(* system tell of it (combat.go: "so gold conservation holds").            *)
THEOREM GoldIsConserved == Spec => []MoneyAddsUp
  <1>1. Init => IInv /\ MoneyInv
    BY Start, MoneyStart
  <1>2. IInv /\ MoneyInv /\ [Next]_vars => (IInv /\ MoneyInv)'
    BY NextKeeps, NextKeepsMoney
  <1>3. IInv /\ MoneyInv => MoneyAddsUp
    BY WealthIsConserved DEF MoneyInv, MoneyAddsUp
  <1> QED BY <1>1, <1>2, <1>3, PTL DEF Spec

(* The types, and the cap of each inventory: no order of harvests, gifts,  *)
(* purchases, pickups and changes of weapon fills it beyond its slots, and *)
(* no body owes (inventory.go: DefaultMaxSlots; money.go: debit).          *)
THEOREM InventoriesAreCapped == Spec => []WithinBounds
  <1> DEFINE All == IInv /\ MoneyInv /\ InventoryCapped
  <1>1. Init => All
    BY Start, MoneyStart, CapStart
  <1>2. All /\ [Next]_vars => All'
    <2> SUFFICES ASSUME All, [Next]_vars PROVE All'
      OBVIOUS
    <2>1. IInv' /\ MoneyInv'
      BY NextKeeps, NextKeepsMoney
    <2> QED BY <2>1, NextKeepsCap
  <1>3. All => WithinBounds
    <2> SUFFICES ASSUME All PROVE TypeOK
      BY DEF WithinBounds
    <2>1. due \in Nat
      BY GoldType, ValueType DEF MoneyInv, Purses, Wealth
    <2> QED BY <2>1 DEF IInv, Shape, MoneyInv, Purses, TypeOK
  <1> HIDE DEF All
  <1> QED BY <1>1, <1>2, <1>3, PTL DEF Spec

(* A death, a sale, a gift, a change of weapon and a pickup lose no thing: *)
(* only a meal and a departure take things out of the world.               *)
THEOREM NoThingIsLost == Spec => ThingsAreKept
  <1> DEFINE Lost(t) == \E a \in bodies :
               \/ a \in left' /\ t \in inv[a] \cup Worn(a)
               \/ a \in bodies' /\ t \in inv[a] /\ inv'[a] = inv[a] \ {t}
  <1>1. ASSUME IInv, IInv', [Next]_vars
        PROVE  (\A t \in Present \ Present' : Lost(t)) \/ UNCHANGED vars
    <2> SUFFICES ASSUME Next PROVE \A t \in Present \ Present' : Lost(t)
      BY <1>1
    <2> HIDE DEF Lost
    <2>0. /\ bodies \subseteq Agents /\ inv \in [Agents -> SUBSET Things]
          /\ eq \in [Agents -> [Slots -> Things \cup {NoThing}]]
          /\ hp \in [Agents -> 0..MaxHP]
      BY <1>1 DEF IInv, Shape
    <2>same. ASSUME UNCHANGED eq PROVE \A b \in Agents : Worn(b)' = Worn(b)
      BY <2>same DEF Worn
    <2>1. ASSUME UNCHANGED <<inv, eq>>, ground \subseteq ground' PROVE Present \subseteq Present'
      BY <2>1, <2>same DEF Present
    <2>2. ASSUME NEW a \in Agents, NEW t \in Things, NEW s \in Slots, Equip(a, t, s)
          PROVE  Present \subseteq Present'
      <3>1. /\ eq'[a][s] = t /\ \A r \in Slots \ {s} : eq'[a][r] = eq[a][r]
            /\ inv'[a] = (inv[a] \ {t}) \cup ({eq[a][s]} \ {NoThing}) /\ ground' = ground
            /\ \A b \in Agents \ {a} : inv'[b] = inv[b] /\ eq'[b] = eq[b]
        BY <2>0, <2>2 DEF Equip
      <3>2. \A b \in Agents \ {a} : Worn(b)' = Worn(b)
        BY <3>1 DEF Worn
      <3>3. Worn(a) \subseteq inv'[a] \cup Worn(a)' /\ (t # NoThing => t \in Worn(a)')
        BY <3>1 DEF Worn
      <3>4. t # NoThing
        BY EconomyConstants DEF EconomyConstants
      <3>5. \A b \in Agents : inv[b] \cup Worn(b) \subseteq inv'[b] \cup Worn(b)'
        BY <3>1, <3>2, <3>3, <3>4
      <3> QED BY <3>1, <3>5 DEF Present
    <2>3. ASSUME NEW a \in Agents, Die(a) PROVE Present \subseteq Present'
      <3>1. /\ ground' = ground \cup inv[a] \cup Worn(a)
            /\ \A b \in Agents \ {a} : inv'[b] = inv[b] /\ eq'[b] = eq[b]
        BY <2>0, <2>3 DEF Die
      <3>2. \A b \in Agents \ {a} : Worn(b)' = Worn(b)
        BY <3>1 DEF Worn
      <3> QED BY <3>1, <3>2 DEF Present
    <2>4. ASSUME NEW a \in Agents, NEW n \in Nat, DealDamage(a, n) PROVE Present \subseteq Present'
      BY <2>1, <2>3, <2>4 DEF DealDamage
    <2>5. ASSUME NEW a \in Agents, Starve(a) PROVE Present \subseteq Present'
      <3>1. CASE hp[a] <= HungerDamage
        <4>1. hp[a] \in Nat
          BY <2>0, EconomyConstants DEF EconomyConstants
        <4> QED BY <2>4, <2>5, <3>1, <4>1 DEF Starve
      <3>2. CASE ~ hp[a] <= HungerDamage
        BY <2>1, <2>5, <3>2 DEF Starve
      <3> QED BY <3>1, <3>2
    <2>6. ASSUME NEW a \in Agents, NEW b \in Agents, NEW n \in Damages, Attack(a, b, n)
          PROVE  Present \subseteq Present'
      <3>1. n \in Nat
        BY EconomyConstants DEF EconomyConstants
      <3> QED BY <2>4, <2>6, <3>1 DEF Attack
    <2>7. ASSUME NEW a \in Agents, NEW t \in Things, Pickup(a, t) \/ DropThing(a, t)
          PROVE  Present \subseteq Present'
      <3>1. /\ UNCHANGED eq /\ inv[a] \cup ground = inv'[a] \cup ground'
            /\ \A b \in Agents \ {a} : inv'[b] = inv[b]
        BY <2>0, <2>7 DEF Pickup, DropThing
      <3> QED BY <2>same, <3>1 DEF Present
    <2>8. ASSUME NEW a \in Agents, NEW S \in SUBSET Things, Gather(a, S)
          PROVE  Present \subseteq Present'
      <3>1. UNCHANGED <<eq, ground>> /\ \A b \in Agents : inv[b] \subseteq inv'[b]
        BY <2>0, <2>8 DEF Gather
      <3> QED BY <2>same, <3>1 DEF Present
    <2>9. ASSUME NEW a \in Agents, NEW b \in Agents, NEW t \in Things,
                 Give(a, b, t) \/ \E n \in 0..MaxWealth : Trade(a, b, t, n)
          PROVE  Present \subseteq Present'
      <3>1. /\ inv' = [inv EXCEPT ![a] = @ \ {t}, ![b] = @ \cup {t}] /\ a # b
            /\ UNCHANGED <<eq, ground>>
        BY <2>9 DEF Give, Trade
      <3>2. /\ inv'[a] = inv[a] \ {t} /\ inv'[b] = inv[b] \cup {t}
            /\ \A c \in Agents \ {a, b} : inv'[c] = inv[c]
        BY <2>0, <3>1
      <3>3. \A c \in Agents : inv[c] \subseteq UNION {inv'[d] \cup Worn(d)' : d \in Agents}
        <4>1. inv[a] \subseteq inv'[a] \cup inv'[b] /\ inv[b] \subseteq inv'[b]
          BY <3>2
        <4> QED BY <3>2, <4>1
      <3>4. \A c \in Agents : Worn(c) \subseteq UNION {inv'[d] \cup Worn(d)' : d \in Agents}
        BY <2>same, <3>1
      <3> QED BY <3>1, <3>3, <3>4 DEF Present
    <2>10. ASSUME NEW a \in Agents,
                  \/ Spawn(a) \/ Work(a) \/ BuyFood(a) \/ Heal(a)
                  \/ \E p \in Piles : PickupCoins(a, p)
                  \/ \E b \in Agents : \E n \in 1..MaxWealth : HandlePay(a, b, n)
           PROVE  Present \subseteq Present'
      BY <2>1, <2>10 DEF Spawn, Work, BuyFood, Heal, PickupCoins, HandlePay
    <2>11. ASSUME (\E t \in Things : RespawnThing(t)) \/ \E p \in Piles : RespawnCoins(p)
           PROVE  Present \subseteq Present'
      BY <2>1, <2>11 DEF RespawnThing, RespawnCoins
    <2>12. ASSUME NEW a \in Agents, Leave(a) PROVE \A t \in Present \ Present' : Lost(t)
      <3>1. /\ ground' = ground /\ a \in left' /\ a \in bodies
            /\ \A b \in Agents \ {a} : inv'[b] = inv[b] /\ eq'[b] = eq[b]
        BY <2>0, <2>12 DEF Leave
      <3>2. \A b \in Agents \ {a} : Worn(b)' = Worn(b)
        BY <3>1 DEF Worn
      <3>3. \A t \in Present \ Present' : t \in inv[a] \cup Worn(a)
        BY <3>1, <3>2 DEF Present
      <3> QED BY <3>1, <3>3 DEF Lost
    <2>13. ASSUME NEW a \in Agents, NEW t \in Things, Eat(a, t)
           PROVE  \A u \in Present \ Present' : Lost(u)
      <3>1. /\ a \in bodies /\ bodies' = bodies /\ UNCHANGED <<eq, ground>> /\ t \in inv[a]
            /\ inv'[a] = inv[a] \ {t} /\ \A b \in Agents \ {a} : inv'[b] = inv[b]
        BY <2>0, <2>13 DEF Eat
      <3>2. \A u \in Present \ Present' : u = t
        BY <2>same, <3>1 DEF Present
      <3> QED BY <3>1, <3>2 DEF Lost
    <2> QED
      BY <2>2, <2>5, <2>6, <2>7, <2>8, <2>9, <2>10, <2>11, <2>12, <2>13 DEF Next
  <1>2. IInv /\ IInv' /\ [Next]_vars
          => [\A t \in Present \ Present' :
                \E a \in bodies :
                  \/ a \in left' /\ t \in inv[a] \cup Worn(a)
                  \/ a \in bodies' /\ t \in inv[a] /\ inv'[a] = inv[a] \ {t}]_vars
    BY <1>1
  <1> QED BY Start, NextKeeps, <1>2, PTL DEF Spec, ThingsAreKept
=============================================================================
