------------------------ MODULE TileOccupancy_proofs ------------------------
(* Proofs about TileOccupancy, and about PortalOccupancy at the end, for   *)
(* any map, any set of bodies and any walk length.                         *)
EXTENDS PortalOccupancy, TLAPS

LEMMA Lengths ==
  /\ HalfWalk \in Nat \ {0} /\ FullWalk \in Nat /\ HalfWalk < FullWalk
  /\ MaxTimer \in Nat \ {0}
BY OccupancyConstants DEF OccupancyConstants

LEMMA NoOneIsNoId == NoOne \notin Ids
BY OccupancyConstants DEF OccupancyConstants
-----------------------------------------------------------------------------
LEMMA Ranges ==
  /\ 0 \in Progress /\ FullWalk \in Progress
  /\ 0 \in Timers /\ \A n \in 1..MaxTimer : n \in Timers
  /\ \A p \in Progress : p < FullWalk => p + 1 \in Progress
  /\ \A n \in Timers : n > 0 => n - 1 \in Timers
BY Lengths DEF Progress, Timers

(* The updates of a body's record the actions make keep it a body.         *)
LEMMA WalkType ==
  ASSUME NEW b \in Body, NEW d \in Dirs
  PROVE  /\ Walk(b, d) \in Body
         /\ Walk(b, d).prog = 0 /\ Walk(b, d).act = "move"
         /\ Walk(b, d).hold = b.hold
BY Ranges DEF Walk, Body

LEMMA Updates ==
  ASSUME NEW b \in Body, NEW p \in Progress, NEW n \in Timers,
         NEW a \in {"", "move", "wait"}, NEW i \in BOOLEAN
  PROVE  /\ [b EXCEPT !.prog = p, !.act = a] \in Body
         /\ [b EXCEPT !.hold = n, !.act = a] \in Body
         /\ [b EXCEPT !.act = a, !.hold = n] \in Body
         /\ [b EXCEPT !.timer = n] \in Body
         /\ [b EXCEPT !.inside = i, !.timer = n] \in Body
         /\ [b EXCEPT !.inside = i, !.facing = "away"] \in Body
         /\ [b EXCEPT !.inside = i, !.timer = n, !.act = a] \in Body
         /\ [b EXCEPT !.ctl = i] \in Body
BY DEF Body

LEMMA BodyFields ==
  ASSUME NEW b \in Body
  PROVE  /\ b.prog \in Progress /\ b.timer \in Timers /\ b.hold \in Timers
         /\ b.act \in {"", "move", "wait"} /\ b.inside \in BOOLEAN
BY DEF Body

LEMMA StandingType == Standing \in Body
BY Ranges DEF Standing, Body

LEMMA OppositeType == ASSUME NEW d \in Dirs PROVE Opposite(d) \in Dirs
BY DEF Dirs, Opposite

(* The type invariant is inductive on its own.                             *)
LEMMA TypeStep == TypeOK /\ [Next]_vars => TypeOK'
<1> SUFFICES ASSUME TypeOK, [Next]_vars PROVE TypeOK'
  OBVIOUS
<1> USE Lengths DEF TypeOK
<1>1. ASSUME NEW e \in Ids, NEW d \in Dirs, StepClaim(e, d) PROVE TypeOK'
  <2>1. body[e] \in Body /\ Walk(body[e], d) \in Body
    BY WalkType
  <2>2. body' \in [Ids -> Body]
    BY <1>1, <2>1 DEF StepClaim
  <2>3. QED
    BY <1>1, <2>2 DEF StepClaim
<1>2. ASSUME NEW e \in Ids, NEW d \in Dirs, StepSwap(e, d) PROVE TypeOK'
  <2> DEFINE u == occ[Neighbour(pos[e], d)]
  <2>1. u \in Ids /\ u \in live
    BY <1>2 DEF StepSwap, CanSwap
  <2>2. Walk(body[e], d) \in Body /\ Walk(body[u], Opposite(d)) \in Body
    BY <2>1, WalkType, OppositeType
  <2>3. body' \in [Ids -> Body]
    BY <1>2, <2>1, <2>2 DEF StepSwap
  <2>4. QED
    BY <1>2, <2>1, <2>3 DEF StepSwap
<1>3. ASSUME NEW e \in Ids, Wait(e) PROVE TypeOK'
  <2>1. PICK n \in 1..MaxTimer :
               body' = [body EXCEPT ![e] = [@ EXCEPT !.act = "wait", !.hold = n]]
    BY <1>3 DEF Wait
  <2>2. [body[e] EXCEPT !.act = "wait", !.hold = n] \in Body
    BY Ranges, Updates, body[e] \in Body
  <2>3. QED
    BY <1>3, <2>1, <2>2 DEF Wait
<1>4. ASSUME NEW e \in Ids, InteractEnter(e) PROVE TypeOK'
  <2>1. PICK n \in 1..MaxTimer :
               body' = [body EXCEPT ![e] = [@ EXCEPT !.inside = TRUE, !.timer = n]]
    BY <1>4 DEF InteractEnter
  <2>2. [body[e] EXCEPT !.inside = TRUE, !.timer = n] \in Body
    BY Ranges, Updates, body[e] \in Body
  <2>3. QED
    BY <1>4, <2>1, <2>2 DEF InteractEnter
<1>5. ASSUME NEW e \in Ids, InteractExit(e) PROVE TypeOK'
  BY <1>5, Ranges, Updates DEF InteractExit
<1>6. ASSUME NEW e \in Ids, NEW t \in Walkable, SpawnAgentEntity(e, t)
      PROVE  TypeOK'
  BY <1>6, StandingType DEF SpawnAgentEntity
<1>7. ASSUME NEW e \in Ids, RemoveEntity(e) PROVE TypeOK'
  <2>1. AnyTile \in Walkable
    BY DEF AnyTile
  <2>2. QED
    BY <1>7, <2>1, StandingType DEF RemoveEntity, Idle
<1>8. ASSUME NEW e \in Ids, NEW on \in BOOLEAN, SetPlayerControlled(e, on)
      PROVE  TypeOK'
  BY <1>8, Ranges, Updates DEF SetPlayerControlled
<1>9. ASSUME TickBegin PROVE TypeOK'
  BY <1>9 DEF TickBegin
<1>10. ASSUME NEW e \in Ids, Visit(e) PROVE TypeOK'
  <2>1. ASSUME Visited(e) 
        PROVE  live' \subseteq born' /\ born' \subseteq Ids /\ pending' \subseteq live' 
               /\ age' \in [Ids -> 0..HalfWalk]
    BY <2>1 DEF Visited
  <2>2. CASE AdvanceWalk(e)
    BY <2>1, <2>2, Ranges, Updates, BodyFields DEF AdvanceWalk, Walking
  <2>3. CASE StayInside(e)
    BY <2>1, <2>3, Ranges, Updates, BodyFields DEF StayInside
  <2>4. CASE Reemerge(e)
    <3>1. body' = [body EXCEPT ![e] = [@ EXCEPT !.inside = FALSE, !.facing = "away"]]
          /\ Visited(e) /\ UNCHANGED from
      BY <2>4 DEF Reemerge
    <3>2. [body[e] EXCEPT !.inside = FALSE, !.facing = "away"] \in Body
      BY Updates, Ranges, body[e] \in Body
    <3>3. NearestWalkable(pos[e]) \subseteq Walkable
      BY DEF NearestWalkable
    <3>4. pos' \in [Ids -> Walkable] /\ occ' \in [Walkable -> Ids \cup {NoOne}]
      BY <2>4, <3>3 DEF Reemerge
    <3>5. QED
      BY <2>1, <3>1, <3>2, <3>4
  <2>5. CASE HoldAction(e)
    BY <2>1, <2>5, Ranges, Updates, BodyFields, ZenonT(40) DEF HoldAction
  <2>6. CASE AutoEnter(e)
    <3>1. PICK n \in 1..MaxTimer :
            body' = [body EXCEPT ![e] = [@ EXCEPT !.inside = TRUE, !.timer = n, !.act = ""]]
      BY <2>6 DEF AutoEnter
    <3>2. [body[e] EXCEPT !.inside = TRUE, !.timer = n, !.act = ""] \in Body
      BY Ranges, Updates, body[e] \in Body
    <3>3. Visited(e) /\ UNCHANGED <<pos, from>> /\ occ' \in [Walkable -> Ids \cup {NoOne}]
      BY <2>6 DEF AutoEnter
    <3>4. QED
      BY <2>1, <3>1, <3>2, <3>3
  <2>7. CASE Rest(e)
    BY <2>1, <2>7 DEF Rest
  <2>8. QED
    BY <1>10, <2>2, <2>3, <2>4, <2>5, <2>6, <2>7 DEF Visit
<1>11. CASE UNCHANGED vars
  BY <1>11 DEF vars
<1>12. QED
  BY <1>1, <1>2, <1>3, <1>4, <1>5, <1>6, <1>7, <1>8, <1>9, <1>10, <1>11
  DEF Next, Handle

LEMMA TypeInit == Init => TypeOK
BY OccupancyConstants, Lengths, StandingType DEF Init, TypeOK, AnyTile, OccupancyConstants

(* Type correctness of every reachable state.                              *)
THEOREM TypeCorrect == Spec => []TypeOK
BY TypeInit, TypeStep, PTL DEF Spec

-----------------------------------------------------------------------------
(* With no door to walk into, no body releases the tile it stands on.      *)
LEMMA OwnTileStep ==
  ASSUME Doors = {}, TypeOK, OwnTile, [Next]_vars
  PROVE  OwnTile'
<1> USE DEF TypeOK, OwnTile
<1>1. ASSUME NEW e \in Ids, NEW d \in Dirs, StepClaim(e, d) PROVE OwnTile'
  <2> DEFINE next == Neighbour(pos[e], d)
  <2>1. ASSUME NEW u \in live', u # e PROVE occ'[pos'[u]] = u
    <3>1. pos[u] # next
      BY <1>1, <2>1, NoOneIsNoId DEF StepClaim, CanClaim, Stale
    <3>2. QED
      BY <1>1, <2>1, <3>1 DEF StepClaim
  <2>2. occ'[pos'[e]] = e
    BY <1>1 DEF StepClaim
  <2>3. QED
    BY <2>1, <2>2
<1>2. ASSUME NEW e \in Ids, NEW d \in Dirs, StepSwap(e, d) PROVE OwnTile'
  <2> DEFINE next == Neighbour(pos[e], d)
             o    == occ[next]
  <2>1. o \in live \ {e} /\ pos[o] = next /\ next # pos[e] /\ e \in live
    BY <1>2 DEF StepSwap, CanSwap
  <2>2. /\ pos' = [pos EXCEPT ![e] = next, ![o] = pos[e]]
        /\ occ' = [occ EXCEPT ![pos[e]] = o, ![next] = e]
        /\ next \in Walkable /\ live' = live
    BY <1>2 DEF StepSwap
  <2>3. ASSUME NEW u \in live', u # e, u # o PROVE occ'[pos'[u]] = u
    <3>1. pos[u] # next /\ pos[u] # pos[e]
      BY <2>1, <2>2, <2>3
    <3>2. QED
      BY <2>1, <2>2, <2>3, <3>1
  <2>4. occ'[pos'[e]] = e /\ occ'[pos'[o]] = o
    BY <2>1, <2>2
  <2>5. QED
    BY <2>3, <2>4
<1>3. ASSUME NEW e \in Ids, NEW t \in Walkable, SpawnAgentEntity(e, t)
      PROVE  OwnTile'
  <2>1. ASSUME NEW u \in live', u # e PROVE occ'[pos'[u]] = u
    <3>1. u \in live /\ pos[u] # t
      BY <1>3, <2>1, NoOneIsNoId DEF SpawnAgentEntity
    <3>2. QED
      BY <1>3, <2>1, <3>1 DEF SpawnAgentEntity
  <2>2. occ'[pos'[e]] = e
    BY <1>3 DEF SpawnAgentEntity
  <2>3. QED
    BY <2>1, <2>2
<1>4. ASSUME NEW e \in Ids, RemoveEntity(e) PROVE OwnTile'
  <2>1. ASSUME NEW u \in live' PROVE occ'[pos'[u]] = u
    <3>1. u \in live /\ u # e /\ pos'[u] = pos[u]
      BY <1>4, <2>1 DEF RemoveEntity
    <3>2. pos[u] \notin Owned(e)
      BY <3>1 DEF Owned
    <3>3. QED
      BY <1>4, <3>1, <3>2 DEF RemoveEntity
  <2>2. QED
    BY <2>1
<1>5. ASSUME NEW e \in Ids, Visit(e) PROVE OwnTile'
  <2>1. live' = live /\ e \in live
    BY <1>5 DEF Visit, AdvanceWalk, StayInside, Reemerge, HoldAction,
                AutoEnter, Rest, Visited
  <2>2. CASE AdvanceWalk(e)
    <3>1. \A t \in Walkable : occ'[t] = occ[t] \/ (t # pos[e] /\ occ[t] = e)
      BY <2>2 DEF AdvanceWalk
    <3>2. pos' = pos
      BY <2>2 DEF AdvanceWalk
    <3>3. QED
      BY <2>1, <3>1, <3>2
  <2>3. CASE Reemerge(e)
    BY <2>1, <2>3 DEF Reemerge
  <2>4. CASE AutoEnter(e)
    BY <2>4 DEF AutoEnter, AtDoor
  <2>5. CASE StayInside(e) \/ HoldAction(e) \/ Rest(e)
    BY <2>1, <2>5 DEF StayInside, HoldAction, Rest
  <2>6. QED
    BY <1>5, <2>2, <2>3, <2>4, <2>5 DEF Visit
<1>6. CASE UNCHANGED <<live, pos, occ>>
  BY <1>6
<1>7. QED
  BY <1>1, <1>2, <1>3, <1>4, <1>5, <1>6
  DEF Next, Handle, vars, Wait, InteractEnter, InteractExit,
      SetPlayerControlled, TickBegin

LEMMA OwnTileInit == Init => OwnTile
<1> SUFFICES ASSUME Init, NEW e \in live PROVE occ[pos[e]] = e
  BY DEF OwnTile
<1>1. e \in Loaded /\ e \in Ids /\ pos[e] \in Walkable
  BY OccupancyConstants DEF Init, OccupancyConstants
<1>2. \A u \in Loaded : pos[u] = pos[e] => u = e
  BY <1>1, OccupancyConstants DEF Init, OccupancyConstants
<1>3. occ[pos[e]] = CHOOSE u \in Loaded : pos[u] = pos[e]
  BY <1>1 DEF Init
<1>4. QED
  BY <1>1, <1>2, <1>3

(* On a map without doors every body owns the entry of its tile.           *)
THEOREM BodiesOwnTheirTiles ==
  ASSUME Doors = {} PROVE Spec => []OwnTile
<1>1. TypeOK /\ OwnTile /\ [Next]_vars => (TypeOK /\ OwnTile)'
  BY OwnTileStep, TypeStep
<1>2. QED
  BY <1>1, OwnTileInit, TypeInit, PTL DEF Spec

(* On a map without doors no two bodies ever stand on one tile.            *)
THEOREM BodiesNeverOverlap ==
  ASSUME Doors = {} PROVE Spec => []NoOverlap
<1>1. OwnTile => NoOverlap
  BY DEF OwnTile, NoOverlap
<1>2. QED
  BY <1>1, BodiesOwnTheirTiles, PTL

-----------------------------------------------------------------------------
(* The action of NoTeleport.                                               *)
NoTeleportStep ==
  \A e \in live \cap live' : pos'[e] # pos[e] => Adjacent(pos[e], pos'[e])

LEMMA TeleportStep ==
  ASSUME TypeOK, OwnTile, Next PROVE NoTeleportStep
<1> USE DEF TypeOK, NoTeleportStep
<1>1. ASSUME NEW e \in Ids, NEW d \in Dirs, StepClaim(e, d)
      PROVE  NoTeleportStep
  BY <1>1 DEF StepClaim, Adjacent
<1>2. ASSUME NEW e \in Ids, NEW d \in Dirs, StepSwap(e, d)
      PROVE  NoTeleportStep
  <2> DEFINE next == Neighbour(pos[e], d)
             o    == occ[next]
  <2>1. o \in live \ {e} /\ pos[o] = next
    BY <1>2 DEF StepSwap, CanSwap
  <2>2. pos' = [pos EXCEPT ![e] = next, ![o] = pos[e]]
    BY <1>2 DEF StepSwap
  <2>3. Adjacent(pos[e], next) /\ Adjacent(next, pos[e])
    BY DEF Adjacent
  <2>4. QED
    BY <2>1, <2>2, <2>3
<1>3. ASSUME NEW e \in Ids, NEW t \in Walkable, SpawnAgentEntity(e, t)
      PROVE  NoTeleportStep
  BY <1>3 DEF SpawnAgentEntity
<1>4. ASSUME NEW e \in Ids, RemoveEntity(e) PROVE NoTeleportStep
  BY <1>4 DEF RemoveEntity
<1>5. ASSUME NEW e \in Ids, Visit(e) PROVE NoTeleportStep
  <2>1. e \in live
    BY <1>5 DEF Visit, AdvanceWalk, StayInside, Reemerge, HoldAction,
                AutoEnter, Rest, Visited
  <2>2. CASE Reemerge(e)
    BY <2>1, <2>2 DEF Reemerge, OwnTile
  <2>3. CASE pos' = pos
    BY <2>3
  <2>4. QED
    BY <1>5, <2>2, <2>3 DEF Visit, AdvanceWalk, StayInside, HoldAction,
                            AutoEnter, Rest
<1>6. CASE pos' = pos
  BY <1>6
<1>7. QED
  BY <1>1, <1>2, <1>3, <1>4, <1>5, <1>6
  DEF Next, Handle, Wait, InteractEnter, InteractExit,
      SetPlayerControlled, TickBegin

(* On a map without doors a body only ever moves to an adjacent tile.      *)
THEOREM BodiesNeverTeleport ==
  ASSUME Doors = {} PROVE Spec => NoTeleport
<1>1. TypeOK /\ OwnTile /\ [Next]_vars => [NoTeleportStep]_vars
  BY TeleportStep
<1>2. QED
  BY <1>1, TypeCorrect, BodiesOwnTheirTiles, PTL
  DEF Spec, NoTeleport, NoTeleportStep

-----------------------------------------------------------------------------
(* Without the verb "wait" nothing but the walk itself ends a walk: a body *)
(* that moved less than HalfWalk ticks ago is still walking, and its       *)
(* progress is no more than the ticks that have passed.                    *)
PaceInv ==
  \A e \in Ids :
    /\ body[e].hold = 0
    /\ \/ age[e] = HalfWalk
       \/ body[e].act = "move" /\ body[e].prog <= age[e]

(* The action of PacedWalk.                                                *)
PacedStep ==
  \A e \in live \cap live' : pos'[e] # pos[e] => age[e] >= HalfWalk

LEMMA StandingFields == Standing.hold = 0 /\ Standing.prog = FullWalk
BY DEF Standing

LEMMA PaceInit == Init => PaceInv
BY StandingFields DEF Init, PaceInv

LEMMA ProgressType ==
  ASSUME TypeOK, NEW e \in Ids PROVE body[e].prog \in Nat /\ body[e] \in Body
<1>1. body[e] \in Body
  BY DEF TypeOK
<1>2. body[e].prog \in Progress
  BY <1>1 DEF Body
<1>3. QED
  BY <1>1, <1>2, Lengths DEF Progress

(* Entering, leaving or staying in a building leaves the walk alone.       *)
SameWalk(b, c) == c.hold = b.hold /\ c.act = b.act /\ c.prog = b.prog

LEMMA KeptWalk ==
  ASSUME NEW b \in Body, NEW n, NEW i
  PROVE  /\ SameWalk(b, [b EXCEPT !.inside = i, !.timer = n])
         /\ SameWalk(b, [b EXCEPT !.timer = n])
         /\ SameWalk(b, [b EXCEPT !.ctl = i])
         /\ SameWalk(b, [b EXCEPT !.inside = i, !.facing = "away"])
BY DEF Body, SameWalk

LEMMA OtherUpdates ==
  ASSUME NEW b \in Body, NEW n, NEW i, NEW a, NEW p
  PROVE  /\ [b EXCEPT !.inside = i, !.timer = n, !.act = a].hold = b.hold
         /\ [b EXCEPT !.prog = p, !.act = a].prog = p
         /\ [b EXCEPT !.prog = p, !.act = a].act = a
         /\ [b EXCEPT !.prog = p, !.act = a].hold = b.hold
BY DEF Body

LEMMA PaceStep ==
  ASSUME "wait" \notin Verbs, TypeOK, OwnTile, PaceInv, [Next]_vars
  PROVE  PaceInv'
<1> USE Lengths DEF TypeOK, PaceInv
<1>1. ASSUME NEW e \in Ids, NEW d \in Dirs, StepClaim(e, d) PROVE PaceInv'
  BY <1>1, WalkType DEF StepClaim
<1>2. ASSUME NEW e \in Ids, NEW d \in Dirs, StepSwap(e, d) PROVE PaceInv'
  <2> DEFINE o == occ[Neighbour(pos[e], d)]
  <2>1. o \in Ids
    BY <1>2 DEF StepSwap, CanSwap
  <2>2. /\ Walk(body[e], d).hold = 0 /\ Walk(body[e], d).prog = 0
        /\ Walk(body[e], d).act = "move"
        /\ Walk(body[o], Opposite(d)).hold = 0
        /\ Walk(body[o], Opposite(d)).prog = 0
        /\ Walk(body[o], Opposite(d)).act = "move"
    BY <2>1, WalkType, OppositeType, SMTT(20)
  <2>3. QED
    BY <1>2, <2>1, <2>2 DEF StepSwap
<1>3. ASSUME NEW e \in Ids, InteractEnter(e) \/ InteractExit(e)
      PROVE  PaceInv'
  <2>1. age' = age /\ \A u \in Ids \ {e} : body'[u] = body[u]
    BY <1>3 DEF InteractEnter, InteractExit
  <2>2. PICK i, n :
          body' = [body EXCEPT ![e] = [@ EXCEPT !.inside = i, !.timer = n]]
    BY <1>3 DEF InteractEnter, InteractExit
  <2>3. SameWalk(body[e], body'[e])
    <3>1. SameWalk(body[e], [body[e] EXCEPT !.inside = i, !.timer = n])
      BY KeptWalk, ProgressType
    <3>2. QED
      BY <2>2, <3>1
  <2>4. QED
    BY <2>1, <2>3 DEF SameWalk
<1>4. ASSUME NEW e \in Ids, NEW t \in Walkable, SpawnAgentEntity(e, t)
      PROVE  PaceInv'
  BY <1>4, StandingFields DEF SpawnAgentEntity
<1>5. ASSUME NEW e \in Ids, RemoveEntity(e) PROVE PaceInv'
  BY <1>5, StandingFields DEF RemoveEntity
<1>6. ASSUME NEW e \in Ids, NEW on \in BOOLEAN, SetPlayerControlled(e, on)
      PROVE  PaceInv'
  <2>1. SameWalk(body[e], body'[e])
    BY <1>6, KeptWalk, ProgressType DEF SetPlayerControlled
  <2>2. QED
    BY <1>6, <2>1 DEF SetPlayerControlled, SameWalk
<1>7. ASSUME NEW e \in Ids, Visit(e) PROVE PaceInv'
  <2>1. ASSUME Visited(e)
        PROVE  /\ \A u \in Ids \ {e} : age'[u] = age[u]
               /\ age[e] = HalfWalk => age'[e] = HalfWalk
               /\ age[e] # HalfWalk => age'[e] = age[e] + 1
    BY <2>1 DEF Visited
  <2>2. CASE AdvanceWalk(e)
    <3> DEFINE p == body[e].prog + 1
               a == IF p = FullWalk THEN "" ELSE "move"
    <3>1. body' = [body EXCEPT ![e] = [@ EXCEPT !.prog = p, !.act = a]]
      BY <2>2 DEF AdvanceWalk
    <3>2. body'[e].prog = p /\ body'[e].act = a /\ body'[e].hold = body[e].hold
      <4> HIDE DEF a, p
      <4>1. QED
        BY <3>1, ProgressType, OtherUpdates
    <3>3. Visited(e) /\ body[e].prog \in Nat
      BY <2>2, ProgressType DEF AdvanceWalk
    <3>4. age'[e] \in 0..HalfWalk
      BY <3>3 DEF Visited
    <3>5. age[e] = HalfWalk \/ (age'[e] = age[e] + 1 /\ body[e].prog <= age[e])
      BY <2>1, <3>3
    <3>6. age'[e] = HalfWalk \/ (a = "move" /\ p <= age'[e])
      BY <2>1, <3>3, <3>4, <3>5
    <3>7. QED
      BY <2>1, <3>1, <3>2, <3>3, <3>6
  <2>3. CASE StayInside(e) \/ Reemerge(e)
    <3> DEFINE n == body[e].timer - 1
    <3>a. /\ SameWalk(body[e], [body[e] EXCEPT !.timer = n])
          /\ SameWalk(body[e], [body[e] EXCEPT !.inside = FALSE, !.facing = "away"])
      <4> HIDE DEF n
      <4>1. QED
        BY KeptWalk, ProgressType
    <3>b. \/ body' = [body EXCEPT ![e] = [@ EXCEPT !.timer = n]]
          \/ body' = [body EXCEPT ![e] = [@ EXCEPT !.inside = FALSE, !.facing = "away"]]
      BY <2>3 DEF StayInside, Reemerge
    <3>1. /\ SameWalk(body[e], body'[e])
          /\ \A u \in Ids \ {e} : body'[u] = body[u]
      BY <3>a, <3>b
    <3>2. Visited(e) /\ body[e].prog \in Nat
      BY <2>3, ProgressType DEF StayInside, Reemerge
    <3>3. QED
      BY <2>1, <3>1, <3>2 DEF SameWalk
  <2>4. CASE HoldAction(e)
    BY <2>4 DEF HoldAction
  <2>5. CASE AutoEnter(e)
    <3>1. age[e] = HalfWalk
      BY <2>5 DEF AutoEnter, AtDoor
    <3>2. /\ \A u \in Ids \ {e} : body'[u] = body[u]
          /\ body'[e].hold = body[e].hold
      BY <2>5, OtherUpdates, ProgressType DEF AutoEnter
    <3>3. Visited(e)
      BY <2>5 DEF AutoEnter
    <3>4. QED
      BY <2>1, <3>1, <3>2, <3>3
  <2>6. CASE Rest(e)
    <3>1. Visited(e) /\ body' = body /\ body[e].prog \in Nat
      BY <2>6, ProgressType DEF Rest
    <3>2. QED
      BY <2>1, <3>1
  <2>7. QED
    BY <1>7, <2>2, <2>3, <2>4, <2>5, <2>6 DEF Visit
<1>8. CASE UNCHANGED <<body, age>>
  BY <1>8
<1>9. QED
  BY <1>1, <1>2, <1>3, <1>4, <1>5, <1>6, <1>7, <1>8
  DEF Next, Handle, vars, Wait, TickBegin

LEMMA PacedMove ==
  ASSUME TypeOK, OwnTile, PaceInv, Next PROVE PacedStep
<1> USE Lengths DEF TypeOK, PacedStep, PaceInv
<1>1. ASSUME NEW e \in Ids, NEW d \in Dirs, StepClaim(e, d) PROVE PacedStep
  <2>1. ~ Busy(e) /\ body[e].prog \in Nat
    BY <1>1, ProgressType DEF StepClaim
  <2>2. age[e] >= HalfWalk
    BY <2>1 DEF Busy
  <2>3. QED
    BY <1>1, <2>2 DEF StepClaim
<1>2. ASSUME NEW e \in Ids, NEW d \in Dirs, StepSwap(e, d) PROVE PacedStep
  <2> DEFINE o == occ[Neighbour(pos[e], d)]
  <2>1. o \in Ids /\ Swappable(o) /\ ~ Busy(e)
    BY <1>2 DEF StepSwap, CanSwap
  <2>2. age[e] >= HalfWalk /\ age[o] >= HalfWalk
    BY <2>1, ProgressType DEF Busy, Swappable
  <2>3. \A u \in Ids \ {e, o} : pos'[u] = pos[u]
    BY <1>2 DEF StepSwap
  <2>4. QED
    BY <2>2, <2>3
<1>3. ASSUME NEW e \in Ids, NEW t \in Walkable, SpawnAgentEntity(e, t)
      PROVE  PacedStep
  BY <1>3 DEF SpawnAgentEntity
<1>4. ASSUME NEW e \in Ids, RemoveEntity(e) PROVE PacedStep
  BY <1>4 DEF RemoveEntity
<1>5. ASSUME NEW e \in Ids, Visit(e) PROVE PacedStep
  <2>1. e \in live
    BY <1>5 DEF Visit, AdvanceWalk, StayInside, Reemerge, HoldAction,
                AutoEnter, Rest, Visited
  <2>2. CASE Reemerge(e)
    BY <2>1, <2>2 DEF Reemerge, OwnTile
  <2>3. CASE pos' = pos
    BY <2>3
  <2>4. QED
    BY <1>5, <2>2, <2>3 DEF Visit, AdvanceWalk, StayInside, HoldAction,
                            AutoEnter, Rest
<1>6. CASE pos' = pos
  BY <1>6
<1>7. QED
  BY <1>1, <1>2, <1>3, <1>4, <1>5, <1>6
  DEF Next, Handle, Wait, InteractEnter, InteractExit,
      SetPlayerControlled, TickBegin

(* On a map without doors, bodies whose agents never submit "wait" move at *)
(* most once in HalfWalk ticks.                                            *)
THEOREM BodiesArePaced ==
  ASSUME Doors = {}, "wait" \notin Verbs PROVE Spec => PacedWalk
<1>1. TypeOK /\ OwnTile /\ PaceInv /\ [Next]_vars
        => PaceInv' /\ [PacedStep]_vars
  BY PaceStep, PacedMove
<1>2. QED
  BY <1>1, PaceInit, TypeCorrect, BodiesOwnTheirTiles, PTL
  DEF Spec, PacedWalk, PacedStep

-----------------------------------------------------------------------------
(* The portals.  The moves are made between two ticks: while the loop      *)
(* carries them out no tick is running.                                    *)
PortalInv == PortalTypeOK /\ (warping => Idle)

(* The steps of the portal specification that TileOccupancy has too.       *)
LEMMA PortalStepsKnown ==
  /\ \A e \in Ids : Verb(e) \/ Serve(e) \/ Visit(e) => Next
  /\ TickBegin => Next
BY DEF Verb, Serve, Next, Handle

LEMMA PortalInitInv == PortalInit => PortalInv
<1> SUFFICES ASSUME PortalInit PROVE PortalInv
  OBVIOUS
<1>1. TypeOK
  BY TypeInit DEF PortalInit
<1>2. \A e \in Ids : AnyTile \in Walkable
  BY <1>1 DEF TypeOK, AnyTile
<1>3. QED
  BY <1>1, <1>2 DEF PortalInit, PortalInv, PortalTypeOK

(* A body back from a room has finished its walk.                          *)
LEMMA BackFields ==
  ASSUME NEW b \in Body, NEW f \in {"N", "away"}
  PROVE  [b EXCEPT !.prog = FullWalk, !.act = "", !.facing = f] \in Body
BY Ranges DEF Body

LEMMA PortalInvStep ==
  ASSUME PortalInv, [PortalNext]_<<vars, portalVars>> PROVE PortalInv'
<1> USE DEF PortalInv, PortalTypeOK
<1>a. ASSUME Next PROVE TypeOK'
  BY <1>a, TypeStep
<1>1. ASSUME NEW e \in Ids, ~ warping, Verb(e), UNCHANGED portalVars
      PROVE  PortalInv'
  <2>1. TypeOK'
    BY <1>1, <1>a, PortalStepsKnown
  <2>2. live' = live /\ born' = born
    BY <1>1 DEF Verb, StepClaim, StepSwap, InteractEnter, InteractExit
  <2>3. QED
    BY <1>1, <2>1, <2>2 DEF portalVars
<1>2. ASSUME NEW e \in Ids, Serve(e), UNCHANGED portalVars PROVE PortalInv'
  <2>1. TypeOK'
    BY <1>2, <1>a, PortalStepsKnown
  <2>2. away \subseteq born' \ live' /\ pending' = pending
    BY <1>2 DEF Serve, SpawnAgentEntity, RemoveEntity, SetPlayerControlled
  <2>3. QED
    BY <1>2, <2>1, <2>2 DEF portalVars, Idle
<1>3. ASSUME NEW e \in Ids, EndTick(e), UNCHANGED <<asked, away, ret>>
      PROVE  PortalInv'
  <2>1. TypeOK'
    BY <1>3, <1>a, PortalStepsKnown DEF EndTick
  <2>2. live' = live /\ born' = born
    BY <1>3 DEF EndTick, Visit, AdvanceWalk, StayInside, Reemerge,
                HoldAction, AutoEnter, Rest, Visited
  <2>3. QED
    BY <1>3, <2>1, <2>2 DEF EndTick, Idle
<1>4. ASSUME NEW e \in Ids, AskToEnter(e) PROVE PortalInv'
  <2>1. TypeOK'
    BY <1>4 DEF AskToEnter, vars, TypeOK
  <2>2. QED
    BY <1>4, <2>1 DEF AskToEnter, vars, Idle, TypeOK
<1>5. ASSUME NEW e \in Ids, WarpAway(e) PROVE PortalInv'
  <2>1. TypeOK'
    BY <1>5 DEF WarpAway, TypeOK, Idle
  <2>2. QED
    BY <1>5, <2>1 DEF WarpAway, Idle, TypeOK
<1>6. ASSUME NEW e \in Ids, WarpBack(e) PROVE PortalInv'
  <2>1. PICK f \in {"N", "away"} :
          body' = [body EXCEPT ![e] =
                     [@ EXCEPT !.prog = FullWalk, !.act = "", !.facing = f]]
    BY <1>6 DEF WarpBack
  <2>2. body' \in [Ids -> Body]
    <3>1. [body[e] EXCEPT !.prog = FullWalk, !.act = "", !.facing = f] \in Body
      BY BackFields DEF TypeOK
    <3>2. QED
      BY <2>1, <3>1 DEF TypeOK
  <2>3. age' \in [Ids -> 0..HalfWalk]
    BY <1>6, Lengths DEF WarpBack, TypeOK
  <2>4. TypeOK'
    BY <1>6, <2>2, <2>3 DEF WarpBack, TypeOK
  <2>5. QED
    BY <1>6, <2>4 DEF WarpBack, Idle
<1>7. ASSUME ~ warping, TickBegin, UNCHANGED portalVars PROVE PortalInv'
  <2>1. TypeOK'
    BY <1>7, <1>a, PortalStepsKnown
  <2>2. QED
    BY <1>7, <2>1 DEF TickBegin, portalVars
<1>8. ASSUME EmptyTick \/ EndWarps, UNCHANGED <<away, ret>> PROVE PortalInv'
  <2>1. TypeOK' /\ UNCHANGED vars /\ asked' \subseteq Ids
    BY <1>8 DEF EmptyTick, EndWarps, vars, TypeOK
  <2>2. warping' \in BOOLEAN /\ (warping' => Idle)
    BY <1>8 DEF EmptyTick, EndWarps, Idle, TypeOK
  <2>3. QED
    BY <1>8, <2>1, <2>2 DEF vars, Idle
<1>9. CASE UNCHANGED <<vars, portalVars>>
  BY <1>9 DEF vars, portalVars, TypeOK, Idle
<1>10. QED
  BY <1>1, <1>2, <1>3, <1>4, <1>5, <1>6, <1>7, <1>8, <1>9 DEF PortalNext

(* Type correctness with the portals: in particular a body in a room is    *)
(* not on the map, and its id is never given to another (multimap.go Warp).*)
THEOREM PortalTypeCorrect == PortalSpec => []PortalTypeOK
<1>1. PortalInv /\ [PortalNext]_<<vars, portalVars>> => PortalInv'
  BY PortalInvStep
<1>2. PortalInv => PortalTypeOK
  BY DEF PortalInv
<1>3. QED
  BY <1>1, <1>2, PortalInitInv, PTL DEF PortalSpec

(* While a tick's loop runs only its own visits happen: every other action *)
(* waits for the world lock.                                               *)
LEMMA OnlyVisitsInALoop ==
  ASSUME PortalInv, PortalNext, ~ Idle
  PROVE  \E e \in Ids : EndTick(e)
<1>1. live # {} /\ ~ warping
  BY DEF PortalInv, PortalTypeOK, TypeOK, Idle
<1>2. QED
  BY <1>1, ZenonT(40) DEF PortalNext, Verb, StepClaim, StepSwap, InteractEnter,
         InteractExit, Serve, SpawnAgentEntity, RemoveEntity,
         SetPlayerControlled, AskToEnter, WarpAway, WarpBack, TickBegin,
         EmptyTick, EndWarps

(* The action of LoopKeepsClaims.                                          *)
KeepsClaimsStep ==
  \A e \in live \cap live' :
    \/ Idle \/ occ[pos[e]] # e \/ occ'[pos'[e]] = e
    \/ ~ body[e].inside /\ body'[e].inside

LEMMA VisitKeepsClaims ==
  ASSUME TypeOK, NEW u \in Ids, Visit(u),
         NEW e \in live, occ[pos[e]] = e
  PROVE  occ'[pos'[e]] = e \/ (~ body[e].inside /\ body'[e].inside)
<1> USE DEF TypeOK
<1>1. CASE AdvanceWalk(u)
  <2>1. pos' = pos
    BY <1>1 DEF AdvanceWalk
  <2>2. \A t \in Walkable : occ'[t] = occ[t] \/ (t # pos[u] /\ occ[t] = u)
    BY <1>1 DEF AdvanceWalk
  <2>3. QED
    BY <2>1, <2>2
<1>2. CASE StayInside(u) \/ HoldAction(u) \/ Rest(u)
  BY <1>2 DEF StayInside, HoldAction, Rest
<1>3. CASE Reemerge(u)
  <2>1. CASE u = e
    BY <1>3, <2>1 DEF Reemerge
  <2>2. CASE u # e
    <3>1. pos'[e] = pos[e]
      BY <1>3, <2>2 DEF Reemerge
    <3>2. \A t \in NearestWalkable(pos[u]) : t # pos[e]
      BY NoOneIsNoId DEF NearestWalkable
    <3>3. pos[u] = pos[e] => occ[pos[u]] \notin {NoOne, u}
      BY <2>2, NoOneIsNoId
    <3>4. occ'[pos[e]] = occ[pos[e]]
      BY <1>3, <3>2, <3>3 DEF Reemerge
    <3>5. QED
      BY <3>1, <3>4
  <2>3. QED
    BY <2>1, <2>2
<1>4. CASE AutoEnter(u)
  <2>1. CASE u = e
    <3>1. ~ body[e].inside
      BY <1>4, <2>1 DEF AutoEnter
    <3>2. PICK n \in 1..MaxTimer :
            body' = [body EXCEPT ![e] = [@ EXCEPT !.inside = TRUE, !.timer = n, !.act = ""]]
      BY <1>4, <2>1 DEF AutoEnter
    <3>3. body'[e].inside
      BY <3>2 DEF Body
    <3>4. QED
      BY <3>1, <3>3
  <2>2. CASE u # e
    BY <1>4, <2>2 DEF AutoEnter
  <2>3. QED
    BY <2>1, <2>2
<1>5. QED
  BY <1>1, <1>2, <1>3, <1>4 DEF Visit

LEMMA KeepsClaimsInALoop ==
  ASSUME PortalInv, PortalNext PROVE KeepsClaimsStep
<1> SUFFICES ASSUME NEW e \in live, ~ Idle, occ[pos[e]] = e
             PROVE  occ'[pos'[e]] = e \/ (~ body[e].inside /\ body'[e].inside)
  BY DEF KeepsClaimsStep
<1>1. PICK u \in Ids : EndTick(u)
  BY OnlyVisitsInALoop
<1>2. QED
  BY <1>1, VisitKeepsClaims DEF PortalInv, PortalTypeOK, EndTick

(* The loop of a tick takes its tile from no body, even on maps with doors *)
(* where bodies come back on top of others and leave entries behind        *)
(* (world.go Tick).                                                        *)
THEOREM LoopTakesNoTile == PortalSpec => LoopKeepsClaims
<1>1. PortalInv /\ [PortalNext]_<<vars, portalVars>> => PortalInv'
  BY PortalInvStep
<1>2. PortalInv /\ [PortalNext]_<<vars, portalVars>>
        => [KeepsClaimsStep]_<<vars, portalVars>>
  BY KeepsClaimsInALoop
<1>3. QED
  BY <1>1, <1>2, PortalInitInv, PTL
  DEF PortalSpec, LoopKeepsClaims, KeepsClaimsStep

(* The action of NoTeleportByPortal.                                       *)
NoTeleportByPortalStep ==
  \A e \in live \cap live' :
    pos'[e] # pos[e] => body[e].inside \/ Adjacent(pos[e], pos'[e])

LEMMA PortalTeleportStep ==
  ASSUME PortalInv, PortalNext PROVE NoTeleportByPortalStep
<1> USE DEF PortalInv, PortalTypeOK, TypeOK, NoTeleportByPortalStep
<1>1. ASSUME NEW e \in Ids, NEW d \in Dirs, StepClaim(e, d)
      PROVE  NoTeleportByPortalStep
  BY <1>1 DEF StepClaim, Adjacent
<1>2. ASSUME NEW e \in Ids, NEW d \in Dirs, StepSwap(e, d)
      PROVE  NoTeleportByPortalStep
  <2> DEFINE next == Neighbour(pos[e], d)
             o    == occ[next]
  <2>1. o \in live \ {e} /\ pos[o] = next
    BY <1>2 DEF StepSwap, CanSwap
  <2>2. pos' = [pos EXCEPT ![e] = next, ![o] = pos[e]]
    BY <1>2 DEF StepSwap
  <2>3. Adjacent(pos[e], next) /\ Adjacent(next, pos[e])
    BY DEF Adjacent
  <2>4. QED
    BY <2>1, <2>2, <2>3
<1>3. ASSUME NEW e \in Ids, Serve(e) PROVE NoTeleportByPortalStep
  BY <1>3 DEF Serve, SpawnAgentEntity, RemoveEntity, SetPlayerControlled
<1>4. ASSUME NEW e \in Ids, Visit(e) PROVE NoTeleportByPortalStep
  <2>1. CASE Reemerge(e)
    BY <2>1 DEF Reemerge
  <2>2. CASE pos' = pos
    BY <2>2
  <2>3. QED
    BY <1>4, <2>1, <2>2 DEF Visit, AdvanceWalk, StayInside, HoldAction,
                            AutoEnter, Rest
<1>5. ASSUME NEW e \in Ids, WarpBack(e) PROVE NoTeleportByPortalStep
  BY <1>5 DEF WarpBack
<1>6. CASE pos' = pos
  BY <1>6
<1>7. QED
  BY <1>1, <1>2, <1>3, <1>4, <1>5, <1>6
  DEF PortalNext, Verb, InteractEnter, InteractExit, EndTick, AskToEnter,
      WarpAway, TickBegin, EmptyTick, EndWarps, vars

(* Whatever the doors do to the entries, no swap and no walk carries a     *)
(* body out of doors further than the next tile (world.go stepOneTile).    *)
THEOREM NoTeleportThroughDoors == PortalSpec => NoTeleportByPortal
<1>1. PortalInv /\ [PortalNext]_<<vars, portalVars>> => PortalInv'
  BY PortalInvStep
<1>2. PortalInv /\ [PortalNext]_<<vars, portalVars>>
        => [NoTeleportByPortalStep]_<<vars, portalVars>>
  BY PortalTeleportStep
<1>3. QED
  BY <1>1, <1>2, PortalInitInv, PTL
  DEF PortalSpec, NoTeleportByPortal, NoTeleportByPortalStep
=============================================================================
