---------------------------- MODULE TileOccupancy ----------------------------
(***************************************************************************)
(* Movement and tile occupancy of one map of the engine                    *)
(* (engine/internal/world: world.go, action.go, queue.go, observation.go). *)
(*                                                                         *)
(* A body is an entity that claims tiles: an agent, or an object such as a *)
(* tree loaded with the map.  Items never claim a tile and are left out.   *)
(* Every handler below runs under the world's write lock, so each is one   *)
(* step.  A tick holds that lock from TickBegin until the last body has    *)
(* been visited: `pending' is the set of bodies its loop has still to      *)
(* visit, in the arbitrary order in which Go ranges over a map, and no     *)
(* other handler runs while it is not empty.                               *)
(***************************************************************************)
EXTENDS Integers, FiniteSets

CONSTANTS
  Ids,          \* entity ids
  Objects,      \* the ids whose archetype is an object: no brain, no swap
  Loaded,       \* the ids present when the map was loaded
  Walkable,     \* the tiles <<x, y>> of the map with walkable terrain
  Doors,        \* the door tiles of the decoration buildings
  Verbs,        \* the native verbs agents may submit: subset of AllVerbs
  HalfWalk,     \* ticks until WalkProgress reaches 0.5
  FullWalk,     \* ticks until WalkProgress reaches 1
  MaxTimer,     \* bound on insideTicks and actionTicks
  Radius,       \* search radius of nearestWalkable
  NoOne         \* the absent occupant

AllVerbs == {"step", "wait", "interact_enter", "interact_exit"}

ASSUME OccupancyConstants ==
  /\ Objects \subseteq Ids /\ Loaded \subseteq Ids
  /\ Walkable \subseteq Int \X Int
  /\ Doors \subseteq Walkable
  /\ Verbs \subseteq AllVerbs
  /\ HalfWalk \in Nat \ {0} /\ FullWalk \in Nat /\ HalfWalk < FullWalk
  /\ MaxTimer \in Nat \ {0} /\ Radius \in Nat
  /\ NoOne \notin Ids

VARIABLES
  live,     \* w.entities: the bodies on the map
  born,     \* ids ever used: eventSeq never hands one out twice
  pos,      \* LogicalTile
  from,     \* WalkFromTile
  occ,      \* w.occupants, NoOne where the map has no entry
  body,     \* the other fields of each entity
  pending,  \* the bodies the running tick has still to visit
  age       \* history: ticks since the body last moved, up to HalfWalk

vars == <<live, born, pos, from, occ, body, pending, age>>

(* prog counts the ticks WalkProgress has advanced (FullWalk stands for 1),*)
(* facing tells only north from the rest; timer is insideTicks and hold is *)
(* actionTicks.                                                            *)
Progress == 0..FullWalk
Timers   == 0..MaxTimer

Body == [prog : Progress, act : {"", "move", "wait"}, facing : {"N", "away"},
         ctl : BOOLEAN, inside : BOOLEAN, timer : Timers,
         hold : Timers]

Standing == [prog |-> FullWalk, act |-> "", facing |-> "away", ctl |-> FALSE,
             inside |-> FALSE, timer |-> 0, hold |-> 0]

TypeOK ==
  /\ live \subseteq born /\ born \subseteq Ids
  /\ pos \in [Ids -> Walkable] /\ from \in [Ids -> Walkable]
  /\ occ \in [Walkable -> Ids \cup {NoOne}]
  /\ body \in [Ids -> Body]
  /\ pending \subseteq live
  /\ age \in [Ids -> 0..HalfWalk]

-----------------------------------------------------------------------------
Dirs == {"N", "S", "E", "W"}

Neighbour(t, d) ==
  CASE d = "N" -> <<t[1], t[2] - 1>>
    [] d = "S" -> <<t[1], t[2] + 1>>
    [] d = "E" -> <<t[1] + 1, t[2]>>
    [] OTHER   -> <<t[1] - 1, t[2]>>

Opposite(d) ==
  CASE d = "N" -> "S" [] d = "S" -> "N" [] d = "E" -> "W" [] OTHER -> "E"

Distance(t, u) ==
  LET Abs(n) == IF n < 0 THEN -n ELSE n
      dx == Abs(t[1] - u[1])
      dy == Abs(t[2] - u[2])
  IN  IF dx > dy THEN dx ELSE dy

(* The nearest walkable tiles without an occupant, within the radius.      *)
NearestWalkable(t) ==
  LET free == {u \in Walkable : occ[u] = NoOne /\ Distance(t, u) \in 1..Radius}
  IN  {u \in free : \A v \in free : Distance(t, u) <= Distance(t, v)}

Idle == pending = {}          \* no tick holds the world lock

(* Mutant: the half way floor is one tick too low.                         *)
BusyOneTickLess(e) == body[e].act = "move" /\ body[e].prog < HalfWalk - 1

(* stepOneTile: a body less than half way through its walk is busy.        *)
Busy(e) == body[e].act = "move" /\ body[e].prog < HalfWalk

(* Mutant: any entry of another body counts as stale.                      *)
StaleAnyEntry(e, t) == occ[t] \notin {NoOne, e}

(* An entry of another body that is not standing there is stale.           *)
Stale(e, t) ==
  /\ occ[t] \notin {NoOne, e}
  /\ ~ (occ[t] \in live /\ pos[occ[t]] = t)

Swappable(u) ==
  u \notin Objects /\ ~ body[u].inside /\ body[u].prog = FullWalk

CanClaim(e, t) == occ[t] \in {NoOne, e} \/ Stale(e, t)

(* Mutant: swaps with a body that is not standing on the tile.             *)
CanSwapAnywhere(e, t) == occ[t] \in live \ {e} /\ Swappable(occ[t])

CanSwap(e, t) ==
  /\ occ[t] \in live \ {e} /\ pos[occ[t]] = t
  /\ Swappable(occ[t])

Walk(b, d) == [b EXCEPT !.prog = 0, !.act = "move", !.facing = IF d = "N" THEN "N" ELSE "away"]

-----------------------------------------------------------------------------
(* The tile shown for an id that is not on the map; no handler reads it.   *)
AnyTile == CHOOSE t \in Walkable : TRUE

(* Loading a map places every entity on a tile of its own and claims it.   *)
Init ==
  /\ live = Loaded /\ born = Loaded
  /\ pos \in [Ids -> Walkable]
  /\ \A e \in Ids, u \in Loaded : pos[e] = pos[u] => e = u \/ e \notin Loaded
  /\ \A e \in Ids \ Loaded : pos[e] = AnyTile
  /\ from = pos
  /\ occ = [t \in Walkable |->
              IF \E e \in Loaded : pos[e] = t
              THEN CHOOSE e \in Loaded : pos[e] = t ELSE NoOne]
  /\ body = [e \in Ids |-> Standing]
  /\ pending = {}
  /\ age = [e \in Ids |-> HalfWalk]

(* Dispatch "step" onto a tile nobody stands on, its entry stale or none.  *)
StepClaim(e, d) ==
  LET next == Neighbour(pos[e], d)
  IN  /\ Idle /\ "step" \in Verbs
      /\ e \in live \ Objects /\ ~ body[e].inside
      /\ next \in Walkable
      /\ ~ Busy(e) /\ CanClaim(e, next)
      /\ occ' = [occ EXCEPT ![next] = e]
      /\ from' = [from EXCEPT ![e] = pos[e]]
      /\ pos' = [pos EXCEPT ![e] = next]
      /\ body' = [body EXCEPT ![e] = Walk(body[e], d)]
      /\ age' = [age EXCEPT ![e] = 0]
      /\ UNCHANGED <<live, born, pending>>

(* Dispatch "step" onto an idle agent: the two trade places.               *)
StepSwap(e, d) ==
  LET cur == pos[e]
      next == Neighbour(cur, d)
  IN  /\ Idle /\ "step" \in Verbs
      /\ e \in live \ Objects /\ ~ body[e].inside
      /\ next \in Walkable
      /\ ~ Busy(e) /\ CanSwap(e, next)
      /\ LET u == occ[next]
         IN  /\ pos' = [pos EXCEPT ![e] = next, ![u] = cur]
             /\ from' = [from EXCEPT ![e] = cur, ![u] = next]
             /\ occ' = [occ EXCEPT ![cur] = u, ![next] = e]
             /\ body' = [body EXCEPT ![e] = Walk(body[e], d),
                                     ![u] = Walk(body[u], Opposite(d))]
             /\ age' = [age EXCEPT ![e] = 0, ![u] = 0]
      /\ UNCHANGED <<live, born, pending>>

(* Dispatch "wait": allowed inside a building too.                         *)
Wait(e) ==
  /\ Idle /\ "wait" \in Verbs /\ e \in live \ Objects
  /\ \E n \in 1..MaxTimer :
       body' = [body EXCEPT ![e] = [@ EXCEPT !.act = "wait", !.hold = n]]
  /\ UNCHANGED <<live, born, pos, from, occ, pending, age>>

(* interact(enter) on a "bld:" target: any building, from anywhere; the    *)
(* tile stays claimed.                                                     *)
InteractEnter(e) ==
  /\ Idle /\ "interact_enter" \in Verbs /\ e \in live \ Objects
  /\ \E n \in 1..MaxTimer :
       body' = [body EXCEPT ![e] = [@ EXCEPT !.inside = TRUE, !.timer = n]]
  /\ UNCHANGED <<live, born, pos, from, occ, pending, age>>

(* interact(exit): the flag is cleared, the tile is not claimed again.     *)
InteractExit(e) ==
  /\ Idle /\ "interact_exit" \in Verbs
  /\ e \in live \ Objects /\ body[e].inside
  /\ body' = [body EXCEPT ![e] = [@ EXCEPT !.inside = FALSE, !.timer = 0]]
  /\ UNCHANGED <<live, born, pos, from, occ, pending, age>>

(* SpawnAgentEntity: a fresh id on a walkable tile without an occupant.    *)
SpawnAgentEntity(e, t) ==
  /\ Idle /\ e \notin born \cup Objects
  /\ occ[t] = NoOne
  /\ live' = live \cup {e} /\ born' = born \cup {e}
  /\ pos' = [pos EXCEPT ![e] = t] /\ from' = [from EXCEPT ![e] = t]
  /\ occ' = [occ EXCEPT ![t] = e]
  /\ body' = [body EXCEPT ![e] = Standing]
  /\ age' = [age EXCEPT ![e] = HalfWalk]
  /\ UNCHANGED pending

(* Mutant: frees the two tiles whoever holds their entries.                *)
OwnedUnchecked(e) == {pos[e], from[e]}

Owned(e) == {t \in {pos[e], from[e]} : occ[t] = e}

(* Mutant: does not wait for the world lock.                               *)
RemoveEntityUnlocked(e) ==
  /\ e \in live
  /\ live' = live \ {e}
  /\ occ' = [t \in Walkable |-> IF t \in Owned(e) THEN NoOne ELSE occ[t]]
  /\ body' = [body EXCEPT ![e] = Standing]
  /\ pos' = [pos EXCEPT ![e] = AnyTile] /\ from' = [from EXCEPT ![e] = AnyTile]
  /\ age' = [age EXCEPT ![e] = HalfWalk]
  /\ UNCHANGED <<born, pending>>

(* RemoveEntity: a death, a disconnect or a used-up object.                *)
RemoveEntity(e) ==
  /\ Idle /\ e \in live
  /\ live' = live \ {e}
  /\ occ' = [t \in Walkable |-> IF t \in Owned(e) THEN NoOne ELSE occ[t]]
  /\ body' = [body EXCEPT ![e] = Standing]
  /\ pos' = [pos EXCEPT ![e] = AnyTile] /\ from' = [from EXCEPT ![e] = AnyTile]
  /\ age' = [age EXCEPT ![e] = HalfWalk]
  /\ UNCHANGED <<born, pending>>

(* A bot binds to the body, or its connection ends.                        *)
SetPlayerControlled(e, on) ==
  /\ Idle /\ e \in live \ Objects /\ body[e].ctl # on
  /\ body' = [body EXCEPT ![e] = [@ EXCEPT !.ctl = on]]
  /\ UNCHANGED <<live, born, pos, from, occ, pending, age>>

-----------------------------------------------------------------------------
(* Tick: the loop over the entities.                                       *)
TickBegin ==
  /\ Idle /\ live # {}
  /\ pending' = live
  /\ UNCHANGED <<live, born, pos, from, occ, body, age>>

Visited(e) ==
  /\ e \in pending /\ pending' = pending \ {e}
  /\ age' = [age EXCEPT ![e] = IF @ < HalfWalk THEN @ + 1 ELSE @]
  /\ UNCHANGED <<live, born>>

(* Mutant: a walk that has not begun to advance is not advanced.           *)
WalkingOnceBegun(e) == body[e].act = "move" /\ body[e].prog \in 1..FullWalk - 1

Walking(e) == body[e].act = "move" /\ body[e].prog < FullWalk

(* A bot's walk advances; when it completes, the tile it left is freed.    *)
AdvanceWalk(e) ==
  LET p    == body[e].prog + 1
      done == p = FullWalk
  IN  /\ Visited(e) /\ e \notin Objects /\ body[e].ctl /\ Walking(e)
      /\ body' = [body EXCEPT ![e] =
                    [@ EXCEPT !.prog = p, !.act = IF done THEN "" ELSE "move"]]
      /\ occ' = IF done /\ from[e] # pos[e] /\ occ[from[e]] = e
                THEN [occ EXCEPT ![from[e]] = NoOne] ELSE occ
      /\ UNCHANGED <<pos, from>>

(* A body without a bot inside a building: count down.                     *)
StayInside(e) ==
  /\ Visited(e) /\ e \notin Objects /\ ~ body[e].ctl
  /\ body[e].inside /\ body[e].timer > 0
  /\ body' = [body EXCEPT ![e] = [@ EXCEPT !.timer = body[e].timer - 1]]
  /\ UNCHANGED <<pos, from, occ>>

(* Mutant: claims the stored tile whoever holds it.                        *)
ReemergeClobbering(e) ==
  /\ Visited(e) /\ e \notin Objects /\ ~ body[e].ctl
  /\ body[e].inside /\ body[e].timer = 0
  /\ body' = [body EXCEPT ![e] = [@ EXCEPT !.inside = FALSE, !.facing = "away"]]
  /\ occ' = [occ EXCEPT ![pos[e]] = e]
  /\ UNCHANGED <<pos, from>>

(* Time is up: it comes out at its tile, or at the nearest free one when   *)
(* another body has claimed its tile; with none free it overlaps.          *)
Reemerge(e) ==
  /\ Visited(e) /\ e \notin Objects /\ ~ body[e].ctl
  /\ body[e].inside /\ body[e].timer = 0
  /\ body' = [body EXCEPT ![e] = [@ EXCEPT !.inside = FALSE, !.facing = "away"]]
  /\ \/ /\ occ[pos[e]] \in {NoOne, e}
        /\ occ' = [occ EXCEPT ![pos[e]] = e]
        /\ UNCHANGED pos
     \/ /\ occ[pos[e]] \notin {NoOne, e}
        /\ \E t \in NearestWalkable(pos[e]) :
             pos' = [pos EXCEPT ![e] = t] /\ occ' = [occ EXCEPT ![t] = e]
     \/ /\ occ[pos[e]] \notin {NoOne, e} /\ NearestWalkable(pos[e]) = {}
        /\ UNCHANGED <<pos, occ>>
  /\ UNCHANGED from

(* A body without a bot holds its action for actionTicks.                  *)
HoldAction(e) ==
  /\ Visited(e) /\ e \notin Objects /\ ~ body[e].ctl /\ ~ body[e].inside
  /\ body[e].hold > 0
  /\ LET n == body[e].hold - 1
     IN  body' = [body EXCEPT ![e] =
                    [@ EXCEPT !.hold = n, !.act = IF n = 0 THEN "" ELSE body[e].act]]
  /\ UNCHANGED <<pos, from, occ>>

AtDoor(e) == body[e].prog = FullWalk /\ pos[e] \in Doors /\ body[e].facing = "N"

(* A body without a bot that faces the door it stands at goes in and       *)
(* releases its tile.                                                      *)
AutoEnter(e) ==
  /\ Visited(e) /\ e \notin Objects /\ ~ body[e].ctl /\ ~ body[e].inside
  /\ body[e].hold = 0 /\ AtDoor(e)
  /\ \E n \in 1..MaxTimer :
       body' = [body EXCEPT ![e] = [@ EXCEPT !.inside = TRUE, !.timer = n, !.act = ""]]
  /\ occ' = IF occ[pos[e]] = e THEN [occ EXCEPT ![pos[e]] = NoOne] ELSE occ
  /\ UNCHANGED <<pos, from>>

(* Nothing to do for this body: an object, a bot at rest, an idle body.    *)
Rest(e) ==
  /\ Visited(e)
  /\ \/ e \in Objects
     \/ body[e].ctl /\ ~ Walking(e)
     \/ ~ body[e].ctl /\ ~ body[e].inside /\ body[e].hold = 0 /\ ~ AtDoor(e)
  /\ UNCHANGED <<pos, from, occ, body>>

Visit(e) ==
  \/ AdvanceWalk(e) \/ StayInside(e) \/ Reemerge(e)
  \/ HoldAction(e) \/ AutoEnter(e) \/ Rest(e)

Handle(e) ==
  \/ \E d \in Dirs : StepClaim(e, d) \/ StepSwap(e, d)
  \/ Wait(e) \/ InteractEnter(e) \/ InteractExit(e)
  \/ \E t \in Walkable : SpawnAgentEntity(e, t)
  \/ RemoveEntity(e)
  \/ \E on \in BOOLEAN : SetPlayerControlled(e, on)

Next ==
  \/ TickBegin
  \/ \E e \in Ids : Handle(e) \/ Visit(e)

Spec == Init /\ [][Next]_vars

(* The engine's ticker calls Tick sixty times a second and Go's mutex does *)
(* not starve a waiter, so a tick that could begin for ever does; the loop *)
(* of a tick visits every body.                                            *)
Fairness == WF_vars(TickBegin) /\ \A e \in Ids : WF_vars(Visit(e))

FairSpec == Spec /\ Fairness

-----------------------------------------------------------------------------
(* Every body owns the entry of the tile it stands on: a step, a swap, the *)
(* end of a walk, a removal or a spawn of another body never takes it away *)
(* (world.go stepOneTile, Tick; observation.go RemoveEntity).              *)
OwnTile == \A e \in live : occ[pos[e]] = e

(* No two bodies stand on one tile: the "occupants invariant" of the       *)
(* comment in Tick, and the collision rule of MOVEMENT_AND_COLLISION.      *)
NoOverlap == \A e, u \in live : pos[e] = pos[u] => e = u

Adjacent(t, u) == \E d \in Dirs : Neighbour(t, d) = u \/ Neighbour(u, d) = t

(* A body moves by single adjacent tiles: a swap with a stale entry would  *)
(* carry a body across the map.                                            *)
NoTeleport ==
  [][\A e \in live \cap live' : pos'[e] # pos[e] => Adjacent(pos[e], pos'[e])]_vars

(* A body moves, by its own step or by a swap, at most once in HalfWalk    *)
(* ticks: the floor that "prevents a very fast cadence from thrashing".    *)
PacedWalk ==
  [][\A e \in live \cap live' : pos'[e] # pos[e] => age[e] >= HalfWalk]_vars

(* A busy bot does not stay busy: the ticks carry its walk past the half   *)
(* way point, unless the body is removed or its bot goes.                  *)
BusyEnds ==
  \A e \in Ids :
    (e \in live /\ body[e].ctl /\ Busy(e)) ~>
      (e \notin live \/ ~ body[e].ctl \/ ~ Busy(e))
=============================================================================
