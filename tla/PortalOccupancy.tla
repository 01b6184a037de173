--------------------------- MODULE PortalOccupancy ---------------------------
(***************************************************************************)
(* TileOccupancy with the doors of the decoration buildings as portals:    *)
(* what the cross-map moves of MapHub do to the tiles of the overworld     *)
(* (engine/internal/world: action.go tryEnterDecorationBuilding,           *)
(* multimap.go Warp).                                                      *)
(*                                                                         *)
(* A body next to a door may ask to enter; the move is carried out after   *)
(* the tick that handled the request, and from then on the body is `away', *)
(* until it comes back on the tile it entered from.  The time between a    *)
(* tick and the last of its moves is when `due' is not empty.              *)
(***************************************************************************)
EXTENDS TileOccupancy

VARIABLES
  asked,    \* the bodies with a pendingWarp into a room
  away,     \* the bodies in a room
  ret,      \* interiorReturnTile
  warping   \* the loop is in ProcessWarps

portalVars == <<asked, away, ret, warping>>

PortalTypeOK ==
  /\ TypeOK
  /\ asked \subseteq Ids /\ warping \in BOOLEAN
  /\ away \subseteq born \ live
  /\ ret \in [Ids -> Walkable]

PortalInit ==
  /\ Init
  /\ asked = {} /\ away = {} /\ warping = FALSE
  /\ ret = [e \in Ids |-> AnyTile]

-----------------------------------------------------------------------------
(* Dispatch "enter" within reach of a door, whatever the body is doing; a  *)
(* second request is queued like the first, and Warp will not find the     *)
(* body for it.                                                            *)
AskToEnter(e) ==
  /\ Idle /\ ~ warping /\ e \in live \ Objects /\ ~ body[e].inside
  /\ \E d \in Doors : Distance(pos[e], d) <= 1
  /\ asked' = asked \cup {e}
  /\ ret' = [ret EXCEPT ![e] = pos[e]]
  /\ UNCHANGED <<vars, away, warping>>

(* Warp takes the body off the map and deletes the entry of its tile       *)
(* unasked; the tile a walk left behind keeps its entry.  A body that died *)
(* meanwhile is not found and its request dropped.                         *)
WarpAway(e) ==
  /\ warping /\ e \in asked \cap live
  /\ live' = live \ {e} /\ away' = away \cup {e}
  /\ occ' = [occ EXCEPT ![pos[e]] = NoOne]
  /\ UNCHANGED <<born, pos, from, body, pending, age, asked, ret, warping>>

(* Warp puts it back on the tile it entered from, whoever is there; it may *)
(* have turned round in the room, which it cannot leave in the round that  *)
(* brought it there: the room has not ticked yet.  Waiting and bld: targets*)
(* inside a room are left out.                                             *)
WarpBack(e) ==
  /\ warping /\ e \in away \ asked /\ away' = away \ {e}
  /\ live' = live \cup {e}
  /\ pos' = [pos EXCEPT ![e] = ret[e]] /\ from' = [from EXCEPT ![e] = ret[e]]
  /\ occ' = [occ EXCEPT ![ret[e]] = e]
  /\ \E f \in {"N", "away"} :
       body' = [body EXCEPT ![e] =
                  [@ EXCEPT !.prog = FullWalk, !.act = "", !.facing = f]]
  /\ age' = [age EXCEPT ![e] = HalfWalk]
  /\ UNCHANGED <<born, pending, asked, ret, warping>>

-----------------------------------------------------------------------------
(* The actions a tick applies before its loop over the bodies; "wait" is   *)
(* left to TileOccupancy.                                                  *)
Verb(e) ==
  \/ \E d \in Dirs : StepClaim(e, d) \/ StepSwap(e, d)
  \/ InteractEnter(e) \/ InteractExit(e)

(* What other goroutines and the systems do under the world lock.          *)
Serve(e) ==
  \/ \E t \in Walkable : e \notin away /\ SpawnAgentEntity(e, t)
  \/ RemoveEntity(e)
  \/ \E on \in BOOLEAN : SetPlayerControlled(e, on)

(* TickAll goes on to ProcessWarps when the tick's loop is done, or when   *)
(* there is no body for it to visit.                                       *)
EndTick(e) == Visit(e) /\ warping' = (pending' = {})

EmptyTick ==
  /\ ~ warping /\ live = {}
  /\ warping' = TRUE /\ UNCHANGED <<vars, asked>>

EndWarps ==
  /\ warping /\ asked \cap live = {}
  /\ warping' = FALSE /\ asked' = {} /\ UNCHANGED vars

PortalNext ==
  \/ \E e \in Ids :
       \/ ~ warping /\ Verb(e) /\ UNCHANGED portalVars
       \/ Serve(e) /\ UNCHANGED portalVars
       \/ EndTick(e) /\ UNCHANGED <<asked, away, ret>>
       \/ AskToEnter(e) \/ WarpAway(e) \/ WarpBack(e)
  \/ ~ warping /\ TickBegin /\ UNCHANGED portalVars
  \/ (EmptyTick \/ EndWarps) /\ UNCHANGED <<away, ret>>

PortalSpec == PortalInit /\ [][PortalNext]_<<vars, portalVars>>

-----------------------------------------------------------------------------
(* The loop of a tick takes its tile from no body: not the end of another  *)
(* body's walk, and not a body that comes out of a building ("don't        *)
(* clobber the other entity's slot", world.go Tick), even when bodies came *)
(* back on top of others or left entries behind; only going inside         *)
(* releases a tile.                                                        *)
LoopKeepsClaims ==
  [][\A e \in live \cap live' :
       \/ Idle \/ occ[pos[e]] # e \/ occ'[pos'[e]] = e
       \/ ~ body[e].inside /\ body'[e].inside]_<<vars, portalVars>>

(* And no body out of doors is carried across the map by a swap with an    *)
(* entry that a body which went through a door left behind (world.go       *)
(* stepOneTile).                                                           *)
NoTeleportByPortal ==
  [][\A e \in live \cap live' :
       pos'[e] # pos[e] => body[e].inside \/ Adjacent(pos[e], pos'[e])]_<<vars, portalVars>>
=============================================================================
