-------------------------- MODULE MCTileOccupancy --------------------------
(* A small instance of TileOccupancy for TLC.                              *)
EXTENDS TileOccupancy

(* A corridor long enough for a body to be far from an entry it left       *)
(* behind, without doors.                                                  *)
Long   == {<<x, 1>> : x \in 1..5}
NoDoor == {}

(* The verbs of bots that do not wait in mid walk.                         *)
Inside == AllVerbs \ {"wait"}

(* Spec with these constants: nobody waits, so no body holds an action, and*)
(* none goes in at a door.                                                 *)
CorridorSpec ==
  /\ Init
  /\ [][\/ TickBegin
        \/ \E e \in Ids :
             \/ \E d \in Dirs : StepClaim(e, d) \/ StepSwap(e, d)
             \/ InteractEnter(e) \/ InteractExit(e)
             \/ \E t \in Walkable : SpawnAgentEntity(e, t)
             \/ RemoveEntity(e)
             \/ \E on \in BOOLEAN : SetPlayerControlled(e, on)
             \/ AdvanceWalk(e) \/ StayInside(e) \/ Reemerge(e) \/ Rest(e)]_vars
=============================================================================
