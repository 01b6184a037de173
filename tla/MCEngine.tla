------------------------------ MODULE MCEngine ------------------------------
(* What must happen in the engine in the end: the bodies of one map under  *)
(* its ticks, or the hub with its loop, readers and observer.              *)
EXTENDS TileOccupancy, MapHub

(* A door with a tile before it.                                           *)
Porch == {<<1, 1>>, <<1, 2>>}
Door  == {<<1, 1>>}
ThreeEach == [e \in Agents |-> 3]

VARIABLE half  \* which of the two runs; the other is over
all == <<half, vars, hubAllVars>>

MapIsEmpty ==
  /\ live = {} /\ born = Ids
  /\ pos = [e \in Ids |-> AnyTile] /\ from = [e \in Ids |-> AnyTile]
  /\ occ = [t \in Walkable |-> NoOne]
  /\ body = [e \in Ids |-> Standing]
  /\ pending = {} /\ age = [e \in Ids |-> HalfWalk]

EngineInit ==
  /\ HubInit
  /\ \/ half = "tiles" /\ Init
     \/ half = "hub" /\ MapIsEmpty

TilesRun == half = "tiles" /\ UNCHANGED <<half, hubAllVars>>
HubRuns  == half = "hub" /\ UNCHANGED <<half, vars>>

(* The fairness of the two specifications.                                 *)
EngineSpec ==
  /\ EngineInit
  /\ [][(TilesRun /\ Next) \/ (HubRuns /\ HubNext)]_all
  /\ WF_all(TilesRun /\ TickBegin) /\ \A e \in Ids : WF_all(TilesRun /\ Visit(e))
  /\ WF_all(HubRuns /\ Loop)
  /\ \A e \in Agents : SF_all(HubRuns /\ Asking(e)) /\ SF_all(HubRuns /\ Observe(e))
  /\ SF_all(HubRuns /\ Observing)

(* A walk ends, and so does a door move (world.go Tick, multimap.go        *)
(* ProcessWarps).                                                          *)
MovesEnd == BusyEnds /\ WarpsSettle
=============================================================================
