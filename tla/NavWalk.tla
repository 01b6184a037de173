------------------------------ MODULE NavWalk ------------------------------
(***************************************************************************)
(* Navigation and the motor of the bots (agents/common/nav.py, motor.py).  *)
(* On every observation a walker with the goal goto or pursue searches the *)
(* walkability grid with A* and takes the first step of the path; with the *)
(* goal flee it takes the step that gets it farthest from the threat.  The *)
(* search is modelled one expansion at a time, up to the bound it has.     *)
(*                                                                         *)
(* The others stand still.  The engine is external: a step happens when    *)
(* the tile is walkable and nobody stands on it.                           *)
(***************************************************************************)
EXTENDS Integers, Sequences, FiniteSets

CONSTANTS
  Width, Height,
  Rooms,   \* the sets of walls to look at
  Starts,  \* where the walker may start
  Vision,  \* how far a bot sees the others, in tiles
  Bounds   \* the bounds to look at of the tiles that a search may expand

Tiles == (0..Width-1) \X (0..Height-1)
ASSUME NavAssumption ==
  /\ Width \in Nat \ {0} /\ Height \in Nat \ {0} /\ Vision \in Nat
  /\ Rooms \subseteq SUBSET Tiles /\ Starts \subseteq Tiles /\ Bounds \subseteq Nat

Abs(n) == IF n < 0 THEN -n ELSE n
Manhattan(a, b) == Abs(a[1] - b[1]) + Abs(a[2] - b[2])
Chebyshev(a, b) ==
  IF Abs(a[1] - b[1]) > Abs(a[2] - b[2]) THEN Abs(a[1] - b[1]) ELSE Abs(a[2] - b[2])

(* _DIRS: north, south, east, west                                         *)
Dirs == << <<0, -1>>, <<0, 1>>, <<1, 0>>, <<-1, 0>> >>
Moved(p, d) == <<p[1] + d[1], p[2] + d[2]>>

VARIABLES
  walls,    \* the tiles that are not walkable
  mode,     \* the kind of the goal: "goto", "pursue", "flee"
  target,   \* its tile, or that of its entity
  others,   \* where the other agents stand
  bound,    \* max_expand, 40000 in the code
  here,     \* where the walker stands
  pc,       \* "observe", "search", "step"
  blocked,  \* dynamic_blocked of this search
  heap,     \* openh: <<f, g, tile>>
  path,     \* for each tile of g, the way that came gives
  expand,   \* the entries expanded so far
  way       \* history: from the start there is a way that passes nobody

search == <<blocked, heap, path, expand>>
fixed  == <<walls, mode, target, others, bound, way>>
navVars   == <<fixed, here, pc, search>>

Adjacent == mode = "pursue"       \* stop_adjacent
Reached(p) == IF Adjacent THEN Chebyshev(p, target) <= 1 ELSE p = target

(* The neighbours the search may enter: walkable, and not another agent's, *)
(* except the goal and, when adjacent will do, the tiles next to it.       *)
Neighbours(p) == {q \in {Moved(p, Dirs[i]) : i \in 1..4} : q \in Tiles \ walls}
Enters(q, avoid) == q \in avoid => Adjacent /\ Chebyshev(q, target) <= 1

(* Every variable has its type.                                            *)
NavTypeOK ==
  /\ walls \in Rooms /\ mode \in {"goto", "pursue", "flee"} /\ way \in BOOLEAN
  /\ target \in Tiles /\ others \subseteq Tiles /\ here \in Tiles \ walls
  /\ pc \in {"observe", "search", "step"} /\ blocked \subseteq others \ {target}
  /\ heap \subseteq Int \X Nat \X Tiles /\ bound \in Bounds /\ expand \in 0..bound
  /\ DOMAIN path \subseteq Tiles \ walls /\ \A p \in DOMAIN path : path[p] \in Seq(Tiles \ walls)

----------------------------------------------------------------------------
(* The reference: the tiles of a way from p, n steps long or less, that    *)
(* enters no tile of avoid and no wall.                                    *)
Ball(p, avoid) ==
  LET ball[n \in 0..Width * Height] ==
        IF n = 0 THEN {p}
        ELSE {p} \cup ((UNION {Neighbours(q) \cup {q} : q \in ball[n-1]}) \ avoid)
  IN ball
Route(p, avoid, n) == \E q \in Ball(p, avoid)[n] : Reached(q)

(* A slip: nobody is in the way.                                           *)
BlockersForgotten == {}

(* _blockers: the agents in view; the goal never blocks.                   *)
Blockers == {b \in others \ {target} : Chebyshev(here, b) <= Vision}

Plan ==
  /\ pc = "observe" /\ mode # "flee" /\ ~Reached(here)
  /\ pc' = "search" /\ blocked' = Blockers
  /\ heap' = {<<0, 0, here>>} /\ path' = [q \in {here} |-> <<here>>] /\ expand' = 0
  /\ UNCHANGED <<fixed, here>>

(* A slip: the entry with the longest way comes first.                     *)
BeforeDeepest(a, b) == a[2] >= b[2]

(* heapq gives the least of the entries, f first, then g, then the tile.   *)
Before(a, b) ==
  \/ a[1] < b[1]
  \/ a[1] = b[1] /\ a[2] < b[2]
  \/ a[1] = b[1] /\ a[2] = b[2] /\ a[3][1] < b[3][1]
  \/ a[1] = b[1] /\ a[2] = b[2] /\ a[3][1] = b[3][1] /\ a[3][2] <= b[3][2]
Least(top) == \A b \in heap : Before(top, b)

(* The neighbours of cur to which it gives a shorter way.                  *)
Shorter(cur) ==
  {q \in Neighbours(cur) :
     /\ Enters(q, blocked)
     /\ q \in DOMAIN path => Len(path[cur]) + 1 < Len(path[q])}

Expand ==
  /\ pc = "search" /\ expand < bound /\ expand' = expand + 1
  /\ \E top \in heap :
       LET cur == top[3] IN
       /\ Least(top) /\ ~Reached(cur)
       /\ heap' = (heap \ {top}) \cup
            {<<Len(path[cur]) + Manhattan(q, target), Len(path[cur]), q>> : q \in Shorter(cur)}
       /\ path' = [q \in DOMAIN path \cup Shorter(cur) |->
                     IF q \in Shorter(cur) THEN Append(path[cur], q) ELSE path[q]]
  /\ UNCHANGED <<fixed, here, pc, blocked>>

Found(p) == \E top \in heap : Least(top) /\ top[3] = p /\ Reached(p)

Step(q) == here' = IF q \in Tiles \ (walls \cup others) THEN q ELSE here

(* next_dir of a search that has found its goal; the engine lets the step  *)
(* happen or not.                                                          *)
Over == pc' = "observe" /\ blocked' = {} /\ heap' = {} /\ path' = << >> /\ expand' = 0
Walk ==
  /\ pc = "search" /\ expand < bound
  /\ \E p \in DOMAIN path : Found(p) /\ Step(path[p][2])
  /\ Over /\ UNCHANGED fixed

(* The heap is empty or the bound is reached: no route and no step, until  *)
(* the next observation.                                                   *)
NoRoute ==
  /\ pc = "search" /\ (heap = {} \/ expand >= bound)
  /\ Over /\ UNCHANGED <<fixed, here>>

(* _flee_step: of the walkable neighbours the first, in the order of the   *)
(* directions, that is farthest from the threat.                           *)
Flee ==
  LET open   == {i \in 1..4 : Moved(here, Dirs[i]) \in Tiles \ walls}
      far(i) == Chebyshev(Moved(here, Dirs[i]), target)
  IN /\ pc = "observe" /\ mode = "flee"
     /\ \E i \in open :
          /\ \A j \in open : far(j) < far(i) \/ (far(j) = far(i) /\ i <= j)
          /\ Step(Moved(here, Dirs[i]))
     /\ UNCHANGED <<fixed, pc, search>>

(* Somebody stands on the goal of a pursuit or a flight.                   *)
NavInit ==
  /\ walls \in Rooms /\ here \in Starts \ walls /\ mode \in {"goto", "pursue", "flee"}
  /\ target \in Tiles \ (walls \cup {here})
  /\ \E b \in Tiles \ (walls \cup {here, target}) :
       others \in {IF mode = "goto" THEN {} ELSE {target}, IF mode = "goto" THEN {b} ELSE {target, b}}
  /\ pc = "observe" /\ blocked = {} /\ heap = {} /\ path = << >>
  /\ bound \in Bounds /\ expand = 0
  /\ way = Route(here, others \ {target}, Width * Height)

NavNext == Plan \/ Expand \/ Walk \/ NoRoute \/ Flee

----------------------------------------------------------------------------
(* A way the search keeps starts where the walker stands and goes from     *)
(* tile to neighbouring tile, over walkable ground, past the agents it     *)
(* must avoid.                                                             *)
PathsAreWays ==
  \A p \in DOMAIN path :
    /\ path[p] # << >> /\ path[p][1] = here /\ path[p][Len(path[p])] = p
    /\ \A i \in 1..Len(path[p])-1 :
         /\ path[p][i+1] \in Neighbours(path[p][i])
         /\ Enters(path[p][i+1], blocked)

(* What a search for a tile finds is as short as any way past the agents   *)
(* in view.                                                                *)
GotoIsShortest ==
  \A p \in DOMAIN path :
    mode = "goto" /\ Found(p) => ~Route(here, blocked, Len(path[p]) - 2)

(* A search that has looked everywhere it can, its bound permitting, fails *)
(* only where there is no way past the agents in view.                     *)
FailsOnlyWithoutRoute ==
  pc = "search" /\ heap = {} => ~Route(here, blocked, Width * Height)

(* A goto arrives if there is a way that passes nobody and the bound lets  *)
(* each tile be expanded as often as it has neighbours.  A smaller bound   *)
(* may end each search before it is at the goal, and the walker stays      *)
(* where it is.                                                            *)
Ample == bound >= 4 * Width * Height
GotoArrives == mode = "goto" /\ way /\ Ample ~> here = target

(* The search of nav.py is right: ways are ways, a goto is as short as can *)
(* be, and what has no more tiles to expand has nothing to find.           *)
WalkSafe == NavTypeOK /\ PathsAreWays /\ GotoIsShortest /\ FailsOnlyWithoutRoute
=============================================================================
