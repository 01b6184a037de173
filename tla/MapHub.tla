------------------------------- MODULE MapHub -------------------------------
(***************************************************************************)
(* The multi-map hub: one overworld, and a room behind each building door  *)
(* that exists while somebody is inside                                    *)
(* (engine/internal/world: multimap.go, queue.go, interiors.go, action.go; *)
(* engine/internal/wire/agent.go).                                         *)
(*                                                                         *)
(* Three kinds of goroutine share it.  The main loop ticks every map and   *)
(* then carries out the door moves the ticks asked for.  Each agent's      *)
(* reader looks for the map that holds its body, queues an action there    *)
(* and blocks until the reply.  The observer looks for the body in the     *)
(* same way and closes the socket of an agent whose body is gone.  A step  *)
(* is what one goroutine does under one lock; a search takes one lock per  *)
(* map.  A tick keeps its map locked from Tick to FinishTick.              *)
(*                                                                         *)
(* A room that was unloaded and is entered again is a new World object     *)
(* under the old map id: <<r, n>> is the n-th object made for room r.      *)
(* Tiles are the subject of TileOccupancy and PortalOccupancy.             *)
(***************************************************************************)
EXTENDS Integers, Sequences

CONSTANTS
  Agents,       \* the agents, each with the body it registered for
  Over,         \* the overworld, the hub's primary map
  Rooms,        \* the map ids of the rooms, one per building door
  Watched,      \* the agents the observer looks after
  MaxGen,       \* bound on the World objects made for a room
  MaxQueue,     \* capacity of a world's actionQueue (16384 in the code)
  Actions       \* bound on the actions of each agent

ASSUME HubConstants ==
  /\ Over \notin Rooms
  /\ Over \notin Rooms \X Nat
  /\ Watched \subseteq Agents
  /\ MaxGen \in Nat /\ MaxQueue \in Nat \ {0}
  /\ Actions \in [Agents -> Nat]
  /\ {"exit", "entering", "leaving", "gone"} \cap (Rooms \cup {Over}) = {}

Worlds == {Over} \cup (Rooms \X (1..MaxGen))
MapIds == {Over} \cup Rooms

VARIABLES
  loaded,   \* h.maps: the rooms the hub holds
  gen,      \* how many World objects each room has had
  ents,     \* w.entities of each world, restricted to the agents' bodies
  seen,     \* the bodies in the world's published snapshot
  ticked,   \* the worlds that have published a snapshot
  ret,      \* the bodies with an interiorReturnMap
  queue,    \* w.actionQueue: who is waiting for a reply, in order
  warps,    \* w.pendingWarps
  phase,    \* where the main loop is
  todo,     \* the worlds the loop has still to visit in this phase
  cur,      \* the world the loop is at
  reqs,     \* the door moves it took from that world
  reader,   \* where each agent's reader is
  ask,      \* the action it submits: a room to enter, or "exit"
  left,     \* the worlds its search has still to look at
  at,       \* the world it submits to
  spent,    \* the actions it has submitted
  conn,     \* "open", "shut" by the observer, "left" after teardown
  obs       \* the observer: where it is, for whom, and its search

hubVars   == <<loaded, gen, ents, seen, ticked, ret>>
loopVars  == <<phase, todo, cur, reqs>>
agentVars == <<reader, ask, left, at, spent>>
hubAllVars == <<hubVars, queue, warps, loopVars, agentVars, conn, obs>>

Warps   == [who : Agents, to : MapIds]
Phases  == {"idle", "tick", "drain", "drained", "collect", "warp", "land", "gc"}
Observer == [pc : {"idle", "search", "look", "confirm"}, who : Agents,
             left : SUBSET Worlds, at : Worlds]

HubTypeOK ==
  /\ loaded \subseteq Rooms /\ gen \in [Rooms -> 0..MaxGen]
  /\ ents \in [Worlds -> SUBSET Agents] /\ seen \in [Worlds -> SUBSET Agents]
  /\ ticked \subseteq Worlds /\ ret \subseteq Agents
  /\ queue \in [Worlds -> Seq(Agents)] /\ warps \in [Worlds -> Seq(Warps)]
  /\ phase \in Phases /\ todo \subseteq Worlds /\ cur \in Worlds
  /\ reqs \in Seq(Warps)
  /\ reader \in [Agents -> {"idle", "search", "send", "wait"}]
  /\ ask \in [Agents -> Rooms \cup {"exit"}]
  /\ left \in [Agents -> SUBSET Worlds] /\ at \in [Agents -> Worlds]
  /\ spent \in [Agents -> Nat] /\ \A e \in Agents : spent[e] <= Actions[e]
  /\ conn \in [Agents -> {"open", "shut", "left"}]
  /\ obs \in Observer

-----------------------------------------------------------------------------
(* The World object the hub holds under a map id.                          *)
WorldAt(m) == IF m = Over THEN Over ELSE <<m, gen[m]>>

IsLoaded(m) == m = Over \/ m \in loaded

LoadedWorlds == {WorldAt(m) : m \in {Over} \cup loaded}

LoopHolds(w) == phase \in {"drain", "drained"} /\ cur = w

HubInit ==
  /\ loaded = {} /\ gen = [r \in Rooms |-> 0]
  /\ ents = [w \in Worlds |-> IF w = Over THEN Agents ELSE {}]
  /\ seen = [w \in Worlds |-> {}] /\ ticked = {} /\ ret = {}
  /\ queue = [w \in Worlds |-> <<>>] /\ warps = [w \in Worlds |-> <<>>]
  /\ phase = "idle" /\ todo = {} /\ cur = Over /\ reqs = <<>>
  /\ reader = [e \in Agents |-> "idle"] /\ ask = [e \in Agents |-> "exit"]
  /\ left = [e \in Agents |-> {}] /\ at = [e \in Agents |-> Over]
  /\ spent = [e \in Agents |-> 0]
  /\ conn = [e \in Agents |-> "open"]
  /\ obs \in [pc : {"idle"}, who : Agents, left : {{}}, at : {Over}]

-----------------------------------------------------------------------------
(* The main loop, first half: TickAll ticks every map it found at its      *)
(* start, in the arbitrary order in which Go ranges over a map.            *)

StartTicks ==
  /\ phase = "idle"
  /\ phase' = "tick" /\ todo' = LoadedWorlds
  /\ UNCHANGED <<hubVars, queue, warps, cur, reqs, agentVars, conn, obs>>

Tick(w) ==
  /\ phase = "tick" /\ w \in todo
  /\ phase' = "drain" /\ cur' = w /\ todo' = todo \ {w}
  /\ UNCHANGED <<hubVars, queue, warps, reqs, agentVars, conn, obs>>

(* drainActionQueue: the head of the queue is applied and answered.        *)
Answer ==
  LET e == Head(queue[cur])
  IN  /\ phase \in {"drain", "drained"} /\ queue[cur] # <<>>
      /\ phase' = "drained"
      /\ queue' = [queue EXCEPT ![cur] = Tail(@)]
      /\ reader' = [reader EXCEPT ![e] = "idle"]
      /\ UNCHANGED <<seen, ticked, todo, cur, reqs, ask, left, at, spent, conn, obs>>

(* The body is not on this map (unknown_entity), or the dispatcher turns   *)
(* the action down: no such door within reach, a door inside a room, an    *)
(* exit on the overworld.                                                  *)
Reject ==
  /\ Answer
  /\ LET e == Head(queue[cur])
     IN  e \in ents[cur] => ask[e] \in Rooms \/ cur = Over
  /\ UNCHANGED <<loaded, gen, ents, ret, warps>>

(* tryEnterDecorationBuilding: the room is made if the hub has none, and   *)
(* the move is left for after the ticks.  The door events are left out.    *)
Enter ==
  LET e == Head(queue[cur])
      r == ask[e]
  IN  /\ Answer
      /\ cur = Over /\ e \in ents[cur] /\ r \in Rooms
      /\ \/ r \in loaded /\ UNCHANGED <<loaded, gen>>
         \/ /\ r \notin loaded /\ gen[r] < MaxGen
            /\ loaded' = loaded \cup {r} /\ gen' = [gen EXCEPT ![r] = @ + 1]
      /\ ret' = ret \cup {e}
      /\ warps' = [warps EXCEPT ![cur] = Append(@, [who |-> e, to |-> r])]
      /\ UNCHANGED ents

(* tryExitInterior.  Only the overworld has doors, so it is the map every  *)
(* interiorReturnMap names, and unloadFrom is always the room itself.      *)
Exit ==
  LET e == Head(queue[cur])
  IN  /\ Answer
      /\ cur # Over /\ e \in ents[cur] /\ ask[e] = "exit"
      /\ IF e \in ret
           THEN warps' = [warps EXCEPT ![cur] = Append(@, [who |-> e, to |-> Over])]
           ELSE UNCHANGED warps
      /\ UNCHANGED <<loaded, gen, ents, ret>>

(* Mutant: the budget is checked before the first action of a tick.        *)
FinishTickEarly(dead) ==
  /\ phase \in {"drain", "drained"}
  /\ dead \subseteq (IF cur = Over THEN ents[Over] ELSE {})
  /\ ents' = [ents EXCEPT ![cur] = @ \ dead]
  /\ seen' = [seen EXCEPT ![cur] = ents'[cur]] /\ ticked' = ticked \cup {cur}
  /\ phase' = "tick"
  /\ UNCHANGED <<loaded, gen, ret, queue, warps, todo, cur, reqs, agentVars,
                 conn, obs>>

(* The queue is empty, or the time budget ran out after at least one       *)
(* action.  The systems, which only the overworld has, may kill bodies     *)
(* (RemoveEntity); then the snapshot is published and the lock released.   *)
FinishTick(dead) ==
  /\ phase \in {"drain", "drained"}
  /\ phase = "drain" => queue[cur] = <<>>
  /\ dead \subseteq (IF cur = Over THEN ents[Over] ELSE {})
  /\ ents' = [ents EXCEPT ![cur] = @ \ dead]
  /\ seen' = [seen EXCEPT ![cur] = ents'[cur]] /\ ticked' = ticked \cup {cur}
  /\ phase' = "tick"
  /\ UNCHANGED <<loaded, gen, ret, queue, warps, todo, cur, reqs, agentVars,
                 conn, obs>>

(* The main loop, second half: TickAll's copy of the maps is used up, and  *)
(* ProcessWarps takes a copy of its own, with the rooms made meanwhile.    *)
StartWarps ==
  /\ phase = "tick" /\ todo = {}
  /\ phase' = "collect" /\ todo' = LoadedWorlds
  /\ UNCHANGED <<hubVars, queue, warps, cur, reqs, agentVars, conn, obs>>

Collect(w) ==
  /\ phase = "collect" /\ w \in todo
  /\ phase' = "warp" /\ cur' = w /\ todo' = todo \ {w}
  /\ reqs' = warps[w] /\ warps' = [warps EXCEPT ![w] = <<>>]
  /\ UNCHANGED <<hubVars, queue, agentVars, conn, obs>>

(* The map has no more moves, or ProcessWarps has seen every map.          *)
NextMap ==
  /\ \/ /\ phase = "warp" /\ reqs = <<>>
        /\ phase' = "collect"
     \/ /\ phase = "collect" /\ todo = {}
        /\ phase' = "idle"
  /\ UNCHANGED <<hubVars, queue, warps, todo, cur, reqs, agentVars, conn, obs>>

(* Mutant: Warp trusts the request: the body is not looked up on `from'.   *)
CanWarpUnchecked(r) == cur \in LoadedWorlds /\ IsLoaded(r.to)

(* Warp refuses an unknown map and a body that is not on the first map.    *)
CanWarp(r) ==
  /\ cur \in LoadedWorlds /\ IsLoaded(r.to)
  /\ r.who \in ents[cur]

(* Mutant: Warp forgets to delete the body from `from'.                    *)
WarpOutKeeping ==
  /\ phase = "warp" /\ reqs # <<>> /\ CanWarp(Head(reqs))
  /\ phase' = "land"
  /\ UNCHANGED <<hubVars, queue, warps, todo, cur, reqs, agentVars, conn, obs>>

(* The first half of Warp: the body is taken off its map ...               *)
WarpOut ==
  /\ phase = "warp" /\ reqs # <<>> /\ CanWarp(Head(reqs))
  /\ ents' = [ents EXCEPT ![cur] = @ \ {Head(reqs).who}]
  /\ phase' = "land"
  /\ UNCHANGED <<loaded, gen, seen, ticked, ret, queue, warps, todo, cur, reqs,
                 agentVars, conn, obs>>

(* ... and put on the other one, under that map's lock.  In between it is  *)
(* on no map.  Only the loop unloads maps, so the map looked up before is  *)
(* still the one under that id.                                            *)
WarpIn ==
  /\ phase = "land"
  /\ ents' = [ents EXCEPT ![WorldAt(Head(reqs).to)] = @ \cup {Head(reqs).who}]
  /\ phase' = "gc"
  /\ UNCHANGED <<loaded, gen, seen, ticked, ret, queue, warps, todo, cur, reqs,
                 agentVars, conn, obs>>

SkipWarp ==
  /\ phase = "warp" /\ reqs # <<>> /\ ~ CanWarp(Head(reqs))
  /\ phase' = "gc"
  /\ UNCHANGED <<hubVars, queue, warps, todo, cur, reqs, agentVars, conn, obs>>

(* unloadFrom names the room of an exit, looked up anew: unload if empty.  *)
Unloads(r) ==
  /\ r.to = Over /\ cur \in LoadedWorlds
  /\ ents[cur] = {}

(* Unload deletes the map id; whatever waits in the World object's queue   *)
(* stays there.                                                            *)
AfterWarp ==
  /\ phase = "gc" /\ phase' = "warp" /\ reqs' = Tail(reqs)
  /\ loaded' = IF Unloads(Head(reqs)) THEN loaded \ {cur[1]} ELSE loaded
  /\ UNCHANGED <<gen, ents, seen, ticked, ret, queue, warps, todo, cur,
                 agentVars, conn, obs>>

-----------------------------------------------------------------------------
(* An agent's reader: handleMessage looks for the world of the body,       *)
(* queues the action there and blocks until it is answered.                *)

Submit(e, v) ==
  /\ conn[e] = "open" /\ reader[e] = "idle" /\ spent[e] < Actions[e]
  /\ ask' = [ask EXCEPT ![e] = v] /\ spent' = [spent EXCEPT ![e] = @ + 1]
  /\ reader' = [reader EXCEPT ![e] = "search"]
  /\ left' = [left EXCEPT ![e] = LoadedWorlds]
  /\ UNCHANGED <<hubVars, queue, warps, loopVars, at, conn, obs>>

(* WorldOf asks one world of its copy after the other; worldFor falls back *)
(* to the overworld.                                                       *)
Search(e, w) ==
  /\ reader[e] = "search" /\ w \in left[e] /\ ~ LoopHolds(w)
  /\ IF e \in ents[w] \/ left[e] = {w}
       THEN /\ at' = [at EXCEPT ![e] = IF e \in ents[w] THEN w ELSE Over]
            /\ reader' = [reader EXCEPT ![e] = "send"]
            /\ left' = [left EXCEPT ![e] = {}]
       ELSE /\ left' = [left EXCEPT ![e] = @ \ {w}]
            /\ UNCHANGED <<at, reader>>
  /\ UNCHANGED <<hubVars, queue, warps, loopVars, ask, spent, conn, obs>>

(* Mutant: the rejected action is queued all the same.                     *)
QueueActionAnyway(e) ==
  /\ queue' = [queue EXCEPT ![at[e]] = Append(@, e)]
  /\ reader' = [reader EXCEPT ![e] =
                  IF Len(queue[at[e]]) < MaxQueue THEN "wait" ELSE "idle"]

(* QueueAction never blocks: a full queue is answered at once.             *)
QueueAction(e) ==
  LET room == Len(queue[at[e]]) < MaxQueue
  IN  /\ queue' = IF room THEN [queue EXCEPT ![at[e]] = Append(@, e)] ELSE queue
      /\ reader' = [reader EXCEPT ![e] = IF room THEN "wait" ELSE "idle"]

Send(e) ==
  /\ reader[e] = "send" /\ QueueAction(e)
  /\ UNCHANGED <<hubVars, warps, loopVars, ask, left, at, spent, conn, obs>>

(* readPump's deferred teardown, at a hang-up or after the observer closed *)
(* the socket; it runs in the reader, so never while an action is out.  It *)
(* removes the body from the overworld.                                    *)
Teardown(e) ==
  /\ conn[e] # "left" /\ reader[e] = "idle" /\ ~ LoopHolds(Over)
  /\ conn' = [conn EXCEPT ![e] = "left"]
  /\ ents' = [ents EXCEPT ![Over] = @ \ {e}]
  /\ UNCHANGED <<loaded, gen, seen, ticked, ret, queue, warps, loopVars,
                 agentVars, obs>>

-----------------------------------------------------------------------------
(* The observer: tickObservations, for one agent at a time.                *)

Observe(e) ==
  /\ obs.pc = "idle" /\ e \in Watched /\ conn[e] = "open"
  /\ obs' = [obs EXCEPT !.pc = "search", !.who = e, !.left = LoadedWorlds]
  /\ UNCHANGED <<hubVars, queue, warps, loopVars, agentVars, conn>>

ObserverSearch(w) ==
  /\ obs.pc = "search" /\ w \in obs.left /\ ~ LoopHolds(w)
  /\ obs' = IF obs.who \in ents[w] \/ obs.left = {w}
              THEN [obs EXCEPT !.pc = "look", !.left = {},
                      !.at = IF obs.who \in ents[w] THEN w ELSE Over]
              ELSE [obs EXCEPT !.left = @ \ {w}]
  /\ UNCHANGED <<hubVars, queue, warps, loopVars, agentVars, conn>>

(* BuildObservationFor reads the snapshot, or the world itself before the  *)
(* first one; with no observation, isEntityGone searches once more.        *)
Look ==
  LET view == IF obs.at \in ticked THEN seen[obs.at] ELSE ents[obs.at]
  IN  /\ obs.pc = "look" /\ (obs.at \in ticked \/ ~ LoopHolds(obs.at))
      /\ obs' = IF obs.who \in view
                  THEN [obs EXCEPT !.pc = "idle"]
                  ELSE [obs EXCEPT !.pc = "confirm", !.left = LoadedWorlds]
      /\ UNCHANGED <<hubVars, queue, warps, loopVars, agentVars, conn>>

(* Mutant: isEntityGone takes worldFor's fallback for the body's map.      *)
ConfirmByFallback(w) ==
  /\ obs.pc = "confirm" /\ w \in obs.left /\ ~ LoopHolds(w)
  /\ obs' = [obs EXCEPT !.pc = "idle", !.left = {}]
  /\ UNCHANGED <<hubVars, queue, warps, loopVars, agentVars, conn>>

(* The socket is closed when no map of the copy has the body.              *)
Confirm(w) ==
  /\ obs.pc = "confirm" /\ w \in obs.left /\ ~ LoopHolds(w)
  /\ IF obs.who \in ents[w] \/ obs.left = {w}
       THEN obs' = [obs EXCEPT !.pc = "idle", !.left = {}]
       ELSE obs' = [obs EXCEPT !.left = @ \ {w}]
  /\ conn' = IF obs.who \notin ents[w] /\ obs.left = {w} /\ conn[obs.who] = "open"
               THEN [conn EXCEPT ![obs.who] = "shut"] ELSE conn
  /\ UNCHANGED <<hubVars, queue, warps, loopVars, agentVars>>

-----------------------------------------------------------------------------
Loop ==
  \/ StartTicks \/ StartWarps \/ NextMap
  \/ \E w \in Worlds : Tick(w) \/ Collect(w)
  \/ Reject \/ Enter \/ Exit
  \/ \E dead \in SUBSET Agents : FinishTick(dead)
  \/ WarpOut \/ WarpIn \/ SkipWarp \/ AfterWarp

Asking(e) ==
  \/ \E w \in Worlds : Search(e, w)
  \/ Send(e)

Observing ==
  \/ \E w \in Worlds : ObserverSearch(w) \/ Confirm(w)
  \/ Look

HubNext ==
  \/ Loop
  \/ \E e \in Agents : (\E v \in Rooms \cup {"exit"} : Submit(e, v)) \/ Asking(e)
  \/ \E e \in Agents : Teardown(e) \/ Observe(e)
  \/ Observing

HubSpec == HubInit /\ [][HubNext]_hubAllVars

(* The loop runs on a ticker and never blocks; a reader's search waits     *)
(* only for the locks of the maps, each of which the loop gives back; the  *)
(* observer, on a ticker too, comes to every connected agent.              *)
HubFairSpec ==
  /\ HubSpec
  /\ WF_hubAllVars(Loop)
  /\ \A e \in Agents : SF_hubAllVars(Asking(e)) /\ SF_hubAllVars(Observe(e))
  /\ SF_hubAllVars(Observing)

-----------------------------------------------------------------------------
(* Properties *)

(* The body a WarpOut took off its map and no WarpIn has put back yet.     *)
Moving(e) == phase = "land" /\ Head(reqs).who = e

(* No interleaving of ticks, duplicate door requests and teardowns puts a  *)
(* body on two maps at once (multimap.go: Warp takes it off `from' before  *)
(* it goes on `to', and refuses a body that is not on `from').             *)
OneMap ==
  \A e \in Agents, v, w \in Worlds :
    e \in ents[v] => (e \in ents[w] => v = w) /\ ~ Moving(e)

(* A body is never left on a room the hub has unloaded, where no tick and  *)
(* no search would reach it, and never in a room it cannot ask to leave    *)
(* (multimap.go: ProcessWarps unloads only empty rooms, Warp checks that   *)
(* its target is loaded; action.go: tryExitInterior needs the return map). *)
NeverStranded ==
  \A e \in Agents, w \in Worlds \ {Over} :
    e \in ents[w] => w \in LoadedWorlds /\ e \in ret

(* An agent waits for at most one reply, and only an action some world     *)
(* still has queued can be waited for (queue.go: QueueAction either queues *)
(* the action or answers it, never both and never neither).                *)
OneRequestInFlight ==
  \A e \in Agents :
    LET slots == {s \in Worlds \X (1..MaxQueue) :
                    s[2] <= Len(queue[s[1]]) /\ queue[s[1]][s[2]] = e}
    IN  IF reader[e] = "wait" THEN \E s \in slots : slots = {s} /\ s[1] = at[e]
                              ELSE slots = {}

(* Every body is where the abstract hub has it: the hub moves bodies only  *)
(* through doors and loses none of them (multimap.go: Warp, ProcessWarps). *)
Place ==
  [e \in Agents |->
    IF Moving(e) THEN IF Head(reqs).to = Over THEN "leaving" ELSE "entering"
    ELSE IF e \in ents[Over] THEN Over
    ELSE IF \E w \in Worlds \ {Over} : e \in ents[w]
         THEN (CHOOSE w \in Worlds \ {Over} : e \in ents[w])[1]
         ELSE "gone"]

Bodies == INSTANCE BodyPlace WITH Bodies <- Agents, place <- Place

BodiesMoveThroughDoors == Bodies!Spec

(* A queued action is answered unless the room it was queued on has been   *)
(* unloaded: no other schedule of ticks, budgets and searches starves it   *)
(* (queue.go: drainActionQueue; multimap.go: TickAll).                     *)
AnsweredUnlessUnloaded ==
  \A e \in Agents :
    reader[e] = "wait" ~> (reader[e] # "wait" \/ at[e] \notin LoadedWorlds)

(* An agent whose body is gone has its socket closed or hangs up, so its   *)
(* supervisor can replace it: the observer does not miss a removed body,   *)
(* whichever map it was last seen on (agent.go: tickObservations).         *)
TheGoneAreCut ==
  \A e \in Watched : (Place[e] = "gone" /\ conn[e] = "open") ~> conn[e] # "open"

(* Every door move asked for is carried out or dropped, so no body has one *)
(* outstanding for ever (multimap.go: ProcessWarps drains every map).      *)
WarpsSettle ==
  \A w \in Worlds : warps[w] # <<>> ~> warps[w] = <<>> /\ reqs = <<>>

(* A body is on one map, and on one that lives (multimap.go Warp,          *)
(* ProcessWarps).                                                          *)
HubSafe == HubTypeOK /\ OneMap /\ NeverStranded
=============================================================================
