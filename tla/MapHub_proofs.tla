---------------------------- MODULE MapHub_proofs ----------------------------
(***************************************************************************)
(* For any agents, rooms and bounds: a body is on one map and on one that  *)
(* lives, and the hub with its ticks, requests and searches implements     *)
(* BodyPlace, which has none of them.                                      *)
(***************************************************************************)
EXTENDS MapHub, TLAPS

(* The types of what the loop keeps, and of what readers and the observer  *)
(* keep.                                                                   *)
LoopTypes ==
  /\ loaded \subseteq Rooms /\ gen \in [Rooms -> 0..MaxGen]
  /\ ents \in [Worlds -> SUBSET Agents] /\ seen \in [Worlds -> SUBSET Agents]
  /\ ticked \subseteq Worlds /\ ret \subseteq Agents
  /\ warps \in [Worlds -> Seq(Warps)]
  /\ phase \in Phases /\ todo \subseteq Worlds /\ cur \in Worlds
  /\ reqs \in Seq(Warps)

AskTypes ==
  /\ queue \in [Worlds -> Seq(Agents)]
  /\ reader \in [Agents -> {"idle", "search", "send", "wait"}]
  /\ ask \in [Agents -> Rooms \cup {"exit"}]
  /\ left \in [Agents -> SUBSET Worlds] /\ at \in [Agents -> Worlds]
  /\ spent \in [Agents -> Nat] /\ \A e \in Agents : spent[e] <= Actions[e]
  /\ conn \in [Agents -> {"open", "shut", "left"}]
  /\ obs \in Observer

LEMMA TypesAreTypes == HubTypeOK <=> LoopTypes /\ AskTypes
  BY DEF HubTypeOK, LoopTypes, AskTypes

(* A room that is loaded was made.                                         *)
RoomsAreMade == \A r \in loaded : gen[r] \in 1..MaxGen

(* From the overworld one moves to a room, and may ask to leave it; from a *)
(* room, to the overworld.                                                 *)
ThroughDoor(w, q, back) ==
  IF w = Over THEN q.to \in Rooms /\ q.who \in back ELSE q.to = Over

MovesAreThroughDoors ==
  /\ \A w \in Worlds : \A i \in 1..Len(warps[w]) : ThroughDoor(w, warps[w][i], ret)
  /\ phase \in {"warp", "land", "gc"} => \A i \in 1..Len(reqs) : ThroughDoor(cur, reqs[i], ret)

(* A move that is being carried out has somewhere to end.                  *)
MoveInHand ==
  /\ phase \in {"land", "gc"} => reqs # <<>>
  /\ phase = "land" => IsLoaded(Head(reqs).to)

Core == LoopTypes /\ RoomsAreMade /\ MovesAreThroughDoors /\ MoveInHand /\ OneMap /\ NeverStranded

HInv == Core /\ AskTypes

LEMMA WorldsOfRooms ==
  ASSUME LoopTypes, RoomsAreMade
  PROVE  LoadedWorlds \subseteq Worlds
  BY DEF LoopTypes, RoomsAreMade, LoadedWorlds, WorldAt, Worlds

LEMMA HubStart == HubInit => HInv
  <1> SUFFICES ASSUME HubInit PROVE HInv
    OBVIOUS
  <1> USE HubConstants DEF HubConstants
  <1>1. Over \in Worlds
    BY DEF Worlds
  <1>2. LoopTypes
    BY <1>1 DEF HubInit, LoopTypes, Phases
  <1>3. AskTypes
    BY <1>1 DEF HubInit, AskTypes, Observer
  <1>4. RoomsAreMade /\ MovesAreThroughDoors /\ MoveInHand
    BY DEF HubInit, RoomsAreMade, MovesAreThroughDoors, MoveInHand
  <1>5. OneMap /\ NeverStranded
    BY DEF HubInit, OneMap, NeverStranded, Moving
  <1> QED BY <1>2, <1>3, <1>4, <1>5 DEF HInv, Core

-----------------------------------------------------------------------------
(* Readers and the observer.                                               *)
AskStep ==
  \/ \E e \in Agents : (\E v \in Rooms \cup {"exit"} : Submit(e, v)) \/ Asking(e) \/ Observe(e)
  \/ Observing

LEMMA AskingKeepsTypes ==
  ASSUME HInv, AskStep
  PROVE  AskTypes'
  <1> USE DEF HInv, Core, AskTypes, agentVars
  <1>1. LoadedWorlds \subseteq Worlds /\ Over \in Worlds
    BY WorldsOfRooms DEF Worlds
  <1>2. ASSUME NEW e \in Agents, NEW v \in Rooms \cup {"exit"}, Submit(e, v) PROVE AskTypes'
    <2>1. spent' \in [Agents -> Nat] /\ \A u \in Agents : spent'[u] <= Actions[u]
      <3>1. spent' = [spent EXCEPT ![e] = @ + 1] /\ spent[e] < Actions[e]
        BY <1>2 DEF Submit
      <3>2. spent[e] \in Nat /\ Actions[e] \in Nat /\ spent[e] + 1 <= Actions[e]
        <4>1. Actions[e] \in Nat
          BY HubConstants DEF HubConstants
        <4>2. spent[e] \in Nat
          OBVIOUS
        <4> QED BY <3>1, <4>1, <4>2
      <3>3. spent' \in [Agents -> Nat]
        BY <3>1, <3>2
      <3>4. \A u \in Agents : spent'[u] = IF u = e THEN spent[e] + 1 ELSE spent[u]
        BY <3>1
      <3> QED BY <3>2, <3>3, <3>4
    <2>2. left' \in [Agents -> SUBSET Worlds] /\ ask' \in [Agents -> Rooms \cup {"exit"}]
      BY <1>1, <1>2 DEF Submit
    <2>3. reader' \in [Agents -> {"idle", "search", "send", "wait"}]
      BY <1>2 DEF Submit
    <2> QED BY <1>2, <2>1, <2>2, <2>3 DEF Submit
  <1>3. ASSUME NEW e \in Agents, NEW w \in Worlds, Search(e, w) PROVE AskTypes'
    BY <1>1, <1>3, ZenonT(40) DEF Search
  <1>4. ASSUME NEW e \in Agents, Send(e) PROVE AskTypes'
    BY <1>4 DEF Send, QueueAction
  <1>5. ASSUME NEW e \in Agents, Observe(e) PROVE AskTypes'
    BY <1>1, <1>5 DEF Observe, Observer
  <1>6. ASSUME NEW w \in Worlds, ObserverSearch(w) PROVE AskTypes'
    BY <1>1, <1>6 DEF ObserverSearch, Observer
  <1>7. CASE Look
    BY <1>1, <1>7 DEF Look, Observer
  <1>8. ASSUME NEW w \in Worlds, Confirm(w) PROVE AskTypes'
    <2>1. obs' \in Observer
      <3>1. obs' = [obs EXCEPT !.pc = "idle", !.left = {}] \/ obs' = [obs EXCEPT !.left = obs.left \ {w}]
        BY <1>8 DEF Confirm
      <3> QED BY <3>1, ZenonT(40) DEF Observer
    <2>2. conn' \in [Agents -> {"open", "shut", "left"}]
      BY <1>8 DEF Confirm
    <2> QED BY <1>8, <2>1, <2>2 DEF Confirm
  <1> QED BY <1>2, <1>3, <1>4, <1>5, <1>6, <1>7, <1>8 DEF AskStep, Asking, Observing

LEMMA AskingTouchesNothing ==
  ASSUME AskStep
  PROVE  UNCHANGED <<loaded, gen, ents, seen, ticked, ret, warps, phase, todo, cur, reqs>>
  BY DEF AskStep, Submit, Asking, Search, Send, QueueAction, Observe, Observing, ObserverSearch, Look,
         Confirm, hubVars, loopVars

LEMMA AskingKeeps ==
  ASSUME HInv, AskStep
  PROVE  HInv' /\ Place' = Place
  <1> USE AskingTouchesNothing
  <1>1. \A m \in MapIds : WorldAt(m)' = WorldAt(m) /\ IsLoaded(m)' = IsLoaded(m)
    BY DEF WorldAt, IsLoaded
  <1>2. LoadedWorlds' = LoadedWorlds
    BY DEF LoadedWorlds, WorldAt
  <1>3. Core'
    BY <1>2 DEF HInv, Core, LoopTypes, RoomsAreMade, MovesAreThroughDoors, ThroughDoor, MoveInHand, IsLoaded,
                OneMap, Moving, NeverStranded
  <1>4. Place' = Place
    BY DEF Place, Moving
  <1> QED BY <1>3, <1>4, AskingKeepsTypes DEF HInv

-----------------------------------------------------------------------------
(* Where the abstract hub has a body, in this state and the next.          *)
PlaceFacts ==
  OneMap =>
    /\ Place = [e \in Agents |-> Place[e]]
    /\ \A e \in Agents :
         /\ Moving(e) => Place[e] = IF Head(reqs).to = Over THEN "leaving" ELSE "entering"
         /\ \A w \in Worlds : e \in ents[w] => Place[e] = IF w = Over THEN Over ELSE w[1]
         /\ ~ Moving(e) /\ (\A w \in Worlds : e \notin ents[w]) => Place[e] = "gone"

LEMMA PlaceIsSo == PlaceFacts
  <1> SUFFICES ASSUME OneMap PROVE PlaceFacts
    BY DEF PlaceFacts
  <1>1. Place = [e \in Agents |-> Place[e]]
    BY DEF Place
  <1>2. Over \in Worlds
    BY DEF Worlds
  <1>3. ASSUME NEW e \in Agents, NEW w \in Worlds, e \in ents[w]
        PROVE  Place[e] = IF w = Over THEN Over ELSE w[1]
    <2>1. ~ Moving(e) /\ \A v \in Worlds : e \in ents[v] => v = w
      BY <1>3 DEF OneMap
    <2>2. CASE w = Over
      BY <1>3, <2>1, <2>2 DEF Place
    <2>3. CASE w # Over
      <3>1. e \notin ents[Over] /\ (CHOOSE v \in Worlds \ {Over} : e \in ents[v]) = w
        BY <1>2, <1>3, <2>1, <2>3
      <3> QED BY <1>3, <2>1, <2>3, <3>1 DEF Place
    <2> QED BY <2>2, <2>3
  <1>4. ASSUME NEW e \in Agents, ~ Moving(e), \A w \in Worlds : e \notin ents[w]
        PROVE  Place[e] = "gone"
    BY <1>2, <1>4 DEF Place
  <1>5. ASSUME NEW e \in Agents, Moving(e)
        PROVE  Place[e] = IF Head(reqs).to = Over THEN "leaving" ELSE "entering"
    BY <1>5 DEF Place
  <1> QED BY <1>1, <1>3, <1>4, <1>5 DEF PlaceFacts

LEMMA PlaceWillBeSo == PlaceFacts'
  BY PlaceIsSo, PTL

(* No body comes or goes.                                                  *)
LEMMA PlaceStays ==
  ASSUME ents' = ents, phase # "land", phase' # "land"
  PROVE  Place' = Place
  BY DEF Place, Moving

(* Bodies die or hang up on the overworld.                                 *)
LEMMA BodiesVanish ==
  ASSUME HInv, OneMap', NEW dead \in SUBSET ents[Over],
         ents' = [ents EXCEPT ![Over] = @ \ dead],
         UNCHANGED reqs, phase = "land" <=> phase' = "land"
  PROVE  Bodies!Next
  <1> USE DEF HInv, Core, LoopTypes
  <1>1. Over \in Worlds /\ dead \subseteq Agents
    BY DEF Worlds
  <1>2. \A e \in Agents : Moving(e)' = Moving(e)
    BY DEF Moving
  <1>3. \A e \in dead : Place[e] = Over /\ Place'[e] = "gone"
    <2> TAKE e \in dead
    <2>1. ~ Moving(e) /\ \A w \in Worlds \ {Over} : e \notin ents[w]
      BY <1>1 DEF OneMap
    <2>2. Place[e] = Over
      BY <1>1, PlaceIsSo DEF PlaceFacts
    <2>3. \A w \in Worlds : e \notin ents'[w]
      BY <1>1, <2>1
    <2> QED BY <1>1, <1>2, <2>1, <2>2, <2>3, PlaceWillBeSo DEF PlaceFacts
  <1>4. \A e \in Agents \ dead : Place'[e] = Place[e]
    <2> TAKE e \in Agents \ dead
    <2>1. \A w \in Worlds : e \in ents'[w] <=> e \in ents[w]
      BY <1>1
    <2>2. CASE \E w \in Worlds : e \in ents[w]
      <3>1. PICK w \in Worlds : e \in ents[w]
        BY <2>2
      <3>2. Place[e] = IF w = Over THEN Over ELSE w[1]
        BY <3>1, PlaceIsSo DEF PlaceFacts
      <3>3. Place'[e] = IF w = Over THEN Over ELSE w[1]
        BY <2>1, <3>1, PlaceWillBeSo DEF PlaceFacts
      <3> QED BY <3>2, <3>3
    <2>3. CASE Moving(e)
      BY <1>2, <2>3, PlaceIsSo, PlaceWillBeSo DEF PlaceFacts
    <2> QED BY <1>2, <2>1, <2>2, <2>3, PlaceIsSo, PlaceWillBeSo DEF PlaceFacts
  <1>5. Place' = [e \in Agents |-> Place'[e]]
    BY PlaceWillBeSo DEF PlaceFacts
  <1>6. Place' = [e \in Agents |-> IF e \in dead THEN "gone" ELSE Place[e]]
    BY <1>3, <1>4, <1>5
  <1>7. Bodies!Vanish(dead)
    BY <1>3, <1>6 DEF Bodies!Vanish
  <1> QED BY <1>1, <1>7 DEF Bodies!Next

-----------------------------------------------------------------------------
(* The steps of the loop that move no body.                                *)
LEMMA TurnsKeep ==
  ASSUME HInv, StartTicks \/ StartWarps \/ NextMap \/ \E w \in Worlds : Tick(w)
  PROVE  Core' /\ Place' = Place
  <1> USE DEF HInv, Core
  <1>1. /\ UNCHANGED <<loaded, gen, ents, seen, ticked, ret, warps, reqs>>
        /\ phase # "land" /\ phase' \in {"tick", "drain", "collect", "idle"}
        /\ todo' \subseteq Worlds /\ cur' \in Worlds
    BY WorldsOfRooms DEF StartTicks, StartWarps, NextMap, Tick, hubVars, LoopTypes
  <1>2. LoopTypes'
    BY <1>1 DEF LoopTypes, Phases
  <1>3. RoomsAreMade' /\ MovesAreThroughDoors' /\ MoveInHand'
    BY <1>1 DEF RoomsAreMade, MovesAreThroughDoors, ThroughDoor, MoveInHand
  <1>4. OneMap' /\ NeverStranded'
    BY <1>1 DEF OneMap, Moving, NeverStranded, LoadedWorlds, WorldAt
  <1> QED BY <1>1, <1>2, <1>3, <1>4, PlaceStays

LEMMA CollectKeeps ==
  ASSUME HInv, NEW w \in Worlds, Collect(w)
  PROVE  Core' /\ Place' = Place
  <1> USE DEF HInv, Core
  <1>1. /\ UNCHANGED <<loaded, gen, ents, seen, ticked, ret>>
        /\ phase = "collect" /\ phase' = "warp" /\ cur' = w /\ todo' = todo \ {w}
        /\ reqs' = warps[w] /\ warps' = [warps EXCEPT ![w] = <<>>]
    BY DEF Collect, hubVars
  <1>2. LoopTypes'
    BY <1>1 DEF LoopTypes, Phases
  <1>3. RoomsAreMade' /\ MoveInHand'
    BY <1>1 DEF RoomsAreMade, MoveInHand
  <1>4. MovesAreThroughDoors'
    BY <1>1 DEF MovesAreThroughDoors, ThroughDoor, LoopTypes
  <1>5. OneMap' /\ NeverStranded'
    BY <1>1 DEF OneMap, Moving, NeverStranded, LoadedWorlds, WorldAt
  <1> QED BY <1>1, <1>2, <1>3, <1>4, <1>5, PlaceStays

LEMMA RejectKeeps ==
  ASSUME HInv, Reject
  PROVE  Core' /\ Place' = Place
  <1> USE DEF HInv, Core
  <1>1. /\ UNCHANGED <<loaded, gen, ents, seen, ticked, ret, warps, todo, cur, reqs>>
        /\ phase \in {"drain", "drained"} /\ phase' = "drained"
    BY DEF Reject, Answer
  <1>2. LoopTypes'
    BY <1>1 DEF LoopTypes, Phases
  <1>3. RoomsAreMade' /\ MovesAreThroughDoors' /\ MoveInHand'
    BY <1>1 DEF RoomsAreMade, MovesAreThroughDoors, ThroughDoor, MoveInHand
  <1>4. OneMap' /\ NeverStranded'
    BY <1>1 DEF OneMap, Moving, NeverStranded, LoadedWorlds, WorldAt
  <1> QED BY <1>1, <1>2, <1>3, <1>4, PlaceStays

(* One more move is asked for on the map that is being ticked.             *)
LEMMA OneMoveMore ==
  ASSUME LoopTypes, NEW q \in Warps, warps' = [warps EXCEPT ![cur] = Append(@, q)]
  PROVE  /\ warps' \in [Worlds -> Seq(Warps)]
         /\ \A w \in Worlds : \A i \in 1..Len(warps'[w]) :
              \/ w = cur /\ warps'[w][i] = q
              \/ i \in 1..Len(warps[w]) /\ warps'[w][i] = warps[w][i]
  <1>1. cur \in Worlds /\ warps[cur] \in Seq(Warps) /\ \A w \in Worlds : warps[w] \in Seq(Warps)
    BY DEF LoopTypes
  <1>2. Append(warps[cur], q) \in Seq(Warps)
    BY <1>1
  <1>3. warps' \in [Worlds -> Seq(Warps)]
    BY <1>1, <1>2 DEF LoopTypes
  <1>4. \A w \in Worlds : warps'[w] = IF w = cur THEN Append(warps[cur], q) ELSE warps[w]
    BY <1>1 DEF LoopTypes
  <1>5. \A i \in 1..Len(Append(warps[cur], q)) :
          \/ Append(warps[cur], q)[i] = q
          \/ i \in 1..Len(warps[cur]) /\ Append(warps[cur], q)[i] = warps[cur][i]
    BY <1>1
  <1> QED BY <1>3, <1>4, <1>5

LEMMA EnterKeeps ==
  ASSUME HInv, Enter
  PROVE  Core' /\ Place' = Place
  <1> USE DEF HInv, Core
  <1> DEFINE e == Head(queue[cur])
             r == ask[e]
             q == [who |-> e, to |-> r]
  <1>1. /\ UNCHANGED <<ents, seen, ticked, todo, cur, reqs>>
        /\ phase \in {"drain", "drained"} /\ phase' = "drained" /\ cur = Over
        /\ e \in ents[cur] /\ r \in Rooms /\ ret' = ret \cup {e}
        /\ warps' = [warps EXCEPT ![cur] = Append(@, q)]
    BY DEF Enter, Answer
  <1>2. \/ r \in loaded /\ loaded' = loaded /\ gen' = gen
        \/ r \notin loaded /\ gen[r] < MaxGen /\ loaded' = loaded \cup {r} /\ gen' = [gen EXCEPT ![r] = @ + 1]
    BY DEF Enter
  <1>3. e \in Agents /\ q \in Warps
    BY <1>1 DEF LoopTypes, Warps, MapIds
  <1>4. q.to \in Rooms /\ q.who \in ret'
    BY <1>1
  <1> HIDE DEF e, r, q
  <1>5. gen' \in [Rooms -> 0..MaxGen] /\ loaded' \subseteq Rooms /\ RoomsAreMade'
    <2>1. MaxGen \in Nat /\ r \in Rooms /\ gen \in [Rooms -> 0..MaxGen] /\ loaded \subseteq Rooms
      BY <1>1, HubConstants DEF HubConstants, LoopTypes
    <2>2. gen[r] \in 0..MaxGen /\ \A s \in loaded : gen[s] \in 1..MaxGen
      BY <2>1 DEF RoomsAreMade
    <2>3. CASE r \in loaded
      BY <1>2, <2>1, <2>2, <2>3 DEF RoomsAreMade
    <2>4. CASE r \notin loaded
      <3>1. loaded' = loaded \cup {r} /\ gen' = [gen EXCEPT ![r] = gen[r] + 1] /\ gen[r] + 1 \in 1..MaxGen
        BY <1>2, <2>1, <2>2, <2>4
      <3>2. 1..MaxGen \subseteq 0..MaxGen
        BY <2>1
      <3> QED BY <2>1, <2>2, <2>4, <3>1, <3>2 DEF RoomsAreMade
    <2> QED BY <2>3, <2>4
  <1>6. LoopTypes'
    <2>1. warps' \in [Worlds -> Seq(Warps)]
      BY <1>1, <1>3, OneMoveMore
    <2>2. ret' \subseteq Agents /\ phase' \in Phases
      BY <1>1, <1>3 DEF LoopTypes, Phases
    <2> QED BY <1>1, <1>5, <2>1, <2>2 DEF LoopTypes
  <1>7. MovesAreThroughDoors'
    <2>1. ASSUME NEW w \in Worlds, NEW i \in 1..Len(warps'[w])
          PROVE  ThroughDoor(w, warps'[w][i], ret')
      <3>1. (w = cur /\ warps'[w][i] = q) \/ (i \in 1..Len(warps[w]) /\ warps'[w][i] = warps[w][i])
        BY <1>1, <1>3, <2>1, OneMoveMore
      <3>2. CASE w = cur /\ warps'[w][i] = q
        BY <1>1, <1>4, <3>2 DEF ThroughDoor
      <3>3. CASE i \in 1..Len(warps[w]) /\ warps'[w][i] = warps[w][i]
        BY <1>1, <3>3 DEF MovesAreThroughDoors, ThroughDoor
      <3> QED BY <3>1, <3>2, <3>3
    <2>2. phase' \notin {"warp", "land", "gc"}
      BY <1>1
    <2> QED BY <2>1, <2>2 DEF MovesAreThroughDoors
  <1>8. MoveInHand' /\ OneMap'
    BY <1>1 DEF MoveInHand, OneMap, Moving
  <1>9. \A m \in loaded : m \in loaded' /\ gen'[m] = gen[m]
    BY <1>1, <1>2 DEF LoopTypes
  <1>10. NeverStranded'
    BY <1>1, <1>9 DEF NeverStranded, LoadedWorlds, WorldAt
  <1> QED BY <1>1, <1>5, <1>6, <1>7, <1>8, <1>10, PlaceStays

LEMMA ExitKeeps ==
  ASSUME HInv, Exit
  PROVE  Core' /\ Place' = Place
  <1> USE DEF HInv, Core
  <1> DEFINE e == Head(queue[cur])
             q == [who |-> e, to |-> Over]
  <1>1. /\ UNCHANGED <<loaded, gen, ents, seen, ticked, ret, todo, cur, reqs>>
        /\ phase \in {"drain", "drained"} /\ phase' = "drained" /\ cur # Over
        /\ e \in ents[cur]
        /\ warps' = [warps EXCEPT ![cur] = Append(@, q)] \/ warps' = warps
    BY DEF Exit, Answer
  <1>2. q \in Warps /\ ThroughDoor(cur, q, ret)
    BY <1>1 DEF LoopTypes, Warps, MapIds, ThroughDoor
  <1> HIDE DEF e, q
  <1>3. LoopTypes'
    <2>1. warps' \in [Worlds -> Seq(Warps)]
      BY <1>1, <1>2, OneMoveMore DEF LoopTypes
    <2>2. phase' \in Phases
      BY <1>1 DEF Phases
    <2> QED BY <1>1, <2>1, <2>2 DEF LoopTypes
  <1>4. MovesAreThroughDoors'
    <2>1. ASSUME NEW w \in Worlds, NEW i \in 1..Len(warps'[w])
          PROVE  ThroughDoor(w, warps'[w][i], ret)
      <3>1. (w = cur /\ warps'[w][i] = q) \/ (i \in 1..Len(warps[w]) /\ warps'[w][i] = warps[w][i])
        BY <1>1, <1>2, <2>1, OneMoveMore
      <3> QED BY <1>2, <3>1 DEF MovesAreThroughDoors
    <2>2. phase' \notin {"warp", "land", "gc"}
      BY <1>1
    <2> QED BY <1>1, <2>1, <2>2 DEF MovesAreThroughDoors, ThroughDoor
  <1>5. RoomsAreMade' /\ MoveInHand' /\ OneMap' /\ NeverStranded'
    BY <1>1 DEF RoomsAreMade, MoveInHand, OneMap, Moving, NeverStranded, LoadedWorlds, WorldAt
  <1> QED BY <1>1, <1>3, <1>4, <1>5, PlaceStays

-----------------------------------------------------------------------------
(* The steps of the loop that move bodies.                                 *)
LEMMA SomeDie ==
  ASSUME HInv, NEW dead \in SUBSET Agents, FinishTick(dead)
  PROVE  Core' /\ (Bodies!Next \/ Place' = Place)
  <1> USE DEF HInv, Core
  <1>1. /\ UNCHANGED <<loaded, gen, ret, warps, todo, cur, reqs>>
        /\ phase \in {"drain", "drained"} /\ phase' = "tick"
        /\ dead \subseteq (IF cur = Over THEN ents[Over] ELSE {})
        /\ ents' = [ents EXCEPT ![cur] = @ \ dead]
        /\ seen' = [seen EXCEPT ![cur] = ents'[cur]] /\ ticked' = ticked \cup {cur}
    BY DEF FinishTick
  <1>2. \A w \in Worlds : ents'[w] \subseteq ents[w]
    BY <1>1 DEF LoopTypes
  <1>3. LoopTypes'
    <2>1. ents' \in [Worlds -> SUBSET Agents]
      BY <1>1 DEF LoopTypes
    <2>2. seen' \in [Worlds -> SUBSET Agents]
      BY <1>1, <2>1 DEF LoopTypes
    <2> QED BY <1>1, <2>1, <2>2 DEF LoopTypes, Phases
  <1>4. RoomsAreMade' /\ MovesAreThroughDoors' /\ MoveInHand'
    BY <1>1 DEF RoomsAreMade, MovesAreThroughDoors, ThroughDoor, MoveInHand
  <1>5. OneMap'
    BY <1>1, <1>2 DEF OneMap, Moving
  <1>6. NeverStranded'
    BY <1>1, <1>2 DEF NeverStranded, LoadedWorlds, WorldAt
  <1>7. ASSUME cur = Over PROVE Bodies!Next
    <2>1. dead \in SUBSET ents[Over] /\ ents' = [ents EXCEPT ![Over] = @ \ dead]
      BY <1>1, <1>7
    <2>2. phase = "land" <=> phase' = "land"
      BY <1>1
    <2> QED BY <1>1, <1>5, <2>1, <2>2, BodiesVanish
  <1>8. ASSUME cur # Over PROVE Place' = Place
    <2>1. ents' = ents
      <3>1. dead = {} /\ ents[cur] \ {} = ents[cur]
        BY <1>1, <1>8
      <3> QED BY <1>1, <3>1 DEF LoopTypes
    <2> QED BY <1>1, <2>1, PlaceStays
  <1> QED BY <1>3, <1>4, <1>5, <1>6, <1>7, <1>8

LEMMA SomeHangUp ==
  ASSUME HInv, NEW e \in Agents, Teardown(e)
  PROVE  Core' /\ AskTypes' /\ (Bodies!Next \/ Place' = Place)
  <1> USE DEF HInv, Core
  <1>1. /\ UNCHANGED <<loaded, gen, seen, ticked, ret, queue, warps, phase, todo, cur, reqs>>
        /\ UNCHANGED <<reader, ask, left, at, spent, obs>>
        /\ conn' = [conn EXCEPT ![e] = "left"]
        /\ ents' = [ents EXCEPT ![Over] = @ \ {e}]
    BY DEF Teardown, loopVars, agentVars
  <1>2. \A w \in Worlds : ents'[w] \subseteq ents[w]
    BY <1>1 DEF LoopTypes
  <1>3. LoopTypes' /\ AskTypes'
    BY <1>1 DEF LoopTypes, AskTypes
  <1>4. RoomsAreMade' /\ MovesAreThroughDoors' /\ MoveInHand'
    BY <1>1 DEF RoomsAreMade, MovesAreThroughDoors, ThroughDoor, MoveInHand, IsLoaded
  <1>5. OneMap'
    BY <1>1, <1>2 DEF OneMap, Moving
  <1>6. NeverStranded'
    BY <1>1, <1>2 DEF NeverStranded, LoadedWorlds, WorldAt
  <1>7. ASSUME e \in ents[Over] PROVE Bodies!Next
    <2>1. {e} \in SUBSET ents[Over]
      BY <1>7
    <2>2. phase = "land" <=> phase' = "land"
      BY <1>1
    <2> QED BY <1>1, <1>5, <2>1, <2>2, BodiesVanish
  <1>8. ASSUME e \notin ents[Over] PROVE Place' = Place
    <2>1. ents' = ents
      <3>1. ents[Over] \ {e} = ents[Over]
        BY <1>8
      <3> QED BY <1>1, <3>1 DEF LoopTypes
    <2> QED BY <1>1, <2>1 DEF Place, Moving
  <1> QED BY <1>3, <1>4, <1>5, <1>6, <1>7, <1>8

(* The bodies other than q.who stay where they are.                        *)
LEMMA OneBodyMoves ==
  ASSUME LoopTypes, OneMap, OneMap', NEW b \in Agents,
         \A e \in Agents \ {b} : ~ Moving(e) /\ ~ Moving(e)',
         \A e \in Agents \ {b}, w \in Worlds : e \in ents'[w] <=> e \in ents[w]
  PROVE  Place' = [Place EXCEPT ![b] = Place'[b]]
  <1>1. Place = [e \in Agents |-> Place[e]] /\ Place' = [e \in Agents |-> Place'[e]]
    BY PlaceIsSo, PlaceWillBeSo DEF PlaceFacts
  <1>2. ASSUME NEW e \in Agents \ {b} PROVE Place'[e] = Place[e]
    <2>1. CASE \E w \in Worlds : e \in ents[w]
      <3>1. PICK w \in Worlds : e \in ents[w] /\ e \in ents'[w]
        BY <2>1
      <3>2. Place[e] = IF w = Over THEN Over ELSE w[1]
        BY <3>1, PlaceIsSo DEF PlaceFacts
      <3>3. Place'[e] = IF w = Over THEN Over ELSE w[1]
        BY <3>1, PlaceWillBeSo DEF PlaceFacts
      <3> QED BY <3>2, <3>3
    <2>2. CASE \A w \in Worlds : e \notin ents[w]
      <3>1. Place[e] = "gone"
        BY <2>2, PlaceIsSo DEF PlaceFacts
      <3>2. Place'[e] = "gone"
        BY <2>2, PlaceWillBeSo DEF PlaceFacts
      <3> QED BY <3>1, <3>2
    <2> QED BY <2>1, <2>2
  <1> QED BY <1>1, <1>2

LEMMA OutKeeps ==
  ASSUME HInv, WarpOut
  PROVE  Core' /\ Bodies!Next
  <1> USE DEF HInv, Core
  <1> DEFINE q == Head(reqs)
  <1>1. /\ UNCHANGED <<loaded, gen, seen, ticked, ret, warps, todo, cur, reqs>>
        /\ phase = "warp" /\ phase' = "land" /\ reqs # <<>>
        /\ cur \in LoadedWorlds /\ IsLoaded(q.to) /\ q.who \in ents[cur]
        /\ ents' = [ents EXCEPT ![cur] = @ \ {q.who}]
    BY DEF WarpOut, CanWarp
  <1>2. q \in Warps /\ ThroughDoor(cur, q, ret)
    <2>1. q = reqs[1] /\ 1 \in 1..Len(reqs)
      BY <1>1 DEF LoopTypes
    <2> QED BY <1>1, <2>1 DEF LoopTypes, MovesAreThroughDoors
  <1>3. q.who \in Agents /\ cur \in Worlds
    BY <1>2 DEF Warps, LoopTypes
  <1>4. (\A e \in Agents : Moving(e)' <=> e = q.who) /\ \A e \in Agents : ~ Moving(e)
    BY <1>1 DEF Moving
  <1> HIDE DEF q
  <1>5. \A w \in Worlds : ents'[w] = IF w = cur THEN ents[cur] \ {q.who} ELSE ents[w]
    BY <1>1 DEF LoopTypes
  <1>6. LoopTypes'
    BY <1>1 DEF LoopTypes, Phases
  <1>7. RoomsAreMade' /\ MovesAreThroughDoors'
    BY <1>1 DEF RoomsAreMade, MovesAreThroughDoors, ThroughDoor
  <1>8. MoveInHand'
    BY <1>1 DEF MoveInHand, IsLoaded, q
  <1>9. OneMap'
    BY <1>1, <1>3, <1>4, <1>5 DEF OneMap
  <1>10. NeverStranded'
    BY <1>1, <1>5 DEF NeverStranded, LoadedWorlds, WorldAt
  <1>11. Place' = [Place EXCEPT ![q.who] = Place'[q.who]]
    BY <1>3, <1>4, <1>5, <1>9, OneBodyMoves
  <1>12. Place[q.who] = IF cur = Over THEN Over ELSE cur[1]
    BY <1>1, <1>3, PlaceIsSo DEF PlaceFacts
  <1>13. Place'[q.who] = IF q.to = Over THEN "leaving" ELSE "entering"
    BY <1>1, <1>3, <1>4, <1>9, PlaceWillBeSo DEF PlaceFacts, q
  <1>14. CASE cur = Over
    <2>1. q.to # Over
      BY <1>2, <1>14, HubConstants DEF HubConstants, ThroughDoor
    <2>2. Bodies!GoIn(q.who)
      BY <1>11, <1>12, <1>13, <1>14, <2>1 DEF Bodies!GoIn
    <2>3. Bodies!Next
      BY <1>3, <2>2 DEF Bodies!Next
    <2> QED BY <1>6, <1>7, <1>8, <1>9, <1>10, <2>3
  <1>15. CASE cur # Over
    <2>1. q.to = Over /\ cur[1] \in Rooms
      BY <1>2, <1>3, <1>15 DEF ThroughDoor, Worlds
    <2>2. Bodies!GoOut(q.who)
      BY <1>11, <1>12, <1>13, <1>15, <2>1 DEF Bodies!GoOut
    <2>3. Bodies!Next
      BY <1>3, <2>2 DEF Bodies!Next
    <2> QED BY <1>6, <1>7, <1>8, <1>9, <1>10, <2>3
  <1> QED BY <1>14, <1>15

LEMMA InKeeps ==
  ASSUME HInv, WarpIn
  PROVE  Core' /\ Bodies!Next
  <1> USE DEF HInv, Core
  <1> DEFINE q == Head(reqs)
             v == WorldAt(q.to)
  <1>1. /\ UNCHANGED <<loaded, gen, seen, ticked, ret, warps, todo, cur, reqs>>
        /\ phase = "land" /\ phase' = "gc" /\ reqs # <<>> /\ IsLoaded(q.to)
        /\ ents' = [ents EXCEPT ![v] = @ \cup {q.who}]
    BY DEF WarpIn, MoveInHand
  <1>2. q \in Warps /\ ThroughDoor(cur, q, ret)
    <2>1. q = reqs[1] /\ 1 \in 1..Len(reqs)
      BY <1>1 DEF LoopTypes
    <2> QED BY <1>1, <2>1 DEF LoopTypes, MovesAreThroughDoors
  <1>3. q.who \in Agents /\ q.to \in MapIds
    BY <1>2 DEF Warps
  <1>4. (\A e \in Agents : Moving(e) <=> e = q.who) /\ \A e \in Agents : ~ Moving(e)'
    BY <1>1 DEF Moving
  <1>5. v \in LoadedWorlds /\ v \in Worlds
    <2>1. v \in LoadedWorlds
      BY <1>1 DEF LoadedWorlds, IsLoaded
    <2> QED BY <2>1, WorldsOfRooms
  <1>6. IF q.to = Over THEN v = Over ELSE q.to \in Rooms /\ v = <<q.to, gen[q.to]>>
    BY <1>3 DEF WorldAt, MapIds
  <1>7. q.to # Over => q.who \in ret
    BY <1>2 DEF ThroughDoor
  <1> HIDE DEF q, v
  <1>8. \A w \in Worlds : ents'[w] = IF w = v THEN ents[v] \cup {q.who} ELSE ents[w]
    BY <1>1 DEF LoopTypes
  <1>9. LoopTypes'
    BY <1>1, <1>3, <1>5 DEF LoopTypes, Phases
  <1>10. RoomsAreMade' /\ MovesAreThroughDoors' /\ MoveInHand'
    BY <1>1 DEF RoomsAreMade, MovesAreThroughDoors, ThroughDoor, MoveInHand
  <1>11. \A w \in Worlds : q.who \notin ents[w]
    BY <1>3, <1>4 DEF OneMap
  <1>12. OneMap'
    BY <1>3, <1>4, <1>8, <1>11 DEF OneMap
  <1>13. NeverStranded'
    <2>1. LoadedWorlds' = LoadedWorlds
      BY <1>1 DEF LoadedWorlds, WorldAt
    <2>2. ASSUME NEW e \in Agents, NEW w \in Worlds \ {Over}, e \in ents'[w]
          PROVE  w \in LoadedWorlds /\ e \in ret
      <3>1. CASE e \in ents[w]
        BY <2>2, <3>1 DEF NeverStranded
      <3>2. CASE e \notin ents[w]
        BY <1>5, <1>6, <1>7, <1>8, <2>2, <3>2
      <3> QED BY <3>1, <3>2
    <2> QED BY <1>1, <2>1, <2>2 DEF NeverStranded
  <1>14. Place' = [Place EXCEPT ![q.who] = Place'[q.who]]
    BY <1>3, <1>4, <1>8, <1>12, OneBodyMoves
  <1>15. Place[q.who] = IF q.to = Over THEN "leaving" ELSE "entering"
    BY <1>1, <1>3, <1>4, PlaceIsSo DEF PlaceFacts, q
  <1>16. Place'[q.who] = IF v = Over THEN Over ELSE v[1]
    BY <1>3, <1>5, <1>8, <1>12, PlaceWillBeSo DEF PlaceFacts
  <1>17. CASE q.to = Over
    <2>1. Bodies!ComeOut(q.who)
      BY <1>6, <1>14, <1>15, <1>16, <1>17 DEF Bodies!ComeOut
    <2>2. Bodies!Next
      BY <1>3, <2>1 DEF Bodies!Next
    <2> QED BY <1>9, <1>10, <1>12, <1>13, <2>2
  <1>18. CASE q.to # Over
    <2>1. v # Over /\ v[1] = q.to /\ q.to \in Rooms
      BY <1>6, <1>18, HubConstants, <1>5 DEF HubConstants, Worlds, LoopTypes
    <2>2. Bodies!ComeIn(q.who)
      BY <1>14, <1>15, <1>16, <1>18, <2>1 DEF Bodies!ComeIn
    <2>3. Bodies!Next
      BY <1>3, <2>2 DEF Bodies!Next
    <2> QED BY <1>9, <1>10, <1>12, <1>13, <2>3
  <1> QED BY <1>17, <1>18

LEMMA SkipKeeps ==
  ASSUME HInv, SkipWarp
  PROVE  Core' /\ Place' = Place
  <1> USE DEF HInv, Core
  <1>1. /\ UNCHANGED <<loaded, gen, ents, seen, ticked, ret, warps, todo, cur, reqs>>
        /\ phase = "warp" /\ phase' = "gc" /\ reqs # <<>>
    BY DEF SkipWarp, hubVars
  <1>2. LoopTypes'
    BY <1>1 DEF LoopTypes, Phases
  <1>3. RoomsAreMade' /\ MovesAreThroughDoors' /\ MoveInHand'
    BY <1>1 DEF RoomsAreMade, MovesAreThroughDoors, ThroughDoor, MoveInHand
  <1>4. OneMap' /\ NeverStranded'
    BY <1>1 DEF OneMap, Moving, NeverStranded, LoadedWorlds, WorldAt
  <1> QED BY <1>1, <1>2, <1>3, <1>4, PlaceStays

LEMMA UnloadKeeps ==
  ASSUME HInv, AfterWarp
  PROVE  Core' /\ Place' = Place
  <1> USE DEF HInv, Core
  <1> DEFINE q == Head(reqs)
  <1>1. /\ UNCHANGED <<gen, ents, seen, ticked, ret, warps, todo, cur>>
        /\ phase = "gc" /\ phase' = "warp" /\ reqs # <<>> /\ reqs' = Tail(reqs)
        /\ loaded' = IF Unloads(q) THEN loaded \ {cur[1]} ELSE loaded
    BY DEF AfterWarp, MoveInHand
  <1>2. ThroughDoor(cur, q, ret)
    <2>1. q = reqs[1] /\ 1 \in 1..Len(reqs)
      BY <1>1 DEF LoopTypes
    <2> QED BY <1>1, <2>1 DEF MovesAreThroughDoors
  <1> HIDE DEF q
  <1>3. reqs' \in Seq(Warps) /\ \A i \in 1..Len(reqs') : i + 1 \in 1..Len(reqs) /\ reqs'[i] = reqs[i + 1]
    BY <1>1 DEF LoopTypes
  <1>4. LoopTypes'
    BY <1>1, <1>3 DEF LoopTypes, Phases
  <1>5. RoomsAreMade' /\ MoveInHand'
    BY <1>1 DEF RoomsAreMade, MoveInHand
  <1>6. MovesAreThroughDoors'
    BY <1>1, <1>3 DEF MovesAreThroughDoors, ThroughDoor
  <1>7. OneMap'
    BY <1>1 DEF OneMap, Moving
  <1>8. NeverStranded'
    <2>1. ASSUME NEW e \in Agents, NEW w \in Worlds \ {Over}, e \in ents[w]
          PROVE  w \in LoadedWorlds'
      <3>1. w \in LoadedWorlds
        BY <2>1 DEF NeverStranded
      <3>2. PICK s \in loaded : w = <<s, gen[s]>>
        BY <2>1, <3>1 DEF LoadedWorlds, WorldAt
      <3>3. s \in loaded'
        <4>1. CASE Unloads(q)
          <5>1. q.to = Over /\ cur \in LoadedWorlds /\ ents[cur] = {}
            BY <4>1 DEF Unloads
          <5>2. cur # Over
            BY <1>2, <5>1, HubConstants DEF HubConstants, ThroughDoor
          <5>3. cur = <<cur[1], gen[cur[1]]>>
            BY <5>1, <5>2 DEF LoadedWorlds, WorldAt
          <5>4. w # cur
            BY <2>1, <5>1
          <5> QED BY <1>1, <3>2, <4>1, <5>3, <5>4
        <4> QED BY <1>1, <3>2, <4>1
      <3>4. s # Over
        BY <3>2, HubConstants DEF HubConstants, LoopTypes
      <3> QED BY <1>1, <3>2, <3>3, <3>4 DEF LoadedWorlds, WorldAt
    <2> QED BY <1>1, <2>1 DEF NeverStranded
  <1> QED BY <1>1, <1>4, <1>5, <1>6, <1>7, <1>8, PlaceStays

-----------------------------------------------------------------------------
(* A step of the hub, as the abstract hub sees it.                         *)
LEMMA LoopLeavesReaders ==
  ASSUME HInv, Loop
  PROVE  AskTypes'
  <1> USE DEF HInv, AskTypes, agentVars
  <1>1. CASE StartTicks \/ StartWarps \/ NextMap \/ \E w \in Worlds : Tick(w) \/ Collect(w)
    BY <1>1 DEF StartTicks, StartWarps, NextMap, Tick, Collect
  <1>2. CASE Answer
    <2>1. queue' = [queue EXCEPT ![cur] = Tail(@)] /\ reader' = [reader EXCEPT ![Head(queue[cur])] = "idle"]
          /\ queue[cur] # <<>> /\ UNCHANGED <<ask, left, at, spent, conn, obs>>
      BY <1>2 DEF Answer
    <2>2. queue[cur] \in Seq(Agents)
      BY DEF Core, LoopTypes
    <2>3. Tail(queue[cur]) \in Seq(Agents)
      BY <2>1, <2>2
    <2>4. queue' \in [Worlds -> Seq(Agents)]
      BY <2>1, <2>3
    <2>5. reader' \in [Agents -> {"idle", "search", "send", "wait"}]
      BY <2>1
    <2> QED BY <2>1, <2>4, <2>5
  <1>3. CASE \E dead \in SUBSET Agents : FinishTick(dead)
    BY <1>3 DEF FinishTick
  <1>4. CASE WarpOut \/ WarpIn \/ SkipWarp \/ AfterWarp
    BY <1>4 DEF WarpOut, WarpIn, SkipWarp, AfterWarp
  <1> QED BY <1>1, <1>2, <1>3, <1>4 DEF Loop, Reject, Enter, Exit

MovesOrStays == Bodies!Next \/ Place' = Place

LEMMA EveryStepKeeps ==
  ASSUME HInv, [HubNext]_hubAllVars
  PROVE  HInv' /\ MovesOrStays
  <1>1. CASE Loop
    <2>1. AskTypes'
      BY <1>1, LoopLeavesReaders
    <2>2. CASE StartTicks \/ StartWarps \/ NextMap \/ \E w \in Worlds : Tick(w)
      BY <2>1, <2>2, TurnsKeep DEF HInv, MovesOrStays
    <2>3. ASSUME NEW w \in Worlds, Collect(w) PROVE HInv' /\ MovesOrStays
      BY <2>1, <2>3, CollectKeeps DEF HInv, MovesOrStays
    <2>4. CASE Reject
      BY <2>1, <2>4, RejectKeeps DEF HInv, MovesOrStays
    <2>5. CASE Enter
      BY <2>1, <2>5, EnterKeeps DEF HInv, MovesOrStays
    <2>6. CASE Exit
      BY <2>1, <2>6, ExitKeeps DEF HInv, MovesOrStays
    <2>7. ASSUME NEW dead \in SUBSET Agents, FinishTick(dead) PROVE HInv' /\ MovesOrStays
      BY <2>1, <2>7, SomeDie DEF HInv, MovesOrStays
    <2>8. CASE WarpOut
      BY <2>1, <2>8, OutKeeps DEF HInv, MovesOrStays
    <2>9. CASE WarpIn
      BY <2>1, <2>9, InKeeps DEF HInv, MovesOrStays
    <2>10. CASE SkipWarp
      BY <2>1, <2>10, SkipKeeps DEF HInv, MovesOrStays
    <2>11. CASE AfterWarp
      BY <2>1, <2>11, UnloadKeeps DEF HInv, MovesOrStays
    <2> QED BY <1>1, <2>2, <2>3, <2>4, <2>5, <2>6, <2>7, <2>8, <2>9, <2>10, <2>11 DEF Loop
  <1>2. CASE AskStep
    BY <1>2, AskingKeeps DEF MovesOrStays
  <1>3. ASSUME NEW e \in Agents, Teardown(e) PROVE HInv' /\ MovesOrStays
    BY <1>3, SomeHangUp DEF HInv, MovesOrStays
  <1>4. CASE UNCHANGED hubAllVars
    BY <1>4 DEF hubAllVars, hubVars, loopVars, agentVars, HInv, Core, LoopTypes, AskTypes, RoomsAreMade,
                MovesAreThroughDoors, ThroughDoor, MoveInHand, IsLoaded, OneMap, Moving, NeverStranded,
                LoadedWorlds, WorldAt, MovesOrStays, Place
  <1> QED BY <1>1, <1>2, <1>3, <1>4 DEF HubNext, AskStep

LEMMA HubHolds == HubSpec => []HInv
  <1>1. HInv /\ [HubNext]_hubAllVars => HInv'
    BY EveryStepKeeps
  <1> QED BY <1>1, HubStart, PTL DEF HubSpec

(* Whatever the schedule of ticks, door requests, searches, hang-ups and   *)
(* deaths, a body is on one map, on a map the hub still holds, and in a    *)
(* room only with a way back (multimap.go: Warp, ProcessWarps; action.go). *)
THEOREM BodiesAreOnOneLivingMap == HubSpec => []HubSafe
  <1>1. HInv => HubSafe
    BY TypesAreTypes DEF HInv, Core, HubSafe
  <1> QED BY <1>1, HubHolds, PTL

(* The hub implements the abstract one: bodies change maps only through    *)
(* doors, and disappear only on the overworld and for good (multimap.go:   *)
(* Warp, ProcessWarps; agent.go: teardown).                                *)
THEOREM HubMovesBodiesThroughDoors == HubSpec => BodiesMoveThroughDoors
  <1>1. HubInit => Bodies!Init
    <2> SUFFICES ASSUME HubInit PROVE Bodies!Init
      OBVIOUS
    <2>1. Place = [e \in Agents |-> Over]
      <3>1. OneMap /\ Over \in Worlds
        BY HubStart DEF HInv, Core, Worlds
      <3>2. \A e \in Agents : e \in ents[Over]
        BY <3>1 DEF HubInit
      <3> QED BY <3>1, <3>2, PlaceIsSo DEF PlaceFacts
    <2> QED BY <2>1 DEF Bodies!Init
  <1>2. HInv /\ [HubNext]_hubAllVars => [Bodies!Next]_Place
    BY EveryStepKeeps DEF MovesOrStays
  <1> QED BY <1>1, <1>2, HubHolds, PTL DEF HubSpec, BodiesMoveThroughDoors, Bodies!Spec

-----------------------------------------------------------------------------
(* The replies.  Whoever stands in a queue waits for that world's answer,  *)
(* stands in it once, and whoever waits stands in the queue of the world   *)
(* it asked; no queue is longer than its capacity.                         *)
QueuedOnceAndWaiting ==
  /\ \A w \in Worlds :
       /\ Len(queue[w]) <= MaxQueue
       /\ \A i \in 1..Len(queue[w]) :
            reader[queue[w][i]] = "wait" /\ at[queue[w][i]] = w
       /\ \A i, j \in 1..Len(queue[w]) : queue[w][i] = queue[w][j] => i = j
  /\ \A e \in Agents :
       reader[e] = "wait" => \E i \in 1..Len(queue[at[e]]) : queue[at[e]][i] = e

(* Steps that neither queue nor answer leave those that wait where they    *)
(* wait.                                                                   *)
LEMMA OthersKeepQueues ==
  ASSUME AskTypes, QueuedOnceAndWaiting, UNCHANGED queue,
         \A e \in Agents : reader'[e] = "wait" <=> reader[e] = "wait",
         \A e \in Agents : reader[e] = "wait" => at'[e] = at[e]
  PROVE  QueuedOnceAndWaiting'
  <1>1. \A w \in Worlds : queue[w] \in Seq(Agents)
    BY DEF AskTypes
  <1>2. \A w \in Worlds : \A i \in 1..Len(queue[w]) : queue[w][i] \in Agents
    BY <1>1
  <1> QED BY <1>2 DEF QueuedOnceAndWaiting

(* The tick answers the head of its queue, and nobody else.                *)
LEMMA AnswersKeepQueues ==
  ASSUME LoopTypes, AskTypes, QueuedOnceAndWaiting, Answer
  PROVE  QueuedOnceAndWaiting'
  <1> DEFINE q == queue[cur]
             h == Head(q)
  <1>1. cur \in Worlds /\ q \in Seq(Agents) /\ q # <<>> /\ h = q[1] /\ h \in Agents /\ Len(q) \in Nat \ {0}
    BY DEF LoopTypes, AskTypes, Answer
  <1>2. /\ queue' = [queue EXCEPT ![cur] = Tail(q)] /\ at' = at
        /\ reader' = [reader EXCEPT ![h] = "idle"]
    BY DEF Answer
  <1>3. Len(Tail(q)) = Len(q) - 1 /\ \A i \in 1..Len(Tail(q)) : Tail(q)[i] = q[i + 1] /\ i + 1 \in 1..Len(q)
    BY <1>1
  <1>4. reader[h] = "wait" /\ at[h] = cur
    BY <1>1 DEF QueuedOnceAndWaiting
  <1>5. ASSUME NEW w \in Worlds
        PROVE  /\ Len(queue'[w]) <= MaxQueue
               /\ \A i \in 1..Len(queue'[w]) : reader'[queue'[w][i]] = "wait" /\ at'[queue'[w][i]] = w
               /\ \A i, j \in 1..Len(queue'[w]) : queue'[w][i] = queue'[w][j] => i = j
    <2>1. CASE w = cur
      <3>1. queue'[w] = Tail(q)
        BY <1>1, <1>2, <2>1 DEF AskTypes
      <3>2. \A i \in 1..Len(q) : q[i] \in Agents /\ reader[q[i]] = "wait" /\ at[q[i]] = w
        BY <1>1, <2>1 DEF QueuedOnceAndWaiting
      <3>3. \A i, j \in 1..Len(q) : q[i] = q[j] => i = j
        BY <1>1 DEF QueuedOnceAndWaiting
      <3>4. \A i \in 1..Len(Tail(q)) : Tail(q)[i] # h
        BY <1>1, <1>3, <3>3
      <3>5. Len(q) <= MaxQueue
        BY <1>1 DEF QueuedOnceAndWaiting
      <3>6. Len(Tail(q)) <= MaxQueue
        BY <1>1, <1>3, <3>5, HubConstants DEF HubConstants
      <3>7. \A i \in 1..Len(Tail(q)) : reader'[Tail(q)[i]] = "wait" /\ at'[Tail(q)[i]] = w
        BY <1>2, <1>3, <3>2, <3>4 DEF AskTypes
      <3>8. \A i, j \in 1..Len(Tail(q)) : Tail(q)[i] = Tail(q)[j] => i = j
        BY <1>3, <3>3
      <3> QED BY <3>1, <3>6, <3>7, <3>8
    <2>2. CASE w # cur
      <3>1. queue'[w] = queue[w] /\ queue[w] \in Seq(Agents)
        BY <1>2, <2>2 DEF AskTypes
      <3>2. \A i \in 1..Len(queue[w]) : queue[w][i] \in Agents /\ queue[w][i] # h
        BY <1>4, <2>2, <3>1 DEF QueuedOnceAndWaiting
      <3> QED BY <1>2, <3>1, <3>2 DEF QueuedOnceAndWaiting, AskTypes
    <2> QED BY <2>1, <2>2
  <1>6. ASSUME NEW e \in Agents, reader'[e] = "wait"
        PROVE  \E i \in 1..Len(queue'[at'[e]]) : queue'[at'[e]][i] = e
    <2>1. e # h /\ reader[e] = "wait" /\ at'[e] = at[e] /\ at[e] \in Worlds
      BY <1>1, <1>2, <1>6 DEF AskTypes
    <2>2. PICK i \in 1..Len(queue[at[e]]) : queue[at[e]][i] = e
      BY <2>1 DEF QueuedOnceAndWaiting
    <2>3. CASE at[e] = cur
      <3>1. i # 1 /\ i \in 1..Len(q)
        BY <1>1, <2>1, <2>2, <2>3
      <3>2. i - 1 \in 1..Len(Tail(q)) /\ (i - 1) + 1 = i
        BY <1>1, <1>3, <3>1
      <3>3. Tail(q)[i - 1] = e
        BY <1>3, <2>2, <2>3, <3>2
      <3>4. queue'[at'[e]] = Tail(q)
        BY <1>2, <2>1, <2>3 DEF AskTypes
      <3> QED BY <3>2, <3>3, <3>4
    <2>4. CASE at[e] # cur
      <3>1. queue'[at'[e]] = queue[at[e]]
        BY <1>2, <2>1, <2>4 DEF AskTypes
      <3> QED BY <2>2, <3>1
    <2> QED BY <2>3, <2>4
  <1> HIDE DEF q, h
  <1> QED BY <1>5, <1>6 DEF QueuedOnceAndWaiting

(* QueueAction: the action gets a slot and its agent waits, or it is       *)
(* answered at once.                                                       *)
LEMMA SendKeepsQueues ==
  ASSUME AskTypes, QueuedOnceAndWaiting, NEW e \in Agents, Send(e)
  PROVE  QueuedOnceAndWaiting'
  <1> DEFINE c == at[e]
             q == queue[c]
  <1>1. c \in Worlds /\ q \in Seq(Agents) /\ Len(q) \in Nat /\ reader[e] = "send" /\ at' = at
    BY DEF AskTypes, Send
  <1>2. CASE ~ Len(q) < MaxQueue
    <2>1. queue' = queue /\ reader' = [reader EXCEPT ![e] = "idle"]
      BY <1>2 DEF Send, QueueAction
    <2> QED BY <1>1, <2>1, OthersKeepQueues DEF AskTypes
  <1>3. CASE Len(q) < MaxQueue
    <2>1. queue' = [queue EXCEPT ![c] = Append(q, e)] /\ reader' = [reader EXCEPT ![e] = "wait"]
      BY <1>3 DEF Send, QueueAction
    <2>2. /\ Len(Append(q, e)) = Len(q) + 1 /\ Append(q, e)[Len(q) + 1] = e
          /\ \A i \in 1..Len(q) : Append(q, e)[i] = q[i]
      BY <1>1
    <2>3. \A w \in Worlds : \A i \in 1..Len(queue[w]) :
            queue[w][i] \in Agents /\ queue[w][i] # e
      BY <1>1 DEF QueuedOnceAndWaiting, AskTypes
    <2>4. ASSUME NEW w \in Worlds
          PROVE  /\ Len(queue'[w]) <= MaxQueue
                 /\ \A i \in 1..Len(queue'[w]) : reader'[queue'[w][i]] = "wait" /\ at'[queue'[w][i]] = w
                 /\ \A i, j \in 1..Len(queue'[w]) : queue'[w][i] = queue'[w][j] => i = j
      <3>1. CASE w = c
        <4>1. queue'[w] = Append(q, e)
          BY <1>1, <2>1, <3>1 DEF AskTypes
        <4>2. Len(q) + 1 <= MaxQueue
          BY <1>1, <1>3, HubConstants DEF HubConstants
        <4>3. \A i \in 1..(Len(q) + 1) : i \in 1..Len(q) \/ i = Len(q) + 1
          BY <1>1
        <4>4. \A i \in 1..Len(q) : q[i] \in Agents /\ q[i] # e /\ reader[q[i]] = "wait" /\ at[q[i]] = w
          BY <1>1, <2>3, <3>1 DEF QueuedOnceAndWaiting
        <4>5. \A i, j \in 1..Len(q) : q[i] = q[j] => i = j
          BY <1>1 DEF QueuedOnceAndWaiting
        <4>6. \A i \in 1..(Len(q) + 1) :
                reader'[Append(q, e)[i]] = "wait" /\ at'[Append(q, e)[i]] = w
          BY <1>1, <2>1, <2>2, <3>1, <4>3, <4>4 DEF AskTypes
        <4>7. \A i, j \in 1..(Len(q) + 1) : Append(q, e)[i] = Append(q, e)[j] => i = j
          BY <2>2, <4>3, <4>4, <4>5
        <4> QED BY <2>2, <4>1, <4>2, <4>6, <4>7
      <3>2. CASE w # c
        <4>1. queue'[w] = queue[w]
          BY <2>1, <3>2 DEF AskTypes
        <4>2. Len(queue[w]) <= MaxQueue
          BY DEF QueuedOnceAndWaiting
        <4>3. \A i, j \in 1..Len(queue[w]) : queue[w][i] = queue[w][j] => i = j
          BY DEF QueuedOnceAndWaiting
        <4>4. \A i \in 1..Len(queue[w]) : reader[queue[w][i]] = "wait" /\ at[queue[w][i]] = w
          BY DEF QueuedOnceAndWaiting
        <4>5. \A i \in 1..Len(queue[w]) : reader'[queue[w][i]] = reader[queue[w][i]]
          BY <2>1, <2>3 DEF AskTypes
        <4> QED BY <1>1, <4>1, <4>2, <4>3, <4>4, <4>5
      <3> QED BY <3>1, <3>2
    <2>5. ASSUME NEW u \in Agents, reader'[u] = "wait"
          PROVE  \E i \in 1..Len(queue'[at'[u]]) : queue'[at'[u]][i] = u
      <3>1. CASE u = e
        <4>1. queue'[at'[u]] = Append(q, e)
          BY <1>1, <2>1, <3>1 DEF AskTypes
        <4>2. Len(q) + 1 \in 1..(Len(q) + 1)
          BY <1>1
        <4> QED BY <2>2, <3>1, <4>1, <4>2
      <3>2. CASE u # e
        <4>1. reader[u] = "wait" /\ at[u] \in Worlds /\ at'[u] = at[u]
          BY <1>1, <2>1, <2>5, <3>2 DEF AskTypes
        <4>2. PICK i \in 1..Len(queue[at[u]]) : queue[at[u]][i] = u
          BY <4>1 DEF QueuedOnceAndWaiting
        <4>3. CASE at[u] = c
          <5>1. i \in 1..Len(q) /\ i \in 1..(Len(q) + 1) /\ queue'[at'[u]] = Append(q, e)
            BY <1>1, <2>1, <4>1, <4>2, <4>3 DEF AskTypes
          <5> QED BY <2>2, <4>2, <4>3, <5>1
        <4>4. CASE at[u] # c
          <5>1. queue'[at'[u]] = queue[at[u]]
            BY <2>1, <4>1, <4>4 DEF AskTypes
          <5> QED BY <4>2, <5>1
        <4> QED BY <4>3, <4>4
      <3> QED BY <3>1, <3>2
    <2> HIDE DEF q, c
    <2> QED BY <2>4, <2>5 DEF QueuedOnceAndWaiting
  <1> QED BY <1>2, <1>3

LEMMA EveryStepKeepsQueues ==
  ASSUME HInv, QueuedOnceAndWaiting, [HubNext]_hubAllVars
  PROVE  QueuedOnceAndWaiting'
  <1>1. LoopTypes /\ AskTypes
    BY DEF HInv, Core
  <1>2. CASE Reject \/ Enter \/ Exit
    BY <1>1, <1>2, AnswersKeepQueues DEF Reject, Enter, Exit
  <1>3. ASSUME NEW e \in Agents, Send(e) PROVE QueuedOnceAndWaiting'
    BY <1>1, <1>3, SendKeepsQueues
  <1>4. CASE UNCHANGED <<queue, reader, at>>
    BY <1>1, <1>4, OthersKeepQueues
  <1>5. ASSUME NEW e \in Agents, NEW v \in Rooms \cup {"exit"}, Submit(e, v)
        PROVE  QueuedOnceAndWaiting'
    <2>1. UNCHANGED <<queue, at>> /\ reader' = [reader EXCEPT ![e] = "search"] /\ reader[e] = "idle"
      BY <1>5 DEF Submit
    <2> QED BY <1>1, <2>1, OthersKeepQueues DEF AskTypes
  <1>6. ASSUME NEW e \in Agents, NEW w \in Worlds, Search(e, w)
        PROVE  QueuedOnceAndWaiting'
    <2>1. UNCHANGED queue /\ reader[e] = "search"
      BY <1>6 DEF Search
    <2>2. reader' = [reader EXCEPT ![e] = "send"] \/ reader' = reader
      BY <1>6 DEF Search
    <2>3. \A u \in Agents \ {e} : at'[u] = at[u]
      <3>1. at' = at \/ at' = [at EXCEPT ![e] = IF e \in ents[w] THEN w ELSE Over]
        BY <1>6 DEF Search
      <3> QED BY <1>1, <3>1 DEF AskTypes
    <2> QED BY <1>1, <2>1, <2>2, <2>3, OthersKeepQueues DEF AskTypes
  <1>7. CASE StartTicks \/ StartWarps \/ NextMap \/ \E w \in Worlds : Tick(w) \/ Collect(w)
    BY <1>4, <1>7 DEF StartTicks, StartWarps, NextMap, Tick, Collect, agentVars
  <1>8. CASE (\E dead \in SUBSET Agents : FinishTick(dead)) \/ WarpOut \/ WarpIn \/ SkipWarp \/ AfterWarp
    BY <1>4, <1>8 DEF FinishTick, WarpOut, WarpIn, SkipWarp, AfterWarp, agentVars
  <1>9. CASE Observing \/ \E e \in Agents : Teardown(e) \/ Observe(e)
    BY <1>4, <1>9 DEF Observing, ObserverSearch, Look, Confirm, Teardown, Observe, agentVars
  <1>10. CASE UNCHANGED hubAllVars
    BY <1>4, <1>10 DEF hubAllVars, agentVars
  <1> QED BY <1>2, <1>3, <1>5, <1>6, <1>7, <1>8, <1>9, <1>10 DEF HubNext, Loop, Asking

(* An agent waits for one reply at most, and for one that some queue still *)
(* owes it (queue.go: QueueAction, drainActionQueue).                      *)
THEOREM EachAgentIsOwedOneReply == HubSpec => []OneRequestInFlight
  <1>1. HubInit => QueuedOnceAndWaiting
    <2> SUFFICES ASSUME HubInit PROVE QueuedOnceAndWaiting
      OBVIOUS
    <2>1. \A w \in Worlds : queue[w] = <<>>
      BY DEF HubInit
    <2>2. \A e \in Agents : reader[e] = "idle"
      BY DEF HubInit
    <2> QED BY <2>1, <2>2, HubConstants DEF QueuedOnceAndWaiting, HubConstants
  <1>2. HInv /\ QueuedOnceAndWaiting /\ [HubNext]_hubAllVars => QueuedOnceAndWaiting'
    BY EveryStepKeepsQueues
  <1>3. HInv /\ QueuedOnceAndWaiting => OneRequestInFlight
    <2> SUFFICES ASSUME HInv, QueuedOnceAndWaiting, NEW e \in Agents
                 PROVE  LET slots == {s \in Worlds \X (1..MaxQueue) :
                                        s[2] <= Len(queue[s[1]]) /\ queue[s[1]][s[2]] = e}
                        IN  IF reader[e] = "wait" THEN \E s \in slots : slots = {s} /\ s[1] = at[e]
                                                  ELSE slots = {}
      BY DEF OneRequestInFlight
    <2> DEFINE slots == {s \in Worlds \X (1..MaxQueue) :
                           s[2] <= Len(queue[s[1]]) /\ queue[s[1]][s[2]] = e}
    <2>1. \A w \in Worlds : Len(queue[w]) \in Nat /\ Len(queue[w]) <= MaxQueue
      BY DEF HInv, AskTypes, QueuedOnceAndWaiting
    <2>2. MaxQueue \in Nat
      BY HubConstants DEF HubConstants
    <2>3. ASSUME NEW s \in slots
          PROVE  s[1] \in Worlds /\ s[2] \in 1..Len(queue[s[1]]) /\ queue[s[1]][s[2]] = e /\ s = <<s[1], s[2]>>
      BY <2>1, <2>2
    <2>4. CASE reader[e] # "wait"
      BY <2>3, <2>4 DEF QueuedOnceAndWaiting
    <2>5. CASE reader[e] = "wait"
      <3>1. at[e] \in Worlds
        BY DEF HInv, AskTypes
      <3>2. PICK i \in 1..Len(queue[at[e]]) : queue[at[e]][i] = e
        BY <2>5 DEF QueuedOnceAndWaiting
      <3>3. <<at[e], i>> \in slots
        BY <2>1, <2>2, <3>1, <3>2
      <3>4. ASSUME NEW s \in slots PROVE s = <<at[e], i>>
        <4>1. at[e] = s[1]
          BY <2>3 DEF QueuedOnceAndWaiting
        <4>2. s[2] = i
          BY <2>3, <3>1, <3>2, <4>1 DEF QueuedOnceAndWaiting
        <4> QED BY <2>3, <4>1, <4>2
      <3> HIDE DEF slots
      <3>5. slots = {<<at[e], i>>}
        BY <3>3, <3>4
      <3>6. \E s \in slots : slots = {s} /\ s[1] = at[e]
        BY <3>3, <3>5
      <3> QED BY <2>5, <3>6 DEF slots
    <2> QED BY <2>4, <2>5
  <1> QED BY <1>1, <1>2, <1>3, HubHolds, PTL DEF HubSpec
=============================================================================
