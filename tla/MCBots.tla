------------------------------- MODULE MCBots -------------------------------
(* The rule-based bots on observations that vary in what each archetype    *)
(* reads and are fixed in what it does not; or a walker in a small room.   *)
EXTENDS ArchetypeBots, NavWalk

CONSTANTS x, y
MCOthers == {x, y}

Plain == [at |-> [e \in MCOthers |-> "away"], armed |-> {}, infamous |-> {},
          item |-> [t \in Things |-> "away"], tree |-> "away", hp |-> 100, hunger |-> 10,
          rich |-> FALSE, pack |-> {}, full |-> FALSE, wields |-> FALSE,
          kills |-> {}, scream |-> FALSE, corpseNear |-> FALSE]

Sightings == [MCOthers -> Distances]
Lies(d, kinds) == {[t \in Things |-> IF t \in DOMAIN f THEN f[t] ELSE "away"] : f \in [kinds -> d]}
(* Packs and what lies within reach: to arm itself, to make room, or not.  *)
Packs == {[pack |-> {}, full |-> FALSE], [pack |-> {"food"}, full |-> TRUE],
          [pack |-> {"junk", "weapon"}, full |-> TRUE]}
Arming == {[wields |-> TRUE,  pack |-> {"weapon"}, full |-> FALSE, item |-> "near"],
           [wields |-> FALSE, pack |-> {"weapon"}, full |-> FALSE, item |-> "away"],
           [wields |-> FALSE, pack |-> {"food"},   full |-> TRUE,  item |-> "near"],
           [wields |-> FALSE, pack |-> {},         full |-> FALSE, item |-> "far"]}

SurvivorSees ==
     {[Plain EXCEPT !.at[x] = d, !.armed = a, !.infamous = {x} \ a, !.item["food"] = f, !.hunger = h] :
        d \in {"near", "far"}, a \in SUBSET {x}, f \in {"near", "away"}, h \in {10, 90}}
  \cup {[Plain EXCEPT !.at[x] = d, !.item = i, !.hunger = h, !.pack = p.pack, !.full = p.full] :
        d \in {"away", "near"}, i \in Lies(Distances, {"food", "coin"}), h \in {10, 40, 60, 90}, p \in Packs}
  \cup {[Plain EXCEPT !.tree = t, !.rich = r, !.hunger = h] :
        t \in Distances, r \in BOOLEAN, h \in {60, 90}}

ScavengerSees ==
  {[Plain EXCEPT !.at[x] = d, !.armed = a, !.item = i, !.scream = s, !.corpseNear = c,
                 !.pack = p.pack, !.full = p.full] :
     d \in Distances, a \in SUBSET {x}, i \in Lies({"near", "away"}, {"weapon", "coin", "junk"}),
     s \in BOOLEAN, c \in BOOLEAN, p \in Packs}

KillerSees ==
  {[Plain EXCEPT !.at = s, !.item["weapon"] = m.item, !.item["coin"] = c, !.hp = h,
                 !.wields = m.wields, !.pack = m.pack, !.full = m.full] :
     s \in Sightings, m \in Arming, c \in Distances, h \in {0, 10, 20, 35}}

AvengerSees ==
  {[Plain EXCEPT !.at = s, !.infamous = b, !.item["weapon"] = m.item, !.hp = h,
                 !.wields = m.wields, !.kills = k, !.pack = m.pack, !.full = m.full] :
     s \in Sightings, b \in SUBSET {x}, m \in Arming, h \in {0, 10},
     k \in {{}, {x}, {y, Self}}}

ManipulatorSees ==
  {[Plain EXCEPT !.at = s, !.armed = a, !.item["coin"] = c, !.pack = p] :
     s \in Sightings, a \in SUBSET MCOthers, c \in {"near", "away"}, p \in {{}, {"food"}}}

WandererSees ==
  {[Plain EXCEPT !.at = s, !.item = i, !.hunger = h] :
     s \in Sightings, i \in Lies({"near", "away"}, {"coin", "food"}), h \in {10, 90}}

MCObservations ==
  [survivor |-> SurvivorSees, scavenger |-> ScavengerSees, killer |-> KillerSees,
   avenger |-> AvengerSees, manipulator |-> ManipulatorSees, wanderer |-> WandererSees]

(* A bound that ends some searches, and one that ends none.                *)
MCBounds == {3, 4 * Width * Height}

(* Every room of the size up to the symmetries of the start tile.          *)
MCRooms  == {w \in SUBSET Tiles : Cardinality(w) <= 2}
MCStarts == {<<0, 0>>, <<1, 0>>, <<1, 1>>}

VARIABLE half  \* which of the two runs; the other stays as it starts
all == <<half, vars, navVars>>

BotStands == kind = "wanderer" /\ Init
WalkerStands ==
  /\ walls = {} /\ mode = "flee" /\ here = <<0, 0>> /\ target = <<2, 2>> /\ others = {<<2, 2>>}
  /\ pc = "observe" /\ blocked = {} /\ heap = {} /\ path = << >> /\ way = TRUE
  /\ bound \in Bounds /\ expand = 0

Start ==
  \/ half = "bot" /\ Init /\ WalkerStands
  \/ half = "walker" /\ BotStands /\ NavInit

BotRuns == half = "bot" /\ UNCHANGED <<half, navVars>>
WalkerRuns == half = "walker" /\ UNCHANGED <<half, vars>>

(* The engine keeps sending observations to a live bot, and every search   *)
(* runs on.                                                                *)
BotsSpec ==
  /\ Start /\ [][(BotRuns /\ Next) \/ (WalkerRuns /\ NavNext)]_all
  /\ WF_all(BotRuns /\ DoTick) /\ WF_all(WalkerRuns /\ NavNext)

(* A manipulator does not wait for ever, and a walker arrives.             *)
BotsGoOn == WaitingEnds /\ GotoArrives
=============================================================================
