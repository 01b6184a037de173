--------------------------- MODULE ArchetypeBots ---------------------------
(***************************************************************************)
(* The rule-based bots (agents/baselines, examples/heuristic_bot.py).  One *)
(* bot of some archetype takes one observation after another; decide sets  *)
(* a standing goal or returns an action for this tick, and without one the *)
(* motor (agents/common/motor.py) takes a step towards the goal.           *)
(*                                                                         *)
(* What the bot observes is any member of Observations[archetype]: where   *)
(* others are, what lies about, and the bot's own body.  A distance is     *)
(* "near" (adjacent), "far" (in view) or "away" (not in view).  Left out:  *)
(* the mental note of a change of state, and what is said.                 *)
(***************************************************************************)
EXTENDS Naturals

CONSTANTS
  Others,        \* the agents a bot may see
  Observations,  \* per archetype, what it may observe
  ClearTicks,    \* 5 in survivor.py
  GrudgeTTL,     \* GRUDGE_TTL, 80 in avenger.py
  WaitDeadline,  \* WAITING_DEADLINE_TICKS, 30 in manipulator.py
  ChatPeriod,    \* the period of its small talk, 8
  FleeClear      \* FLEE_CLEAR_TICKS, 10

Kinds     == {"survivor", "scavenger", "killer", "avenger", "manipulator", "wanderer"}
Distances == {"near", "far", "away"}
Things    == {"food", "weapon", "coin", "junk"}    \* item_kind, is_food, is_money
Self      == "self"
Nobody    == "nobody"

Observation ==
  [at : [Others -> Distances], armed : SUBSET Others, infamous : SUBSET Others,
   item : [Things -> Distances], tree : Distances,
   hp : 0..100, hunger : 0..100, rich : BOOLEAN,
   pack : SUBSET (Things \ {"coin"}), full : BOOLEAN, wields : BOOLEAN,
   kills : SUBSET (Others \cup {Self}), scream : BOOLEAN, corpseNear : BOOLEAN]

ASSUME BotAssumption ==
  /\ Self \notin Others /\ Nobody \notin Others
  /\ Observations \in [Kinds -> SUBSET Observation]
  /\ {ClearTicks, GrudgeTTL, WaitDeadline, ChatPeriod, FleeClear} \subseteq Nat \ {0}

NoAct == [verb |-> "none", target |-> Nobody]
Act(v, t) == [verb |-> v, target |-> t]
Roam == Act("step", Nobody)                                    \* random_walk
Goal(k, t) == [kind |-> k, target |-> t]
Idle == Goal("idle", Nobody)

Actions == [verb : {"none", "step", "pickup", "drop", "attack", "equip", "eat", "forage",
                    "buy_food", "give", "speak", "warn", "propose"},
            target : Others \cup Things \cup {"tree", Nobody}]
Goals   == [kind : {"idle", "goto", "pursue", "flee"},
            target : Others \cup Things \cup {"tree", "place", Nobody}]
States  == {"IDLE", "HUNGRY", "EATING", "DESPERATE", "FLEEING", "RACING", "LOOTING",
            "RETREATING", "HUNTING", "ATTACKING", "PURSUING", "PROWL", "AVENGING",
            "SCOUTING", "APPROACHING", "BUILDING_TRUST", "PROPOSING", "WAITING",
            "DEFECTING_SILENT", "DEFECTING_ACTIVE"}

VARIABLES
  kind,     \* the archetype
  running,  \* run is in its loop
  stopped,  \* _stopped
  nav,      \* the walkability grid has been fetched, so there is a motor
  state,    \* the state of the archetype's machine
  memo,     \* what else it remembers, see Memo
  goal,     \* the standing goal
  sent,     \* the action sent on the last observation
  past      \* history: see Past

machine == <<state, memo, goal, sent>>
vars == <<kind, running, stopped, nav, machine, past>>

(* clear_streak, flee_clear_ticks, _grudge_ticks and waiting_ticks, the    *)
(* target each archetype holds, whether a scream is remembered, and the    *)
(* manipulator's script.                                                   *)
Memo == [streak : Nat, grudge : Nat, waiting : Nat, target : Others \cup {Nobody},
         corpse : BOOLEAN, trust : 0..2, proposed : BOOLEAN, spoken : BOOLEAN,
         greeted : SUBSET Others]
Blank == [streak |-> 0, grudge |-> 0, waiting |-> 0, target |-> Nobody, corpse |-> FALSE,
          trust |-> 0, proposed |-> FALSE, spoken |-> FALSE, greeted |-> {}]

(* For the properties: observations since a threat was in view, and since  *)
(* each other was last named a killer or seen infamous; whom the bot has   *)
(* made its offer to since it last picked a mark, observations since that, *)
(* and whether it has given warning.                                       *)
Past  == [clear : Nat, blame : [Others -> Nat], offered : Others \cup {Nobody},
          since : Nat, warned : BOOLEAN]

BaseTypeOK ==
  /\ kind \in Kinds /\ running \in BOOLEAN /\ stopped \in BOOLEAN /\ nav \in BOOLEAN
  /\ state \in States /\ memo \in Memo
  /\ goal \in Goals /\ sent \in Actions /\ past \in Past

(* The counters stay below their deadlines.                                *)
CountersBounded ==
  /\ memo.streak <= (IF kind = "manipulator" THEN FleeClear - 1 ELSE ClearTicks)
  /\ memo.grudge <= GrudgeTTL
  /\ memo.waiting <= WaitDeadline

(* Every variable has its type, and no counter of an archetype runs past   *)
(* the deadline it is compared with (clear_streak, _grudge_ticks,          *)
(* waiting_ticks, flee_clear_ticks).                                       *)
TypeOK == BaseTypeOK /\ CountersBounded

----------------------------------------------------------------------------
(* What the archetypes read off an observation.                            *)

InView(o)  == {e \in Others : o.at[e] # "away"}
Nearest(S, o) == LET close == {e \in S : o.at[e] = "near"} IN IF close # {} THEN close ELSE S
Armed(o)   == InView(o) \cap o.armed                            \* has_weapon_equipped
Wary(o)    == InView(o) \cap (o.armed \cup o.infamous)
Lying(o, kinds) == {t \in kinds : o.item[t] # "away"}
NearestItem(S, o) == LET close == {t \in S : o.item[t] = "near"} IN IF close # {} THEN close ELSE S
(* hp = int(extras.get("hp", 100) or 100): no hit points read as a hundred *)
Hp(o)      == IF o.hp = 0 THEN 100 ELSE o.hp

(* What the motor may do about goal g (next_step): a step if there is a    *)
(* route, nothing if there is none, the target is already reached, or it   *)
(* is out of view and was last seen too long ago.                          *)
MotorSteps(g, o) ==
  IF g.kind = "idle" \/ (g.kind = "pursue" /\ o.at[g.target] = "near")
  THEN {NoAct} ELSE {NoAct, Roam}

(* _make_room_if_full: junk goes before weapons before food.               *)
Worst(pack) ==
  IF "junk" \in pack THEN "junk" ELSE IF "weapon" \in pack THEN "weapon" ELSE "food"
RoomMade(a, o) ==
  IF a.verb = "pickup" /\ o.full /\ o.pack # {} /\ a.target # "coin"
  THEN Act("drop", Worst(o.pack)) ELSE a

(* What the loop sends when decide has returned a: without an action the   *)
(* motor follows the goal, once there is a motor, and a pickup that would  *)
(* bounce off a full pack becomes a drop.  The wanderer has none of this.  *)
Sends(a, g, o) ==
  IF kind = "wanderer" THEN {a}
  ELSE IF a # NoAct THEN {RoomMade(a, o)}
  ELSE IF nav' THEN MotorSteps(g, o) ELSE {NoAct}

(* decide leaves the machine in state s with goal g and returns a.         *)
Decides(s, g, a, o) == state' = s /\ goal' = g /\ sent' \in Sends(a, g, o)

(* Take the thing if it is adjacent, else let the motor walk to it.        *)
Take(s, t, o) ==
  IF o.item[t] = "near" THEN Decides(s, goal, Act("pickup", t), o) ELSE Decides(s, Goal("goto", t), NoAct, o)

(* forage_or_roam                                                          *)
ForageOrRoam(s, g, o) ==
  \/ Lying(o, Things) = {} /\ Decides(s, g, Roam, o)
  \/ \E t \in NearestItem(Lying(o, Things), o) :
       IF o.item[t] = "near" THEN Decides(s, g, Act("pickup", t), o)
       ELSE Decides(s, Goal("goto", t), NoAct, o)

(* Grab loose money first, then anything else.                             *)
MoneyOrForage(s, g, o) ==
  \/ o.item["coin"] = "near" /\ Decides(s, g, Act("pickup", "coin"), o)
  \/ o.item["coin"] = "far"  /\ Decides(s, Goal("goto", "coin"), NoAct, o)
  \/ o.item["coin"] = "away" /\ ForageOrRoam(s, g, o)

----------------------------------------------------------------------------
(* survivor.py                                                             *)

SurvivorFlees(o) ==
  /\ Wary(o) # {}
  /\ memo' = [memo EXCEPT !.streak = 0]
  /\ \E t \in Nearest(Wary(o), o) : Decides("FLEEING", Goal("flee", t), NoAct, o)

SurvivorIsCautious(o) ==
  /\ Wary(o) = {} /\ state = "FLEEING" /\ memo.streak + 1 < ClearTicks
  /\ memo' = [memo EXCEPT !.streak = @ + 1]
  /\ Decides(state, goal, Roam, o)

(* Where the hunger arbitration leads from state s.                        *)
Arbitrated(s, o) ==
  LET foodless == o.item["food"] = "away" /\ "food" \notin o.pack
  IN IF o.hunger > 85 /\ foodless THEN "DESPERATE"
     ELSE IF o.hunger > 50 THEN "HUNGRY"
     ELSE IF o.hunger < 30 /\ s # "FLEEING" THEN "IDLE" ELSE s

SurvivorFeeds(s, g, o) ==
  \/ "food" \in o.pack /\ Decides("EATING", g, Act("eat", "food"), o)
  \/ /\ "food" \notin o.pack
     /\ \/ o.item["food"] = "near" /\ Decides(s, g, Act("pickup", "food"), o)
        \/ o.item["food"] = "far"  /\ Decides(s, Goal("goto", "food"), NoAct, o)
        \/ /\ o.item["food"] = "away"
           /\ \/ o.tree = "near" /\ Decides("EATING", g, Act("forage", "tree"), o)
              \/ o.tree = "far"  /\ Decides(s, Goal("goto", "tree"), NoAct, o)
              \/ o.tree = "away" /\ o.rich  /\ Decides("EATING", g, Act("buy_food", Nobody), o)
              \/ o.tree = "away" /\ ~o.rich /\ Decides(s, g, Roam, o)

SurvivorLives(o) ==
  LET over == state = "FLEEING"
      s    == Arbitrated(IF over THEN "IDLE" ELSE state, o)
      g    == IF over THEN Idle ELSE goal
  IN /\ Wary(o) = {} /\ (over => memo.streak + 1 >= ClearTicks)
     /\ memo' = [memo EXCEPT !.streak = IF over THEN ClearTicks ELSE @]
     /\ \/ s \in {"HUNGRY", "DESPERATE"} /\ SurvivorFeeds(s, g, o)
        \/ s = "EATING" /\ Decides("IDLE", g, NoAct, o)
        \/ s = "IDLE" /\ MoneyOrForage(s, g, o)

Survivor(o) == SurvivorFlees(o) \/ SurvivorIsCautious(o) \/ SurvivorLives(o)

----------------------------------------------------------------------------
(* scavenger.py                                                            *)

Heard(o) == o.scream \/ o.kills # {}

ScavengerRaces(s, corpse, o) ==
  /\ s = "RACING" /\ corpse /\ ~o.corpseNear
  /\ memo' = [memo EXCEPT !.corpse = corpse]
  /\ Decides("RACING", Goal("goto", "place"), NoAct, o)

(* _pick_loot_target: money, then weapons, then anything.                  *)
BestLoot(o) ==
  IF o.item["coin"] # "away" THEN {"coin"}
  ELSE IF o.item["weapon"] # "away" THEN {"weapon"} ELSE Lying(o, {"food", "junk"})

ScavengerLoots(s, corpse, o) ==
  /\ s = "LOOTING" /\ Armed(o) = {} /\ Lying(o, Things) # {}
  /\ memo' = [memo EXCEPT !.corpse = corpse]
  /\ \E t \in BestLoot(o) : Take("LOOTING", t, o)

ScavengerRetreats(s, corpse, o) ==
  /\ s \in {"LOOTING", "RETREATING"} /\ Armed(o) # {}
  /\ memo' = [memo EXCEPT !.corpse = corpse]
  /\ \E t \in Nearest(Armed(o), o) : Decides("RETREATING", Goal("flee", t), NoAct, o)

ScavengerIdles(s, corpse, o) ==
  LET done == \/ s = "LOOTING" /\ Armed(o) = {} /\ Lying(o, Things) = {}
              \/ s = "RETREATING" /\ Armed(o) = {}
      g    == IF s = "RETREATING" THEN Idle ELSE goal
  IN /\ s = "IDLE" \/ done
     /\ memo' = [memo EXCEPT !.corpse = ~done /\ corpse]
     /\ IF Armed(o) = {} THEN MoneyOrForage("IDLE", g, o) ELSE ForageOrRoam("IDLE", g, o)

Scavenger(o) ==
  LET raced  == IF Heard(o) THEN "RACING" ELSE state
      corpse == memo.corpse \/ Heard(o)
      s == IF raced = "RACING" /\ ~corpse THEN "IDLE"
           ELSE IF raced = "RACING" /\ o.corpseNear THEN "LOOTING" ELSE raced
  IN \/ ScavengerRaces(s, corpse, o)    \/ ScavengerLoots(s, corpse, o)
     \/ ScavengerRetreats(s, corpse, o) \/ ScavengerIdles(s, corpse, o)

----------------------------------------------------------------------------
(* killer.py: the others are all prey                                      *)

(* Equip a weapon from the pack, or pick up one within reach.              *)
CanArm(o) == ~o.wields /\ ("weapon" \in o.pack \/ o.item["weapon"] = "near")
ArmUp(s, g, o) ==
  Decides(s, g, Act(IF "weapon" \in o.pack THEN "equip" ELSE "pickup", "weapon"), o)

KillerRetreats(o) ==
  /\ Hp(o) < 18 /\ UNCHANGED memo
  /\ IF InView(o) = {} THEN Decides("RETREATING", Idle, Roam, o)
     ELSE \E t \in Nearest(InView(o), o) : Decides("RETREATING", Goal("flee", t), NoAct, o)

Recovers(o) == state = "RETREATING" /\ InView(o) # {} /\ Hp(o) < 30
KillerRecovers(o) ==
  /\ Hp(o) >= 18 /\ Recovers(o) /\ UNCHANGED memo
  /\ \E t \in Nearest(InView(o), o) : Decides(state, Goal("flee", t), NoAct, o)

KillerArms(o) == CanArm(o) /\ UNCHANGED memo /\ ArmUp(state, goal, o)

KillerHunts(o) ==
  /\ ~CanArm(o)
  /\ \E t \in Nearest(InView(o), o) :
       /\ memo' = [memo EXCEPT !.target = t]
       /\ IF o.at[t] = "near" THEN Decides("ATTACKING", goal, Act("attack", t), o)
          ELSE Decides("PURSUING", Goal("pursue", t), NoAct, o)

KillerProwls(o) ==
  /\ ~CanArm(o) /\ InView(o) = {} /\ UNCHANGED memo
  /\ IF o.item["coin"] # "away" THEN Take(state, "coin", o)
     ELSE Decides("PROWL", Idle, Roam, o)

KillerIsFit(o) == Hp(o) >= 18 /\ ~Recovers(o)
Killer(o) ==
  \/ KillerRetreats(o) \/ KillerRecovers(o)
  \/ KillerIsFit(o) /\ (KillerArms(o) \/ KillerHunts(o) \/ KillerProwls(o))

----------------------------------------------------------------------------
(* avenger.py.  A witnessed kill names its killer; of several heard in one *)
(* observation the last one counts.                                        *)

Witnessed(o) == o.kills \ {Self}
Grudge(x)    == [memo EXCEPT !.target = x, !.grudge = GrudgeTTL]
Forgiven(m)  == [m EXCEPT !.target = Nobody, !.grudge = 0]

AvengerRetreats(m, o) ==
  /\ Hp(o) < 20 /\ memo' = m
  /\ IF InView(o) = {} THEN Decides("RETREATING", Idle, Roam, o)
     ELSE \E t \in Nearest(InView(o), o) : Decides("RETREATING", Goal("flee", t), NoAct, o)

Strike(t, o) ==
  IF o.at[t] = "near" THEN Decides("AVENGING", goal, Act("attack", t), o)
  ELSE Decides("AVENGING", Goal("pursue", t), NoAct, o)

(* One tick of a grudge that has not cooled off.                           *)
AvengerHunts(m, o) ==
  /\ memo' = m
  /\ \/ CanArm(o) /\ ArmUp("AVENGING", goal, o)
     \/ ~CanArm(o) /\ m.target \in InView(o) /\ Strike(m.target, o)
     \/ /\ ~CanArm(o) /\ m.target \notin InView(o)
        /\ Decides("AVENGING", Goal("goto", "place"), NoAct, o)

AvengerTurnsOnTheInfamous(o) ==
  /\ InView(o) \cap o.infamous # {}
  /\ \E t \in Nearest(InView(o) \cap o.infamous, o) :
       /\ memo' = Grudge(t)
       /\ IF CanArm(o) THEN ArmUp("AVENGING", goal, o) ELSE Strike(t, o)

AvengerLives(s, m, o) ==
  /\ InView(o) \cap o.infamous = {} /\ memo' = m
  /\ MoneyOrForage(s, goal, o)

Avenger(o) ==
  \E m \in IF Witnessed(o) = {} THEN {memo} ELSE {Grudge(x) : x \in Witnessed(o)} :
    LET s      == IF Witnessed(o) = {} THEN state ELSE "AVENGING"
        cooler == [m EXCEPT !.grudge = @ - 1]
        cooled == s = "AVENGING" /\ cooler.grudge = 0
    IN \/ AvengerRetreats(m, o)
       \/ Hp(o) >= 20 /\ s = "AVENGING" /\ ~cooled /\ AvengerHunts(cooler, o)
       \/ /\ Hp(o) >= 20 /\ (s = "AVENGING" => cooled)
          /\ \/ AvengerTurnsOnTheInfamous(o)
             \/ AvengerLives(IF cooled THEN "IDLE" ELSE s, IF cooled THEN Forgiven(m) ELSE m, o)

----------------------------------------------------------------------------
(* manipulator.py.  One observation may take it through several states, as *)
(* decide falls through from one test of the state to the next.            *)

(* A slip: the next mark inherits the offer made to the last one.          *)
MarkKeepingTheOffer(t) == [memo EXCEPT !.target = t, !.trust = 0, !.waiting = 0]

Mark(t)      == [memo EXCEPT !.target = t, !.trust = 0, !.proposed = FALSE, !.waiting = 0]
Unmarked(m)  == [m EXCEPT !.target = Nobody]
Threats(o)   == Armed(o) \ {memo.target}

ManipulatorFlees(o) ==
  /\ Threats(o) # {}
  /\ memo' = [memo EXCEPT !.streak = 0]
  /\ \E t \in Nearest(Threats(o), o) : Decides("FLEEING", Goal("flee", t), NoAct, o)

ManipulatorCalmsDown(o) ==
  /\ state = "FLEEING" /\ Threats(o) = {}
  /\ IF memo.streak + 1 < FleeClear
     THEN memo' = [memo EXCEPT !.streak = @ + 1] /\ Decides("FLEEING", goal, Roam, o)
     ELSE memo' = [Unmarked(memo) EXCEPT !.streak = 0] /\ Decides("SCOUTING", goal, Roam, o)

(* It loses the mark between two observations and looks for another.       *)
GivesUp(o) ==
  /\ memo.target \notin InView(o) /\ UNCHANGED memo
  /\ Decides("SCOUTING", goal, NoAct, o)

Proposes(m, o) ==
  IF ~m.proposed
  THEN memo' = [m EXCEPT !.proposed = TRUE] /\ Decides("PROPOSING", goal, Act("propose", m.target), o)
  ELSE memo' = [m EXCEPT !.waiting = 0]     /\ Decides("WAITING", goal, Act("speak", Nobody), o)

BuildsTrust(m, o) ==
  \/ /\ m.trust = 0 /\ o.pack # {}
     /\ memo' = [m EXCEPT !.trust = 1] /\ Decides("BUILDING_TRUST", goal, Act("give", m.target), o)
  \/ /\ m.trust = 1 \/ (m.trust = 0 /\ o.pack = {})
     /\ memo' = [m EXCEPT !.trust = 2] /\ Decides("BUILDING_TRUST", goal, Act("speak", Nobody), o)
  \/ m.trust = 2 /\ Proposes(m, o)

Approaches(m, o) ==
  IF o.at[m.target] = "near" THEN BuildsTrust(m, o)
  ELSE memo' = m /\ Decides("APPROACHING", Goal("pursue", m.target), NoAct, o)

(* target_pos of one out of view: the motor remembers it, or it was seen   *)
(* too long ago.                                                           *)
Remembered == {FALSE} \cup (IF nav' THEN {TRUE} ELSE {})

(* The mark is out of sight: go where it was last seen, or give it up.     *)
LosesTheMark(o) ==
  \E known \in Remembered :
    IF known THEN UNCHANGED memo /\ Decides(state, Goal("pursue", memo.target), NoAct, o)
    ELSE memo' = Unmarked(memo) /\ Decides("SCOUTING", goal, Roam, o)

(* _pick_target: whoever is nearest.                                       *)
PickTarget(o) == Nearest(InView(o), o)

Scouts(o) ==
  \/ \E t \in PickTarget(o) : Approaches(Mark(t), o)
  \/ /\ InView(o) = {} /\ UNCHANGED memo
     /\ IF o.item["coin"] # "away" THEN Take(state, "coin", o)
        ELSE Decides(state, goal, Roam, o)

SlipsAway(m, o) ==
  IF m.target \in InView(o)
  THEN memo' = m /\ Decides("DEFECTING_SILENT", Goal("flee", m.target), NoAct, o)
  ELSE memo' = Unmarked(m) /\ Decides("SCOUTING", Idle, Roam, o)

TurnsOnTheMark(m, o) ==
  \/ m.target \notin InView(o) /\ memo' = Unmarked(m) /\ Decides("SCOUTING", goal, NoAct, o)
  \/ /\ m.target \in InView(o) /\ o.at[m.target] = "far" /\ memo' = m
     /\ Decides("DEFECTING_ACTIVE", Goal("pursue", m.target), NoAct, o)
  \/ /\ m.target \in InView(o) /\ o.at[m.target] = "near"
     /\ memo' = [m EXCEPT !.spoken = TRUE]
     /\ Decides("DEFECTING_ACTIVE", goal, Act(IF m.spoken THEN "attack" ELSE "warn", m.target), o)

Waits(o) ==
  LET n == memo.waiting + 1
      m == [memo EXCEPT !.waiting = n]
  IN \/ n >= WaitDeadline /\ (SlipsAway(m, o) \/ TurnsOnTheMark(m, o))
     \/ /\ n < WaitDeadline /\ memo' = m
        /\ Decides("WAITING", goal, IF n % ChatPeriod = 0 THEN Act("speak", Nobody) ELSE Roam, o)

Manipulator(o) ==
  \/ state \in {"FLEEING", "DEFECTING_ACTIVE"} /\ ManipulatorFlees(o)
  \/ ManipulatorCalmsDown(o)
  \/ state = "SCOUTING" /\ Scouts(o)
  \/ /\ state = "APPROACHING"
     /\ IF memo.target \in InView(o) THEN Approaches(memo, o) ELSE LosesTheMark(o)
  \/ state \in {"BUILDING_TRUST", "PROPOSING"} /\ GivesUp(o)
  \/ state = "BUILDING_TRUST" /\ memo.target \in InView(o) /\ BuildsTrust(memo, o)
  \/ state = "PROPOSING" /\ memo.target \in InView(o) /\ Proposes(memo, o)
  \/ state = "WAITING" /\ Waits(o)
  \/ state = "DEFECTING_SILENT" /\ SlipsAway(memo, o)
  \/ state = "DEFECTING_ACTIVE" /\ Threats(o) = {} /\ TurnsOnTheMark(memo, o)

----------------------------------------------------------------------------
(* heuristic_bot.py: greet whom you have not greeted, head for food when   *)
(* hungry, for coins otherwise, or drift.  It has no goal and no motor,    *)
(* and looks no further than five tiles for strangers.                     *)

Strangers(o) == InView(o) \ memo.greeted

Greets(o) ==
  \E t \in Strangers(o) :
    /\ memo' = [memo EXCEPT !.greeted = @ \cup {t}]
    /\ Decides(state, goal, Act("speak", t), o)

Drifts(o) ==
  /\ \A t \in Strangers(o) : o.at[t] # "near"
  /\ UNCHANGED memo
  /\ Decides(state, goal,
       IF ~(o.hunger > 60 /\ o.item["food"] # "away") /\ o.item["coin"] = "near"
       THEN Act("pickup", "coin") ELSE Roam, o)

Wanderer(o) == Greets(o) \/ Drifts(o)

----------------------------------------------------------------------------
(* The loop of ArchetypeBot.run.                                           *)

Capped(n, cap) == IF n < cap THEN n + 1 ELSE cap
Remember(o) ==
  past' = CASE kind = "survivor" ->
                 [past EXCEPT !.clear = IF Wary(o) # {} THEN 0 ELSE Capped(@, ClearTicks)]
            [] kind = "avenger" ->
                 [past EXCEPT !.blame = [x \in Others |->
                    IF x \in o.kills \/ x \in InView(o) \cap o.infamous THEN 0
                    ELSE Capped(@[x], GrudgeTTL)]]
            [] kind = "manipulator" ->
                 IF sent'.verb = "propose"
                 THEN [past EXCEPT !.offered = sent'.target, !.since = 0, !.warned = FALSE]
                 ELSE [past EXCEPT !.since = Capped(@, WaitDeadline),
                                   !.warned = @ \/ sent'.verb = "warn"]
            [] OTHER -> past

(* The grid is fetched on the first observation on which the engine        *)
(* answers; a failed fetch is tried again on the next.                     *)
FetchesNav == nav' \in (IF kind = "wanderer" THEN {FALSE} ELSE {nav, TRUE})

Tick(decide(_), archetype) ==
  /\ running /\ ~stopped /\ kind = archetype
  /\ \E o \in Observations[kind] : FetchesNav /\ decide(o) /\ Remember(o)
  /\ UNCHANGED <<kind, running, stopped>>

SurvivorTick    == Tick(Survivor, "survivor")
ScavengerTick   == Tick(Scavenger, "scavenger")
KillerTick      == Tick(Killer, "killer")
AvengerTick     == Tick(Avenger, "avenger")
ManipulatorTick == Tick(Manipulator, "manipulator")
WandererTick    == Tick(Wanderer, "wanderer")

(* stop(): the loop ends on the next observation.                          *)
Stop ==
  /\ running /\ ~stopped /\ kind # "wanderer" /\ stopped' = TRUE
  /\ UNCHANGED <<kind, running, nav, machine, past>>

(* The loop is over: it was stopped, or the stream of observations ended.  *)
Leave ==
  /\ running /\ running' = FALSE
  /\ UNCHANGED <<kind, stopped, nav, machine, past>>

FirstState(k) == CASE k = "killer" -> "HUNTING" [] k = "manipulator" -> "SCOUTING" [] OTHER -> "IDLE"

Init ==
  /\ kind \in Kinds /\ running = TRUE /\ stopped = FALSE /\ nav = FALSE
  /\ state = FirstState(kind) /\ memo = Blank /\ goal = Idle /\ sent = NoAct
  /\ past = [clear |-> ClearTicks, blame |-> [x \in Others |-> GrudgeTTL],
              offered |-> Nobody, since |-> 0, warned |-> FALSE]

DoTick == \/ SurvivorTick \/ ScavengerTick \/ KillerTick
          \/ AvengerTick \/ ManipulatorTick \/ WandererTick
Next == DoTick \/ Stop \/ Leave

----------------------------------------------------------------------------
(* For ClearTicks observations after a threat was last in view a survivor  *)
(* does nothing but move: it neither eats nor gathers (FLEEING wins over   *)
(* everything, and the streak starts again with every threat).             *)
SurvivorStaysWary ==
  kind = "survivor" /\ past.clear < ClearTicks => sent.verb \in {"none", "step"}

(* Whomever an avenger hunts or strikes was named by a killing it          *)
(* witnessed, or was seen infamous, less than GrudgeTTL observations ago;  *)
(* the grudge neither outlives its time nor moves to somebody else.        *)
OnlyTheGuilty ==
  kind = "avenger" =>
    /\ sent.verb = "attack" => past.blame[sent.target] < GrudgeTTL
    /\ state = "AVENGING"   => past.blame[memo.target] < GrudgeTTL

(* A manipulator strikes nobody but the one it last made its offer to, and *)
(* not before the waiting time has passed since the offer.                 *)
BetraysAfterTheWait ==
  kind = "manipulator" /\ sent.verb = "attack" =>
    sent.target = past.offered /\ past.since >= WaitDeadline

(* Waiting for the mark's answer ends, with the mark in sight or not.      *)
WaitingEnds == state = "WAITING" ~> (state # "WAITING" \/ stopped \/ ~running)

(* Each archetype keeps to its rules over whole sequences of observations: *)
(* the survivor to its caution, the avenger to the guilty, the manipulator *)
(* to the wait.                                                            *)
BotsSafe == TypeOK /\ SurvivorStaysWary /\ OnlyTheGuilty /\ BetraysAfterTheWait
============================================================================
