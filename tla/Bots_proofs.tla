---------------------------- MODULE Bots_proofs ----------------------------
(***************************************************************************)
(* For any observations and deadlines the rule-based bots keep to their    *)
(* rules: see BotsSafe.  For any room, and any bound on the tiles that a   *)
(* search may expand, the search a bot walks by is right: see WalkSafe.    *)
(***************************************************************************)
EXTENDS MCBots, FunctionTheorems, FiniteSetTheorems, WellFoundedInduction, TLAPS

(* While a survivor has not been calm for long enough it flees, and its    *)
(* streak is what the history says.                                        *)
Wariness ==
  kind = "survivor" /\ past.clear < ClearTicks => state = "FLEEING" /\ memo.streak = past.clear

(* What is left of a grudge is no more than what is left of the time since *)
(* its target was named.                                                   *)
Guilt ==
  kind = "avenger" /\ state = "AVENGING" =>
    /\ memo.target \in Others /\ memo.grudge # 0
    /\ past.blame[memo.target] + memo.grudge <= GrudgeTTL

Marked  == state \in {"APPROACHING", "BUILDING_TRUST", "PROPOSING", "WAITING",
                      "DEFECTING_SILENT", "DEFECTING_ACTIVE"}
Betrays == state \in {"DEFECTING_SILENT", "DEFECTING_ACTIVE"}

(* Who has a mark and has made an offer has made it to the mark; it waits  *)
(* only after an offer, and turns on the mark after the wait.              *)
Offer ==
  kind = "manipulator" =>
    /\ Marked => memo.target \in Others
    /\ Marked /\ memo.proposed => past.offered = memo.target
    /\ state = "WAITING" \/ Betrays => memo.proposed
    /\ state = "WAITING" => memo.waiting <= past.since /\ memo.waiting < WaitDeadline
    /\ Betrays => past.since >= WaitDeadline

BInv == BotsSafe /\ Wariness /\ Guilt /\ Offer

-----------------------------------------------------------------------------
(* The deadlines are positive, and what a bot sees is an observation.      *)
LEMMA BotConstants ==
  /\ ClearTicks \in Nat \ {0} /\ GrudgeTTL \in Nat \ {0} /\ WaitDeadline \in Nat \ {0}
  /\ FleeClear \in Nat \ {0} /\ ChatPeriod \in Nat \ {0}
  /\ Self \notin Others /\ Nobody \notin Others
  /\ \A k \in Kinds : \A o \in Observations[k] : o \in Observation
  BY BotAssumption DEF BotAssumption

(* A new bot keeps to its rules.                                           *)
LEMMA BotStarts == Init => BInv
  <1> SUFFICES ASSUME Init PROVE BInv
    OBVIOUS
  <1> USE BotConstants DEF Init
  <1>1. BaseTypeOK
    <2>1. kind \in Kinds /\ running \in BOOLEAN /\ stopped \in BOOLEAN /\ nav \in BOOLEAN
      OBVIOUS
    <2>2. state \in States
      BY DEF FirstState, States
    <2>3. memo \in Memo
      BY DEF Memo, Blank
    <2>4. goal \in Goals /\ sent \in Actions
      BY DEF Goals, Idle, Goal, Actions, NoAct
    <2>5. past \in Past
      BY DEF Past
    <2> QED
      BY <2>1, <2>2, <2>3, <2>4, <2>5 DEF BaseTypeOK
  <1>2. CountersBounded
    BY DEF CountersBounded, Blank
  <1>3. SurvivorStaysWary /\ OnlyTheGuilty /\ BetraysAfterTheWait
    BY DEF SurvivorStaysWary, OnlyTheGuilty, BetraysAfterTheWait, FirstState, NoAct
  <1>4. Wariness /\ Guilt /\ Offer
    BY DEF Wariness, Guilt, Offer, Marked, Betrays, FirstState
  <1> QED
    BY <1>1, <1>2, <1>3, <1>4 DEF BInv, BotsSafe, TypeOK

-----------------------------------------------------------------------------
(* What is sent when decide returns a: a itself, or what the motor or a    *)
(* full pack make of it, which is a step, a drop or nothing.               *)
LEMMA DecidesIs ==
  ASSUME NEW s \in States, NEW g \in Goals, NEW a \in Actions, NEW o \in Observation,
         Decides(s, g, a, o)
  PROVE  /\ state' = s /\ goal' = g /\ sent' \in Actions
         /\ a.verb \in {"none", "step"} => sent'.verb \in {"none", "step"}
         /\ a.verb \notin {"none", "pickup"} => sent' = a
         /\ a.verb \in {"none", "step", "pickup"} => sent'.verb \in {"none", "step", "pickup", "drop"}
  <1>1. NoAct \in Actions /\ Roam \in Actions /\ NoAct.verb = "none" /\ Roam.verb = "step"
    BY DEF NoAct, Roam, Act, Actions
  <1>2. /\ RoomMade(a, o) \in Actions
        /\ a.verb # "pickup" => RoomMade(a, o) = a
        /\ RoomMade(a, o) = a \/ RoomMade(a, o).verb = "drop"
    BY DEF RoomMade, Act, Worst, Actions, Things
  <1>3. \A e \in MotorSteps(g, o) : e = NoAct \/ e = Roam
    BY DEF MotorSteps
  <1>4. sent' = a \/ sent' = RoomMade(a, o) \/ (a = NoAct /\ sent' \in {NoAct, Roam})
    BY <1>3 DEF Decides, Sends
  <1>5. state' = s /\ goal' = g
    BY DEF Decides
  <1> QED
    BY <1>1, <1>2, <1>4, <1>5
(* The actions and the goals an archetype decides on.                      *)
LEMMA ActsAre ==
  /\ NoAct \in Actions /\ Roam \in Actions /\ NoAct.verb = "none" /\ Roam.verb = "step"
  /\ \A v \in {"give", "attack", "warn", "propose", "speak"}, t \in Others \cup {Nobody} :
       Act(v, t) \in Actions /\ Act(v, t).verb = v /\ Act(v, t).target = t
  /\ \A v \in {"pickup", "drop", "equip", "eat"}, t \in Things :
       Act(v, t) \in Actions /\ Act(v, t).verb = v /\ Act(v, t).target = t
  /\ Act("forage", "tree") \in Actions /\ Act("buy_food", Nobody) \in Actions
  BY DEF NoAct, Roam, Act, Actions

LEMMA GoalsAre ==
  /\ Idle \in Goals /\ Goal("goto", "tree") \in Goals /\ Goal("goto", "place") \in Goals
  /\ \A t \in Things : Goal("goto", t) \in Goals
  /\ \A t \in Others : Goal("flee", t) \in Goals /\ Goal("pursue", t) \in Goals
  BY DEF Idle, Goal, Goals

Quiet == {"none", "step", "pickup", "drop"}

(* Who takes a thing, looks for one or roams does nothing else.            *)
LEMMA TakeIs ==
  ASSUME NEW s \in States, goal \in Goals, NEW t \in Things, NEW o \in Observation, Take(s, t, o)
  PROVE  state' = s /\ goal' \in Goals /\ sent' \in Actions /\ sent'.verb \in Quiet
  <1> USE ActsAre, GoalsAre
  <1>1. CASE Decides(s, goal, Act("pickup", t), o)
    <2>1. Act("pickup", t) \in Actions /\ Act("pickup", t).verb = "pickup"
      OBVIOUS
    <2> QED
      BY <1>1, <2>1, DecidesIs DEF Quiet
  <1>2. CASE Decides(s, Goal("goto", t), NoAct, o)
    <2>1. Goal("goto", t) \in Goals
      OBVIOUS
    <2> QED
      BY <1>2, <2>1, DecidesIs DEF Quiet
  <1> QED
    BY <1>1, <1>2 DEF Take

LEMMA RoamIs ==
  ASSUME NEW s \in States, NEW g \in Goals, NEW o \in Observation, ForageOrRoam(s, g, o)
  PROVE  state' = s /\ goal' \in Goals /\ sent' \in Actions /\ sent'.verb \in Quiet
  <1> USE ActsAre, GoalsAre
  <1>1. CASE Decides(s, g, Roam, o)
    BY <1>1, DecidesIs DEF Quiet
  <1>2. ASSUME NEW t \in NearestItem(Lying(o, Things), o),
               Decides(s, g, Act("pickup", t), o) \/ Decides(s, Goal("goto", t), NoAct, o)
        PROVE  state' = s /\ goal' \in Goals /\ sent' \in Actions /\ sent'.verb \in Quiet
    <2>1. t \in Things
      BY DEF NearestItem, Lying
    <2>2. /\ Act("pickup", t) \in Actions /\ Act("pickup", t).verb = "pickup"
          /\ Goal("goto", t) \in Goals
      BY <2>1
    <2>3. CASE Decides(s, g, Act("pickup", t), o)
      BY <2>2, <2>3, DecidesIs DEF Quiet
    <2>4. CASE Decides(s, Goal("goto", t), NoAct, o)
      BY <2>2, <2>4, DecidesIs DEF Quiet
    <2> QED
      BY <1>2, <2>3, <2>4
  <1> QED
    BY <1>1, <1>2 DEF ForageOrRoam

LEMMA MoneyIs ==
  ASSUME NEW s \in States, NEW g \in Goals, NEW o \in Observation, MoneyOrForage(s, g, o)
  PROVE  state' = s /\ goal' \in Goals /\ sent' \in Actions /\ sent'.verb \in Quiet
  <1>1. /\ Act("pickup", "coin") \in Actions /\ Act("pickup", "coin").verb = "pickup"
        /\ Goal("goto", "coin") \in Goals /\ NoAct \in Actions /\ NoAct.verb = "none"
    BY ActsAre, GoalsAre DEF Things
  <1>2. CASE Decides(s, g, Act("pickup", "coin"), o)
    BY <1>1, <1>2, DecidesIs DEF Quiet
  <1>3. CASE Decides(s, Goal("goto", "coin"), NoAct, o)
    BY <1>1, <1>3, DecidesIs DEF Quiet
  <1>4. CASE ForageOrRoam(s, g, o)
    BY <1>4, RoamIs
  <1> QED
    BY <1>2, <1>3, <1>4 DEF MoneyOrForage

LEMMA ArmUpIs ==
  ASSUME NEW s \in States, NEW g \in Goals, NEW o \in Observation, ArmUp(s, g, o)
  PROVE  state' = s /\ goal' = g /\ sent' \in Actions /\ sent'.verb \in Quiet \cup {"equip"}
  <1> DEFINE a == Act(IF "weapon" \in o.pack THEN "equip" ELSE "pickup", "weapon")
  <1>1. a \in Actions /\ a.verb \in {"equip", "pickup"}
    BY ActsAre DEF Things
  <1>2. Decides(s, g, a, o)
    BY DEF ArmUp
  <1> HIDE DEF a
  <1> QED
    BY <1>1, <1>2, DecidesIs DEF Quiet

(* Whom a bot picks out of some others is one of them.                     *)
LEMMA NearestIs == \A S, o : Nearest(S, o) \subseteq S
  BY DEF Nearest

-----------------------------------------------------------------------------
(* What a step of an archetype leaves in its machine.                      *)
Machine == state \in States /\ memo \in Memo /\ goal \in Goals /\ sent \in Actions

(* The counters a step does not use are left alone.                        *)
Memory(counters) ==
  \A c \in {"streak", "grudge", "waiting"} \ counters : memo'[c] = memo[c]

LEMMA MachineIs == BInv => Machine
  BY DEF BInv, BotsSafe, TypeOK, BaseTypeOK, Machine

(* A survivor flees and forgets its streak, adds to it, or has been calm   *)
(* for long enough.                                                        *)
LEMMA SurvivorFeedsIs ==
  ASSUME NEW s \in States, NEW g \in Goals, NEW o \in Observation, SurvivorFeeds(s, g, o)
  PROVE  state' \in States /\ goal' \in Goals /\ sent' \in Actions
  <1> USE ActsAre, GoalsAre, DecidesIs
  <1>1. /\ Act("eat", "food") \in Actions /\ Act("pickup", "food") \in Actions
        /\ Goal("goto", "food") \in Goals /\ "EATING" \in States
    BY DEF Things, States
  <1>2. CASE Decides("EATING", g, Act("eat", "food"), o)
    BY <1>1, <1>2
  <1>3. CASE Decides(s, g, Act("pickup", "food"), o)
    BY <1>1, <1>3
  <1>4. CASE Decides(s, Goal("goto", "food"), NoAct, o)
    BY <1>1, <1>4
  <1>5. CASE Decides("EATING", g, Act("forage", "tree"), o)
    BY <1>1, <1>5
  <1>6. CASE Decides(s, Goal("goto", "tree"), NoAct, o)
    BY <1>6
  <1>7. CASE Decides("EATING", g, Act("buy_food", Nobody), o)
    BY <1>1, <1>7
  <1>8. CASE Decides(s, g, Roam, o)
    BY <1>8
  <1> QED
    BY <1>2, <1>3, <1>4, <1>5, <1>6, <1>7, <1>8 DEF SurvivorFeeds

LEMMA SurvivorIs ==
  ASSUME Machine, memo.streak <= ClearTicks, NEW o \in Observation, Survivor(o)
  PROVE  /\ Machine' /\ Memory({"streak"}) /\ memo'.streak <= ClearTicks
         /\ \/ /\ Wary(o) # {} /\ state' = "FLEEING" /\ memo'.streak = 0
               /\ sent'.verb \in {"none", "step"}
            \/ /\ Wary(o) = {} /\ state = "FLEEING" /\ memo.streak + 1 < ClearTicks
               /\ state' = "FLEEING" /\ memo'.streak = memo.streak + 1
               /\ sent'.verb \in {"none", "step"}
            \/ Wary(o) = {} /\ (state = "FLEEING" => memo.streak + 1 >= ClearTicks)
  <1> USE ActsAre, GoalsAre, DecidesIs, BotConstants DEF Machine
  <1>1. CASE SurvivorFlees(o)
    <2>1. PICK t \in Nearest(Wary(o), o) : Decides("FLEEING", Goal("flee", t), NoAct, o)
      BY <1>1 DEF SurvivorFlees
    <2>2. t \in Others /\ "FLEEING" \in States
      BY NearestIs DEF Wary, InView, States
    <2>3. state' = "FLEEING" /\ goal' \in Goals /\ sent' \in Actions /\ sent'.verb \in {"none", "step"}
      BY <2>1, <2>2
    <2>4. memo' = [memo EXCEPT !.streak = 0] /\ Wary(o) # {}
      BY <1>1 DEF SurvivorFlees
    <2>5. memo' \in Memo /\ Memory({"streak"}) /\ memo'.streak = 0
      BY <2>4 DEF Memo, Memory
    <2> QED
      BY <2>2, <2>3, <2>4, <2>5
  <1>2. CASE SurvivorIsCautious(o)
    <2>1. /\ Decides(state, goal, Roam, o) /\ Wary(o) = {} /\ state = "FLEEING"
          /\ memo.streak + 1 < ClearTicks /\ memo' = [memo EXCEPT !.streak = memo.streak + 1]
      BY <1>2 DEF SurvivorIsCautious
    <2>2. state' = "FLEEING" /\ goal' \in Goals /\ sent' \in Actions /\ sent'.verb \in {"none", "step"}
      BY <2>1
    <2>3. /\ memo' \in Memo /\ Memory({"streak"})
          /\ memo'.streak = memo.streak + 1 /\ memo'.streak <= ClearTicks
      BY <2>1 DEF Memo, Memory
    <2> QED
      BY <2>1, <2>2, <2>3
  <1>3. CASE SurvivorLives(o)
    <2> DEFINE over == state = "FLEEING"
               s == Arbitrated(IF over THEN "IDLE" ELSE state, o)
               g == IF over THEN Idle ELSE goal
    <2>1. Wary(o) = {} /\ (over => memo.streak + 1 >= ClearTicks)
      BY <1>3 DEF SurvivorLives
    <2>2. memo' = [memo EXCEPT !.streak = IF over THEN ClearTicks ELSE memo.streak]
      BY <1>3 DEF SurvivorLives
    <2>3. memo' \in Memo /\ Memory({"streak"}) /\ memo'.streak <= ClearTicks
      BY <2>2 DEF Memo, Memory
    <2>4. s \in States /\ g \in Goals /\ {"IDLE", "EATING"} \subseteq States
      BY DEF Arbitrated, States
    <2>5. \/ SurvivorFeeds(s, g, o) \/ Decides("IDLE", g, NoAct, o) \/ MoneyOrForage(s, g, o)
      BY <1>3 DEF SurvivorLives
    <2> HIDE DEF s, g
    <2>6. state' \in States /\ goal' \in Goals /\ sent' \in Actions
      BY <2>4, <2>5, SurvivorFeedsIs, MoneyIs
    <2> QED
      BY <2>1, <2>3, <2>6
  <1> QED
    BY <1>1, <1>2, <1>3 DEF Survivor

-----------------------------------------------------------------------------
(* A scavenger counts nothing.                                             *)
LEMMA ScavengerIs ==
  ASSUME Machine, NEW o \in Observation, Scavenger(o)
  PROVE  Machine' /\ Memory({})
  <1> USE ActsAre, GoalsAre, DecidesIs DEF Machine
  <1> DEFINE corpse == memo.corpse \/ Heard(o)
             raced == IF Heard(o) THEN "RACING" ELSE state
             s == IF raced = "RACING" /\ ~corpse THEN "IDLE"
                  ELSE IF raced = "RACING" /\ o.corpseNear THEN "LOOTING" ELSE raced
  <1>1. /\ {"RACING", "LOOTING", "RETREATING", "IDLE"} \subseteq States
        /\ s \in States /\ corpse \in BOOLEAN
    BY DEF States, Memo, Heard
  <1>2. \A b \in BOOLEAN : memo' = [memo EXCEPT !.corpse = b] => memo' \in Memo /\ Memory({})
    BY DEF Memo, Memory
  <1>3. \/ ScavengerRaces(s, corpse, o)    \/ ScavengerLoots(s, corpse, o)
        \/ ScavengerRetreats(s, corpse, o) \/ ScavengerIdles(s, corpse, o)
    BY DEF Scavenger
  <1> HIDE DEF corpse, s
  <1>4. CASE ScavengerRaces(s, corpse, o)
    <2>1. memo' = [memo EXCEPT !.corpse = corpse] /\ Decides("RACING", Goal("goto", "place"), NoAct, o)
      BY <1>4 DEF ScavengerRaces
    <2>2. memo' \in Memo /\ Memory({})
      BY <1>1, <1>2, <2>1
    <2> QED
      BY <1>1, <2>1, <2>2
  <1>5. CASE ScavengerLoots(s, corpse, o)
    <2>1. PICK t \in BestLoot(o) : Take("LOOTING", t, o)
      BY <1>5 DEF ScavengerLoots
    <2>2. t \in Things
      BY DEF BestLoot, Lying, Things
    <2> QED
      BY <1>1, <1>2, <1>5, <2>1, <2>2, TakeIs DEF ScavengerLoots
  <1>6. CASE ScavengerRetreats(s, corpse, o)
    <2>1. PICK t \in Nearest(Armed(o), o) : Decides("RETREATING", Goal("flee", t), NoAct, o)
      BY <1>6 DEF ScavengerRetreats
    <2>2. t \in Others
      BY NearestIs DEF Armed, InView
    <2> QED
      BY <1>1, <1>2, <1>6, <2>1, <2>2 DEF ScavengerRetreats
  <1>7. CASE ScavengerIdles(s, corpse, o)
    <2>1. PICK b \in BOOLEAN : memo' = [memo EXCEPT !.corpse = b]
      BY <1>1, <1>7 DEF ScavengerIdles
    <2>2. PICK g \in Goals : MoneyOrForage("IDLE", g, o) \/ ForageOrRoam("IDLE", g, o)
      BY <1>7 DEF ScavengerIdles
    <2> QED
      BY <1>1, <1>2, <2>1, <2>2, MoneyIs, RoamIs
  <1> QED
    BY <1>3, <1>4, <1>5, <1>6, <1>7

(* Nor does a killer, whose prey is somebody else.                         *)
LEMMA KillerIs ==
  ASSUME Machine, NEW o \in Observation, Killer(o)
  PROVE  Machine' /\ Memory({})
  <1> USE ActsAre, GoalsAre, DecidesIs DEF Machine
  <1>1. /\ {"RETREATING", "ATTACKING", "PURSUING", "PROWL"} \subseteq States
        /\ UNCHANGED memo => memo' \in Memo /\ Memory({})
        /\ \A t \in Nearest(InView(o), o) : t \in Others
    BY NearestIs DEF States, InView, Memory
  <1>2. CASE KillerRetreats(o)
    BY <1>1, <1>2 DEF KillerRetreats
  <1>3. CASE KillerRecovers(o)
    BY <1>1, <1>3 DEF KillerRecovers
  <1>4. CASE KillerArms(o)
    BY <1>1, <1>4, ArmUpIs DEF KillerArms
  <1>5. CASE KillerHunts(o)
    <2>1. PICK t \in Nearest(InView(o), o) :
            /\ memo' = [memo EXCEPT !.target = t]
            /\ \/ Decides("ATTACKING", goal, Act("attack", t), o)
               \/ Decides("PURSUING", Goal("pursue", t), NoAct, o)
      BY <1>5 DEF KillerHunts
    <2>2. memo' \in Memo /\ Memory({})
      BY <1>1, <2>1 DEF Memo, Memory
    <2>3. Act("attack", t) \in Actions /\ Goal("pursue", t) \in Goals
      BY <1>1
    <2> QED
      BY <1>1, <2>1, <2>2, <2>3
  <1>6. CASE KillerProwls(o)
    <2>1. CASE Take(state, "coin", o)
      <3>1. "coin" \in Things
        BY DEF Things
      <3> QED
        BY <1>1, <1>6, <2>1, <3>1, TakeIs DEF KillerProwls
    <2>2. CASE Decides("PROWL", Idle, Roam, o)
      BY <1>1, <1>6, <2>2 DEF KillerProwls
    <2> QED
      BY <1>6, <2>1, <2>2 DEF KillerProwls
  <1> QED
    BY <1>2, <1>3, <1>4, <1>5, <1>6 DEF Killer

(* Nor does a wanderer.                                                    *)
LEMMA WandererIs ==
  ASSUME Machine, NEW o \in Observation, Wanderer(o)
  PROVE  Machine' /\ Memory({})
  <1> USE ActsAre, GoalsAre, DecidesIs DEF Machine
  <1>1. CASE Greets(o)
    <2>1. PICK t \in Strangers(o) : /\ memo' = [memo EXCEPT !.greeted = memo.greeted \cup {t}]
                                    /\ Decides(state, goal, Act("speak", t), o)
      BY <1>1 DEF Greets
    <2>2. t \in Others
      BY DEF Strangers, InView
    <2>3. memo' \in Memo /\ Memory({})
      BY <2>1, <2>2 DEF Memo, Memory
    <2>4. Act("speak", t) \in Actions
      BY <2>2
    <2> QED
      BY <2>1, <2>3, <2>4
  <1>2. CASE Drifts(o)
    <2>1. PICK a \in {Act("pickup", "coin"), Roam} : Decides(state, goal, a, o)
      BY <1>2 DEF Drifts
    <2>2. a \in Actions
      BY DEF Things
    <2> QED
      BY <1>2, <2>1, <2>2 DEF Drifts, Memory
  <1> QED
    BY <1>1, <1>2 DEF Wanderer

-----------------------------------------------------------------------------
(* An avenger either is not avenging; or has a grudge against somebody who *)
(* it has just seen to be guilty; or lets a grudge cool off by one and     *)
(* does not forget whom it is against.  Whom it attacks is its target.     *)
NewGrudge(o) ==
  /\ memo'.target \in Witnessed(o) \cup (InView(o) \cap o.infamous)
  /\ memo'.grudge \in 1..GrudgeTTL
OldGrudge ==
  /\ state = "AVENGING" /\ memo.grudge # 1
  /\ memo'.target = memo.target /\ memo'.grudge = memo.grudge - 1

LEMMA StrikeIs ==
  ASSUME goal \in Goals, NEW o \in Observation, NEW t \in Others, Strike(t, o)
  PROVE  /\ state' = "AVENGING" /\ goal' \in Goals /\ sent' \in Actions
         /\ sent'.verb = "attack" => sent'.target = t
  <1> USE ActsAre, GoalsAre, DecidesIs
  <1>1. "AVENGING" \in States
    BY DEF States
  <1>2. CASE Decides("AVENGING", goal, Act("attack", t), o)
    <2>1. Act("attack", t) \in Actions /\ Act("attack", t).verb = "attack" /\ Act("attack", t).target = t
      OBVIOUS
    <2> QED
      BY <1>1, <1>2, <2>1
  <1>3. CASE Decides("AVENGING", Goal("pursue", t), NoAct, o)
    <2>1. Goal("pursue", t) \in Goals
      OBVIOUS
    <2> QED
      BY <1>1, <1>3, <2>1
  <1> QED
    BY <1>2, <1>3 DEF Strike

LEMMA AvengerIs ==
  ASSUME Machine, memo.grudge <= GrudgeTTL,
         state = "AVENGING" => memo.target \in Others /\ memo.grudge # 0,
         NEW o \in Observation, Avenger(o)
  PROVE  /\ Machine' /\ Memory({"grudge"}) /\ memo'.grudge <= GrudgeTTL
         /\ state' = "AVENGING" => NewGrudge(o) \/ OldGrudge
         /\ sent'.verb = "attack" => state' = "AVENGING" /\ sent'.target = memo'.target
  <1> USE ActsAre, GoalsAre, DecidesIs, BotConstants DEF Machine
  <1>1. /\ {"AVENGING", "RETREATING", "IDLE"} \subseteq States
        /\ \A t \in Nearest(InView(o), o) : t \in Others
        /\ Witnessed(o) \subseteq Others /\ InView(o) \subseteq Others
    BY NearestIs DEF States, InView, Witnessed, Observation
  <1>2. PICK m \in IF Witnessed(o) = {} THEN {memo} ELSE {Grudge(b) : b \in Witnessed(o)} :
          LET s      == IF Witnessed(o) = {} THEN state ELSE "AVENGING"
              cooler == [m EXCEPT !.grudge = @ - 1]
              cooled == s = "AVENGING" /\ cooler.grudge = 0
          IN \/ AvengerRetreats(m, o)
             \/ Hp(o) >= 20 /\ s = "AVENGING" /\ ~cooled /\ AvengerHunts(cooler, o)
             \/ /\ Hp(o) >= 20 /\ (s = "AVENGING" => cooled)
                /\ \/ AvengerTurnsOnTheInfamous(o)
                   \/ AvengerLives(IF cooled THEN "IDLE" ELSE s, IF cooled THEN Forgiven(m) ELSE m, o)
    BY DEF Avenger
  <1> DEFINE s      == IF Witnessed(o) = {} THEN state ELSE "AVENGING"
             cooler == [m EXCEPT !.grudge = m.grudge - 1]
             cooled == s = "AVENGING" /\ cooler.grudge = 0
             Same(n) == n.streak = memo.streak /\ n.waiting = memo.waiting
  <1>3. \A b \in Others : /\ Grudge(b) \in Memo /\ Grudge(b).target = b
                          /\ Grudge(b).grudge = GrudgeTTL /\ Same(Grudge(b))
    BY DEF Grudge, Memo
  <1>4. /\ m \in Memo /\ m.grudge <= GrudgeTTL /\ Same(m) /\ s \in States
        /\ s = "AVENGING" => m.target \in Others /\ m.grudge # 0
        /\ \/ Witnessed(o) = {} /\ m = memo /\ s = state
           \/ m.target \in Witnessed(o) /\ m.grudge = GrudgeTTL
    <2>1. CASE Witnessed(o) = {}
      BY <1>1, <1>2, <2>1
    <2>2. CASE Witnessed(o) # {}
      <3>1. PICK b \in Witnessed(o) : m = Grudge(b)
        BY <1>2, <2>2
      <3> QED
        BY <1>1, <1>3, <2>2, <3>1
    <2> QED
      BY <2>1, <2>2
  <1>5. s = "AVENGING" => /\ cooler \in Memo /\ Same(cooler) /\ cooler.target = m.target
                          /\ cooler.grudge = m.grudge - 1
    BY <1>4 DEF Memo
  <1>6. Forgiven(m) \in Memo /\ Same(Forgiven(m)) /\ Forgiven(m).grudge = 0
    BY <1>4 DEF Forgiven, Memo
  <1>7. \A n : memo' = n /\ Same(n) => Memory({"grudge"})
    BY DEF Memory
  <1>8. \/ AvengerRetreats(m, o)
        \/ s = "AVENGING" /\ ~cooled /\ AvengerHunts(cooler, o)
        \/ (s = "AVENGING" => cooled) /\ AvengerTurnsOnTheInfamous(o)
        \/ /\ s = "AVENGING" => cooled
           /\ AvengerLives(IF cooled THEN "IDLE" ELSE s, IF cooled THEN Forgiven(m) ELSE m, o)
    BY <1>2
  <1> HIDE DEF s, cooler, Same
  <1>9. CASE AvengerRetreats(m, o)
    <2>1. \/ Decides("RETREATING", Idle, Roam, o)
          \/ \E t \in Nearest(InView(o), o) : Decides("RETREATING", Goal("flee", t), NoAct, o)
      BY <1>9 DEF AvengerRetreats
    <2>2. state' = "RETREATING" /\ goal' \in Goals /\ sent' \in Actions /\ sent'.verb \in {"none", "step"}
      BY <1>1, <2>1
    <2>3. memo' = m
      BY <1>9 DEF AvengerRetreats
    <2> QED
      BY <1>1, <1>4, <1>7, <2>2, <2>3
  <1>10. CASE s = "AVENGING" /\ ~cooled /\ AvengerHunts(cooler, o)
    <2>1. memo' = cooler /\ cooler.grudge # 0
      BY <1>10 DEF AvengerHunts
    <2>2. memo' \in Memo /\ Memory({"grudge"}) /\ memo'.grudge <= GrudgeTTL
      BY <1>4, <1>5, <1>7, <1>10, <2>1 DEF Memo
    <2>3. NewGrudge(o) \/ OldGrudge
      <3>1. CASE Witnessed(o) = {} /\ m = memo /\ s = state
        BY <1>5, <1>10, <2>1, <3>1 DEF OldGrudge, Memo
      <3>2. CASE m.target \in Witnessed(o) /\ m.grudge = GrudgeTTL
        BY <1>5, <1>10, <2>1, <3>2 DEF NewGrudge
      <3> QED
        BY <1>4, <3>1, <3>2
    <2>4. /\ state' = "AVENGING" /\ goal' \in Goals /\ sent' \in Actions
          /\ sent'.verb = "attack" => sent'.target = memo'.target
      <3>1. CASE ArmUp("AVENGING", goal, o)
        BY <1>1, <3>1, ArmUpIs DEF Quiet
      <3>2. CASE Strike(cooler.target, o)
        BY <1>4, <1>5, <1>10, <2>1, <3>2, StrikeIs
      <3>3. CASE Decides("AVENGING", Goal("goto", "place"), NoAct, o)
        BY <1>1, <3>3
      <3> QED
        BY <1>10, <3>1, <3>2, <3>3 DEF AvengerHunts
    <2> QED
      BY <1>1, <2>2, <2>3, <2>4
  <1>11. CASE AvengerTurnsOnTheInfamous(o)
    <2>1. PICK t \in Nearest(InView(o) \cap o.infamous, o) :
            /\ memo' = Grudge(t)
            /\ ArmUp("AVENGING", goal, o) \/ Strike(t, o)
      BY <1>11 DEF AvengerTurnsOnTheInfamous
    <2>2. t \in InView(o) \cap o.infamous /\ t \in Others
      BY <1>1, NearestIs
    <2>3. /\ memo' \in Memo /\ Memory({"grudge"}) /\ memo'.grudge <= GrudgeTTL
          /\ NewGrudge(o) /\ memo'.target = t
      BY <1>3, <1>7, <2>1, <2>2 DEF NewGrudge
    <2>4. /\ state' = "AVENGING" /\ goal' \in Goals /\ sent' \in Actions
          /\ sent'.verb = "attack" => sent'.target = t
      BY <1>1, <2>1, <2>2, ArmUpIs, StrikeIs DEF Quiet
    <2> QED
      BY <1>1, <2>3, <2>4
  <1>12. CASE /\ s = "AVENGING" => cooled
              /\ AvengerLives(IF cooled THEN "IDLE" ELSE s, IF cooled THEN Forgiven(m) ELSE m, o)
    <2> DEFINE s1 == IF cooled THEN "IDLE" ELSE s
               m1 == IF cooled THEN Forgiven(m) ELSE m
    <2>1. memo' = m1 /\ MoneyOrForage(s1, goal, o)
      BY <1>12 DEF AvengerLives
    <2>2. s1 \in States /\ s1 # "AVENGING" /\ m1 \in Memo /\ Same(m1) /\ m1.grudge <= GrudgeTTL
      BY <1>1, <1>4, <1>6, <1>12
    <2> HIDE DEF s1, m1
    <2>3. state' = s1 /\ goal' \in Goals /\ sent' \in Actions /\ sent'.verb \in Quiet
      BY <2>1, <2>2, MoneyIs
    <2> QED
      BY <1>7, <2>1, <2>2, <2>3 DEF Quiet
  <1> QED
    BY <1>8, <1>9, <1>10, <1>11, <1>12

-----------------------------------------------------------------------------
(* What a manipulator may come to: it has no mark; it courts one, perhaps  *)
(* a new one to which it has offered nothing; it makes its offer; it       *)
(* begins to wait for the answer to it; it waits; it turns on its mark.    *)
Harmless == sent'.verb \notin {"attack", "propose"}
SameDeal == memo'.target = memo.target /\ memo'.proposed = memo.proposed

Unbound == state' \in {"FLEEING", "SCOUTING"} /\ Harmless
Courts ==
  /\ state' \in {"APPROACHING", "BUILDING_TRUST"} /\ memo'.target \in Others /\ Harmless
  /\ memo'.proposed => Marked /\ SameDeal
Offers ==
  /\ state' = "PROPOSING" /\ memo'.target \in Others
  /\ sent'.verb = "propose" /\ sent'.target = memo'.target
BeginsToWait ==
  state' = "WAITING" /\ Marked /\ memo.proposed /\ SameDeal /\ memo'.waiting = 0 /\ Harmless
WaitsOn ==
  /\ state = "WAITING" /\ state' = "WAITING" /\ SameDeal /\ Harmless
  /\ memo'.waiting = memo.waiting + 1 /\ memo.waiting + 1 < WaitDeadline
Turns ==
  /\ (state = "WAITING" /\ memo.waiting + 1 >= WaitDeadline) \/ Betrays
  /\ Betrays' /\ SameDeal
  /\ sent'.verb # "propose" /\ (sent'.verb = "attack" => sent'.target = memo.target)
Outcome == Unbound \/ Courts \/ Offers \/ BeginsToWait \/ WaitsOn \/ Turns

(* The counters of a memory that is kept.                                  *)
Counts(m) == m.streak < FleeClear /\ m.grudge <= GrudgeTTL /\ m.waiting <= WaitDeadline

LEMMA ProposesIs ==
  ASSUME goal \in Goals, NEW m \in Memo, m.target \in Others, Counts(m), NEW o \in Observation,
         Proposes(m, o)
  PROVE  /\ Machine' /\ Counts(memo') /\ memo'.target = m.target
         /\ \/ Offers
            \/ state' = "WAITING" /\ m.proposed /\ memo'.proposed /\ memo'.waiting = 0 /\ Harmless
  <1> USE ActsAre, DecidesIs, BotConstants DEF Machine
  <1>1. CASE /\ ~m.proposed /\ memo' = [m EXCEPT !.proposed = TRUE]
             /\ Decides("PROPOSING", goal, Act("propose", m.target), o)
    <2>1. memo' \in Memo /\ Counts(memo') /\ memo'.target = m.target
      BY <1>1 DEF Memo, Counts
    <2>2. /\ Act("propose", m.target) \in Actions /\ Act("propose", m.target).verb = "propose"
          /\ Act("propose", m.target).target = m.target /\ "PROPOSING" \in States
      BY DEF States
    <2>3. state' = "PROPOSING" /\ goal' = goal /\ sent' = Act("propose", m.target)
      BY <1>1, <2>2
    <2> QED
      BY <2>1, <2>2, <2>3 DEF Offers
  <1>2. CASE /\ m.proposed /\ memo' = [m EXCEPT !.waiting = 0]
             /\ Decides("WAITING", goal, Act("speak", Nobody), o)
    <2>1. memo' \in Memo /\ Counts(memo')
      <3>1. memo' = [m EXCEPT !.waiting = 0]
        BY <1>2
      <3>2. memo' \in Memo
        BY <3>1 DEF Memo
      <3>3. memo'.waiting <= WaitDeadline
        BY <3>1 DEF Memo
      <3> QED
        BY <3>1, <3>2, <3>3 DEF Memo, Counts
    <2>4. memo'.target = m.target /\ memo'.proposed = m.proposed /\ memo'.waiting = 0
      BY <1>2 DEF Memo
    <2>2. /\ Act("speak", Nobody) \in Actions /\ Act("speak", Nobody).verb = "speak"
          /\ "WAITING" \in States
      BY DEF States
    <2>3. state' = "WAITING" /\ goal' = goal /\ sent' = Act("speak", Nobody)
      BY <1>2, <2>2
    <2> QED
      BY <1>2, <2>1, <2>2, <2>3, <2>4 DEF Harmless
  <1> QED
    BY <1>1, <1>2 DEF Proposes

LEMMA BuildsTrustIs ==
  ASSUME goal \in Goals, NEW m \in Memo, m.target \in Others, Counts(m), NEW o \in Observation,
         BuildsTrust(m, o)
  PROVE  /\ Machine' /\ Counts(memo') /\ memo'.target = m.target
         /\ \/ state' = "BUILDING_TRUST" /\ memo'.proposed = m.proposed /\ Harmless
            \/ Offers
            \/ state' = "WAITING" /\ m.proposed /\ memo'.proposed /\ memo'.waiting = 0 /\ Harmless
  <1> USE DecidesIs, BotConstants DEF Machine
  <1>1. /\ Act("give", m.target) \in Actions /\ Act("give", m.target).verb = "give"
        /\ Act("speak", Nobody) \in Actions /\ Act("speak", Nobody).verb = "speak"
        /\ "BUILDING_TRUST" \in States
    BY ActsAre DEF States
  <1>2. \A n \in 0..2 : memo' = [m EXCEPT !.trust = n] =>
          /\ memo' \in Memo /\ Counts(memo') /\ memo'.target = m.target
          /\ memo'.proposed = m.proposed
    BY DEF Memo, Counts
  <1>3. CASE /\ memo' = [m EXCEPT !.trust = 1]
             /\ Decides("BUILDING_TRUST", goal, Act("give", m.target), o)
    BY <1>1, <1>2, <1>3 DEF Harmless
  <1>4. CASE /\ memo' = [m EXCEPT !.trust = 2]
             /\ Decides("BUILDING_TRUST", goal, Act("speak", Nobody), o)
    BY <1>1, <1>2, <1>4 DEF Harmless
  <1>5. CASE Proposes(m, o)
    BY <1>5, ProposesIs
  <1> QED
    BY <1>3, <1>4, <1>5 DEF BuildsTrust

LEMMA ApproachesIs ==
  ASSUME goal \in Goals, NEW m \in Memo, m.target \in Others, Counts(m), NEW o \in Observation,
         Approaches(m, o)
  PROVE  /\ Machine' /\ Counts(memo') /\ memo'.target = m.target
         /\ \/ /\ state' \in {"APPROACHING", "BUILDING_TRUST"} /\ memo'.proposed = m.proposed
               /\ Harmless
            \/ Offers
            \/ state' = "WAITING" /\ m.proposed /\ memo'.proposed /\ memo'.waiting = 0 /\ Harmless
  <1>1. CASE BuildsTrust(m, o)
    BY <1>1, BuildsTrustIs
  <1>2. CASE memo' = m /\ Decides("APPROACHING", Goal("pursue", m.target), NoAct, o)
    <2>1. Goal("pursue", m.target) \in Goals /\ "APPROACHING" \in States
      BY GoalsAre DEF States
    <2>2. state' = "APPROACHING" /\ goal' \in Goals /\ sent' \in Actions /\ Harmless
      BY <1>2, <2>1, DecidesIs, ActsAre DEF Harmless
    <2> QED
      BY <1>2, <2>1, <2>2 DEF Machine
  <1> QED
    BY <1>1, <1>2 DEF Approaches

(* One who has waited long enough keeps to its mark or lets it go.         *)
LEMMA SlipsAwayIs ==
  ASSUME Machine, NEW m \in Memo, m.target = memo.target, m.proposed = memo.proposed, Counts(m),
         (state = "WAITING" /\ memo.waiting + 1 >= WaitDeadline) \/ Betrays,
         NEW o \in Observation, SlipsAway(m, o)
  PROVE  Machine' /\ Counts(memo') /\ (Unbound \/ Turns)
  <1> USE ActsAre, DecidesIs, GoalsAre DEF Machine
  <1>1. CASE /\ m.target \in InView(o) /\ memo' = m
             /\ Decides("DEFECTING_SILENT", Goal("flee", m.target), NoAct, o)
    <2>1. Goal("flee", m.target) \in Goals /\ "DEFECTING_SILENT" \in States
      BY <1>1 DEF InView, States
    <2>2. /\ state' = "DEFECTING_SILENT" /\ goal' \in Goals /\ sent' \in Actions
          /\ sent'.verb \in {"none", "step"}
      BY <1>1, <2>1
    <2> QED
      BY <1>1, <2>1, <2>2 DEF Turns, SameDeal, Betrays
  <1>2. CASE memo' = Unmarked(m) /\ Decides("SCOUTING", Idle, Roam, o)
    <2>1. memo' \in Memo /\ Counts(memo') /\ "SCOUTING" \in States
      BY <1>2 DEF Unmarked, Memo, Counts, States
    <2> QED
      BY <1>2, <2>1 DEF Unbound, Harmless
  <1> QED
    BY <1>1, <1>2 DEF SlipsAway

LEMMA TurnsOnTheMarkIs ==
  ASSUME Machine, NEW m \in Memo, m.target = memo.target, m.proposed = memo.proposed, Counts(m),
         (state = "WAITING" /\ memo.waiting + 1 >= WaitDeadline) \/ Betrays,
         NEW o \in Observation, TurnsOnTheMark(m, o)
  PROVE  Machine' /\ Counts(memo') /\ (Unbound \/ Turns)
  <1> USE ActsAre, DecidesIs, GoalsAre DEF Machine
  <1>1. {"SCOUTING", "DEFECTING_ACTIVE"} \subseteq States
    BY DEF States
  <1>2. CASE memo' = Unmarked(m) /\ Decides("SCOUTING", goal, NoAct, o)
    <2>1. memo' \in Memo /\ Counts(memo')
      BY <1>2 DEF Unmarked, Memo, Counts
    <2> QED
      BY <1>1, <1>2, <2>1 DEF Unbound, Harmless
  <1>3. CASE /\ m.target \in InView(o) /\ memo' = m
             /\ Decides("DEFECTING_ACTIVE", Goal("pursue", m.target), NoAct, o)
    <2>1. Goal("pursue", m.target) \in Goals
      BY <1>3 DEF InView
    <2>2. /\ state' = "DEFECTING_ACTIVE" /\ goal' \in Goals /\ sent' \in Actions
          /\ sent'.verb \in {"none", "step"}
      BY <1>1, <1>3, <2>1
    <2> QED
      BY <1>1, <1>3, <2>2 DEF Turns, SameDeal, Betrays
  <1>4. CASE /\ m.target \in InView(o) /\ memo' = [m EXCEPT !.spoken = TRUE]
             /\ Decides("DEFECTING_ACTIVE", goal, Act(IF m.spoken THEN "attack" ELSE "warn", m.target), o)
    <2> DEFINE a == Act(IF m.spoken THEN "attack" ELSE "warn", m.target)
    <2>1. a \in Actions /\ a.verb \in {"attack", "warn"} /\ a.target = m.target
      BY <1>4 DEF InView
    <2>2. /\ memo' \in Memo /\ Counts(memo')
          /\ memo'.target = memo.target /\ memo'.proposed = memo.proposed
      BY <1>4 DEF Memo, Counts
    <2>3. Decides("DEFECTING_ACTIVE", goal, a, o)
      BY <1>4
    <2> HIDE DEF a
    <2>4. state' = "DEFECTING_ACTIVE" /\ goal' = goal /\ sent' = a
      BY <1>1, <2>1, <2>3
    <2> QED
      BY <1>1, <2>1, <2>2, <2>4 DEF Turns, SameDeal, Betrays
  <1> QED
    BY <1>2, <1>3, <1>4 DEF TurnsOnTheMark

LEMMA ManipulatorIs ==
  ASSUME Machine, Counts(memo), Marked => memo.target \in Others,
         state = "WAITING" => memo.waiting < WaitDeadline,
         NEW o \in Observation, Manipulator(o)
  PROVE  Machine' /\ Counts(memo') /\ Outcome
  <1> USE DEF Machine
  <1>1. {"FLEEING", "SCOUTING", "WAITING"} \subseteq States
    BY DEF States
  <1>2. CASE ManipulatorFlees(o)
    <2>1. PICK t \in Nearest(Threats(o), o) : Decides("FLEEING", Goal("flee", t), NoAct, o)
      BY <1>2 DEF ManipulatorFlees
    <2>2. t \in Others
      BY NearestIs DEF Threats, Armed, InView
    <2>3. memo' \in Memo /\ Counts(memo')
      BY <1>2, BotConstants DEF ManipulatorFlees, Memo, Counts
    <2>4. Goal("flee", t) \in Goals
      BY <2>2, GoalsAre
    <2> QED
      BY <1>1, <2>1, <2>3, <2>4, DecidesIs, ActsAre DEF Outcome, Unbound, Harmless
  <1>3. CASE ManipulatorCalmsDown(o)
    <2>1. \/ /\ memo.streak + 1 < FleeClear /\ memo' = [memo EXCEPT !.streak = memo.streak + 1]
             /\ Decides("FLEEING", goal, Roam, o)
          \/ memo' = [Unmarked(memo) EXCEPT !.streak = 0] /\ Decides("SCOUTING", goal, Roam, o)
      BY <1>3 DEF ManipulatorCalmsDown
    <2>2. ASSUME memo.streak + 1 < FleeClear, memo' = [memo EXCEPT !.streak = memo.streak + 1]
          PROVE  memo' \in Memo /\ Counts(memo')
      <3>1. memo' \in Memo
        BY <2>2 DEF Memo
      <3> QED
        BY <2>2, <3>1 DEF Memo, Counts
    <2>3. ASSUME memo' = [Unmarked(memo) EXCEPT !.streak = 0]
          PROVE  memo' \in Memo /\ Counts(memo')
      <3>1. Unmarked(memo) \in Memo /\ Counts(Unmarked(memo))
        BY DEF Unmarked, Memo, Counts
      <3>2. memo' \in Memo
        BY <2>3, <3>1 DEF Memo
      <3> QED
        BY <2>3, <3>1, <3>2, BotConstants DEF Memo, Counts
    <2>4. memo' \in Memo /\ Counts(memo')
      BY <2>1, <2>2, <2>3
    <2> QED
      BY <1>1, <2>1, <2>4, DecidesIs, ActsAre DEF Outcome, Unbound, Harmless
  <1>4. ASSUME NEW t \in PickTarget(o), Approaches(Mark(t), o)
        PROVE  Machine' /\ Counts(memo') /\ Outcome
    <2>1. t \in Others
      BY NearestIs DEF PickTarget, InView
    <2>2. Mark(t) \in Memo
      <3>1. [memo EXCEPT !.target = t] \in Memo
        BY <2>1 DEF Memo
      <3>3. \A m \in Memo : [m EXCEPT !.trust = 0] \in Memo
        <4>1. 0 \in 0..2
          OBVIOUS
        <4> QED
          BY <4>1 DEF Memo
      <3>2. \A m \in Memo : [m EXCEPT !.proposed = FALSE, !.waiting = 0] \in Memo
        BY DEF Memo
      <3> QED
        BY <3>1, <3>2, <3>3 DEF Mark
    <2>3. Mark(t).target = t /\ ~Mark(t).proposed
      BY DEF Mark, Memo
    <2>4. Mark(t).streak = memo.streak /\ Mark(t).grudge = memo.grudge /\ Mark(t).waiting = 0
      BY DEF Mark, Memo
    <2>5. Counts(Mark(t))
      BY <2>4, BotConstants DEF Counts
    <2> QED
      BY <1>4, <2>1, <2>2, <2>3, <2>5, ApproachesIs DEF Outcome, Courts
  <1>5. CASE UNCHANGED memo /\ Take(state, "coin", o) /\ state = "SCOUTING"
    <2>1. "coin" \in Things
      BY DEF Things
    <2> QED
      BY <1>1, <1>5, <2>1, TakeIs DEF Outcome, Unbound, Harmless, Quiet
  <1>6. CASE UNCHANGED memo /\ Decides(state, goal, Roam, o) /\ state = "SCOUTING"
    BY <1>1, <1>6, DecidesIs, ActsAre DEF Outcome, Unbound, Harmless
  <1>7. CASE state = "APPROACHING" /\ memo.target \in InView(o) /\ Approaches(memo, o)
    <2>1. memo.target \in Others /\ Marked
      BY <1>7 DEF Marked, InView
    <2> QED
      BY <1>7, <2>1, ApproachesIs DEF Outcome, Courts, BeginsToWait, SameDeal, Memo
  <1>8. CASE state = "APPROACHING" /\ LosesTheMark(o)
    <2>1. memo.target \in Others /\ Marked
      BY <1>8 DEF Marked
    <2>2. CASE UNCHANGED memo /\ Decides(state, Goal("pursue", memo.target), NoAct, o)
      <3>1. Goal("pursue", memo.target) \in Goals
        BY <2>1, GoalsAre
      <3>2. /\ state' = "APPROACHING" /\ goal' \in Goals /\ sent' \in Actions /\ Harmless
        BY <1>8, <2>2, <3>1, DecidesIs, ActsAre DEF Harmless
      <3> QED
        BY <1>8, <2>1, <2>2, <3>2 DEF Outcome, Courts, SameDeal
    <2>3. CASE memo' = Unmarked(memo) /\ Decides("SCOUTING", goal, Roam, o)
      <3>1. memo' \in Memo /\ Counts(memo')
        BY <2>3 DEF Unmarked, Memo, Counts
      <3> QED
        BY <1>1, <2>3, <3>1, DecidesIs, ActsAre DEF Outcome, Unbound, Harmless
    <2> QED
      BY <1>8, <2>2, <2>3 DEF LosesTheMark
  <1>9. CASE GivesUp(o)
    BY <1>1, <1>9, DecidesIs, ActsAre DEF GivesUp, Outcome, Unbound, Harmless
  <1>10. CASE state = "BUILDING_TRUST" /\ memo.target \in InView(o) /\ BuildsTrust(memo, o)
    <2>1. memo.target \in Others /\ Marked
      BY <1>10 DEF Marked, InView
    <2> QED
      BY <1>10, <2>1, BuildsTrustIs DEF Outcome, Courts, BeginsToWait, SameDeal, Memo
  <1>11. CASE state = "PROPOSING" /\ memo.target \in InView(o) /\ Proposes(memo, o)
    <2>1. memo.target \in Others /\ Marked
      BY <1>11 DEF Marked, InView
    <2> QED
      BY <1>11, <2>1, ProposesIs DEF Outcome, BeginsToWait, SameDeal, Memo
  <1>12. CASE state = "WAITING" /\ Waits(o)
    <2> DEFINE n == memo.waiting + 1
               m == [memo EXCEPT !.waiting = n]
    <2>1. m \in Memo /\ m.target = memo.target /\ m.proposed = memo.proposed /\ Counts(m)
      <3>1. n \in Nat /\ n <= WaitDeadline
        BY <1>12, BotConstants DEF Memo
      <3> HIDE DEF n
      <3>2. m \in Memo
        BY <3>1 DEF Memo
      <3>3. m.target = memo.target /\ m.proposed = memo.proposed
        BY DEF Memo
      <3>4. m.waiting = n /\ m.streak = memo.streak /\ m.grudge = memo.grudge
        BY DEF Memo
      <3> QED
        BY <3>1, <3>2, <3>3, <3>4 DEF Counts
    <2>2. CASE n >= WaitDeadline /\ (SlipsAway(m, o) \/ TurnsOnTheMark(m, o))
      <3> HIDE DEF m
      <3> QED
        BY <1>12, <2>1, <2>2, SlipsAwayIs, TurnsOnTheMarkIs DEF Outcome
    <2>3. CASE /\ n < WaitDeadline /\ memo' = m
               /\ Decides("WAITING", goal, IF n % ChatPeriod = 0 THEN Act("speak", Nobody) ELSE Roam, o)
      <3>1. PICK a \in {Act("speak", Nobody), Roam} : Decides("WAITING", goal, a, o)
        BY <2>3
      <3>2. a \in Actions /\ a.verb \in {"speak", "step"}
        BY ActsAre
      <3>3. state' = "WAITING" /\ goal' = goal /\ sent' \in Actions /\ sent'.verb \in {"speak", "none", "step"}
        BY <1>1, <3>1, <3>2, DecidesIs
      <3>4. memo'.waiting = n
        BY <2>3 DEF Memo
      <3> QED
        BY <1>1, <1>12, <2>1, <2>3, <3>3, <3>4 DEF Outcome, WaitsOn, SameDeal, Harmless
    <2> QED
      BY <1>12, <2>2, <2>3 DEF Waits
  <1>13. CASE state = "DEFECTING_SILENT" /\ SlipsAway(memo, o)
    BY <1>13, SlipsAwayIs DEF Betrays, Outcome
  <1>14. CASE state = "DEFECTING_ACTIVE" /\ TurnsOnTheMark(memo, o)
    BY <1>14, TurnsOnTheMarkIs DEF Betrays, Outcome
  <1> QED
    BY <1>2, <1>3, <1>4, <1>5, <1>6, <1>7, <1>8, <1>9, <1>10, <1>11, <1>12, <1>13, <1>14
       DEF Manipulator, Scouts

-----------------------------------------------------------------------------
(* What an archetype does leaves it within its rules.                      *)
Ticked(k, o) ==
  /\ kind = k /\ UNCHANGED <<kind, running, stopped>> /\ nav' \in BOOLEAN /\ Remember(o)
  /\ o \in Observations[kind]

LEMMA PastIs ==
  ASSUME BaseTypeOK, NEW o \in Observation, Remember(o), sent' \in Actions, kind' = kind,
         kind = "manipulator" /\ sent'.verb = "propose" => sent'.target \in Others
  PROVE  past' \in Past
  <1> USE BotConstants DEF BaseTypeOK
  <1>1. CASE kind = "survivor"
    BY <1>1 DEF Remember, Past, Capped
  <1>2. CASE kind = "avenger"
    BY <1>2 DEF Remember, Past, Capped
  <1>3. CASE kind = "manipulator"
    <2>1. CASE sent'.verb = "propose"
      BY <1>3, <2>1 DEF Remember, Past
    <2>2. CASE sent'.verb # "propose"
      <3>1. PICK b \in BOOLEAN :
              past' = [past EXCEPT !.since = Capped(past.since, WaitDeadline), !.warned = b]
        <4>1. (past.warned \/ sent'.verb = "warn") \in BOOLEAN
          OBVIOUS
        <4> QED
          BY <1>3, <2>2, <4>1 DEF Remember
      <3>2. Capped(past.since, WaitDeadline) \in Nat
        BY DEF Capped, Past
      <3> QED
        BY <3>1, <3>2 DEF Past
    <2> QED
      BY <2>1, <2>2
  <1>4. CASE kind \notin {"survivor", "avenger", "manipulator"}
    BY <1>4 DEF Remember
  <1> QED
    BY <1>1, <1>2, <1>3, <1>4

LEMMA SurvivorKeeps ==
  ASSUME BInv, NEW o, Ticked("survivor", o), Survivor(o)
  PROVE  BInv'
  <1>1. o \in Observation /\ past \in Past /\ memo \in Memo /\ kind = "survivor" /\ kind' = kind
    BY BotConstants DEF Ticked, Kinds, BInv, BotsSafe, TypeOK, BaseTypeOK
  <1>2. memo.streak <= ClearTicks
    BY <1>1 DEF BInv, BotsSafe, TypeOK, CountersBounded
  <1>3. /\ Machine' /\ Memory({"streak"}) /\ memo'.streak <= ClearTicks
        /\ \/ /\ Wary(o) # {} /\ state' = "FLEEING" /\ memo'.streak = 0
              /\ sent'.verb \in {"none", "step"}
           \/ /\ Wary(o) = {} /\ state = "FLEEING" /\ memo.streak + 1 < ClearTicks
              /\ state' = "FLEEING" /\ memo'.streak = memo.streak + 1
              /\ sent'.verb \in {"none", "step"}
           \/ Wary(o) = {} /\ (state = "FLEEING" => memo.streak + 1 >= ClearTicks)
    BY <1>1, <1>2, MachineIs, SurvivorIs
  <1>4. past'.clear = IF Wary(o) # {} THEN 0 ELSE IF past.clear < ClearTicks THEN past.clear + 1 ELSE ClearTicks
    BY <1>1 DEF Ticked, Remember, Past, Capped
  <1>5. past' \in Past
    BY <1>1, <1>3, PastIs DEF Ticked, Machine, BInv, BotsSafe, TypeOK
  <1>6. BaseTypeOK'
    BY <1>1, <1>3, <1>5 DEF Ticked, Machine, BaseTypeOK, BInv, BotsSafe, TypeOK
  <1>7. CountersBounded'
    BY <1>1, <1>3 DEF Memory, CountersBounded, BInv, BotsSafe, TypeOK
  <1>8. past.clear < ClearTicks => state = "FLEEING" /\ memo.streak = past.clear
    BY <1>1 DEF BInv, Wariness
  <1>9. past.clear \in Nat /\ memo.streak \in Nat
    BY <1>1 DEF Past, Memo
  <1>10. past'.clear < ClearTicks =>
           state' = "FLEEING" /\ memo'.streak = past'.clear /\ sent'.verb \in {"none", "step"}
    BY <1>3, <1>4, <1>8, <1>9, BotConstants
  <1> QED
    BY <1>1, <1>6, <1>7, <1>10
       DEF BInv, BotsSafe, TypeOK, SurvivorStaysWary, OnlyTheGuilty, BetraysAfterTheWait,
           Wariness, Guilt, Offer

LEMMA AvengerKeeps ==
  ASSUME BInv, NEW o, Ticked("avenger", o), Avenger(o)
  PROVE  BInv'
  <1>1. o \in Observation /\ past \in Past /\ memo \in Memo /\ kind = "avenger" /\ kind' = kind
    BY BotConstants DEF Ticked, Kinds, BInv, BotsSafe, TypeOK, BaseTypeOK
  <1>2. memo.grudge <= GrudgeTTL /\ memo.grudge \in Nat
    BY <1>1 DEF BInv, BotsSafe, TypeOK, CountersBounded, Memo
  <1>3. state = "AVENGING" =>
          /\ memo.target \in Others /\ memo.grudge # 0
          /\ past.blame[memo.target] + memo.grudge <= GrudgeTTL
    BY <1>1 DEF BInv, Guilt
  <1>4. /\ Machine' /\ Memory({"grudge"}) /\ memo'.grudge <= GrudgeTTL
        /\ state' = "AVENGING" => NewGrudge(o) \/ OldGrudge
        /\ sent'.verb = "attack" => state' = "AVENGING" /\ sent'.target = memo'.target
    BY <1>1, <1>2, <1>3, MachineIs, AvengerIs
  <1>5. past'.blame = [z \in Others |-> IF z \in o.kills \/ z \in InView(o) \cap o.infamous THEN 0
                                        ELSE Capped(past.blame[z], GrudgeTTL)]
    BY <1>1 DEF Ticked, Remember, Past
  <1>6. past' \in Past
    BY <1>1, <1>4, PastIs DEF Ticked, Machine, BInv, BotsSafe, TypeOK
  <1>7. BaseTypeOK'
    BY <1>1, <1>4, <1>6 DEF Ticked, Machine, BaseTypeOK, BInv, BotsSafe, TypeOK
  <1>8. CountersBounded'
    BY <1>1, <1>4 DEF Memory, CountersBounded, BInv, BotsSafe, TypeOK
  <1>9. state' = "AVENGING" =>
          /\ memo'.target \in Others /\ memo'.grudge # 0
          /\ past'.blame[memo'.target] + memo'.grudge <= GrudgeTTL
    <2>1. ASSUME NewGrudge(o)
          PROVE  /\ memo'.target \in Others /\ memo'.grudge # 0
                 /\ past'.blame[memo'.target] + memo'.grudge <= GrudgeTTL
      <3>1. memo'.target \in Others /\ (memo'.target \in o.kills \/ memo'.target \in InView(o) \cap o.infamous)
        BY <1>1, <2>1 DEF NewGrudge, Witnessed, InView, Observation
      <3>2. past'.blame[memo'.target] = 0
        BY <1>5, <3>1
      <3> QED
        BY <2>1, <3>1, <3>2, BotConstants DEF NewGrudge
    <2>2. ASSUME OldGrudge
          PROVE  /\ memo'.target \in Others /\ memo'.grudge # 0
                 /\ past'.blame[memo'.target] + memo'.grudge <= GrudgeTTL
      <3>1. /\ memo'.target = memo.target /\ memo'.grudge = memo.grudge - 1 /\ memo.grudge # 1
            /\ memo.target \in Others /\ past.blame[memo.target] + memo.grudge <= GrudgeTTL
            /\ memo.grudge # 0
        BY <1>3, <2>2 DEF OldGrudge
      <3>2. past.blame[memo.target] \in Nat
        BY <1>1, <3>1 DEF Past
      <3>3. \/ past'.blame[memo.target] = 0
            \/ past'.blame[memo.target] = past.blame[memo.target] + 1
        BY <1>2, <1>5, <3>1, <3>2, BotConstants DEF Capped
      <3> QED
        BY <1>2, <3>1, <3>2, <3>3, BotConstants
    <2> QED
      BY <1>4, <2>1, <2>2
  <1>10. memo'.target \in Others => past'.blame[memo'.target] \in Nat
    BY <1>6 DEF Past
  <1>11. state' = "AVENGING" => past'.blame[memo'.target] < GrudgeTTL
    <2>1. memo'.grudge \in Nat
      BY <1>4 DEF Machine, Memo
    <2> QED
      BY <1>9, <1>10, <2>1, BotConstants
  <1> QED
    BY <1>1, <1>4, <1>7, <1>8, <1>9, <1>11
       DEF BInv, BotsSafe, TypeOK, SurvivorStaysWary, OnlyTheGuilty, BetraysAfterTheWait,
           Wariness, Guilt, Offer

LEMMA ManipulatorKeeps ==
  ASSUME BInv, NEW o, Ticked("manipulator", o), Manipulator(o)
  PROVE  BInv'
  <1>1. o \in Observation /\ past \in Past /\ memo \in Memo /\ kind = "manipulator" /\ kind' = kind
    BY BotConstants DEF Ticked, Kinds, BInv, BotsSafe, TypeOK, BaseTypeOK
  <1>2. Counts(memo)
    <2>1. memo.streak <= FleeClear - 1 /\ memo.grudge <= GrudgeTTL /\ memo.waiting <= WaitDeadline
      BY <1>1 DEF BInv, BotsSafe, TypeOK, CountersBounded
    <2> QED
      BY <1>1, <2>1, BotConstants DEF Memo, Counts
  <1>3. /\ Marked => memo.target \in Others
        /\ Marked /\ memo.proposed => past.offered = memo.target
        /\ state = "WAITING" \/ Betrays => memo.proposed
        /\ state = "WAITING" => memo.waiting <= past.since /\ memo.waiting < WaitDeadline
        /\ Betrays => past.since >= WaitDeadline
    BY <1>1 DEF BInv, Offer
  <1>4. Machine' /\ Counts(memo') /\ Outcome
    BY <1>1, <1>2, <1>3, MachineIs, ManipulatorIs
  <1>5. sent'.verb = "propose" => Offers
    BY <1>4 DEF Outcome, Unbound, Courts, BeginsToWait, WaitsOn, Turns, Harmless
  <1>6. past' \in Past
    BY <1>1, <1>4, <1>5, PastIs DEF Offers, Ticked, Machine, BInv, BotsSafe, TypeOK
  <1>7. IF sent'.verb = "propose" THEN past'.offered = sent'.target
        ELSE past'.offered = past.offered /\ past'.since = Capped(past.since, WaitDeadline)
    BY <1>1 DEF Ticked, Remember, Past
  <1>8. BaseTypeOK'
    BY <1>1, <1>4, <1>6 DEF Ticked, Machine, BaseTypeOK, BInv, BotsSafe, TypeOK
  <1>9. memo' \in Memo /\ past.since \in Nat /\ past'.since \in Nat
    BY <1>1, <1>4, <1>6 DEF Machine, Past
  <1>10. CountersBounded'
    BY <1>1, <1>4, <1>9, BotConstants DEF Memo, Counts, CountersBounded
  <1>11. Marked' => memo'.target \in Others
    BY <1>3, <1>4 DEF Outcome, Unbound, Courts, Offers, BeginsToWait, WaitsOn, Turns, SameDeal,
                      Marked, Betrays
  <1>12. Marked' /\ memo'.proposed => past'.offered = memo'.target
    BY <1>3, <1>4, <1>7
       DEF Outcome, Unbound, Courts, Offers, BeginsToWait, WaitsOn, Turns, SameDeal, Harmless,
           Marked, Betrays
  <1>13. state' = "WAITING" \/ Betrays' => memo'.proposed
    BY <1>3, <1>4 DEF Outcome, Unbound, Courts, Offers, BeginsToWait, WaitsOn, Turns, SameDeal,
                      Betrays
  <1>14. sent'.verb # "propose" =>
           past'.since = IF past.since < WaitDeadline THEN past.since + 1 ELSE WaitDeadline
    BY <1>7 DEF Capped
  <1>15. state' = "WAITING" => memo'.waiting <= past'.since /\ memo'.waiting < WaitDeadline
    <2>1. CASE BeginsToWait
      BY <1>9, <2>1, BotConstants DEF BeginsToWait
    <2>2. CASE WaitsOn
      <3>1. /\ memo'.waiting = memo.waiting + 1 /\ memo.waiting + 1 < WaitDeadline
            /\ memo.waiting <= past.since /\ sent'.verb # "propose"
        BY <1>3, <2>2 DEF WaitsOn, Harmless
      <3>2. memo.waiting \in Nat
        BY <1>1 DEF Memo
      <3> QED
        BY <1>9, <1>14, <3>1, <3>2, BotConstants
    <2> QED
      BY <1>4, <2>1, <2>2 DEF Outcome, Unbound, Courts, Offers, Turns, Betrays
  <1>16. Betrays' => past'.since >= WaitDeadline
    <2>1. CASE Turns
      <3>1. /\ \/ state = "WAITING" /\ memo.waiting + 1 >= WaitDeadline /\ memo.waiting <= past.since
               \/ past.since >= WaitDeadline
            /\ sent'.verb # "propose"
        BY <1>3, <2>1 DEF Turns
      <3>2. memo.waiting \in Nat
        BY <1>1 DEF Memo
      <3> QED
        BY <1>9, <1>14, <3>1, <3>2, BotConstants
    <2> QED
      BY <1>4, <2>1 DEF Outcome, Unbound, Courts, Offers, BeginsToWait, WaitsOn, Betrays
  <1>17. sent'.verb = "attack" => sent'.target = past'.offered /\ past'.since >= WaitDeadline
    <2>1. sent'.verb = "attack" => Turns
      BY <1>4 DEF Outcome, Unbound, Courts, Offers, BeginsToWait, WaitsOn, Harmless
    <2>2. Turns => Betrays' /\ Marked' /\ memo'.proposed /\ memo'.target = memo.target
      BY <1>13 DEF Turns, Marked, Betrays, SameDeal
    <2> QED
      BY <1>12, <1>16, <2>1, <2>2 DEF Turns
  <1> QED
    BY <1>1, <1>8, <1>10, <1>11, <1>12, <1>13, <1>15, <1>16, <1>17
       DEF BInv, BotsSafe, TypeOK, SurvivorStaysWary, OnlyTheGuilty, BetraysAfterTheWait,
           Wariness, Guilt, Offer

(* The others have nothing to keep but their types.                        *)
LEMMA OthersKeep ==
  ASSUME BInv, NEW k \in {"scavenger", "killer", "wanderer"}, NEW o, Ticked(k, o),
         Scavenger(o) \/ Killer(o) \/ Wanderer(o)
  PROVE  BInv'
  <1>1. o \in Observation /\ kind = k /\ kind' = kind
    BY BotConstants DEF Ticked, Kinds, BInv, BotsSafe, TypeOK, BaseTypeOK
  <1>2. Machine' /\ Memory({})
    BY <1>1, MachineIs, ScavengerIs, KillerIs, WandererIs
  <1>3. past' \in Past
    BY <1>1, <1>2, PastIs DEF Ticked, Machine, BInv, BotsSafe, TypeOK
  <1>4. BaseTypeOK'
    BY <1>1, <1>2, <1>3 DEF Ticked, Machine, BaseTypeOK, BInv, BotsSafe, TypeOK
  <1>5. CountersBounded'
    BY <1>1, <1>2 DEF Memory, CountersBounded, BInv, BotsSafe, TypeOK
  <1> QED
    BY <1>1, <1>4, <1>5
       DEF BInv, BotsSafe, TypeOK, SurvivorStaysWary, OnlyTheGuilty, BetraysAfterTheWait,
           Wariness, Guilt, Offer

(* Every step of a bot keeps to the rules.                                 *)
LEMMA BotKeeps == BInv /\ [Next]_vars => BInv'
  <1> SUFFICES ASSUME BInv, [Next]_vars PROVE BInv'
    OBVIOUS
  <1>1. nav \in BOOLEAN /\ kind \in Kinds
    BY DEF BInv, BotsSafe, TypeOK, BaseTypeOK
  <1>2. FetchesNav => nav' \in BOOLEAN
    BY <1>1 DEF FetchesNav
  <1>3. CASE SurvivorTick
    BY <1>2, <1>3, SurvivorKeeps DEF SurvivorTick, Tick, Ticked
  <1>4. CASE AvengerTick
    BY <1>2, <1>4, AvengerKeeps DEF AvengerTick, Tick, Ticked
  <1>5. CASE ManipulatorTick
    BY <1>2, <1>5, ManipulatorKeeps DEF ManipulatorTick, Tick, Ticked
  <1>6. CASE ScavengerTick
    BY <1>2, <1>6, OthersKeep DEF ScavengerTick, Tick, Ticked
  <1>7. CASE KillerTick
    BY <1>2, <1>7, OthersKeep DEF KillerTick, Tick, Ticked
  <1>8. CASE WandererTick
    BY <1>2, <1>8, OthersKeep DEF WandererTick, Tick, Ticked
  <1>9. CASE Stop \/ Leave \/ UNCHANGED vars
    <2>1. UNCHANGED <<kind, state, memo, goal, sent, past, nav>> /\ running' \in BOOLEAN /\ stopped' \in BOOLEAN
      BY <1>9 DEF Stop, Leave, vars, machine, BInv, BotsSafe, TypeOK, BaseTypeOK
    <2> QED
      BY <2>1 DEF BInv, BotsSafe, TypeOK, BaseTypeOK, CountersBounded, SurvivorStaysWary,
                  OnlyTheGuilty, BetraysAfterTheWait, Wariness, Guilt, Offer, Marked, Betrays
  <1> QED
    BY <1>3, <1>4, <1>5, <1>6, <1>7, <1>8, <1>9 DEF Next, DoTick

(* For any others, observations and deadlines, over any sequence of        *)
(* observations: a survivor does nothing but move for ClearTicks           *)
(* observations after a threat (survivor.py), an avenger hunts and strikes *)
(* nobody but one named guilty less than GrudgeTTL observations ago        *)
(* (avenger.py), a manipulator strikes nobody but the one it made its      *)
(* offer to and not before the wait is over (manipulator.py).              *)
THEOREM BotsKeepToTheirRules == Init /\ [][Next]_vars => []BotsSafe
  <1>1. BInv => BotsSafe
    BY DEF BInv
  <1> QED
    BY <1>1, BotStarts, BotKeeps, PTL

-----------------------------------------------------------------------------
(* The walk. *)

(* While it searches, a walker has the way of no step to where it stands,  *)
(* and it is not there yet; else the search is empty.                      *)
Searching ==
  IF pc = "search"
  THEN mode # "flee" /\ ~Reached(here) /\ here \in DOMAIN path /\ path[here] = <<here>>
  ELSE heap = {} /\ path = << >> /\ blocked = {}

(* No way crosses itself, and to each tile on a way the search knows one   *)
(* that is no longer than that part of it.                                 *)
Simple ==
  \A p \in DOMAIN path :
    /\ \A i \in 1..Len(path[p]) : path[p][i] \in DOMAIN path /\ Len(path[path[p][i]]) <= i
    /\ \A i, j \in 1..Len(path[p]) : path[p][i] = path[p][j] => i = j

(* An entry of the heap may be stale, with a longer way than is known now. *)
Entries ==
  \A e \in heap :
    /\ e[3] \in DOMAIN path /\ e[2] + 1 >= Len(path[e[3]])
    /\ e[1] <= e[2] + Manhattan(e[3], target)
    /\ e[3] # here => e[1] = e[2] + Manhattan(e[3], target)

(* A tile with a way is still to be expanded, or is not the goal and its   *)
(* neighbours have ways that are at most a step longer.                    *)
Open(p) == \E e \in heap : e[3] = p /\ e[2] + 1 = Len(path[p])
Done(p) ==
  /\ ~Reached(p)
  /\ \A q \in Neighbours(p) :
       Enters(q, blocked) => q \in DOMAIN path /\ Len(path[q]) <= Len(path[p]) + 1
Frontier == \A p \in DOMAIN path : Open(p) \/ Done(p)

WInv == NavTypeOK /\ PathsAreWays /\ Searching /\ Simple /\ Entries /\ Frontier

-----------------------------------------------------------------------------
(* The room is finite, and Manhattan a distance in it that no step changes *)
(* by more than one.                                                       *)
LEMMA RoomIs ==
  /\ Width \in Nat \ {0} /\ Height \in Nat \ {0} /\ Rooms \subseteq SUBSET Tiles
  /\ Starts \subseteq Tiles /\ Bounds \subseteq Nat
  BY NavAssumption DEF NavAssumption

LEMMA TilesAre == \A p \in Tiles : p = <<p[1], p[2]>> /\ p[1] \in Int /\ p[2] \in Int
  BY RoomIs DEF Tiles

LEMMA DistanceIs ==
  \A p, q \in Tiles : Manhattan(p, q) \in Nat /\ Manhattan(p, p) = 0
  <1> SUFFICES ASSUME NEW p \in Tiles, NEW q \in Tiles
               PROVE  Manhattan(p, q) \in Nat /\ Manhattan(p, p) = 0
    OBVIOUS
  <1>1. p[1] \in Int /\ p[2] \in Int /\ q[1] \in Int /\ q[2] \in Int
    BY TilesAre
  <1> QED
    BY <1>1 DEF Manhattan, Abs

LEMMA NeighbourIs ==
  ASSUME NEW p \in Tiles, NEW q \in Neighbours(p), NEW r \in Tiles
  PROVE  q \in Tiles \ walls /\ Manhattan(r, q) <= Manhattan(r, p) + 1
  <1>1. q \in Tiles \ walls
    BY DEF Neighbours
  <1>2. PICK i \in 1..4 : q = Moved(p, Dirs[i])
    BY DEF Neighbours
  <1>3. \/ q[1] = p[1] /\ (q[2] = p[2] - 1 \/ q[2] = p[2] + 1)
        \/ q[2] = p[2] /\ (q[1] = p[1] - 1 \/ q[1] = p[1] + 1)
    <2>1. p[1] \in Int /\ p[2] \in Int
      BY TilesAre
    <2>2. i = 1 \/ i = 2 \/ i = 3 \/ i = 4
      OBVIOUS
    <2> QED
      BY <1>2, <2>1, <2>2 DEF Moved, Dirs
  <1>4. p[1] \in Int /\ p[2] \in Int /\ q[1] \in Int /\ q[2] \in Int /\ r[1] \in Int /\ r[2] \in Int
    BY <1>1, TilesAre
  <1> QED
    BY <1>1, <1>3, <1>4 DEF Manhattan, Abs

LEMMA RoomIsFinite == IsFiniteSet(Tiles) /\ Cardinality(Tiles) = Width * Height
  <1>1. /\ IsFiniteSet(0..Width-1) /\ Cardinality(0..Width-1) = Width
        /\ IsFiniteSet(0..Height-1) /\ Cardinality(0..Height-1) = Height
    BY RoomIs, FS_Interval
  <1> DEFINE X == 0..Width-1
             Y == 0..Height-1
  <1>2. Tiles = X \X Y
    BY DEF Tiles
  <1> HIDE DEF X, Y
  <1>3. IsFiniteSet(X) /\ IsFiniteSet(Y) /\ Cardinality(X) = Width /\ Cardinality(Y) = Height
    BY <1>1 DEF X, Y
  <1>4. IsFiniteSet(X \X Y) /\ Cardinality(X \X Y) = Cardinality(X) * Cardinality(Y)
    BY <1>3, FS_Product, Zenon
  <1> QED BY <1>2, <1>3, <1>4, Zenon

-----------------------------------------------------------------------------
(* The function that Ball is.                                              *)
Further(p, avoid, ball) == {p} \cup ((UNION {Neighbours(q) \cup {q} : q \in ball}) \ avoid)
Spreads(p, avoid, m, g) ==
  g = [n \in 0..m |-> IF n = 0 THEN {p} ELSE Further(p, avoid, g[n-1])]

LEMMA BallIs == \A p, avoid : Ball(p, avoid) = CHOOSE g : Spreads(p, avoid, Width * Height, g)
  BY DEF Ball, Spreads, Further

(* It exists, as each of its parts does.                                   *)
LEMMA BallGrows ==
  ASSUME NEW p, NEW avoid, NEW m \in Nat, \E g : Spreads(p, avoid, m, g)
  PROVE  \E g : Spreads(p, avoid, m + 1, g)
  <1>1. PICK f : Spreads(p, avoid, m, f)
    OBVIOUS
  <1> DEFINE g == [n \in 0..m+1 |-> IF n = m + 1 THEN Further(p, avoid, f[m]) ELSE f[n]]
  <1>2. \A n \in 0..m : f[n] = IF n = 0 THEN {p} ELSE Further(p, avoid, f[n-1])
    BY <1>1 DEF Spreads
  <1>3. \A n \in 0..m+1 : g[n] = IF n = 0 THEN {p} ELSE Further(p, avoid, g[n-1])
    <2> SUFFICES ASSUME NEW n \in 0..m+1
                 PROVE  g[n] = IF n = 0 THEN {p} ELSE Further(p, avoid, g[n-1])
      OBVIOUS
    <2>1. CASE n = m + 1
      <3>1. n # 0 /\ n - 1 = m /\ m \in 0..m+1 /\ m # m + 1
        BY <2>1
      <3>2. g[n] = Further(p, avoid, f[m]) /\ g[n-1] = f[m]
        BY <2>1, <3>1
      <3> QED
        BY <3>1, <3>2
    <2>2. CASE n # m + 1
      <3>1. n \in 0..m /\ g[n] = f[n]
        BY <2>2
      <3>2. n # 0 => n - 1 \in 0..m+1 /\ n - 1 # m + 1 /\ g[n-1] = f[n-1]
        BY <3>1
      <3> QED
        BY <1>2, <3>1, <3>2
    <2> QED
      BY <2>1, <2>2
  <1>4. g = [n \in 0..m+1 |-> g[n]]
    OBVIOUS
  <1> HIDE DEF g
  <1>5. Spreads(p, avoid, m + 1, g)
    BY <1>3, <1>4 DEF Spreads
  <1> QED
    BY <1>5

LEMMA BallExists ==
  ASSUME NEW p, NEW avoid, NEW k \in Nat
  PROVE  \E g : Spreads(p, avoid, k, g)
  <1> DEFINE Bad == {m \in Nat : ~\E g : Spreads(p, avoid, m, g)}
  <1> SUFFICES ASSUME Bad # {} PROVE FALSE
    OBVIOUS
  <1>1. PICK m \in Bad : \A n \in Bad : m <= n
    <2>1. IsWellFoundedOn(OpToRel(<, Nat), Nat)
      BY NatLessThanWellFounded
    <2>2. PICK m \in Bad : \A n \in Bad : <<n, m>> \notin OpToRel(<, Nat)
      BY <2>1, WFMin
    <2>3. \A n \in Bad : ~(n < m)
      BY <2>2, Zenon DEF OpToRel
    <2> QED
      BY <2>3
  <1>2. m # 0
    <2>1. Spreads(p, avoid, 0, [n \in 0..0 |-> {p}])
      <3>1. \A n \in 0..0 : n = 0
        OBVIOUS
      <3> QED
        BY <3>1 DEF Spreads
    <2> QED
      BY <2>1
  <1>3. m - 1 \in Nat /\ m - 1 \notin Bad
    BY <1>1, <1>2
  <1> QED
    BY <1>3, BallGrows

(* So a ball holds its centre, and then all that is a step further.        *)
LEMMA BallHas ==
  ASSUME NEW p, NEW avoid
  PROVE  /\ Ball(p, avoid)[0] = {p}
         /\ \A n \in 1..Width * Height : Ball(p, avoid)[n] = Further(p, avoid, Ball(p, avoid)[n-1])
  <1> DEFINE b == Ball(p, avoid)
  <1>1. Width * Height \in Nat
    BY RoomIs
  <1>2. Spreads(p, avoid, Width * Height, b)
    BY <1>1, BallIs, BallExists
  <1> HIDE DEF b
  <1>3. b[0] = {p}
    BY <1>1, <1>2 DEF Spreads
  <1>4. \A n \in 1..Width * Height : b[n] = Further(p, avoid, b[n-1])
    <2>1. PICK N \in Nat : N = Width * Height
      BY <1>1
    <2>2. b = [n \in 0..N |-> IF n = 0 THEN {p} ELSE Further(p, avoid, b[n-1])]
      BY <1>2, <2>1 DEF Spreads
    <2>3. \A n \in 1..N : n \in 0..N /\ n # 0
      OBVIOUS
    <2>4. \A n \in 1..N : b[n] = Further(p, avoid, b[n-1])
      BY <2>2, <2>3, Zenon
    <2> QED
      BY <2>1, <2>4
  <1> QED
    BY <1>3, <1>4 DEF b
-----------------------------------------------------------------------------
(* The parts of the type of a state.                                       *)
LEMMA WalkTypes ==
  ASSUME NavTypeOK
  PROVE  /\ walls \subseteq Tiles /\ target \in Tiles /\ here \in Tiles \ walls
         /\ DOMAIN path \subseteq Tiles \ walls
         /\ \A p \in DOMAIN path : path[p] \in Seq(Tiles \ walls) /\ Len(path[p]) \in Nat
         /\ \A e \in heap : e \in Int \X Nat \X Tiles /\ e[1] \in Int /\ e[2] \in Nat /\ e[3] \in Tiles
  BY RoomIs DEF NavTypeOK

(* Whatever is within n steps is known to be, or an entry of the heap is   *)
(* as good as on the way to it.                                            *)
WithinReach(q, n) ==
  \/ q \in DOMAIN path /\ Len(path[q]) <= n + 1
  \/ \E e \in heap : /\ e[3] \in DOMAIN path /\ e[2] + 1 = Len(path[e[3]])
                     /\ e[2] + Manhattan(e[3], q) <= n

LEMMA NextWithinReach ==
  ASSUME NavTypeOK, Frontier, NEW n \in Nat, NEW q \in Tiles, WithinReach(q, n),
         NEW r \in Neighbours(q) \cup {q}, r \notin blocked
  PROVE  WithinReach(r, n + 1)
  <1> USE WalkTypes
  <1>1. CASE r = q
    <2>1. CASE q \in DOMAIN path /\ Len(path[q]) <= n + 1
      BY <1>1, <2>1 DEF WithinReach
    <2>2. ASSUME NEW e \in heap, e[3] \in DOMAIN path, e[2] + 1 = Len(path[e[3]]),
                 e[2] + Manhattan(e[3], q) <= n
          PROVE  WithinReach(r, n + 1)
      <3>1. Manhattan(e[3], q) \in Nat /\ e[2] \in Nat
        BY DistanceIs
      <3>2. e[2] + Manhattan(e[3], r) <= n + 1
        BY <1>1, <2>2, <3>1
      <3> QED
        BY <2>2, <3>2 DEF WithinReach
    <2> QED
      BY <2>1, <2>2 DEF WithinReach
  <1>2. CASE r \in Neighbours(q)
    <2>1. r \in Tiles
      BY <1>2, NeighbourIs
    <2>2. ASSUME q \in DOMAIN path, Len(path[q]) <= n + 1, Done(q)
          PROVE  WithinReach(r, n + 1)
      <3>1. Enters(r, blocked)
        BY DEF Enters
      <3>2. r \in DOMAIN path /\ Len(path[r]) <= Len(path[q]) + 1
        BY <1>2, <2>2, <3>1 DEF Done
      <3> QED
        BY <2>2, <3>2 DEF WithinReach
    <2>3. ASSUME q \in DOMAIN path, Len(path[q]) <= n + 1, Open(q)
          PROVE  WithinReach(r, n + 1)
      <3>1. PICK e \in heap : e[3] = q /\ e[2] + 1 = Len(path[q])
        BY <2>3 DEF Open
      <3>2. Manhattan(q, r) <= 1 /\ Manhattan(q, r) \in Nat
        BY <1>2, <2>1, NeighbourIs, DistanceIs
      <3>3. e[2] + Manhattan(e[3], r) <= n + 1
        BY <2>3, <3>1, <3>2
      <3> QED
        BY <2>3, <3>1, <3>3 DEF WithinReach
    <2>4. ASSUME NEW e \in heap, e[3] \in DOMAIN path, e[2] + 1 = Len(path[e[3]]),
                 e[2] + Manhattan(e[3], q) <= n
          PROVE  WithinReach(r, n + 1)
      <3>1. Manhattan(e[3], r) <= Manhattan(e[3], q) + 1
        BY <1>2, NeighbourIs
      <3>2. Manhattan(e[3], r) \in Nat /\ Manhattan(e[3], q) \in Nat /\ e[2] \in Nat
        BY <2>1, DistanceIs
      <3>3. e[2] + Manhattan(e[3], r) <= n + 1
        BY <2>4, <3>1, <3>2
      <3> QED
        BY <2>4, <3>3 DEF WithinReach
    <2> QED
      BY <2>2, <2>3, <2>4 DEF WithinReach, Frontier
  <1> QED
    BY <1>1, <1>2

LEMMA BallIsWithinReach ==
  ASSUME WInv, pc = "search", NEW n \in 0..Width * Height
  PROVE  \A q \in Ball(here, blocked)[n] : q \in Tiles /\ WithinReach(q, n)
  <1> DEFINE b == Ball(here, blocked)
             Good(m) == \A q \in b[m] : q \in Tiles /\ WithinReach(q, m)
             Bad == {m \in 0..Width * Height : ~Good(m)}
  <1> USE DEF WInv
  <1>1. Width * Height \in Nat
    BY RoomIs
  <1>2. /\ b[0] = {here}
        /\ \A m \in 1..Width * Height : b[m] = Further(here, blocked, b[m-1])
    BY BallHas
  <1> HIDE DEF b
  <1>3. Good(0)
    <2>1. here \in Tiles /\ here \in DOMAIN path /\ path[here] = <<here>>
      BY WalkTypes DEF Searching
    <2>2. Len(path[here]) <= 0 + 1
      BY <2>1
    <2>3. WithinReach(here, 0)
      BY <2>1, <2>2 DEF WithinReach
    <2> QED
      BY <1>2, <2>1, <2>3
  <1>4. \A m \in 1..Width * Height : Good(m - 1) => Good(m)
    <2> SUFFICES ASSUME NEW m \in 1..Width * Height, Good(m - 1), NEW q \in b[m]
                 PROVE  q \in Tiles /\ WithinReach(q, m)
      OBVIOUS
    <2>1. m - 1 \in Nat /\ m \in Nat /\ (m - 1) + 1 = m
      BY <1>1
    <2>2. b[m] = Further(here, blocked, b[m-1])
      BY <1>2
    <2>3. q = here \/ \E r \in b[m-1] : q \in Neighbours(r) \cup {r} /\ q \notin blocked
      BY <2>2 DEF Further
    <2>4. CASE q = here
      <3>1. here \in Tiles /\ here \in DOMAIN path /\ path[here] = <<here>>
        BY WalkTypes DEF Searching
      <3>2. Len(path[here]) <= m + 1
        BY <2>1, <3>1
      <3> QED
        BY <2>4, <3>1, <3>2 DEF WithinReach
    <2>5. ASSUME NEW r \in b[m-1], q \in Neighbours(r) \cup {r}, q \notin blocked
          PROVE  q \in Tiles /\ WithinReach(q, m)
      <3>1. r \in Tiles /\ WithinReach(r, m - 1)
        OBVIOUS
      <3>2. q \in Tiles
        BY <2>5, <3>1, NeighbourIs
      <3>3. WithinReach(q, (m - 1) + 1)
        BY <2>1, <2>5, <3>1, NextWithinReach
      <3> QED
        BY <2>1, <3>2, <3>3
    <2> QED
      BY <2>3, <2>4, <2>5
  <1> HIDE DEF Good
  <1>5. Bad = {}
    <2> SUFFICES ASSUME Bad # {} PROVE FALSE
      OBVIOUS
    <2>1. PICK N \in Nat : N = Width * Height
      BY <1>1
    <2>2. Bad \subseteq Nat
      BY <2>1
    <2>3. PICK m \in Bad : \A k \in Bad : m <= k
      <3>1. IsWellFoundedOn(OpToRel(<, Nat), Nat)
        BY NatLessThanWellFounded
      <3>2. PICK m \in Bad : \A k \in Bad : <<k, m>> \notin OpToRel(<, Nat)
        BY <2>2, <3>1, WFMin
      <3>3. \A k \in Bad : ~(k < m)
        BY <2>2, <3>2, Zenon DEF OpToRel
      <3> QED
        BY <2>2, <3>3
    <2>4. m \in 0..N /\ ~Good(m)
      BY <2>1, <2>3
    <2>5. m # 0
      BY <1>3, <2>4
    <2>6. m \in 1..N /\ m - 1 \in 0..N /\ ~(m <= m - 1)
      BY <2>4, <2>5
    <2>7. Good(m - 1)
      BY <2>1, <2>3, <2>6
    <2> QED
      BY <1>4, <2>1, <2>4, <2>6, <2>7
  <1> QED
    BY <1>5 DEF Good, b
-----------------------------------------------------------------------------
(* A way that does not cross itself is no longer than the room has tiles.  *)
LEMMA WaysAreShort ==
  ASSUME WInv, NEW p \in DOMAIN path
  PROVE  Len(path[p]) <= Width * Height
  <1>1. path[p] \in Seq(Tiles) /\ Len(path[p]) \in Nat
    BY WalkTypes DEF WInv
  <1>2. \A i, j \in 1..Len(path[p]) : path[p][i] = path[p][j] => i = j
    BY DEF WInv, Simple
  <1>3. path[p] \in Injection(1..Len(path[p]), Tiles)
    BY <1>1, <1>2 DEF Injection, IsInjective
  <1>4. Cardinality(1..Len(path[p])) <= Cardinality(Tiles)
    BY <1>3, RoomIsFinite, FS_Injection
  <1>5. Cardinality(1..Len(path[p])) = Len(path[p])
    <2>1. \A k \in Nat : Cardinality(1..k) = k
      BY FS_Interval
    <2> QED
      BY <1>1, <2>1
  <1> QED
    BY <1>4, <1>5, RoomIsFinite

(* The goal comes first only when nothing left can give a shorter way.     *)
LEMMA FoundIsShortest == WInv => GotoIsShortest
  <1> SUFFICES ASSUME WInv, NEW p \in DOMAIN path, mode = "goto", Found(p),
                      Route(here, blocked, Len(path[p]) - 2)
               PROVE  FALSE
    BY DEF GotoIsShortest
  <1> USE DEF WInv
  <1>1. PICK top \in heap : Least(top) /\ top[3] = p /\ Reached(p)
    BY DEF Found
  <1>2. p = target /\ pc = "search" /\ here # target
    <2>1. pc = "search"
      BY <1>1 DEF Searching
    <2> QED
      BY <1>1, <2>1 DEF Searching, Reached, Adjacent
  <1>3. /\ top[1] = top[2] + Manhattan(target, target)
        /\ top[2] + 1 >= Len(path[target]) /\ top[1] \in Int /\ top[2] \in Nat
    BY <1>1, <1>2, WalkTypes DEF Entries
  <1>4. top[1] = top[2]
    BY <1>3, WalkTypes, DistanceIs
  <1>5. Len(path[target]) \in Nat /\ Len(path[target]) >= 2
    <2>1. /\ path[target] # << >> /\ path[target][1] = here
          /\ path[target][Len(path[target])] = target /\ path[target] \in Seq(Tiles \ walls)
      BY <1>2, WalkTypes DEF PathsAreWays
    <2>2. Len(path[target]) \in Nat /\ Len(path[target]) # 0
      BY <2>1
    <2>3. Len(path[target]) # 1
      BY <1>2, <2>1
    <2>4. \A k \in Nat : k # 0 /\ k # 1 => k >= 2
      OBVIOUS
    <2> HIDE DEF WInv
    <2> QED
      BY <2>2, <2>3, <2>4
  <1> DEFINE n == Len(path[target]) - 2
  <1>6. n \in 0..Width * Height
    <2>1. PICK N \in Nat : N = Width * Height
      BY RoomIs
    <2>2. Len(path[target]) <= N
      BY <1>2, <2>1, WaysAreShort
    <2> QED
      BY <1>5, <2>1, <2>2
  <1>7. PICK q \in Ball(here, blocked)[n] : Reached(q)
    BY <1>2 DEF Route
  <1>8. q = target
    BY <1>7 DEF Reached, Adjacent
  <1>9. WithinReach(target, n)
    BY <1>2, <1>6, <1>7, <1>8, BallIsWithinReach
  <1> HIDE DEF n
  <1>10. ASSUME NEW e \in heap, e[3] \in DOMAIN path, e[2] + 1 = Len(path[e[3]]),
                e[2] + Manhattan(e[3], target) <= n
         PROVE  FALSE
    <2>1. top[1] <= e[1]
      <3>1. top[1] \in Int /\ e[1] \in Int
        BY WalkTypes
      <3> QED
        BY <1>1, <3>1 DEF Least, Before
    <2>2. e[1] <= e[2] + Manhattan(e[3], target)
      BY DEF Entries
    <2>3. e[1] \in Int /\ e[2] \in Nat /\ Manhattan(e[3], target) \in Nat
      BY WalkTypes, DistanceIs
    <2>4. n = Len(path[target]) - 2
      BY DEF n
    <2> QED
      BY <1>3, <1>4, <1>5, <1>10, <2>1, <2>2, <2>3, <2>4
  <1>11. ~(Len(path[target]) <= n + 1)
    BY <1>5 DEF n
  <1> QED
    BY <1>9, <1>10, <1>11 DEF WithinReach

(* When nothing is left, whatever can be reached is done, and not the goal.*)
LEMMA FailureIsRight == WInv => FailsOnlyWithoutRoute
  <1> SUFFICES ASSUME WInv, pc = "search", heap = {}, Route(here, blocked, Width * Height)
               PROVE  FALSE
    BY DEF FailsOnlyWithoutRoute
  <1>1. Width * Height \in 0..Width * Height
    <2>1. PICK N \in Nat : N = Width * Height
      BY RoomIs
    <2> QED
      BY <2>1
  <1>2. PICK q \in Ball(here, blocked)[Width * Height] : Reached(q)
    BY DEF Route
  <1>3. WithinReach(q, Width * Height)
    BY <1>1, <1>2, BallIsWithinReach
  <1>4. q \in DOMAIN path
    BY <1>3 DEF WithinReach
  <1>5. Done(q)
    BY <1>4 DEF WInv, Frontier, Open
  <1> QED
    BY <1>2, <1>5 DEF Done

-----------------------------------------------------------------------------
LEMMA WalkStarts == NavInit => WInv
  <1> SUFFICES ASSUME NavInit PROVE WInv
    OBVIOUS
  <1> USE DEF NavInit
  <1>1. DOMAIN path = {}
    OBVIOUS
  <1>2. others \subseteq Tiles
    OBVIOUS
  <1>3. way \in BOOLEAN
    BY DEF Route
  <1>4. NavTypeOK
    <2>1. bound \in Bounds /\ expand \in 0..bound
      BY RoomIs
    <2> QED
      BY <1>1, <1>2, <1>3, <2>1, RoomIs DEF NavTypeOK
  <1>5. Searching
    BY DEF Searching
  <1> QED
    BY <1>1, <1>4, <1>5 DEF WInv, PathsAreWays, Simple, Entries, Frontier

(* Between two searches there is nothing to keep but the types.            *)
LEMMA RestKeeps ==
  ASSUME WInv, UNCHANGED fixed, pc' = "observe", here' \in Tiles \ walls,
         blocked' = {}, heap' = {}, path' = << >>,
         expand' \in {0, expand}
  PROVE  WInv'
  <1>1. DOMAIN path' = {}
    OBVIOUS
  <1>2. NavTypeOK'
    <2>1. bound' \in Bounds /\ expand' \in 0..bound'
      BY RoomIs DEF WInv, NavTypeOK, fixed
    <2> QED
      BY <1>1, <2>1 DEF WInv, NavTypeOK, fixed
  <1>3. Searching'
    BY DEF Searching
  <1> QED
    BY <1>1, <1>2, <1>3 DEF WInv, PathsAreWays, Simple, Entries, Frontier

LEMMA StepIs ==
  ASSUME NavTypeOK, NEW q, Step(q)
  PROVE  here' \in Tiles \ walls
  BY WalkTypes DEF Step

LEMMA PlanKeeps ==
  ASSUME WInv, Plan
  PROVE  WInv'
  <1> USE DEF WInv, Plan
  <1>1. /\ here \in Tiles \ walls /\ target \in Tiles
        /\ UNCHANGED <<walls, mode, target, others, bound, way, here>>
    BY WalkTypes DEF fixed
  <1>2. heap' = {<<0, 0, here>>} /\ DOMAIN path' = {here} /\ path'[here] = <<here>>
    OBVIOUS
  <1>3. /\ <<here>> \in Seq(Tiles \ walls) /\ Len(<<here>>) = 1 /\ <<here>>[1] = here /\ <<here>> # << >>
        /\ 1..Len(<<here>>)-1 = {} /\ 1..Len(<<here>>) = {1}
    BY <1>1
  <1>4. NavTypeOK'
    <2>1. blocked' \subseteq others' \ {target'}
      BY <1>1 DEF Blockers
    <2>2. heap' \subseteq Int \X Nat \X Tiles
      BY <1>1, <1>2
    <2>3. DOMAIN path' \subseteq Tiles \ walls' /\ \A p \in DOMAIN path' : path'[p] \in Seq(Tiles \ walls')
      BY <1>1, <1>2, <1>3
    <2>4. bound' \in Bounds /\ expand' \in 0..bound'
      BY <1>1, RoomIs DEF NavTypeOK
    <2> QED
      BY <1>1, <2>1, <2>2, <2>3, <2>4 DEF NavTypeOK
  <1>5. PathsAreWays'
    BY <1>1, <1>2, <1>3 DEF PathsAreWays
  <1>6. Searching'
    BY <1>1, <1>2 DEF Searching, Reached, Adjacent
  <1>7. Simple'
    BY <1>2, <1>3 DEF Simple
  <1>8. \A e \in heap' : e[1] = 0 /\ e[2] = 0 /\ e[3] = here
    BY <1>2
  <1>9. Manhattan(here, target) \in Nat
    BY <1>1, DistanceIs
  <1>10. Entries'
    BY <1>1, <1>2, <1>3, <1>8, <1>9 DEF Entries
  <1>11. Open(here)'
    BY <1>1, <1>2, <1>3, <1>8 DEF Open
  <1>12. Frontier'
    BY <1>1, <1>2, <1>11 DEF Frontier
  <1> QED
    BY <1>4, <1>5, <1>6, <1>7, <1>10, <1>12
-----------------------------------------------------------------------------
(* What the expansion of cur does to the ways.                             *)
Expanded(cur) ==
  path' = [q \in DOMAIN path \cup Shorter(cur) |->
             IF q \in Shorter(cur) THEN Append(path[cur], q) ELSE path[q]]

LEMMA ShorterIs ==
  ASSUME WInv, NEW cur \in DOMAIN path, NEW q \in Shorter(cur)
  PROVE  /\ q \in Neighbours(cur) /\ q \in Tiles \ walls /\ Enters(q, blocked)
         /\ q \in DOMAIN path => Len(path[cur]) + 1 < Len(path[q])
         /\ \A i \in 1..Len(path[cur]) : path[cur][i] # q
  <1> USE DEF WInv
  <1>1. /\ q \in Neighbours(cur) /\ Enters(q, blocked)
        /\ q \in DOMAIN path => Len(path[cur]) + 1 < Len(path[q])
    BY DEF Shorter
  <1>2. q \in Tiles \ walls
    BY <1>1 DEF Neighbours
  <1>3. ASSUME NEW i \in 1..Len(path[cur]), path[cur][i] = q
        PROVE  FALSE
    <2>1. q \in DOMAIN path /\ Len(path[q]) <= i
      BY <1>3 DEF Simple
    <2>2. Len(path[q]) \in Nat /\ Len(path[cur]) \in Nat
      BY <2>1, WalkTypes
    <2> QED
      BY <1>1, <2>1, <2>2
  <1> QED
    BY <1>1, <1>2, <1>3

LEMMA ExpandedIs ==
  ASSUME WInv, NEW cur \in DOMAIN path, Expanded(cur)
  PROVE  /\ DOMAIN path' = DOMAIN path \cup Shorter(cur)
         /\ \A q \in Shorter(cur) :
              /\ path'[q] = Append(path[cur], q) /\ path'[q] \in Seq(Tiles \ walls)
              /\ Len(path'[q]) = Len(path[cur]) + 1 /\ path'[q][Len(path[cur]) + 1] = q
              /\ \A i \in 1..Len(path[cur]) : path'[q][i] = path[cur][i]
         /\ \A q \in DOMAIN path \ Shorter(cur) : path'[q] = path[q]
         /\ \A q \in DOMAIN path : Len(path'[q]) \in Nat /\ Len(path'[q]) <= Len(path[q])
         /\ Len(path[cur]) \in Nat \ {0} /\ path'[cur] = path[cur]
  <1> USE DEF WInv, Expanded
  <1>1. path[cur] \in Seq(Tiles \ walls) /\ Len(path[cur]) \in Nat /\ path[cur] # << >>
    BY WalkTypes DEF PathsAreWays
  <1>2. DOMAIN path' = DOMAIN path \cup Shorter(cur)
    OBVIOUS
  <1>3. \A q \in DOMAIN path \ Shorter(cur) : path'[q] = path[q]
    OBVIOUS
  <1>4. ASSUME NEW q \in Shorter(cur)
        PROVE  /\ path'[q] = Append(path[cur], q) /\ path'[q] \in Seq(Tiles \ walls)
               /\ Len(path'[q]) = Len(path[cur]) + 1 /\ path'[q][Len(path[cur]) + 1] = q
               /\ \A i \in 1..Len(path[cur]) : path'[q][i] = path[cur][i]
    <2>1. q \in Tiles \ walls
      BY ShorterIs
    <2>2. path'[q] = Append(path[cur], q)
      OBVIOUS
    <2> HIDE DEF WInv, Expanded
    <2>3. path'[q] \in Seq(Tiles \ walls) /\ Len(path'[q]) = Len(path[cur]) + 1
      BY <1>1, <2>1, <2>2
    <2>4. path'[q][Len(path[cur]) + 1] = q
      BY <1>1, <2>1, <2>2
    <2>5. \A i \in 1..Len(path[cur]) : path'[q][i] = path[cur][i]
      BY <1>1, <2>1, <2>2
    <2> QED
      BY <2>2, <2>3, <2>4, <2>5
  <1>5. ASSUME NEW q \in DOMAIN path
        PROVE  Len(path'[q]) \in Nat /\ Len(path'[q]) <= Len(path[q])
    <2>1. Len(path[q]) \in Nat
      BY WalkTypes
    <2>2. CASE q \in Shorter(cur)
      BY <1>1, <1>4, <2>1, <2>2, ShorterIs
    <2>3. CASE q \notin Shorter(cur)
      BY <1>3, <2>1, <2>3
    <2> QED
      BY <2>2, <2>3
  <1>6. cur \notin Shorter(cur)
    <2>1. cur \in Shorter(cur) => Len(path[cur]) + 1 < Len(path[cur])
      BY ShorterIs
    <2> QED
      BY <1>1, <2>1
  <1>7. Len(path[cur]) # 0
    BY <1>1
  <1> QED
    BY <1>1, <1>2, <1>3, <1>4, <1>5, <1>6, <1>7

(* One expansion: the ways stay ways, do not cross themselves, and each    *)
(* part is known as well as before.                                        *)
LEMMA ExpandedWays ==
  ASSUME WInv, NEW cur \in DOMAIN path, Expanded(cur), UNCHANGED <<fixed, here, pc, blocked>>
  PROVE  PathsAreWays' /\ Simple'
  <1> USE DEF WInv
  <1>1. /\ DOMAIN path' = DOMAIN path \cup Shorter(cur)
        /\ \A q \in Shorter(cur) :
             /\ path'[q] = Append(path[cur], q) /\ path'[q] \in Seq(Tiles \ walls)
             /\ Len(path'[q]) = Len(path[cur]) + 1 /\ path'[q][Len(path[cur]) + 1] = q
             /\ \A i \in 1..Len(path[cur]) : path'[q][i] = path[cur][i]
        /\ \A q \in DOMAIN path \ Shorter(cur) : path'[q] = path[q]
        /\ \A q \in DOMAIN path : Len(path'[q]) \in Nat /\ Len(path'[q]) <= Len(path[q])
        /\ Len(path[cur]) \in Nat \ {0}
    BY ExpandedIs
  <1>2. UNCHANGED <<walls, mode, target, here, pc, blocked>>
    BY DEF fixed
  <1> DEFINE n == Len(path[cur])
  <1>5. PathsAreWays'
    <2> SUFFICES ASSUME NEW p \in DOMAIN path'
                 PROVE  /\ path'[p] # << >> /\ path'[p][1] = here /\ path'[p][Len(path'[p])] = p
                        /\ \A i \in 1..Len(path'[p])-1 :
                             /\ path'[p][i+1] \in Neighbours(path'[p][i])
                             /\ Enters(path'[p][i+1], blocked)
      BY <1>2 DEF PathsAreWays, Neighbours, Enters, Adjacent
    <2>1. CASE p \notin Shorter(cur)
      <3>1. p \in DOMAIN path /\ path'[p] = path[p]
        BY <1>1, <2>1
      <3> QED
        BY <3>1 DEF PathsAreWays
    <2>2. CASE p \in Shorter(cur)
      <3>1. /\ Len(path'[p]) = n + 1 /\ path'[p][n + 1] = p /\ n \in Nat \ {0}
            /\ \A i \in 1..n : path'[p][i] = path[cur][i]
        BY <1>1, <2>2
      <3>2. p \in Neighbours(cur) /\ Enters(p, blocked)
        BY <2>2, ShorterIs
      <3>3. /\ path[cur][1] = here /\ path[cur][n] = cur
            /\ \A i \in 1..n-1 : /\ path[cur][i+1] \in Neighbours(path[cur][i])
                                 /\ Enters(path[cur][i+1], blocked)
        BY DEF PathsAreWays
      <3> HIDE DEF n
      <3>4. path'[p][1] = here
        BY <3>1, <3>3
      <3>5. ASSUME NEW i \in 1..Len(path'[p])-1
            PROVE  path'[p][i+1] \in Neighbours(path'[p][i]) /\ Enters(path'[p][i+1], blocked)
        <4>1. CASE i = n
          <5>1. path'[p][i] = cur /\ path'[p][i+1] = p
            BY <3>1, <3>3, <4>1
          <5> QED
            BY <3>2, <5>1
        <4>2. CASE i # n
          <5>1. i \in 1..n-1 /\ i \in 1..n /\ i + 1 \in 1..n
            BY <3>1, <4>2
          <5>2. path'[p][i] = path[cur][i] /\ path'[p][i+1] = path[cur][i+1]
            BY <3>1, <5>1
          <5> QED
            BY <3>3, <5>1, <5>2
        <4> QED
          BY <4>1, <4>2
      <3>6. path'[p] # << >>
        BY <3>1
      <3> QED
        BY <3>1, <3>4, <3>5, <3>6
    <2> QED
      BY <2>1, <2>2
  <1>6. ASSUME NEW p \in DOMAIN path'
        PROVE  /\ \A i \in 1..Len(path'[p]) : path'[p][i] \in DOMAIN path' /\ Len(path'[path'[p][i]]) <= i
               /\ \A i, j \in 1..Len(path'[p]) : path'[p][i] = path'[p][j] => i = j
    <2>1. ASSUME NEW r \in DOMAIN path, NEW i \in 1..Len(path[r])
          PROVE  path[r][i] \in DOMAIN path' /\ Len(path'[path[r][i]]) <= i
      <3>1. path[r][i] \in DOMAIN path /\ Len(path[path[r][i]]) <= i
        BY DEF Simple
      <3>2. Len(path'[path[r][i]]) \in Nat /\ Len(path'[path[r][i]]) <= Len(path[path[r][i]])
        BY <1>1, <3>1
      <3>3. Len(path[path[r][i]]) \in Nat /\ i \in Int
        BY <3>1, WalkTypes
      <3> QED
        BY <1>1, <3>1, <3>2, <3>3
    <2>2. CASE p \notin Shorter(cur)
      <3>1. p \in DOMAIN path /\ path'[p] = path[p]
        BY <1>1, <2>2
      <3> QED
        BY <2>1, <3>1 DEF Simple
    <2>3. CASE p \in Shorter(cur)
      <3>1. /\ Len(path'[p]) = n + 1 /\ path'[p][n + 1] = p /\ n \in Nat \ {0}
            /\ \A i \in 1..n : path'[p][i] = path[cur][i]
        BY <1>1, <2>3
      <3>2. \A i \in 1..n : path[cur][i] # p
        BY <2>3, ShorterIs
      <3>3. \A i, j \in 1..n : path[cur][i] = path[cur][j] => i = j
        BY DEF Simple
      <3>4. \A i \in 1..n : path[cur][i] \in DOMAIN path' /\ Len(path'[path[cur][i]]) <= i
        BY <2>1
      <3> HIDE DEF n
      <3>5. \A i \in 1..n+1 : i \in 1..n \/ i = n + 1
        BY <3>1
      <3> QED
        BY <3>1, <3>2, <3>3, <3>4, <3>5
    <2> QED
      BY <2>2, <2>3
  <1> QED
    BY <1>5, <1>6 DEF Simple

(* The entries the expansion of cur puts on the heap.                      *)
Entry(cur, q) == <<Len(path[cur]) + Manhattan(q, target), Len(path[cur]), q>>

LEMMA ExpandedHeap ==
  ASSUME WInv, NEW top \in heap, NEW cur \in DOMAIN path, top[3] = cur, ~Reached(cur), Expanded(cur),
         heap' = (heap \ {top}) \cup {Entry(cur, q) : q \in Shorter(cur)},
         UNCHANGED <<fixed, here, pc, blocked>>
  PROVE  Entries' /\ Frontier'
  <1> USE DEF WInv
  <1>1. /\ DOMAIN path' = DOMAIN path \cup Shorter(cur)
        /\ \A q \in Shorter(cur) : Len(path'[q]) = Len(path[cur]) + 1
        /\ \A q \in DOMAIN path \ Shorter(cur) : path'[q] = path[q]
        /\ \A q \in DOMAIN path : Len(path'[q]) \in Nat /\ Len(path'[q]) <= Len(path[q])
        /\ Len(path[cur]) \in Nat \ {0} /\ path'[cur] = path[cur]
    BY ExpandedIs
  <1>2. UNCHANGED <<walls, mode, target, here, pc, blocked>>
    BY DEF fixed
  <1>3. \A q \in Shorter(cur) :
          /\ Entry(cur, q)[1] = Len(path[cur]) + Manhattan(q, target)
          /\ Entry(cur, q)[2] = Len(path[cur]) /\ Entry(cur, q)[3] = q
    BY DEF Entry
  <1>4. \A q \in DOMAIN path : Len(path[q]) \in Nat
    BY WalkTypes
  <1>5. \A q \in Shorter(cur) : Manhattan(q, target) \in Nat
    BY WalkTypes, ShorterIs, DistanceIs
  <1>6. Entries'
    <2> SUFFICES ASSUME NEW e \in heap'
                 PROVE  /\ e[3] \in DOMAIN path' /\ e[2] + 1 >= Len(path'[e[3]])
                        /\ e[1] <= e[2] + Manhattan(e[3], target)
                        /\ e[3] # here => e[1] = e[2] + Manhattan(e[3], target)
      BY <1>2 DEF Entries
    <2>1. CASE e \in heap
      <3>1. /\ e[3] \in DOMAIN path /\ e[2] + 1 >= Len(path[e[3]])
            /\ e[1] <= e[2] + Manhattan(e[3], target)
            /\ e[3] # here => e[1] = e[2] + Manhattan(e[3], target)
        BY <2>1 DEF Entries
      <3>2. e[2] \in Nat
        BY <2>1, WalkTypes
      <3> HIDE DEF WInv
      <3> QED
        BY <1>1, <1>4, <3>1, <3>2
    <2>2. CASE e \notin heap
      <3>1. PICK q \in Shorter(cur) : e = Entry(cur, q)
        BY <2>2
      <3> HIDE DEF WInv
      <3> QED
        BY <1>1, <1>3, <1>5, <3>1
    <2> QED
      BY <2>1, <2>2
  <1>7. Frontier'
    <2> SUFFICES ASSUME NEW p \in DOMAIN path'
                 PROVE  \/ \E e \in heap' : e[3] = p /\ e[2] + 1 = Len(path'[p])
                        \/ /\ ~Reached(p)
                           /\ \A q \in Neighbours(p) : Enters(q, blocked) =>
                                q \in DOMAIN path' /\ Len(path'[q]) <= Len(path'[p]) + 1
      BY <1>2 DEF Frontier, Open, Done, Reached, Neighbours, Enters, Adjacent
    <2>1. CASE p \in Shorter(cur)
      <3>1. Entry(cur, p) \in heap'
        BY <2>1
      <3>2. Entry(cur, p)[3] = p /\ Entry(cur, p)[2] + 1 = Len(path'[p])
        BY <1>1, <1>3, <2>1
      <3> QED
        BY <3>1, <3>2
    <2>2. CASE p = cur
      <3> SUFFICES ASSUME NEW q \in Neighbours(cur), Enters(q, blocked)
                   PROVE  q \in DOMAIN path' /\ Len(path'[q]) <= Len(path'[cur]) + 1
        BY <2>2
      <3>1. CASE q \in Shorter(cur)
        BY <1>1, <3>1
      <3>2. CASE q \notin Shorter(cur)
        <4>1. q \in DOMAIN path /\ ~(Len(path[cur]) + 1 < Len(path[q]))
          BY <3>2 DEF Shorter
        <4>2. path'[q] = path[q] /\ Len(path[q]) \in Nat
          BY <1>1, <1>4, <3>2, <4>1
        <4> HIDE DEF WInv
        <4> QED
          BY <1>1, <4>1, <4>2
      <3> QED
        BY <3>1, <3>2
    <2>3. CASE p \notin Shorter(cur) /\ p # cur
      <3>1. p \in DOMAIN path /\ path'[p] = path[p]
        BY <1>1, <2>3
      <3>2. ASSUME Open(p)
            PROVE  \E e \in heap' : e[3] = p /\ e[2] + 1 = Len(path'[p])
        <4>1. PICK e \in heap : e[3] = p /\ e[2] + 1 = Len(path[p])
          BY <3>2 DEF Open
        <4>2. e \in heap'
          BY <2>3, <4>1
        <4> QED
          BY <3>1, <4>1, <4>2
      <3>3. ASSUME Done(p), NEW q \in Neighbours(p), Enters(q, blocked)
            PROVE  q \in DOMAIN path' /\ Len(path'[q]) <= Len(path'[p]) + 1
        <4>1. q \in DOMAIN path /\ Len(path[q]) <= Len(path[p]) + 1
          BY <3>3 DEF Done
        <4>2. Len(path[p]) \in Nat /\ Len(path[q]) \in Nat
          BY <1>4, <3>1, <4>1
        <4> HIDE DEF WInv
        <4> QED
          BY <1>1, <3>1, <4>1, <4>2
      <3>4. Open(p) \/ Done(p)
        BY <3>1 DEF Frontier
      <3>5. Done(p) => ~Reached(p)
        BY DEF Done
      <3> QED
        BY <3>2, <3>3, <3>4, <3>5
    <2> QED
      BY <2>1, <2>2, <2>3
  <1> QED
    BY <1>6, <1>7

LEMMA ExpandKeeps ==
  ASSUME WInv, Expand
  PROVE  WInv'
  <1> USE DEF WInv
  <1>1. PICK top \in heap :
          LET cur == top[3] IN
          /\ Least(top) /\ ~Reached(cur)
          /\ heap' = (heap \ {top}) \cup
               {<<Len(path[cur]) + Manhattan(q, target), Len(path[cur]), q>> : q \in Shorter(cur)}
          /\ path' = [q \in DOMAIN path \cup Shorter(cur) |->
                        IF q \in Shorter(cur) THEN Append(path[cur], q) ELSE path[q]]
    BY DEF Expand
  <1> DEFINE cur == top[3]
  <1>2. cur \in DOMAIN path
    BY DEF Entries
  <1>3. ~Reached(cur) /\ Expanded(cur) /\ heap' = (heap \ {top}) \cup {Entry(cur, q) : q \in Shorter(cur)}
    BY <1>1 DEF Expanded, Entry
  <1>4. UNCHANGED <<fixed, here, pc, blocked>> /\ pc = "search"
    BY DEF Expand
  <1> HIDE DEF cur
  <1>5. PathsAreWays' /\ Simple'
    BY <1>2, <1>3, <1>4, ExpandedWays
  <1>6. Entries' /\ Frontier'
    BY <1>2, <1>3, <1>4, ExpandedHeap DEF cur
  <1>7. UNCHANGED <<walls, mode, target, others, bound, way, here, pc, blocked>>
    BY <1>4 DEF fixed
  <1>8. NavTypeOK'
    <2>1. DOMAIN path' = DOMAIN path \cup Shorter(cur) /\ Len(path[cur]) \in Nat
      BY <1>2, <1>3, ExpandedIs
    <2>2. \A q \in Shorter(cur) : q \in Tiles \ walls /\ path'[q] \in Seq(Tiles \ walls)
      BY <1>2, <1>3, ExpandedIs, ShorterIs
    <2>3. \A q \in DOMAIN path \ Shorter(cur) : path'[q] = path[q] /\ path[q] \in Seq(Tiles \ walls)
      BY <1>2, <1>3, ExpandedIs, WalkTypes
    <2>4. \A q \in Shorter(cur) : Entry(cur, q) \in Int \X Nat \X Tiles
      <3> TAKE q \in Shorter(cur)
      <3>1. q \in Tiles /\ Manhattan(q, target) \in Nat
        BY <2>2, WalkTypes, DistanceIs
      <3>2. Len(path[cur]) + Manhattan(q, target) \in Int
        BY <2>1, <3>1
      <3> QED
        BY <2>1, <3>1, <3>2 DEF Entry
    <2>5. heap' \subseteq Int \X Nat \X Tiles
      <3>1. heap \subseteq Int \X Nat \X Tiles
        BY DEF NavTypeOK
      <3> QED
        BY <1>3, <2>4, <3>1
    <2>6. DOMAIN path \subseteq Tiles \ walls
      BY WalkTypes
    <2>7. DOMAIN path' \subseteq Tiles \ walls' /\ \A p \in DOMAIN path' : path'[p] \in Seq(Tiles \ walls')
      BY <1>7, <2>1, <2>2, <2>3, <2>6
    <2>8. expand' \in 0..bound'
      <3>1. bound \in Nat /\ expand \in 0..bound
        BY RoomIs DEF NavTypeOK
      <3>2. expand < bound /\ expand' = expand + 1 /\ bound' = bound
        BY <1>7 DEF Expand
      <3> QED
        BY <3>1, <3>2
    <2> QED
      BY <1>7, <2>5, <2>7, <2>8 DEF NavTypeOK
  <1>9. here \in DOMAIN path' /\ path'[here] = <<here>>
    <2>1. here \in DOMAIN path /\ path[here] = <<here>> /\ Len(path[here]) = 1
      BY <1>4 DEF Searching
    <2>2. Len(path[cur]) \in Nat \ {0}
      BY <1>2, <1>3, ExpandedIs
    <2>3. here \notin Shorter(cur)
      <3>1. here \in Shorter(cur) => Len(path[cur]) + 1 < Len(path[here])
        BY <1>2, <2>1, ShorterIs
      <3> QED
        BY <2>1, <2>2, <3>1
    <2> QED
      BY <1>2, <1>3, <2>1, <2>3, ExpandedIs
  <1>10. Searching'
    BY <1>4, <1>7, <1>9 DEF Searching, Reached, Adjacent
  <1> QED
    BY <1>5, <1>6, <1>8, <1>10

-----------------------------------------------------------------------------
LEMMA WalkKeeps == WInv /\ [NavNext]_navVars => WInv'
  <1> SUFFICES ASSUME WInv, [NavNext]_navVars PROVE WInv'
    OBVIOUS
  <1>1. NavTypeOK
    BY DEF WInv
  <1>2. CASE Plan
    BY <1>2, PlanKeeps
  <1>3. CASE Expand
    BY <1>3, ExpandKeeps
  <1>4. CASE Walk
    <2>1. here' \in Tiles \ walls
      BY <1>1, <1>4, StepIs DEF Walk
    <2> QED
      BY <1>4, <2>1, RestKeeps DEF Walk, Over
  <1>5. CASE NoRoute
    <2>1. here' \in Tiles \ walls
      BY <1>1, <1>5, WalkTypes DEF NoRoute
    <2> QED
      BY <1>5, <2>1, RestKeeps DEF NoRoute, Over
  <1>6. CASE Flee
    <2>1. here' \in Tiles \ walls
      BY <1>1, <1>6, StepIs DEF Flee
    <2>2. /\ blocked = {} /\ heap = {} /\ path = << >>
          /\ UNCHANGED <<blocked, heap, path, expand, fixed, pc>> /\ pc = "observe"
      BY <1>6 DEF Flee, WInv, Searching, search
    <2> QED
      BY <2>1, <2>2, RestKeeps
  <1>7. CASE UNCHANGED navVars
    <2>1. UNCHANGED <<walls, mode, target, others, bound, way, here, pc, blocked, heap, path,
                      expand>>
      BY <1>7 DEF navVars, fixed, search
    <2> QED
      BY <2>1 DEF WInv, NavTypeOK, PathsAreWays, Searching, Simple, Entries, Frontier, Open, Done,
                  Reached, Adjacent, Neighbours, Enters
  <1> QED
    BY <1>2, <1>3, <1>4, <1>5, <1>6, <1>7 DEF NavNext

(* For any room, walls, other agents, range of sight and max_expand,       *)
(* whatever the mode of the goal: the ways A* keeps (astar of nav.py) are  *)
(* walkable and pass the agents they must; what a goto finds is as short   *)
(* as any way, though the heap holds stale entries; and a heap that runs   *)
(* empty has missed no way.  A search that ends because it has expanded    *)
(* max_expand tiles may have missed one: nothing is said of it.            *)
THEOREM SearchIsRight == NavInit /\ [][NavNext]_navVars => []WalkSafe
  <1>1. WInv => WalkSafe
    BY FoundIsShortest, FailureIsRight DEF WInv, WalkSafe
  <1> QED
    BY <1>1, WalkStarts, WalkKeeps, PTL

-----------------------------------------------------------------------------
(* A bot or a walker, as in the module that is checked.                    *)
HalvesInv == BInv /\ WInv

LEMMA HalvesStart ==
  ASSUME {<<0, 0>>, <<2, 2>>} \subseteq Tiles, {} \in Rooms
  PROVE  Start => HalvesInv
  <1>1. WalkerStands => WInv
    <2> SUFFICES ASSUME WalkerStands PROVE WInv
      OBVIOUS
    <2>1. DOMAIN path = {} /\ pc = "observe" /\ heap = {} /\ blocked = {} /\ path = << >>
      BY DEF WalkerStands
    <2>2. NavTypeOK
      <3>1. bound \in Bounds /\ expand \in 0..bound
        BY RoomIs DEF WalkerStands
      <3> QED
        BY <2>1, <3>1 DEF NavTypeOK, WalkerStands
    <2>3. Searching
      BY <2>1 DEF Searching
    <2> QED
      BY <2>1, <2>2, <2>3 DEF WInv, PathsAreWays, Simple, Entries, Frontier
  <1> QED
    BY <1>1, BotStarts, WalkStarts DEF Start, BotStands, HalvesInv

LEMMA HalvesStep ==
  HalvesInv /\ [(BotRuns /\ Next) \/ (WalkerRuns /\ NavNext)]_all => HalvesInv'
  <1> SUFFICES ASSUME HalvesInv, [(BotRuns /\ Next) \/ (WalkerRuns /\ NavNext)]_all
               PROVE  HalvesInv'
    OBVIOUS
  <1>1. [Next]_vars /\ [NavNext]_navVars
    BY DEF BotRuns, WalkerRuns, all
  <1> QED
    BY <1>1, BotKeeps, WalkKeeps DEF HalvesInv

(* Of either, with the fairness of the engine and the search, in any       *)
(* rooms, one of them empty and three tiles wide and high, and for any     *)
(* bounds on the search: bots keep to their rules, and the search is right *)
(* unless its bound ends it (_common.py, nav.py).  The size is that of the *)
(* room in which the walker stands that does not run.                      *)
THEOREM BotsAreSafe ==
  ASSUME {<<0, 0>>, <<2, 2>>} \subseteq Tiles, {} \in Rooms
  PROVE  BotsSpec => [](BotsSafe /\ WalkSafe)
  <1>1. HalvesInv => BotsSafe /\ WalkSafe
    BY FoundIsShortest, FailureIsRight DEF HalvesInv, BInv, WInv, WalkSafe
  <1> QED
    BY <1>1, HalvesStart, HalvesStep, PTL DEF BotsSpec
=============================================================================
