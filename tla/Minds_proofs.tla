-------------------------- MODULE Minds_proofs --------------------------
(***************************************************************************)
(* What the loops around the models promise for any clocks, views, plans   *)
(* and answers: the focal agent's model is called with restraint, and the  *)
(* four layers keep the plan, the cadence of reflection and the people     *)
(* they meet.                                                              *)
(*                                                                         *)
(* The register is a fold over a sequence of any length, and the provers   *)
(* have no induction with an operator as a parameter; what the fold        *)
(* computes is proved from the first place of the view at which it would   *)
(* be wrong (LeastNumber).                                                 *)
(***************************************************************************)
EXTENDS MCMinds, SequenceTheorems, FiniteSetTheorems, WellFoundedInduction, TLAPS

-----------------------------------------------------------------------------
(* The focal loop. *)

(* The events that can be heard, speech among them.                        *)
Heard == {audible[i] : i \in DOMAIN audible}

(* The scheduler's clock is never ahead of the last call that was started. *)
ClockIsBehind == task = None => since <= apart

(* What has woken the model has happened before, and once its decision is  *)
(* taken it is remembered or out of earshot, where nothing comes back from.*)
HappenedBefore == \A e \in Heard : e <= born
AlarmsRemembered ==
  \A e \in Violent : alarms[e] > 0 =>
    /\ e <= born
    /\ task = None => e \in seen \/ e \notin Heard

FInv == FocalSafe /\ ClockIsBehind /\ HappenedBefore /\ AlarmsRemembered

LEMMA Replied ==
  ASSUME NEW r \in Replies \cup {Failed} PROVE r # None /\ r # Running
  BY ReplyAssumption DEF ReplyAssumption, Decision, Failed, Odd, None, Running

LEMMA FocalNumbers ==
  /\ Every \in Nat /\ MinGap \in Nat /\ 0 < MinGap /\ MinGap < Every /\ Gaps \subseteq Nat \ {0}
  /\ MaxCycles \in Nat /\ RingSize \in Nat /\ MaxViolent \in Nat
  BY FocalAssumption DEF FocalAssumption

(* Later keeps the order of two clocks and stops at Every.                 *)
LEMMA LaterIs ==
  ASSUME NEW t \in 0..Every, NEW u \in 0..Every, NEW pause \in Gaps
  PROVE  Later(t, pause) \in 0..Every /\ (t <= u => Later(t, pause) <= Later(u, pause))
<1>1. t \in Nat /\ u \in Nat /\ t <= Every /\ u <= Every /\ pause \in Nat /\ Every \in Nat
  BY FocalNumbers
<1> QED  BY <1>1 DEF Later

(* An event that is heard was heard before, unless it has just happened.   *)
LEMMA SceneChanges ==
  ASSUME TypeOK, HappenedBefore, NextScene
  PROVE  /\ vis' \subseteq Others /\ audible' \in Seq(Violent \cup {Talk}) /\ Len(audible') <= RingSize
         /\ born' \in 0..MaxViolent /\ born <= born' /\ HappenedBefore'
         /\ \A e \in Violent : e \in Heard' => e \in Heard \/ e > born
         /\ HeardThen = Heard' \ {Talk} /\ HeardThen \subseteq Violent
<1>1. /\ audible \in Seq(Violent \cup {Talk}) /\ Len(audible) \in Nat /\ Len(audible) <= RingSize
      /\ born \in 0..MaxViolent /\ RingSize \in Nat /\ MaxViolent \in Nat
      /\ \A i \in 1..Len(audible) : audible[i] \in Heard /\ audible[i] \in Violent \cup {Talk}
  BY FocalNumbers DEF TypeOK, Heard
<1>2. PICK old \in 0..Len(audible) :
        LET rest == SubSeq(audible, old + 1, Len(audible))
        IN \/ audible' = rest /\ born' = born
           \/ Len(rest) < RingSize /\ audible' = Append(rest, Talk) /\ born' = born
           \/ /\ Len(rest) < RingSize /\ born < MaxViolent
              /\ born' = born + 1 /\ audible' = Append(rest, born + 1)
  BY DEF NextScene
<1> DEFINE rest == SubSeq(audible, old + 1, Len(audible))
<1>3. /\ rest \in Seq(Violent \cup {Talk}) /\ Len(rest) <= Len(audible) /\ Len(rest) \in Nat
      /\ \A i \in 1..Len(rest) : rest[i] \in Heard
  <2>1. \A i \in old + 1 .. Len(audible) : audible[i] \in (Violent \cup {Talk}) \cap Heard
    BY <1>1
  <2>2. /\ rest \in Seq((Violent \cup {Talk}) \cap Heard)
        /\ Len(rest) = IF old + 1 <= Len(audible) THEN Len(audible) - (old + 1) + 1 ELSE 0
    BY <1>1, <2>1, SubSeqProperties
  <2> HIDE DEF rest
  <2> QED  BY <1>1, <2>2
<1>4. \/ audible' = rest /\ born' = born
      \/ Len(rest) < RingSize /\ audible' = Append(rest, Talk) /\ born' = born
      \/ /\ Len(rest) < RingSize /\ born < MaxViolent
         /\ born' = born + 1 /\ audible' = Append(rest, born + 1)
  BY <1>2
<1> HIDE DEF rest
<1>5. vis' \subseteq Others
  BY DEF NextScene
<1>6. \/ audible' = rest /\ born' = born
      \/ \E e \in Violent \cup {Talk} :
           /\ audible' = Append(rest, e) /\ Len(rest) < RingSize
           /\ \/ e = Talk /\ born' = born
              \/ e = born + 1 /\ born' = born + 1
  <2>1. Talk \in Violent \cup {Talk}
    OBVIOUS
  <2>2. born < MaxViolent => born + 1 \in Violent \cup {Talk}
    BY <1>1 DEF Violent
  <2> QED  BY <1>4, <2>1, <2>2, Zenon
<1>7. /\ audible' \in Seq(Violent \cup {Talk}) /\ Len(audible') <= RingSize
      /\ born' \in 0..MaxViolent /\ born <= born'
      /\ \A e \in Heard' : e \in Heard \/ e = Talk \/ (e = born + 1 /\ born' = born + 1)
  <2>1. CASE audible' = rest /\ born' = born
    <3>1. \A e \in Heard' : e \in Heard
      BY <1>3, <2>1 DEF Heard
    <3> QED  BY <1>1, <1>3, <2>1, <3>1
  <2>2. ASSUME NEW e \in Violent \cup {Talk}, audible' = Append(rest, e), Len(rest) < RingSize,
               (e = Talk /\ born' = born) \/ (e = born + 1 /\ born' = born + 1)
        PROVE  /\ audible' \in Seq(Violent \cup {Talk}) /\ Len(audible') <= RingSize
               /\ born' \in 0..MaxViolent /\ born <= born'
               /\ \A x \in Heard' : x \in Heard \/ x = Talk \/ (x = born + 1 /\ born' = born + 1)
    <3>1. /\ audible' \in Seq(Violent \cup {Talk}) /\ Len(audible') = Len(rest) + 1
          /\ \A i \in 1..Len(rest) : audible'[i] = rest[i]
          /\ audible'[Len(rest) + 1] = e
      BY <1>3, <2>2, AppendProperties
    <3>2. DOMAIN audible' = 1..(Len(rest) + 1)
      BY <3>1
    <3>3. \A i \in 1..(Len(rest) + 1) : i \in 1..Len(rest) \/ i = Len(rest) + 1
      BY <1>3
    <3>4. \A x \in Heard' : x \in Heard \/ x = e
      BY <1>3, <3>1, <3>2, <3>3 DEF Heard
    <3>5. born' \in 0..MaxViolent /\ born <= born'
      BY <1>1, <2>2 DEF Violent, Talk
    <3>6. Len(audible') <= RingSize
      BY <1>1, <1>3, <2>2, <3>1
    <3>7. \A x \in Heard' : x \in Heard \/ x = Talk \/ (x = born + 1 /\ born' = born + 1)
      BY <2>2, <3>4
    <3> QED  BY <3>1, <3>5, <3>6, <3>7
  <2> QED  BY <1>6, <2>1, <2>2
<1>8. HappenedBefore'
  <2> SUFFICES ASSUME NEW e \in Heard' PROVE e <= born'
    BY DEF HappenedBefore
  <2>1. e \in Heard => e <= born /\ e \in Nat
    BY <1>1 DEF HappenedBefore, Heard, Violent, Talk
  <2> QED  BY <1>1, <1>7, <2>1 DEF Talk
<1>9. \A e \in Violent : e \in Heard' => e \in Heard \/ e > born
  BY <1>1, <1>7 DEF Talk, Violent
<1>10. HeardThen = Heard' \ {Talk}
  BY DEF HeardThen, Heard
<1>11. Heard' \subseteq Violent \cup {Talk}
  BY <1>7 DEF Heard
<1> QED  BY <1>5, <1>7, <1>8, <1>9, <1>10, <1>11

(* The least distance of two calls stays above the gap, and an alarm that  *)
(* has been given is not given again.                                      *)
LEMMA CallStarted ==
  ASSUME FInv, run = "loop", ~ Stops(100), NextScene, task = None, NEW pause \in Gaps,
         ShouldDeliberate(Later(since, pause), vis', HeardThen, prevVis, seen),
         Start(Later(since, pause), vis', HeardThen, prevVis, seen, pause), since' = Later(since, pause),
         limited' = limited, seen' = seen
  PROVE  /\ task' = Running /\ cycles' \in 0..MaxCycles
         /\ apart' \in 0..Every /\ spacing' \in 0..Every /\ alarms' \in [Violent -> Nat]
         /\ CallsAreSpaced' /\ NoRepeatedAlarm' /\ ClockIsBehind' /\ AlarmsRemembered'
<1> USE FocalNumbers
<1>1. /\ since \in 0..Every /\ apart \in 0..Every /\ spacing \in 0..Every /\ spacing >= MinGap /\ since <= apart
      /\ cycles \in 0..MaxCycles /\ limited \in BOOLEAN /\ born \in 0..MaxViolent
      /\ alarms \in [Violent -> Nat] /\ \A e \in Violent : alarms[e] <= 1
  BY DEF FInv, FocalSafe, TypeOK, CallsAreSpaced, NoRepeatedAlarm, ClockIsBehind
<1>2. /\ Later(since, pause) \in 0..Every /\ Later(apart, pause) \in 0..Every
      /\ Later(since, pause) <= Later(apart, pause)
  BY <1>1, LaterIs
<1>3. Later(since, pause) >= MinGap
  BY <1>2 DEF ShouldDeliberate
<1>4. /\ task' = Running /\ apart' = 0
      /\ cycles' = IF limited THEN cycles + 1 ELSE cycles
      /\ spacing' = IF Later(apart, pause) < spacing THEN Later(apart, pause) ELSE spacing
  BY DEF Start
<1>5. cycles' \in 0..MaxCycles
  BY <1>1, <1>4 DEF Stops
<1>6. spacing' \in 0..Every /\ spacing' >= MinGap
  BY <1>1, <1>2, <1>3, <1>4
<1>7. /\ born' \in 0..MaxViolent /\ born <= born' /\ HappenedBefore'
      /\ \A e \in Violent : e \in Heard' => e \in Heard \/ e > born
      /\ HeardThen = Heard' \ {Talk} /\ HeardThen \subseteq Violent
  BY SceneChanges DEF FInv, FocalSafe
<1>8. alarms' \in [Violent -> Nat]
      /\ \A e \in Violent : alarms'[e] = alarms[e] \/ (e \in HeardThen \ seen /\ alarms'[e] = alarms[e] + 1)
  BY <1>1 DEF Start
<1>9. \A e \in Violent : e \in HeardThen \ seen => alarms[e] = 0
  BY <1>1, <1>7 DEF FInv, AlarmsRemembered, Violent
<1>10. NoRepeatedAlarm'
  BY <1>1, <1>8, <1>9 DEF NoRepeatedAlarm
<1>11. task' # None
  BY <1>4 DEF Running, None
<1>12. \A e \in Violent : alarms'[e] > 0 => e <= born'
  <2> TAKE e \in Violent
  <2> HAVE alarms'[e] > 0
  <2>1. CASE e \in HeardThen
    BY <2>1, <1>7 DEF HappenedBefore
  <2>2. CASE e \notin HeardThen
    BY <2>2, <1>1, <1>7, <1>8 DEF FInv, AlarmsRemembered, Violent
  <2> QED  BY <2>1, <2>2
<1>13. AlarmsRemembered'
  BY <1>11, <1>12 DEF AlarmsRemembered
<1>14. ClockIsBehind'
  BY <1>11 DEF ClockIsBehind
<1> QED  BY <1>1, <1>4, <1>5, <1>6, <1>8, <1>10, <1>13, <1>14 DEF CallsAreSpaced

(* No call is started: the clocks go on, an alarm waits to be forgotten.   *)
LEMMA NoCallStarted ==
  ASSUME FInv, TypeOK', NextScene, NEW pause \in Gaps,
         since' = Later(since, pause), apart' = Later(apart, pause),
         UNCHANGED <<task, cycles, spacing, alarms, seen>>
  PROVE  FInv'
<1>1. /\ since \in 0..Every /\ apart \in 0..Every /\ born \in 0..MaxViolent /\ born' \in 0..MaxViolent
      /\ HappenedBefore' /\ born <= born'
      /\ \A e \in Violent : e \in Heard' => e \in Heard \/ e > born
  BY SceneChanges DEF FInv, FocalSafe, TypeOK
<1>2. CallsAreSpaced' /\ NoRepeatedAlarm'
  BY DEF FInv, FocalSafe, CallsAreSpaced, NoRepeatedAlarm
<1>3. ClockIsBehind'
  BY <1>1, LaterIs DEF FInv, ClockIsBehind
<1>4. AlarmsRemembered'
  BY <1>1 DEF FInv, AlarmsRemembered, Violent
<1> QED  BY <1>1, <1>2, <1>3, <1>4 DEF FInv, FocalSafe

LEMMA FocalInitOK == Init \/ FocalIsOver => FInv
<1> SUFFICES ASSUME Init \/ FocalIsOver PROVE FInv
  OBVIOUS
<1>0. /\ run \in {"loop", "ended"} /\ limited \in BOOLEAN /\ stopped \in BOOLEAN /\ cycles = 0 /\ sent = {}
      /\ motor = FALSE /\ goal = FALSE /\ vis = {} /\ audible = << >> /\ born = 0
      /\ task = None /\ since = Every /\ prevVis = {} /\ seen = {}
      /\ apart = Every /\ spacing = Every /\ alarms = [e \in Violent |-> 0]
  BY DEF Init, AgentInit, FocalIsOver
<1> USE <1>0, FocalNumbers
<1>1. audible \in Seq(Violent \cup {Talk}) /\ Len(audible) = 0 /\ Heard = {}
  BY EmptySeq DEF Heard
<1>2. alarms \in [Violent -> Nat] /\ \A e \in Violent : alarms[e] = 0
  OBVIOUS
<1>3. since = Every /\ apart = Every /\ spacing = Every /\ born = 0 /\ cycles = 0
  OBVIOUS
<1>4. TypeOK
  <2>1. since \in 0..Every /\ apart \in 0..Every /\ spacing \in 0..Every /\ born \in 0..MaxViolent
        /\ cycles \in 0..MaxCycles /\ Len(audible) <= RingSize
    BY <1>1, <1>3
  <2>2. /\ run \in {"loop", "acting", "ended", "crashed"} /\ limited \in BOOLEAN /\ stopped \in BOOLEAN
        /\ motor \in BOOLEAN /\ goal \in BOOLEAN /\ vis \subseteq Others /\ prevVis \subseteq Others
        /\ seen \subseteq Violent /\ sent \subseteq {"direct", "reflex"}
    OBVIOUS
  <2>3. task \in Replies \cup {None, Running, Failed}
    OBVIOUS
  <2> QED  BY <1>1, <1>2, <2>1, <2>2, <2>3 DEF TypeOK
<1>5. CallsAreSpaced /\ NoRepeatedAlarm /\ ClockIsBehind
  BY <1>2, <1>3 DEF CallsAreSpaced, NoRepeatedAlarm, ClockIsBehind
<1>6. HappenedBefore /\ AlarmsRemembered
  BY <1>1, <1>2 DEF HappenedBefore, AlarmsRemembered
<1> QED  BY <1>4, <1>5, <1>6 DEF FInv, FocalSafe

LEMMA FocalStep == FInv /\ [Next]_vars => FInv'
<1> SUFFICES ASSUME FInv, [Next]_vars PROVE FInv'
  OBVIOUS
<1>t. TypeOK /\ HappenedBefore
  BY DEF FInv, FocalSafe
<1>h. ASSUME UNCHANGED <<audible, born, task, since, seen, apart, spacing, alarms>>, TypeOK' PROVE FInv'
  BY <1>h DEF FInv, FocalSafe, CallsAreSpaced, NoRepeatedAlarm, ClockIsBehind, HappenedBefore,
     AlarmsRemembered, Heard
<1>1. CASE ObserveAndMove
  <2>1. NextScene /\ run = "loop" /\ ~ Stops(100) /\ EnsureMotor
        /\ UNCHANGED <<run, limited, stopped, goal, prevVis, seen>>
    BY <1>1 DEF ObserveAndMove
  <2>2. PICK pause \in Gaps :
          /\ since' = Later(since, pause)
          /\ \/ /\ task = None /\ ShouldDeliberate(Later(since, pause), vis', HeardThen, prevVis, seen)
                /\ Start(Later(since, pause), vis', HeardThen, prevVis, seen, pause)
             \/ /\ apart' = Later(apart, pause) /\ UNCHANGED <<task, cycles, spacing, alarms>>
    BY <1>1 DEF ObserveAndMove
  <2>3. /\ vis' \subseteq Others /\ audible' \in Seq(Violent \cup {Talk}) /\ Len(audible') <= RingSize
        /\ born' \in 0..MaxViolent /\ HappenedBefore'
    BY <1>t, <2>1, SceneChanges
  <2>4. since' \in 0..Every /\ Later(apart, pause) \in 0..Every
    BY <1>t, <2>2, LaterIs DEF TypeOK
  <2>5. sent' \subseteq {"direct", "reflex"} /\ motor' \in BOOLEAN
    BY <1>t, <1>1 DEF ObserveAndMove, Reflex, EnsureMotor, TypeOK
  <2>6. CASE /\ task = None /\ ShouldDeliberate(Later(since, pause), vis', HeardThen, prevVis, seen)
             /\ Start(Later(since, pause), vis', HeardThen, prevVis, seen, pause)
    <3>1. /\ task' = Running /\ cycles' \in 0..MaxCycles
          /\ apart' \in 0..Every /\ spacing' \in 0..Every /\ alarms' \in [Violent -> Nat]
          /\ CallsAreSpaced' /\ NoRepeatedAlarm' /\ ClockIsBehind' /\ AlarmsRemembered'
      BY <2>1, <2>2, <2>6, CallStarted
    <3>2. TypeOK'
      BY <1>t, <2>1, <2>3, <2>4, <2>5, <3>1 DEF TypeOK
    <3> QED  BY <2>3, <3>1, <3>2 DEF FInv, FocalSafe
  <2>7. CASE apart' = Later(apart, pause) /\ UNCHANGED <<task, cycles, spacing, alarms>>
    <3>1. TypeOK'
      BY <1>t, <2>1, <2>3, <2>4, <2>5, <2>7 DEF TypeOK
    <3> QED  BY <2>1, <2>2, <2>7, <3>1, NoCallStarted
  <2> QED  BY <2>2, <2>6, <2>7
<1>2. CASE ObserveAndDecide
  <2>1. /\ NextScene /\ EnsureMotor /\ ApplyMovement
        /\ run' \in {"crashed", "loop", "acting"} /\ UNCHANGED <<limited, stopped>>
    BY <1>2 DEF ObserveAndDecide
  <2>2. sent' \subseteq {"direct", "reflex"}
    BY <1>2 DEF ObserveAndDecide, Reflex
  <2>3. PICK pause \in Gaps : TakeDecision(pause)
    BY <1>2 DEF ObserveAndDecide
  <2>4. /\ vis' \subseteq Others /\ audible' \in Seq(Violent \cup {Talk}) /\ Len(audible') <= RingSize
        /\ born' \in 0..MaxViolent /\ HappenedBefore' /\ born <= born'
        /\ HeardThen = Heard' \ {Talk} /\ HeardThen \subseteq Violent
    BY <1>t, <2>1, SceneChanges
  <2>5. Later(apart, pause) \in 0..Every
    BY <1>t, LaterIs DEF TypeOK
  <2>6. goal' \in BOOLEAN /\ motor' \in BOOLEAN
    BY <1>t, <2>1 DEF ApplyMovement, EnsureMotor, TypeOK
  <2>7. /\ task' = None /\ since' = 0 /\ prevVis' = vis' /\ seen' = HeardThen /\ apart' = Later(apart, pause)
        /\ UNCHANGED <<cycles, spacing, alarms>>
    BY <2>3 DEF TakeDecision
  <2>8. TypeOK'
    BY <1>t, <2>1, <2>2, <2>4, <2>5, <2>6, <2>7, FocalNumbers DEF TypeOK
  <2>9. CallsAreSpaced' /\ NoRepeatedAlarm' /\ ClockIsBehind'
    BY <2>5, <2>7 DEF FInv, FocalSafe, CallsAreSpaced, NoRepeatedAlarm, ClockIsBehind
  <2>10. AlarmsRemembered'
    <3> SUFFICES ASSUME NEW e \in Violent, alarms'[e] > 0
                 PROVE  e <= born' /\ (e \in seen' \/ e \notin Heard')
      BY DEF AlarmsRemembered
    <3>1. e <= born
      BY <2>7 DEF FInv, AlarmsRemembered
    <3>2. e <= born'
      BY <1>t, <2>4, <3>1, FocalNumbers DEF TypeOK, Violent
    <3>3. e # Talk
      BY DEF Violent, Talk
    <3> QED  BY <2>4, <2>7, <3>2, <3>3
  <2> QED  BY <2>4, <2>8, <2>9, <2>10 DEF FInv, FocalSafe
<1>3. CASE Leave
  <2>1. NextScene /\ run' = "ended" /\ UNCHANGED <<limited, stopped, motor, goal, sent, sched>>
    BY <1>3 DEF Leave
  <2>2. /\ vis' \subseteq Others /\ audible' \in Seq(Violent \cup {Talk}) /\ Len(audible') <= RingSize
        /\ born' \in 0..MaxViolent /\ HappenedBefore' /\ born <= born'
        /\ \A e \in Violent : e \in Heard' => e \in Heard \/ e > born
    BY <1>t, <2>1, SceneChanges
  <2>3. TypeOK'
    BY <1>t, <2>1, <2>2 DEF TypeOK, sched
  <2>4. CallsAreSpaced' /\ NoRepeatedAlarm' /\ ClockIsBehind'
    BY <2>1 DEF FInv, FocalSafe, CallsAreSpaced, NoRepeatedAlarm, ClockIsBehind, sched
  <2>5. AlarmsRemembered'
    BY <1>t, <2>1, <2>2, FocalNumbers DEF FInv, AlarmsRemembered, Violent, sched, TypeOK
  <2> QED  BY <2>2, <2>3, <2>4, <2>5 DEF FInv, FocalSafe
<1>4. CASE BatchDone
  BY <1>t, <1>h, <1>4 DEF BatchDone, sched, scene, TypeOK
<1>5. CASE BatchFails
  <2>1. sent' \subseteq {"direct", "reflex"}
    BY <1>5 DEF BatchFails, Reflex
  <2> QED  BY <1>t, <1>h, <1>5, <2>1 DEF BatchFails, sched, scene, TypeOK
<1>6. CASE ModelAnswers
  <2>1. /\ task' \in Replies \cup {Failed} /\ task' # None
        /\ UNCHANGED <<run, limited, stopped, motor, goal, sent, scene, since, prevVis, seen, cycles,
                       apart, spacing, alarms>>
    BY <1>6, Replied DEF ModelAnswers
  <2>2. TypeOK'
    BY <1>t, <2>1 DEF TypeOK, scene
  <2> QED  BY <2>1, <2>2 DEF FInv, FocalSafe, CallsAreSpaced, NoRepeatedAlarm, ClockIsBehind,
              HappenedBefore, AlarmsRemembered, Heard, scene
<1>7. CASE Stop
  BY <1>t, <1>h, <1>7 DEF Stop, sched, scene, TypeOK
<1>8. CASE UNCHANGED vars
  BY <1>t, <1>h, <1>8 DEF vars, sched, scene, TypeOK
<1> QED  BY <1>1, <1>2, <1>3, <1>4, <1>5, <1>6, <1>7, <1>8 DEF Next, Observe

(* For any bystanders, violent events, clocks and answers of the model:    *)
(* two calls of the focal agent's model start at least MinGap ticks apart, *)
(* also when they fail at once, and a violent event that stays audible     *)
(* wakes the model early at most once, however the ring of what is heard   *)
(* turns over while a call is in flight (motor_loop.py, should_deliberate, *)
(* start_deliberation and take_decision).                                  *)
THEOREM ModelIsCalledWithRestraint == Init /\ [][Next]_vars => []FocalSafe
<1>1. FInv => FocalSafe
  BY DEF FInv
<1> QED  BY <1>1, FocalInitOK, FocalStep, PTL

-----------------------------------------------------------------------------
(* What FoldLeft computes, by the elements of the view. *)

LEMMA LeastNumber ==
  ASSUME NEW S \in SUBSET Nat, S # {}
  PROVE  \E m \in S : \A k \in S : m <= k
<1>1. IsWellFoundedOn(OpToRel(<, Nat), Nat)
  BY NatLessThanWellFounded
<1>2. PICK m \in S : \A k \in S : <<k, m>> \notin OpToRel(<, Nat)
  BY <1>1, WFMin
<1>3. \A k \in S : ~ k < m
  BY <1>2, Zenon DEF OpToRel
<1> QED  BY <1>3

(* The function that FoldLeft of the community modules chooses: the        *)
(* register after a set of the places of a view, the last of them last.    *)
RegisterAfter(v, S, g) ==
  g = [s \in SUBSET S |-> IF s = {} THEN register ELSE RememberOther(g[s \ {Max(s)}], v[Max(s)])]

LEMMA FoldIs ==
  FoldLeft(RememberOther, register, view) = (CHOOSE g : RegisterAfter(view, DOMAIN view, g))[DOMAIN view]
  BY Zenon DEF FoldLeft, MapThenFoldSet, RegisterAfter

LEMMA LastPlace ==
  ASSUME NEW k \in Nat \ {0}, NEW s \in SUBSET (1..k), k \in s
  PROVE  Max(s) = k
<1>1. \A x \in s : (\A y \in s : x >= y) <=> x = k
  OBVIOUS
<1> QED  BY <1>1, Zenon DEF Max

(* There is such a function: for one place more, it is extended to the     *)
(* sets that have this place.                                              *)
LEMMA RegisterExtends ==
  ASSUME NEW v, NEW k \in Nat \ {0}, NEW g, RegisterAfter(v, 1..(k-1), g)
  PROVE  \E h : RegisterAfter(v, 1..k, h)
<1> DEFINE Next1(s) == IF k \in s THEN RememberOther(g[s \ {k}], v[k]) ELSE g[s]
           h == [s \in SUBSET (1..k) |-> Next1(s)]
<1>1. ASSUME NEW s \in SUBSET (1..k), k \notin s, s # {}
      PROVE  h[s] = RememberOther(h[s \ {Max(s)}], v[Max(s)])
  <2>1. s \in SUBSET (1..(k-1)) /\ s \ {Max(s)} \in SUBSET (1..k) /\ k \notin s \ {Max(s)}
    <3>1. \A x \in 1..k : x # k => x \in 1..(k-1)
      OBVIOUS
    <3>2. \A x \in s : x \in 1..k /\ x # k
      BY <1>1
    <3>3. s \in SUBSET (1..(k-1))
      BY <3>1, <3>2
    <3> QED  BY <3>2, <3>3
  <2>2. g[s] = RememberOther(g[s \ {Max(s)}], v[Max(s)])
    BY <1>1, <2>1 DEF RegisterAfter
  <2>3. h[s] = g[s] /\ h[s \ {Max(s)}] = g[s \ {Max(s)}]
    BY <1>1, <2>1
  <2> QED  BY <2>2, <2>3
<1>2. ASSUME NEW s \in SUBSET (1..k), k \in s
      PROVE  h[s] = RememberOther(h[s \ {Max(s)}], v[Max(s)])
  <2>1. Max(s) = k
    BY <1>2, LastPlace
  <2>2. h[s] = RememberOther(g[s \ {k}], v[k]) /\ h[s \ {k}] = g[s \ {k}]
    BY <1>2
  <2> QED  BY <2>1, <2>2
<1>3. h[{}] = register
  BY DEF RegisterAfter
<1>4. h = [s \in SUBSET (1..k) |-> h[s]]
  OBVIOUS
<1> HIDE DEF h
<1>5. RegisterAfter(v, 1..k, h)
  BY <1>1, <1>2, <1>3, <1>4, Zenon DEF RegisterAfter
<1> QED  BY <1>5

LEMMA RegisterExists ==
  ASSUME NEW v, NEW n \in Nat PROVE \E g : RegisterAfter(v, 1..n, g)
<1> DEFINE Bad == {k \in 0..n : ~ \E g : RegisterAfter(v, 1..k, g)}
<1> SUFFICES ASSUME Bad # {} PROVE FALSE
  OBVIOUS
<1>1. PICK k \in Bad : \A j \in Bad : k <= j
  <2>1. Bad \in SUBSET Nat
    OBVIOUS
  <2> HIDE DEF Bad
  <2> QED  BY <2>1, LeastNumber
<1>2. k # 0
  <2> SUFFICES ASSUME k = 0 PROVE FALSE
    OBVIOUS
  <2> DEFINE h == [s \in SUBSET (1..0) |-> register]
  <2>1. 1..0 = {} /\ \A s \in SUBSET (1..0) : s = {}
    OBVIOUS
  <2>2. RegisterAfter(v, 1..0, h)
    BY <2>1, Zenon DEF RegisterAfter
  <2> QED  BY <1>1, <2>2
<1>3. k \in Nat \ {0} /\ k - 1 \in 0..n /\ k - 1 \notin Bad
  BY <1>1, <1>2
<1>4. \E g : RegisterAfter(v, 1..(k-1), g)
  BY <1>3
<1> QED  BY <1>1, <1>3, <1>4, RegisterExtends

(* ObserveOthers puts the entities in the register one by one.             *)
LEMMA OneByOne ==
  ASSUME NEW n \in Nat, DOMAIN view = 1..n
  PROVE  \E reg : /\ reg[0] = register /\ reg[n] = ObserveOthers
                  /\ \A k \in 1..n : reg[k] = RememberOther(reg[k-1], view[k])
<1>1. PICK g : RegisterAfter(view, 1..n, g) /\ ObserveOthers = g[1..n]
  <2>1. \E g : RegisterAfter(view, 1..n, g)
    BY RegisterExists
  <2> DEFINE g == CHOOSE f : RegisterAfter(view, 1..n, f)
  <2>2. RegisterAfter(view, 1..n, g)
    BY <2>1
  <2>3. ObserveOthers = g[1..n]
    BY FoldIs DEF ObserveOthers
  <2> QED  BY <2>2, <2>3
<1> DEFINE reg == [k \in 0..n |-> g[1..k]]
<1>2. reg[0] = register
  <2>1. 1..0 = {} /\ {} \in SUBSET (1..n)
    OBVIOUS
  <2>2. g[{}] = register
    BY <1>1 DEF RegisterAfter
  <2> QED  BY <2>1, <2>2
<1>3. ASSUME NEW k \in 1..n PROVE reg[k] = RememberOther(reg[k-1], view[k])
  <2>1. /\ k \in Nat \ {0} /\ 1..k \in SUBSET (1..n) /\ 1..k # {} /\ k \in 1..k
        /\ 1..k \ {k} = 1..(k-1) /\ k - 1 \in 0..n /\ k \in 0..n
    OBVIOUS
  <2>2. Max(1..k) = k
    BY <2>1, LastPlace
  <2>3. g[1..k] = RememberOther(g[1..k \ {Max(1..k)}], view[Max(1..k)])
    BY <1>1, <2>1 DEF RegisterAfter
  <2> QED  BY <2>1, <2>2, <2>3
<1>4. reg[n] = ObserveOthers
  BY <1>1
<1> QED  BY <1>2, <1>3, <1>4

-----------------------------------------------------------------------------
(* What happens to the register of people. *)

LEMMA HarnessNumbers ==
  /\ RegisterCap \in Nat \ {0} /\ ReflectiveEvery \in Nat \ {0} /\ MaxGoals \in Nat \ {0, 1}
  /\ Scenes \subseteq Scene /\ Views \subseteq Seq(People) /\ Planned \subseteq Seq(Grammar)
  BY HarnessAssumption DEF HarnessAssumption

IsRegister(R) == R \in Seq(People) /\ IsInjective(R) /\ Len(R) <= RegisterCap

(* A newcomer is last; the others move up where there is no room.          *)
LEMMA Remembered ==
  ASSUME NEW R, IsRegister(R), NEW id \in People
  PROVE  /\ IsRegister(RememberOther(R, id))
         /\ \/ id \in ToSet(R) /\ RememberOther(R, id) = R
            \/ /\ Len(RememberOther(R, id)) = Len(R) + 1 /\ Len(R) < RegisterCap
               /\ \A i \in 1..Len(R) : RememberOther(R, id)[i] = R[i]
               /\ RememberOther(R, id)[Len(R) + 1] = id
            \/ /\ Len(RememberOther(R, id)) = RegisterCap /\ Len(R) = RegisterCap
               /\ \A i \in 1..(RegisterCap - 1) : RememberOther(R, id)[i] = R[i + 1]
               /\ RememberOther(R, id)[RegisterCap] = id
<1> DEFINE A == Append(R, id)
<1>1. /\ R \in Seq(People) /\ Len(R) \in Nat /\ Len(R) <= RegisterCap /\ DOMAIN R = 1..Len(R)
      /\ \A i, j \in 1..Len(R) : R[i] = R[j] => i = j
      /\ RegisterCap \in Nat \ {0}
  BY HarnessNumbers DEF IsRegister, IsInjective
<1>2. CASE id \in ToSet(R)
  BY <1>2 DEF RememberOther
<1>3. CASE id \notin ToSet(R)
  <2>1. \A i \in 1..Len(R) : R[i] # id
    BY <1>1, <1>3 DEF ToSet
  <2>2. /\ A \in Seq(People) /\ Len(A) = Len(R) + 1 /\ A[Len(R) + 1] = id
        /\ \A i \in 1..Len(R) : A[i] = R[i]
    BY <1>1, AppendProperties
  <2>3. \A i \in 1..(Len(R) + 1) : i \in 1..Len(R) \/ i = Len(R) + 1
    BY <1>1
  <2> HIDE DEF A
  <2>4. \A i, j \in 1..(Len(R) + 1) : A[i] = A[j] => i = j
    BY <1>1, <2>1, <2>2, <2>3
  <2>5. CASE Len(R) < RegisterCap
    <3>1. RememberOther(R, id) = A
      <4>1. ~ (Len(A) > RegisterCap)
        BY <1>1, <2>2, <2>5
      <4> QED  BY <1>3, <4>1, Zenon DEF RememberOther, Capped, A
    <3>2. IsRegister(A)
      BY <1>1, <2>2, <2>4, <2>5 DEF IsRegister, IsInjective
    <3> QED  BY <2>2, <2>5, <3>1, <3>2
  <2>6. CASE Len(R) = RegisterCap
    <3> DEFINE B == SubSeq(A, 2, Len(A))
    <3>1. RememberOther(R, id) = B
      BY <1>1, <1>3, <2>2, <2>6 DEF RememberOther, Capped, A
    <3>2. \A i \in 2..Len(A) : A[i] \in People
      BY <1>1, <2>2
    <3>3. /\ B \in Seq(People) /\ Len(B) = RegisterCap
          /\ \A i \in 1..RegisterCap : B[i] = A[i + 1]
      <4>1. /\ B \in Seq(People) /\ Len(B) = IF 2 <= Len(A) THEN Len(A) - 2 + 1 ELSE 0
            /\ \A i \in 1..(Len(A) - 2 + 1) : B[i] = A[2 + i - 1]
        BY <1>1, <2>2, <3>2, SubSeqProperties
      <4> HIDE DEF B
      <4>2. Len(A) - 2 + 1 = RegisterCap /\ Len(B) = RegisterCap
        BY <1>1, <2>2, <2>6, <4>1
      <4>3. \A i \in 1..RegisterCap : 2 + i - 1 = i + 1
        BY <1>1
      <4> QED  BY <4>1, <4>2, <4>3
    <3> HIDE DEF B
    <3>4. \A i \in 1..RegisterCap : i + 1 \in 1..(Len(R) + 1)
      BY <1>1, <2>6
    <3>5. \A i, j \in 1..RegisterCap : B[i] = B[j] => i = j
      BY <1>1, <2>4, <3>3, <3>4
    <3>6. IsRegister(B)
      BY <1>1, <3>3, <3>5 DEF IsRegister, IsInjective
    <3>7. B[RegisterCap] = id /\ \A i \in 1..(RegisterCap - 1) : B[i] = R[i + 1]
      BY <1>1, <2>2, <2>6, <3>3
    <3> QED  BY <2>6, <3>1, <3>3, <3>6, <3>7
  <2>7. Len(R) < RegisterCap \/ Len(R) = RegisterCap
    <3>1. Len(R) \in Nat /\ Len(R) <= RegisterCap
      BY <1>1
    <3>2. RegisterCap \in Nat
      BY HarnessNumbers
    <3> QED  BY <3>1, <3>2
  <2> QED  BY <2>5, <2>6, <2>7, Zenon
<1> QED  BY <1>2, <1>3, Zenon

(* The last of a register are newcomers, the others were in it before, and *)
(* of the view so far nobody is missing who was not in it before.          *)
Kept(k, R, m) ==
  /\ m <= Len(R)
  /\ \A i \in 1..(Len(R) - m) : R[i] \in ToSet(register)
  /\ \A j \in 1..k : \/ view[j] \in ToSet(register)
                     \/ \E i \in (Len(R) - m + 1)..Len(R) : R[i] = view[j]

LEMMA OneMoreIsKept ==
  ASSUME NEW k \in Nat, k < RegisterCap, NEW R, IsRegister(R), NEW m \in 0..k, Kept(k, R, m),
         view[k + 1] \in People
  PROVE  \E p \in 0..(k + 1) : Kept(k + 1, RememberOther(R, view[k + 1]), p)
<1> DEFINE id == view[k + 1]
           T  == RememberOther(R, id)
<1>1. /\ R \in Seq(People) /\ Len(R) \in Nat /\ Len(R) <= RegisterCap /\ DOMAIN R = 1..Len(R)
      /\ RegisterCap \in Nat \ {0} /\ m \in Nat /\ m <= k /\ m <= Len(R)
  BY HarnessNumbers DEF IsRegister, Kept
<1>2. \A j \in 1..(k + 1) : j \in 1..k \/ j = k + 1
  OBVIOUS
<1>3. CASE id \in ToSet(R) /\ T = R
  <2>1. PICK i \in 1..Len(R) : R[i] = id
    BY <1>1, <1>3 DEF ToSet
  <2>2. i \in 1..(Len(R) - m) \/ i \in (Len(R) - m + 1)..Len(R)
    BY <1>1
  <2>3. id \in ToSet(register) \/ \E n \in (Len(R) - m + 1)..Len(R) : R[n] = id
    BY <2>1, <2>2 DEF Kept
  <2>4. Kept(k + 1, R, m)
    BY <1>2, <2>3 DEF Kept
  <2> QED  BY <1>1, <1>3, <2>4
<1>4. CASE /\ Len(T) = Len(R) + 1 /\ Len(R) < RegisterCap
           /\ \A i \in 1..Len(R) : T[i] = R[i]
           /\ T[Len(R) + 1] = id
  <2> HIDE DEF T
  <2>1. /\ Len(T) - (m + 1) = Len(R) - m /\ Len(T) - (m + 1) + 1 = Len(R) - m + 1
        /\ m + 1 <= Len(T) /\ m + 1 \in 0..(k + 1)
    BY <1>1, <1>4
  <2>2. \A i \in 1..(Len(R) - m) : T[i] \in ToSet(register)
    BY <1>1, <1>4 DEF Kept
  <2>3. ASSUME NEW j \in 1..k, view[j] \notin ToSet(register)
        PROVE  \E i \in (Len(R) - m + 1)..Len(T) : T[i] = view[j]
    <3>1. PICK i \in (Len(R) - m + 1)..Len(R) : R[i] = view[j]
      BY <2>3 DEF Kept
    <3> QED  BY <1>1, <1>4, <3>1
  <2>4. \E i \in (Len(R) - m + 1)..Len(T) : T[i] = id
    BY <1>1, <1>4
  <2>5. Kept(k + 1, T, m + 1)
    BY <1>2, <2>1, <2>2, <2>3, <2>4 DEF Kept
  <2> QED  BY <2>1, <2>5 DEF T
<1>5. CASE /\ Len(T) = RegisterCap /\ Len(R) = RegisterCap
           /\ \A i \in 1..(RegisterCap - 1) : T[i] = R[i + 1]
           /\ T[RegisterCap] = id
  <2> HIDE DEF T
  <2>1. m + 1 <= Len(T) /\ m + 1 \in 0..(k + 1) /\ Len(T) - (m + 1) + 1 = Len(R) - m
        /\ Len(T) - (m + 1) = Len(R) - m - 1
    BY <1>1, <1>5
  <2>2. \A i \in 1..(Len(R) - m - 1) : T[i] \in ToSet(register)
    <3> TAKE i \in 1..(Len(R) - m - 1)
    <3>1. i \in 1..(RegisterCap - 1) /\ i + 1 \in 1..(Len(R) - m)
      BY <1>1, <1>5
    <3> QED  BY <1>5, <3>1 DEF Kept
  <2>3. ASSUME NEW j \in 1..k, view[j] \notin ToSet(register)
        PROVE  \E i \in (Len(R) - m)..Len(T) : T[i] = view[j]
    <3>1. PICK i \in (Len(R) - m + 1)..Len(R) : R[i] = view[j]
      BY <2>3 DEF Kept
    <3>2. i - 1 \in 1..(RegisterCap - 1) /\ i - 1 \in (Len(R) - m)..Len(T) /\ (i - 1) + 1 = i
      BY <1>1, <1>5, <3>1
    <3> QED  BY <1>5, <3>1, <3>2
  <2>4. \E i \in (Len(R) - m)..Len(T) : T[i] = id
    BY <1>1, <1>5
  <2>5. Kept(k + 1, T, m + 1)
    BY <1>2, <2>1, <2>2, <2>3, <2>4 DEF Kept
  <2> QED  BY <2>1, <2>5 DEF T
<1> QED  BY <1>3, <1>4, <1>5, Remembered

(* What an observation makes of the register.                              *)
LEMMA Observed ==
  ASSUME IsRegister(register), view \in Seq(People)
  PROVE  /\ IsRegister(ObserveOthers)
         /\ Len(view) <= RegisterCap => ToSet(view) \subseteq ToSet(register) \cup ToSet(ObserveOthers)
<1> DEFINE n == Len(view)
<1>1. n \in Nat /\ DOMAIN view = 1..n /\ \A k \in 1..n : view[k] \in People
  OBVIOUS
<1> HIDE DEF n
<1>2. PICK reg : /\ reg[0] = register /\ reg[n] = ObserveOthers
                 /\ \A k \in 1..n : reg[k] = RememberOther(reg[k-1], view[k])
  BY <1>1, OneByOne
<1> DEFINE Good(k) == /\ IsRegister(reg[k])
                      /\ n <= RegisterCap => \E m \in 0..k : Kept(k, reg[k], m)
           Bad == {k \in 0..n : ~ Good(k)}
<1>3. Good(0)
  <2>1. Kept(0, register, 0)
    <3>1. register \in Seq(People) /\ Len(register) \in Nat /\ DOMAIN register = 1..Len(register)
      BY DEF IsRegister
    <3>2. \A i \in 1..(Len(register) - 0) : register[i] \in ToSet(register)
      BY <3>1 DEF ToSet
    <3> QED  BY <3>1, <3>2 DEF Kept
  <2> QED  BY <1>2, <2>1
<1>4. ASSUME NEW k \in 1..n, Good(k-1) PROVE Good(k)
  <2>1. k - 1 \in Nat /\ (k - 1) + 1 = k /\ view[k] \in People /\ k <= n
    BY <1>1
  <2>2. reg[k] = RememberOther(reg[k-1], view[k])
    BY <1>2
  <2>3. IsRegister(reg[k])
    BY <1>4, <2>1, <2>2, Remembered
  <2>4. ASSUME n <= RegisterCap PROVE \E m \in 0..k : Kept(k, reg[k], m)
    <3>1. PICK m \in 0..(k-1) : Kept(k-1, reg[k-1], m)
      BY <1>4, <2>4
    <3>2. k - 1 < RegisterCap
      BY <1>1, <2>1, <2>4, HarnessNumbers
    <3>3. \E p \in 0..((k-1) + 1) : Kept((k-1) + 1, RememberOther(reg[k-1], view[(k-1) + 1]), p)
      BY <1>4, <2>1, <3>1, <3>2, OneMoreIsKept
    <3> QED  BY <2>1, <2>2, <3>3
  <2> QED  BY <2>3, <2>4
<1> HIDE DEF Good
<1>5. \A k \in 0..n : Good(k)
  <2> SUFFICES ASSUME Bad # {} PROVE FALSE
    OBVIOUS
  <2>1. PICK k \in Bad : \A j \in Bad : k <= j
    <3>1. Bad \in SUBSET Nat
      OBVIOUS
    <3> HIDE DEF Bad
    <3> QED  BY <3>1, LeastNumber
  <2>2. k # 0
    BY <1>3, <2>1
  <2>3. k \in 1..n /\ k - 1 \in 0..n /\ ~ (k <= k - 1)
    BY <1>1, <2>1, <2>2
  <2>4. Good(k - 1)
    BY <2>1, <2>3
  <2> QED  BY <1>4, <2>1, <2>3, <2>4
<1>6. Good(n)
  BY <1>1, <1>5
<1>7. IsRegister(ObserveOthers)
  BY <1>2, <1>6 DEF Good
<1>8. ASSUME n <= RegisterCap PROVE ToSet(view) \subseteq ToSet(register) \cup ToSet(ObserveOthers)
  <2>1. PICK m \in 0..n : Kept(n, ObserveOthers, m)
    BY <1>2, <1>6, <1>8 DEF Good
  <2>2. ObserveOthers \in Seq(People) /\ DOMAIN ObserveOthers = 1..Len(ObserveOthers)
        /\ Len(ObserveOthers) \in Nat
    BY <1>7 DEF IsRegister
  <2>3. ASSUME NEW j \in 1..n PROVE view[j] \in ToSet(register) \cup ToSet(ObserveOthers)
    <3>1. CASE \E i \in (Len(ObserveOthers) - m + 1)..Len(ObserveOthers) : ObserveOthers[i] = view[j]
      <4>1. PICK i \in (Len(ObserveOthers) - m + 1)..Len(ObserveOthers) : ObserveOthers[i] = view[j]
        BY <3>1
      <4>2. i \in 1..Len(ObserveOthers)
        BY <1>1, <2>1, <2>2 DEF Kept
      <4> QED  BY <2>2, <4>1, <4>2 DEF ToSet
    <3> QED  BY <2>1, <3>1 DEF Kept
  <2> QED  BY <1>1, <2>3 DEF ToSet
<1> QED  BY <1>7, <1>8 DEF n

-----------------------------------------------------------------------------
(* The plan. *)

(* What is bound is never empty, and pays exactly if the plan does.        *)
LEMMA BoundIs ==
  ASSUME NEW s \in Seq(Verbs)
  PROVE  /\ Bound(s) \in Seq(Verbs) /\ Len(Bound(s)) \in Nat \ {0}
         /\ "pay" \in ToSet(s) => "pay" \in ToSet(Bound(s))
<1>1. Len(s) \in Nat /\ DOMAIN s = 1..Len(s)
  OBVIOUS
<1>2. CASE s = << >>
  <2>1. Bound(s) = <<"wait">>
    BY <1>2 DEF Bound
  <2>2. "wait" \in Verbs
    BY DEF Verbs, Grammar
  <2>3. ToSet(s) = {}
    BY <1>2 DEF ToSet
  <2> QED  BY <2>1, <2>2, <2>3
<1>3. CASE s # << >>
  <2>1. Bound(s) = [i \in 1..Len(s) |-> ActionFromDict(s[i])]
    BY <1>1, <1>3 DEF Bound
  <2>2. \A i \in 1..Len(s) : ActionFromDict(s[i]) \in Verbs
    BY DEF ActionFromDict, Verbs, Grammar, Table
  <2>3. Bound(s) \in Seq(Verbs) /\ Len(Bound(s)) = Len(s)
    BY <1>1, <2>1, <2>2
  <2>4. Len(s) # 0
    BY <1>3, EmptySeq
  <2>5. ASSUME NEW i \in 1..Len(s), s[i] = "pay" PROVE Bound(s)[i] = "pay"
    BY <2>1, <2>5 DEF ActionFromDict, Table
  <2>6. "pay" \in ToSet(s) => "pay" \in ToSet(Bound(s))
    BY <1>1, <2>3, <2>5 DEF ToSet
  <2> QED  BY <1>1, <2>3, <2>4, <2>6
<1> QED  BY <1>2, <1>3

LEMMA UpToThree ==
  ASSUME NEW n \in Nat, n # 0, NEW k, k = IF n < 3 THEN n ELSE 3
  PROVE  k \in 1..3 /\ k <= n /\ k \in Int
  OBVIOUS

(* The first three of a sequence are a beginning of it.                    *)
LEMMA FirstThreeIs ==
  ASSUME NEW s \in Seq(Verbs), Len(s) # 0
  PROVE  /\ FirstThree(s) \in Seq(Verbs) /\ Len(FirstThree(s)) \in 1..3 /\ IsPrefix(FirstThree(s), s)
<1> DEFINE k == IF Len(s) < 3 THEN Len(s) ELSE 3
           p == SubSeq(s, 1, k)
<1>1. Len(s) \in Nat /\ k \in 1..3 /\ k <= Len(s) /\ k \in Int
  <2>1. Len(s) \in Nat
    OBVIOUS
  <2> QED  BY <2>1, UpToThree
<1> HIDE DEF k
<1>2. \A i \in 1..k : s[i] \in Verbs
  BY <1>1
<1>3. p \in Seq(Verbs) /\ Len(p) = k
  BY <1>1, <1>2, SubSeqProperties
<1>4. SubSeq(p, 1, Len(p)) = p
  BY <1>3, SubSeqFull
<1>5. IsPrefix(p, s)
  BY <1>1, <1>3, <1>4 DEF IsPrefix
<1>6. FirstThree(s) = p
  BY DEF FirstThree, k
<1> QED  BY <1>1, <1>3, <1>5, <1>6

LEMMA SingleOrPair ==
  ASSUME NEW S, NEW x \in S, NEW y \in S PROVE <<x>> \in Seq(S) /\ <<x, y>> \in Seq(S)
  OBVIOUS

LEMMA NudgeKeeps ==
  ASSUME NEW s \in Seq(Verbs), Len(s) # 0
  PROVE  /\ Nudge(s) \in Seq(Verbs) /\ Len(Nudge(s)) \in 1..3
         /\ around.inside \/ around.door \in {"none", "in sight"} =>
              \E step \in {<< >>, <<"step">>}, tip \in {<< >>, <<"pay">>} :
                /\ IsPrefix(Nudge(s), step \o s \o tip)
                /\ tip = << >> \/ "pay" \notin ToSet(s)
<1> DEFINE whole == Tipped(Stepped(s), s)
<1>1. {"step", "pay", "interact enter", "interact exit"} \subseteq Verbs
  BY DEF Verbs, Table, Grammar
<1>2. PICK step \in {<< >>, <<"step">>} : Stepped(s) = step \o s
  <2>1. << >> \o s = s
    BY ConcatEmptySeq
  <2> QED  BY <2>1 DEF Stepped
<1>3. step \in Seq(Verbs)
  <2>1. << >> \in Seq(Verbs) /\ <<"step">> \in Seq(Verbs)
    <3>1. << >> \in Seq(Verbs)
      BY EmptySeq
    <3> QED  BY <1>1, <3>1, SingleOrPair
  <2> QED  BY <2>1
<1>4. step \o s \in Seq(Verbs) /\ Len(step \o s) # 0
  BY <1>3, ConcatProperties
<1>5. PICK tip \in {<< >>, <<"pay">>} : whole = (step \o s) \o tip /\ (tip = << >> \/ "pay" \notin ToSet(s))
  <2>1. CASE "pay" \notin ToSet(s) /\ around.gold /\ around.beside
    <3>1. whole = Append(step \o s, "pay")
      BY <1>2, <2>1 DEF Tipped
    <3>2. whole = (step \o s) \o <<"pay">>
      BY <1>1, <1>4, <3>1, AppendIsConcat
    <3> QED  BY <2>1, <3>2
  <2>2. CASE ~ ("pay" \notin ToSet(s) /\ around.gold /\ around.beside)
    <3>1. whole = step \o s
      BY <1>2, <2>2 DEF Tipped
    <3>2. (step \o s) \o << >> = step \o s
      BY <1>4, ConcatEmptySeq
    <3> QED  BY <3>1, <3>2
  <2> QED  BY <2>1, <2>2
<1>6. tip \in Seq(Verbs)
  <2>1. << >> \in Seq(Verbs) /\ <<"pay">> \in Seq(Verbs)
    <3>1. << >> \in Seq(Verbs)
      BY EmptySeq
    <3> QED  BY <1>1, <3>1, SingleOrPair
  <2> QED  BY <2>1
<1>7. whole \in Seq(Verbs) /\ Len(whole) # 0
  BY <1>4, <1>5, <1>6, ConcatProperties
<1>8. FirstThree(whole) \in Seq(Verbs) /\ Len(FirstThree(whole)) \in 1..3 /\ IsPrefix(FirstThree(whole), whole)
  BY <1>7, FirstThreeIs
<1> HIDE DEF whole
<1>9. CASE Nudge(s) = FirstThree(whole)
  BY <1>5, <1>8, <1>9
<1>10. CASE Nudge(s) = <<"interact enter", "interact exit">> /\ ~ around.inside /\ around.door = "adjacent"
  <2>1. <<"interact enter", "interact exit">> \in Seq(Verbs)
    BY <1>1, SingleOrPair
  <2>2. Len(<<"interact enter", "interact exit">>) = 2 /\ 2 \in 1..3
    OBVIOUS
  <2>3. Len(<<"interact enter", "interact exit">>) \in 1..3
    BY <2>2, Zenon
  <2>4. ~ around.inside /\ around.door \notin {"none", "in sight"}
    BY <1>10
  <2> QED  BY <1>10, <2>1, <2>3, <2>4, Zenon
<1>11. CASE Nudge(s) = <<"step">> /\ ~ around.inside /\ around.door = "near"
  <2>1. <<"step">> \in Seq(Verbs)
    BY <1>1, SingleOrPair
  <2>2. Len(<<"step">>) = 1 /\ 1 \in 1..3
    OBVIOUS
  <2>3. Len(<<"step">>) \in 1..3
    BY <2>2, Zenon
  <2>4. ~ around.inside /\ around.door \notin {"none", "in sight"}
    BY <1>11
  <2> QED  BY <1>11, <2>1, <2>3, <2>4, Zenon
<1> QED  BY <1>9, <1>10, <1>11 DEF Nudge, whole

-----------------------------------------------------------------------------
(* The harness. *)

(* The local model's batch is its nudged plan, also behind a note.         *)
PlanNudged == agent = "qwen" /\ at \in {"ship note", "act"} => batch = Nudge(Bound(plan))

HInv == HarnessTypeOK /\ gap \in {0, ReflectiveEvery} /\ waited = count /\ PlanNudged

LEMMA HarnessInvMeans == HInv => HarnessSafe
<1> SUFFICES ASSUME HInv PROVE HarnessSafe
  OBVIOUS
<1>1. HarnessTypeOK
  BY DEF HInv
<1>2. ReflectionCadence
  <2>1. count \in 0..(ReflectiveEvery - 1) /\ waited = count /\ gap \in {0, ReflectiveEvery}
    BY DEF HInv, HarnessTypeOK
  <2>2. ReflectiveEvery \in Nat
    BY HarnessNumbers
  <2>3. waited < ReflectiveEvery
    BY <2>1, <2>2
  <2> QED  BY <2>1, <2>3 DEF ReflectionCadence
<1>3. PlanIsKept
  <2> SUFFICES ASSUME agent = "qwen", at = "act"
               PROVE  /\ Len(batch) \in 1..3
                      /\ around.inside \/ around.door \in {"none", "in sight"} =>
                           \E step \in {<< >>, <<"step">>}, tip \in {<< >>, <<"pay">>} :
                             /\ IsPrefix(batch, step \o Bound(plan) \o tip)
                             /\ tip = << >> \/ "pay" \notin ToSet(plan)
    BY Zenon DEF PlanIsKept
  <2>1. batch = Nudge(Bound(plan)) /\ plan \in Seq(Verbs)
    BY DEF HInv, PlanNudged, HarnessTypeOK
  <2>2. Bound(plan) \in Seq(Verbs) /\ Len(Bound(plan)) # 0
        /\ ("pay" \in ToSet(plan) => "pay" \in ToSet(Bound(plan)))
    BY <2>1, BoundIs
  <2>3. /\ Len(batch) \in 1..3
        /\ around.inside \/ around.door \in {"none", "in sight"} =>
             \E step \in {<< >>, <<"step">>}, tip \in {<< >>, <<"pay">>} :
               /\ IsPrefix(batch, step \o Bound(plan) \o tip)
               /\ tip = << >> \/ "pay" \notin ToSet(Bound(plan))
    BY <2>1, <2>2, NudgeKeeps
  <2> QED  BY <2>2, <2>3, Zenon
<1> QED  BY <1>1, <1>2, <1>3 DEF HarnessSafe

LEMMA HarnessInitOK == HarnessInit \/ HarnessIsOver => HInv
<1> SUFFICES ASSUME HarnessInit \/ HarnessIsOver PROVE HInv
  OBVIOUS
<1>0. /\ agent \in {"claude", "qwen"} /\ at \in {"persona", "exited"}
      /\ around = Calm /\ view = << >> /\ register = << >> /\ theory = {}
      /\ goals = [active |-> 0, done |-> 0] /\ count = 0 /\ note = FALSE
      /\ plan = << >> /\ batch = << >> /\ waited = 0 /\ gap = 0
  BY DEF HarnessInit, HarnessIsOver
<1> USE <1>0
<1>1. /\ register \in Seq(People) /\ Len(register) = 0 /\ plan \in Seq(Verbs) /\ batch \in Seq(Verbs)
  BY EmptySeq
<1>2. DOMAIN register = {}
  BY <1>1
<1>3. IsInjective(register) /\ theory \subseteq ToSet(register)
  BY <1>2 DEF IsInjective
<1>4. /\ count = 0 /\ waited = 0 /\ gap = 0 /\ goals = [active |-> 0, done |-> 0]
      /\ ReflectiveEvery \in Nat \ {0} /\ MaxGoals \in Nat /\ RegisterCap \in Nat
  BY HarnessNumbers
<1>5. /\ count \in 0..(ReflectiveEvery - 1) /\ waited \in 0..ReflectiveEvery /\ gap \in 0..(2 * ReflectiveEvery)
      /\ goals \in [active : 0..MaxGoals, done : 0..MaxGoals] /\ Len(register) <= RegisterCap
  BY <1>1, <1>4
<1>6. /\ agent \in {"claude", "qwen"} /\ at \in {"persona", "exited"} /\ around \in Scenes \cup {Calm}
      /\ view \in Views \cup {<< >>} /\ note \in BOOLEAN
  OBVIOUS
<1>7. HarnessTypeOK
  BY <1>1, <1>3, <1>5, <1>6 DEF HarnessTypeOK
<1> QED  BY <1>4, <1>6, <1>7 DEF HInv, PlanNudged

LEMMA HarnessStep == HInv /\ [HarnessNext]_harnessVars => HInv'
<1> SUFFICES ASSUME HInv, [HarnessNext]_harnessVars PROVE HInv'
  OBVIOUS
<1>t. HarnessTypeOK /\ gap \in {0, ReflectiveEvery} /\ waited = count
  BY DEF HInv
<1>n. /\ RegisterCap \in Nat \ {0} /\ ReflectiveEvery \in Nat \ {0} /\ MaxGoals \in Nat \ {0, 1}
  BY HarnessNumbers
<1>c. count \in Nat /\ count <= ReflectiveEvery - 1 /\ waited = count /\ ReflectiveEvery \in Nat
  <2>1. count \in 0..(ReflectiveEvery - 1)
    BY <1>t DEF HarnessTypeOK
  <2> QED  BY <1>t, <1>n, <2>1
(* A step that is not about the batch and leaves the memory alone.         *)
<1>q. ASSUME NEW place \in {"persona", "register", "watch", "brain", "reflect", "tactical", "ship note", "act",
                            "silent", "closing", "exited"},
             at' = place, UNCHANGED <<agent, mind>>,
             around' \in Scenes \cup {Calm}, view' \in Views \cup {<< >>}, note' \in BOOLEAN,
             plan' \in Seq(Verbs), batch' \in Seq(Verbs), PlanNudged'
      PROVE  HInv'
  BY <1>t, <1>q DEF HInv, HarnessTypeOK, mind
<1>g. ASSUME NEW place \in {"register", "watch", "act", "exited"}, Goto(place),
             place = "act" => at = "ship note"
      PROVE  HInv'
  <2>1. at' = place /\ UNCHANGED <<agent, cycle, mind>>
    BY <1>g DEF Goto
  <2>2. PlanNudged'
    BY <1>g, <2>1 DEF HInv, PlanNudged, cycle, Nudge, Tipped, Stepped
  <2> QED  BY <1>t, <1>q, <2>1, <2>2 DEF HarnessTypeOK, cycle
<1>f. ASSUME NEW place \in {"watch", "silent", "closing", "exited"}, at' = place, Forget, UNCHANGED <<agent, mind>>
      PROVE  HInv'
  <2>1. plan' \in Seq(Verbs) /\ batch' \in Seq(Verbs)
    BY <1>f, EmptySeq DEF Forget
  <2>2. PlanNudged'
    BY <1>f DEF PlanNudged
  <2> QED  BY <1>f, <1>q, <2>1, <2>2 DEF Forget
<1>1. CASE InitPersona
  <2>1. PICK n \in (IF agent = "claude" THEN {2} ELSE 0..MaxGoals) : goals' = [goals EXCEPT !.active = n]
    BY <1>1 DEF InitPersona
  <2>2. n \in 0..MaxGoals
    BY <1>n
  <2>3. goals' \in [active : 0..MaxGoals, done : 0..MaxGoals]
    BY <1>t, <2>1, <2>2 DEF HarnessTypeOK
  <2>4. /\ at' = "register" /\ UNCHANGED <<agent, cycle, register, theory, count, waited, gap>>
    BY <1>1 DEF InitPersona
  <2> QED  BY <1>t, <2>3, <2>4 DEF HInv, HarnessTypeOK, PlanNudged, cycle
<1>2. CASE Register
  BY <1>2, <1>g DEF Register
<1>3. CASE StartFails
  BY <1>3, <1>g DEF StartFails
<1>4. CASE NextObservation
  <2>1. at' = "brain" /\ UNCHANGED <<agent, note, plan, batch, mind>>
        /\ around' \in Scenes /\ view' \in Views
    BY <1>4 DEF NextObservation
  <2> QED  BY <1>t, <1>q, <2>1 DEF HarnessTypeOK, PlanNudged
<1>5. CASE ReflexLayer
  <2>1. at' = "act" /\ agent = "claude" /\ UNCHANGED <<agent, around, view, note, plan, mind>>
        /\ batch' = <<"step">>
    BY <1>5 DEF ReflexLayer
  <2>2. batch' \in Seq(Verbs)
    BY <2>1 DEF Verbs, Table
  <2>3. PlanNudged'
    BY <2>1 DEF PlanNudged
  <2> QED  BY <1>t, <1>q, <2>1, <2>2, <2>3 DEF HarnessTypeOK
<1>6. CASE NotYet
  <2>1. /\ at' = "tactical" /\ count' = count + 1 /\ waited' = waited + 1 /\ count + 1 < ReflectiveEvery
        /\ UNCHANGED <<agent, cycle, register, theory, goals, gap>>
    BY <1>6 DEF NotYet
  <2>2. count' \in 0..(ReflectiveEvery - 1) /\ waited' \in 0..ReflectiveEvery
    BY <1>c, <2>1
  <2> QED  BY <1>t, <2>1, <2>2 DEF HInv, HarnessTypeOK, PlanNudged, cycle
<1>7. CASE BeginReflection
  <2>1. /\ at' = "reflect" /\ count' = 0 /\ waited' = 0 /\ gap' = waited + 1 /\ count + 1 >= ReflectiveEvery
        /\ UNCHANGED <<agent, cycle, register, theory, goals>>
    BY <1>7 DEF BeginReflection
  <2>2. /\ gap' = ReflectiveEvery /\ count' \in 0..(ReflectiveEvery - 1) /\ waited' \in 0..ReflectiveEvery
        /\ gap' \in 0..(2 * ReflectiveEvery)
    BY <1>c, <2>1
  <2> QED  BY <1>t, <2>1, <2>2 DEF HInv, HarnessTypeOK, PlanNudged, cycle
<1>8. CASE Reflect
  <2>1. /\ at' = "tactical" /\ note' \in BOOLEAN
        /\ UNCHANGED <<agent, around, view, plan, batch, register, count, waited, gap>>
    BY <1>8 DEF Reflect
  <2>2. theory' \subseteq ToSet(register)
    BY <1>t, <1>8 DEF Reflect, HarnessTypeOK
  <2>3. goals' \in [active : 0..MaxGoals, done : 0..MaxGoals]
    <3>1. CASE UNCHANGED goals
      BY <1>t, <3>1 DEF HarnessTypeOK
    <3>2. ASSUME NEW pushed \in 0..1, NEW completed \in 0..1,
                 goals.active + goals.done + pushed <= MaxGoals, completed <= goals.active,
                 goals' = [active |-> goals.active + pushed - completed, done |-> goals.done + completed]
          PROVE  goals' \in [active : 0..MaxGoals, done : 0..MaxGoals]
      <4>1. goals.active \in 0..MaxGoals /\ goals.done \in 0..MaxGoals
        BY <1>t DEF HarnessTypeOK
      <4>2. goals.active + pushed - completed \in 0..MaxGoals /\ goals.done + completed \in 0..MaxGoals
        BY <1>n, <3>2, <4>1
      <4> QED  BY <3>2, <4>2
    <3> QED  BY <1>8, <3>1, <3>2 DEF Reflect
  <2> QED  BY <1>t, <2>1, <2>2, <2>3 DEF HInv, HarnessTypeOK, PlanNudged
<1>o. at = "tactical" \/ at = "reflect" =>
        /\ ObserveOthers \in Seq(People) /\ IsInjective(ObserveOthers) /\ Len(ObserveOthers) <= RegisterCap
        /\ KeptTheories \subseteq ToSet(ObserveOthers)
  <2>1. view \in Seq(People)
    BY <1>t, HarnessNumbers, EmptySeq DEF HarnessTypeOK
  <2>2. IsRegister(register)
    BY <1>t DEF HarnessTypeOK, IsRegister
  <2> QED  BY <2>1, <2>2, Observed DEF IsRegister, KeptTheories
<1>9. CASE Tactical
  <2>1. /\ register' = ObserveOthers /\ theory' = KeptTheories /\ plan' \in Plans
        /\ UNCHANGED <<agent, around, view, note, goals, count, waited, gap>>
        /\ at = "tactical" /\ at' \in {"act", "ship note"}
    BY <1>9 DEF Tactical
  <2>2. plan' \in Seq(Verbs)
    <3>1. <<"wait">> \in Seq(Verbs)
      BY DEF Verbs, Grammar
    <3>2. Seq(Grammar) \subseteq Seq(Verbs)
      <4>1. Grammar \subseteq Verbs
        BY DEF Verbs
      <4> QED  BY <4>1
    <3> QED  BY <2>1, <3>1, <3>2, HarnessNumbers DEF Plans
  <2>3. Bound(plan') \in Seq(Verbs) /\ Len(Bound(plan')) \in Nat \ {0}
    BY <2>2, BoundIs
  <2>4. batch' \in Seq(Verbs) /\ (agent = "qwen" => batch' = Nudge(Bound(plan')))
    <3>1. CASE agent = "claude"
      <4>1. Bound(plan')[1] \in Verbs
        BY <2>3
      <4>2. batch' = <<Bound(plan')[1]>>
        BY <1>9, <3>1 DEF Tactical
      <4> QED  BY <3>1, <4>1, <4>2
    <3>2. CASE agent = "qwen"
      <4>1. batch' = Nudge(Bound(plan'))
        BY <1>9, <3>2 DEF Tactical
      <4> QED  BY <2>3, <4>1, NudgeKeeps
    <3> QED  BY <1>t, <3>1, <3>2 DEF HarnessTypeOK
  <2>5. PlanNudged'
    BY <2>1, <2>4 DEF PlanNudged, Nudge, Tipped, Stepped
  <2>6. HarnessTypeOK'
    BY <1>t, <1>o, <2>1, <2>2, <2>4 DEF HarnessTypeOK
  <2> QED  BY <1>t, <2>1, <2>5, <2>6 DEF HInv
<1>10. CASE CycleFails
  <2>1. /\ at' = "watch" /\ Forget /\ UNCHANGED <<agent, goals, count, waited, gap>>
        /\ \/ /\ at = "tactical" /\ register' = ObserveOthers /\ theory' = KeptTheories
           \/ UNCHANGED <<register, theory>>
    BY <1>10 DEF CycleFails
  <2>2. plan' \in Seq(Verbs) /\ batch' \in Seq(Verbs) /\ around' = Calm /\ view' = << >> /\ note' = FALSE
    BY <2>1, EmptySeq DEF Forget
  <2>3. /\ register' \in Seq(People) /\ IsInjective(register)' /\ Len(register') <= RegisterCap
        /\ theory' \subseteq ToSet(register')
    <3>1. CASE UNCHANGED <<register, theory>>
      BY <1>t, <3>1 DEF HarnessTypeOK
    <3>2. CASE at = "tactical" /\ register' = ObserveOthers /\ theory' = KeptTheories
      BY <1>o, <3>2
    <3> QED  BY <2>1, <3>1, <3>2
  <2>4. HarnessTypeOK'
    BY <1>t, <2>1, <2>2, <2>3 DEF HarnessTypeOK
  <2> QED  BY <1>t, <2>1, <2>4 DEF HInv, PlanNudged
<1>11. CASE ShipNote
  BY <1>11, <1>g DEF ShipNote
<1>12. CASE ActBatch
  BY <1>12, <1>f DEF ActBatch
<1>13. CASE Silenced
  BY <1>13, <1>f DEF Silenced
<1>14. CASE RuntimeEnds
  BY <1>14, <1>f DEF RuntimeEnds
<1>15. CASE Close
  BY <1>15, <1>g DEF Close
<1>16. CASE Alarm
  BY <1>16, <1>f DEF Alarm
<1>17. CASE UNCHANGED harnessVars
  <2>1. UNCHANGED <<agent, at, cycle, mind>>
    BY <1>17 DEF harnessVars
  <2>2. PlanNudged'
    BY <2>1 DEF HInv, PlanNudged, cycle, Nudge, Tipped, Stepped
  <2> QED  BY <1>t, <2>1, <2>2 DEF HInv, HarnessTypeOK, cycle, mind
<1> QED
  BY <1>1, <1>2, <1>3, <1>4, <1>5, <1>6, <1>7, <1>8, <1>9, <1>10, <1>11, <1>12, <1>13, <1>14, <1>15, <1>16, <1>17
  DEF HarnessNext

(* For any people, views and plans: what is shipped is never empty and     *)
(* never more than three actions; unless a door is at most two tiles away  *)
(* it is the plan from its beginning, with at most one step before and one *)
(* tip behind it, and no tip if the plan pays already; and the model       *)
(* reflects on every ReflectiveEvery-th cycle, failed cycles included      *)
(* (harness.py, maybe_reflect and tactical; qwen_agent/main.py,            *)
(* _post_tactical_nudge).                                                  *)
THEOREM LayersKeepWhatTheyAreGiven == HarnessInit /\ [][HarnessNext]_harnessVars => []HarnessSafe
  BY HarnessInitOK, HarnessStep, HarnessInvMeans, PTL

LEMMA NewlyMetIsSeen ==
  HInv /\ [HarnessNext]_harnessVars =>
    [at = "tactical" /\ at' # "exited" /\ Len(view) <= RegisterCap
       => ToSet(view) \subseteq ToSet(register) \cup ToSet(register')]_harnessVars
<1> SUFFICES ASSUME HInv, HarnessNext, at = "tactical", at' # "exited", Len(view) <= RegisterCap
             PROVE  ToSet(view) \subseteq ToSet(register) \cup ToSet(register')
  OBVIOUS
<1>1. register' = ObserveOthers
  BY DEF HarnessNext, InitPersona, Register, StartFails, NextObservation, ReflexLayer, NotYet, Counting,
     BeginReflection, Reflect, Tactical, CycleFails, ShipNote, ActBatch, Silenced, RuntimeEnds, Close, Alarm, Goto
<1>2. view \in Seq(People) /\ IsRegister(register)
  BY HarnessNumbers, EmptySeq DEF HInv, HarnessTypeOK, IsRegister
<1> QED  BY <1>1, <1>2, Observed

(* For any people and any bound of the register: whoever is met for the    *)
(* first time is remembered after the observation, if no more are in view  *)
(* than the register has room for, whoever has to leave for them           *)
(* (state.py, the entity register; harness.py, _observe_others).           *)
THEOREM NewcomersAreRemembered == HarnessInit /\ [][HarnessNext]_harnessVars => NewlyMetIsKept
  BY NewlyMetIsSeen, HarnessInitOK, HarnessStep, PTL DEF NewlyMetIsKept

-----------------------------------------------------------------------------
(* Either mind, as in the module that is checked.                          *)
MindsInv == FInv /\ HInv

LEMMA MindsStep ==
  MindsInv /\ [(FocalRuns /\ Next) \/ (HarnessRuns /\ HarnessNext)]_all
    => MindsInv' /\ [HarnessNext]_harnessVars
<1> SUFFICES ASSUME MindsInv, [(FocalRuns /\ Next) \/ (HarnessRuns /\ HarnessNext)]_all
             PROVE  MindsInv' /\ [HarnessNext]_harnessVars
  OBVIOUS
<1>1. [Next]_vars /\ [HarnessNext]_harnessVars
  BY DEF FocalRuns, HarnessRuns, all
<1> QED  BY <1>1, FocalStep, HarnessStep DEF MindsInv

(* Of either mind, with the fairness of engine, models and timers: the     *)
(* model is called with restraint, the layers keep what they are given and *)
(* newcomers are remembered (motor_loop.py, harness.py).                   *)
THEOREM MindsAreSafe == MindsSpec => [](FocalSafe /\ HarnessSafe) /\ NewlyMetIsKept
<1>1. MindsInit => MindsInv
  BY FocalInitOK, HarnessInitOK DEF MindsInit, MindsInv
<1>2. MindsInv => FocalSafe /\ HarnessSafe
  BY HarnessInvMeans DEF MindsInv, FInv
<1>3. MindsInv /\ [(FocalRuns /\ Next) \/ (HarnessRuns /\ HarnessNext)]_all
        => MindsInv' /\ [at = "tactical" /\ at' # "exited" /\ Len(view) <= RegisterCap
                          => ToSet(view) \subseteq ToSet(register) \cup ToSet(register')]_harnessVars
  BY MindsStep, NewlyMetIsSeen DEF MindsInv
<1> QED  BY <1>1, <1>2, <1>3, PTL DEF MindsSpec, NewlyMetIsKept
=============================================================================
