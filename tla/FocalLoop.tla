----------------------------- MODULE FocalLoop -----------------------------
(***************************************************************************)
(* The loop of an LLM agent (agents/llm/qwen_focal.py, claude_focal.py)    *)
(* and its scheduler (motor_loop.py): on every observation a fast reflex,  *)
(* and beside it one slow call of the model in a thread, started on a      *)
(* cadence or early when something new is seen or heard.                   *)
(*                                                                         *)
(* Time is counted in world ticks since an event of interest.  Of a        *)
(* decision the model keeps whether it moves the standing goal and how     *)
(* many direct verbs it has; what a prompt says is left out.  The language *)
(* model, its thread and the engine are external.                          *)
(***************************************************************************)
EXTENDS Naturals, Sequences

CONSTANTS
  Others,      \* the entities that come into view
  Every,       \* deliberate_every_ticks, 120
  MinGap,      \* min_gap_ticks, 30
  Gaps,        \* the ticks between two observations
  MaxCycles,   \* cfg.max_cycles, where it is set
  RingSize,    \* bound on the audible events of an observation
  MaxViolent,  \* bound on the violent events
  Replies      \* what the model may answer

ASSUME FocalAssumption ==
  /\ Every \in Nat /\ MinGap \in Nat /\ 0 < MinGap /\ MinGap < Every
  /\ Gaps \subseteq Nat \ {0}
  /\ {MaxCycles, RingSize, MaxViolent} \subseteq Nat

Violent == 1..MaxViolent
Talk    == 0                 \* speech, which wakes nobody

(* A reply: a decision, "failed" for an exception in the thread and "odd"  *)
(* for JSON that is no object or whose actions are no list.                *)
Decision == [kind : {"decision"}, moves : BOOLEAN, direct : 0..3]
Failed   == [kind |-> "failed", moves |-> FALSE, direct |-> 0]
Odd      == [kind |-> "odd", moves |-> FALSE, direct |-> 0]
ASSUME ReplyAssumption == Replies \subseteq Decision \cup {Failed, Odd}

VARIABLES
  run,      \* "loop", "acting" (awaits the acks of a batch), "ended", "crashed"
  limited,  \* cfg.max_cycles is set
  stopped,  \* _stopped
  motor,    \* the nav grid has been fetched
  vis,      \* visible entities of the observation in hand
  audible,  \* its audible events, oldest first
  task,     \* _task: "none", "running" or the reply of a finished call
  since,    \* ticks since _last_deliberate_tick, no more than Every
  prevVis,  \* _prev_visible
  seen,     \* _seen_violent
  goal,     \* the standing goal has been set by the model
  cycles,   \* calls started, counted where they are limited
  sent,     \* what went out on this observation: subset of {"direct", "reflex"}
  born,     \* the violent events so far
  apart,    \* history: ticks since the last call was started, no more than Every
  spacing,  \* history: the least such distance of two calls
  alarms    \* history: how often an event alone woke the model early

sched == <<task, since, prevVis, seen, cycles, apart, spacing, alarms>>
scene == <<vis, audible, born>>
vars  == <<run, limited, stopped, motor, goal, sent, sched, scene>>

None    == [kind |-> "none", moves |-> FALSE, direct |-> 0]
Running == [kind |-> "running", moves |-> FALSE, direct |-> 0]

(* Every variable has its type; the budget of calls is kept.               *)
TypeOK ==
  /\ run \in {"loop", "acting", "ended", "crashed"}
  /\ limited \in BOOLEAN /\ stopped \in BOOLEAN /\ motor \in BOOLEAN /\ goal \in BOOLEAN
  /\ vis \subseteq Others /\ prevVis \subseteq Others
  /\ audible \in Seq(Violent \cup {Talk}) /\ Len(audible) <= RingSize
  /\ task \in Replies \cup {None, Running, Failed}
  /\ since \in 0..Every /\ apart \in 0..Every /\ spacing \in 0..Every
  /\ seen \subseteq Violent /\ born \in 0..MaxViolent
  /\ cycles \in 0..MaxCycles /\ sent \subseteq {"direct", "reflex"}
  /\ alarms \in [Violent -> Nat]

Later(t, gap) == IF t + gap < Every THEN t + gap ELSE Every

----------------------------------------------------------------------------
(* The engine's next observation: events leave the ring at its old end and *)
(* enter at its new one, others come and go.                               *)
NextScene ==
  /\ vis' \in SUBSET Others
  /\ \E old \in 0..Len(audible) :
       LET rest == SubSeq(audible, old + 1, Len(audible))
       IN \/ audible' = rest /\ UNCHANGED born
          \/ Len(rest) < RingSize /\ audible' = Append(rest, Talk) /\ UNCHANGED born
          \/ /\ Len(rest) < RingSize /\ born < MaxViolent
             /\ born' = born + 1 /\ audible' = Append(rest, born + 1)

HeardThen == {audible'[i] : i \in DOMAIN audible'} \ {Talk}

(* should_deliberate, t ticks after the last decision was taken.           *)
NewVisible(v, known)      == v \ known # {}
(* A slip: the cadence is not looked at.                                   *)
ShouldDeliberateOnNews(t, v, heard, knownVis, knownViolent) ==
  t >= MinGap /\ (NewVisible(v, knownVis) \/ heard \ knownViolent # {})

ShouldDeliberate(t, v, heard, knownVis, knownViolent) ==
  \/ t >= Every
  \/ t >= MinGap /\ (NewVisible(v, knownVis) \/ heard \ knownViolent # {})

(* start_deliberation: the call runs in a thread.                          *)
Start(t, v, heard, knownVis, knownViolent, gap) ==
  /\ task' = Running /\ cycles' = IF limited THEN cycles + 1 ELSE cycles
  /\ apart' = 0
  /\ spacing' = IF Later(apart, gap) < spacing THEN Later(apart, gap) ELSE spacing
  /\ alarms' = [e \in Violent |->
       IF t < Every /\ ~NewVisible(v, knownVis) /\ e \in heard \ knownViolent
       THEN alarms[e] + 1 ELSE alarms[e]]

(* reflex_step: the motor takes a step if the goal asks for one.           *)
Reflex(g) == IF motor' /\ g THEN {{}, {"reflex"}} ELSE {{}}

(* What the loop does with an observation before it looks at a decision:   *)
(* it stops when told to, when the body is dead, and when its budget of    *)
(* calls is spent.                                                         *)
Stops(hp) == stopped \/ hp <= 0 \/ (limited /\ cycles >= MaxCycles)

Leave ==
  \E hp \in {0, 100} :
    /\ run = "loop" /\ Stops(hp) /\ NextScene
    /\ run' = "ended"
    /\ UNCHANGED <<limited, stopped, motor, goal, sent, sched>>

EnsureMotor == motor' \in {motor, TRUE}

(* An observation on which no decision is waiting: think if it is time,    *)
(* and move.                                                               *)
ObserveAndMove ==
  /\ run = "loop" /\ ~Stops(100) /\ task \in {None, Running}
  /\ NextScene /\ EnsureMotor
  /\ \E gap \in Gaps :
       LET t == Later(since, gap) IN
       /\ since' = t
       /\ \/ /\ task = None /\ ShouldDeliberate(t, vis', HeardThen, prevVis, seen)
             /\ Start(t, vis', HeardThen, prevVis, seen, gap)
          \/ /\ task = Running \/ ~ShouldDeliberate(t, vis', HeardThen, prevVis, seen)
             /\ apart' = Later(apart, gap)
             /\ UNCHANGED <<task, cycles, spacing, alarms>>
  /\ sent' \in Reflex(goal)
  /\ UNCHANGED <<run, limited, stopped, goal, prevVis, seen>>

(* A slip: the violent events are not noted.                               *)
TakeDecisionForgetful(gap) ==
  /\ task' = None /\ since' = 0 /\ prevVis' = vis' /\ apart' = Later(apart, gap)
  /\ UNCHANGED <<seen, cycles, spacing, alarms>>

(* take_decision: the tick, the visible and the violent events of this     *)
(* observation are noted whether the call has succeeded or not.            *)
TakeDecision(gap) ==
  /\ task' = None /\ since' = 0
  /\ prevVis' = vis' /\ seen' = HeardThen
  /\ apart' = Later(apart, gap)
  /\ UNCHANGED <<cycles, spacing, alarms>>

(* apply_movement: a movement verb sets the goal and is no direct action.  *)
ApplyMovement == goal' = (goal \/ task.moves)

(* An observation that collects a finished call.  Its movement verb moves  *)
(* the goal, its direct verbs are sent and their acks awaited.  No new     *)
(* call is due on this observation.  A reply that is no decision ends run  *)
(* with an exception.                                                      *)
ObserveAndDecide ==
  /\ run = "loop" /\ ~Stops(100) /\ task \notin {None, Running}
  /\ NextScene /\ EnsureMotor
  /\ \E gap \in Gaps : TakeDecision(gap)
  /\ ApplyMovement
  /\ \/ task.kind = "odd" /\ run' = "crashed" /\ sent' = {}
     \/ task.kind # "odd" /\ task.direct = 0 /\ run' = "loop" /\ sent' \in Reflex(goal')
     \/ task.kind # "odd" /\ task.direct > 0 /\ run' = "acting" /\ sent' = {"direct"}
  /\ UNCHANGED <<limited, stopped>>

(* The acks have come, or their five seconds have passed: no reflex step   *)
(* on this observation.                                                    *)
BatchDone ==
  /\ run = "acting" /\ run' = "loop"
  /\ UNCHANGED <<limited, stopped, motor, goal, sent, sched, scene>>

(* The batch could not be sent to its end: the loop takes it as not sent   *)
(* and lets the reflex move.                                               *)
BatchFails ==
  /\ run = "acting" /\ run' = "loop"
  /\ UNCHANGED <<limited, stopped, motor, goal, sched, scene>>
  /\ \E s \in Reflex(goal) : sent' = {"direct"} \cup s

(* The thread returns: a reply, or an exception.                           *)
ModelAnswers ==
  /\ task = Running
  /\ \E r \in Replies \cup {Failed} : task' = r
  /\ UNCHANGED <<run, limited, stopped, motor, goal, sent, scene, since, prevVis, seen, cycles,
                 apart, spacing, alarms>>

(* stop()                                                                  *)
Stop ==
  /\ ~stopped /\ run \in {"loop", "acting"} /\ stopped' = TRUE
  /\ UNCHANGED <<run, limited, motor, goal, sent, sched, scene>>

(* The agent with or without a budget, and its loop, which thinks at once. *)
AgentInit ==
  run = "loop" /\ limited \in BOOLEAN /\ stopped = FALSE /\ cycles = 0 /\ sent = {}
Init ==
  /\ AgentInit /\ motor = FALSE /\ goal = FALSE
  /\ vis = {} /\ audible = << >> /\ born = 0
  /\ task = None /\ since = Every /\ prevVis = {} /\ seen = {}
  /\ apart = Every /\ spacing = Every /\ alarms = [e \in Violent |-> 0]

Observe == ObserveAndMove \/ ObserveAndDecide \/ Leave
Next == Observe \/ BatchDone \/ BatchFails \/ ModelAnswers \/ Stop

----------------------------------------------------------------------------
(* Two calls of the model start at least MinGap ticks apart, also when the *)
(* calls fail at once: a broken model or a busy scene is not called on     *)
(* every observation.                                                      *)
CallsAreSpaced == spacing >= MinGap

(* A violent event that stays audible wakes the model early at most once   *)
(* (the death scream that "re-triggered an LLM deliberation every          *)
(* observation").                                                          *)
NoRepeatedAlarm == \A e \in Violent : alarms[e] <= 1

(* What the model answered is acted on, unless the loop has ended.         *)
DecisionsTaken ==
  task.kind \in {"decision", "failed"} ~> (task = None \/ run \in {"ended", "crashed"})

(* A loop that has not ended deliberates again and again.                  *)
KeepsThinking == []<>(task = Running \/ run \in {"ended", "crashed"})

(* The model is called neither too often nor again for the same alarm.     *)
FocalSafe == TypeOK /\ CallsAreSpaced /\ NoRepeatedAlarm
============================================================================
