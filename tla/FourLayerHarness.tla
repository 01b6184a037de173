-------------------------- MODULE FourLayerHarness --------------------------
(***************************************************************************)
(* The agents with a four-layer brain: examples/claude_agent (persona,     *)
(* reflective, tactical and reflex layer, driven by a stub of a language   *)
(* model) and examples/qwen_agent (the same harness without its reflex     *)
(* layer, driven by a local model, with rules that nudge its plan), each a *)
(* program from its start to its exit.                                     *)
(*                                                                         *)
(* A call of the model is synchronous: while it runs nothing else of the   *)
(* program does, except the alarm signal.  Texts are left out: of a goal   *)
(* the model keeps whether it is active, of an action its verb.            *)
(***************************************************************************)
EXTENDS Naturals, Sequences, FiniteSets, SequencesExt

CONSTANTS
  People,           \* the entities that come into view
  RegisterCap,      \* register_cap, 20
  ReflectiveEvery,  \* reflective_every, 60 and for Qwen 20
  MaxGoals,         \* bound on the goal stack
  Views,            \* what may be in view: sequences of People
  Scenes,           \* where the body may be, see Scene
  Planned           \* the plans of the local model: sequences of verbs

(* Of the surroundings: how far the nearest door is that can be entered,   *)
(* whether the body is inside a building, has gold, and has someone beside *)
(* it, and whether it has five hit points or less.                         *)
Scene == [door : {"none", "adjacent", "near", "in sight"}, inside : BOOLEAN,
          gold : BOOLEAN, beside : BOOLEAN, weak : BOOLEAN]

(* What the grammar lets the local model say, and the verbs the harness    *)
(* knows; "speak" stands for all that both have.                           *)
Grammar == {"move", "speak", "enter", "exit", "pay", "wait"}
Table   == {"step", "speak", "enter", "exit", "pay"}

ASSUME HarnessAssumption ==
  /\ IsFiniteSet(People) /\ RegisterCap \in Nat \ {0} /\ ReflectiveEvery \in Nat \ {0}
  /\ MaxGoals \in Nat \ {0, 1} /\ Scenes \subseteq Scene
  /\ Views \subseteq Seq(People) /\ \A v \in Views : IsInjective(v)
  /\ Planned \subseteq Seq(Grammar)

VARIABLES
  agent,     \* the program: "claude" or "qwen"
  at,        \* where it is
  around,     \* the surroundings in the observation in hand
  view,      \* and the entities it shows
  register,  \* agent_register: ids in the order of their insertion
  theory,    \* those of them with a theory_of_me
  goals,     \* the goals on the stack that are active and that are done
  count,     \* _ticks_since_reflection
  note,      \* the reflective note of this cycle
  plan,      \* the verbs the model has planned
  batch,     \* the verbs that are sent
  waited,    \* history: cycles of the brain since its last call of reflect
  gap        \* history: cycles between its last two, no more than twice the period

mind  == <<register, theory, goals, count, waited, gap>>
cycle == <<around, view, note, plan, batch>>
harnessVars  == <<agent, at, cycle, mind>>

Calm == [door |-> "none", inside |-> FALSE, gold |-> FALSE, beside |-> FALSE, weak |-> FALSE]
Verbs == Grammar \cup Table \cup {"interact enter", "interact exit"}

(* Every variable has its type; the register keeps to its cap.             *)
HarnessTypeOK ==
  /\ agent \in {"claude", "qwen"}
  /\ at \in {"persona", "register", "watch", "brain", "reflect", "tactical", "ship note", "act",
             "silent", "closing", "exited"}
  /\ around \in Scenes \cup {Calm} /\ view \in Views \cup {<< >>}
  /\ register \in Seq(People) /\ IsInjective(register) /\ Len(register) <= RegisterCap
  /\ theory \subseteq ToSet(register)
  /\ goals \in [active : 0..MaxGoals, done : 0..MaxGoals]
  /\ count \in 0..(ReflectiveEvery - 1) /\ note \in BOOLEAN
  /\ plan \in Seq(Verbs) /\ batch \in Seq(Verbs)
  /\ waited \in 0..ReflectiveEvery /\ gap \in 0..(2 * ReflectiveEvery)

HarnessInit ==
  /\ agent \in {"claude", "qwen"} /\ at = "persona"
  /\ around = Calm /\ view = << >> /\ register = << >> /\ theory = {}
  /\ goals = [active |-> 0, done |-> 0] /\ count = 0 /\ note = FALSE
  /\ plan = << >> /\ batch = << >> /\ waited = 0 /\ gap = 0

Goto(place) == at' = place /\ UNCHANGED <<agent, cycle, mind>>
Forget      == around' = Calm /\ view' = << >> /\ note' = FALSE /\ plan' = << >> /\ batch' = << >>

----------------------------------------------------------------------------
(* init_persona: the model seeds the goal stack.  An exception here ends   *)
(* the program, before it has a body; so does a local model out of reach   *)
(* and a registration that fails.                                          *)
InitPersona ==
  /\ at = "persona" /\ at' = "register"
  /\ \E n \in (IF agent = "claude" THEN {2} ELSE 0..MaxGoals) : goals' = [goals EXCEPT !.active = n]
  /\ UNCHANGED <<agent, cycle, register, theory, count, waited, gap>>
Register   == at = "register" /\ Goto("watch")
StartFails ==
  \/ agent = "qwen" /\ at = "persona" /\ Goto("exited")
  \/ at = "register" /\ Goto("exited")

(* The next observation.  Claude's reflex layer looks at it first.         *)
NextObservation ==
  /\ at = "watch" /\ at' = "brain"
  /\ around' \in Scenes /\ view' \in Views
  /\ UNCHANGED <<agent, note, plan, batch, mind>>

ReflexLayer ==
  /\ at = "brain" /\ agent = "claude" /\ around.weak
  /\ at' = "act" /\ batch' = <<"step">>
  /\ UNCHANGED <<agent, around, view, note, plan, mind>>

(* maybe_reflect: every ReflectiveEvery-th cycle of the brain.  The count  *)
(* starts again before the model is called.                                *)
Counting == at = "brain" /\ ~ (agent = "claude" /\ around.weak)

NotYet ==
  /\ Counting /\ count + 1 < ReflectiveEvery
  /\ at' = "tactical" /\ count' = count + 1 /\ waited' = waited + 1
  /\ UNCHANGED <<agent, cycle, register, theory, goals, gap>>

BeginReflection ==
  /\ Counting /\ count + 1 >= ReflectiveEvery
  /\ at' = "reflect" /\ count' = 0
  /\ gap' = waited + 1 /\ waited' = 0
  /\ UNCHANGED <<agent, cycle, register, theory, goals>>

(* The model has reflected: a note, goals pushed and completed, theories   *)
(* of those in the register.  A done goal stays on the stack.              *)
Reflect ==
  /\ at = "reflect" /\ at' = "tactical"
  /\ IF agent = "claude" THEN note' = TRUE /\ UNCHANGED <<goals, theory>>
     ELSE /\ note' \in BOOLEAN
          /\ theory' \in {theory \cup s : s \in SUBSET ToSet(register)}
          /\ \E pushed, completed \in 0..1 :
               /\ goals.active + goals.done + pushed <= MaxGoals
               /\ completed <= goals.active
               /\ goals' = [active |-> goals.active + pushed - completed,
                            done |-> goals.done + completed]
  /\ UNCHANGED <<agent, around, view, plan, batch, register, count, waited, gap>>

----------------------------------------------------------------------------

(* remember_other: an entry already there keeps its place in the order;    *)
(* over the cap the first of the order goes.                               *)
Capped(reg) == IF Len(reg) > RegisterCap THEN SubSeq(reg, 2, Len(reg)) ELSE reg
(* A slip: a newcomer is put first.                                        *)
RememberFirst(reg, id) ==
  IF id \in ToSet(reg) THEN reg ELSE Capped(<<id>> \o reg)
RememberOther(reg, id) ==
  IF id \in ToSet(reg) THEN reg ELSE Capped(Append(reg, id))

(* _observe_others.  Who is dropped and met again in one view comes back   *)
(* without a theory.                                                       *)
ObserveOthers == FoldLeft(RememberOther, register, view)
KeptTheories ==
  {o \in theory \cap ToSet(ObserveOthers) :
     \A i \in 1..Len(view) : o \in ToSet(FoldLeft(RememberOther, register, SubSeq(view, 1, i)))}

(* _action_from_dict: a verb it does not know becomes a wait.              *)
ActionFromDict(verb) == IF verb \in Table THEN verb ELSE "wait"

(* The batch of tactical: the verbs of the plan, or a wait for an empty    *)
(* one.  The stub plans nothing but a wait.                                *)
Bound(reply) ==
  IF reply = << >> THEN <<"wait">> ELSE [i \in DOMAIN reply |-> ActionFromDict(reply[i])]
Plans == IF agent = "claude" THEN {<<"wait">>} ELSE Planned

(* _post_tactical_nudge: a door within two tiles takes the plan's place;   *)
(* one further off puts a step before it; a tip to someone beside comes    *)
(* after it; three actions remain.  The rule that leaves a building waits  *)
(* for "ticks_inside_building", which no observation has.                  *)
Tipped(s, own) ==
  IF "pay" \notin ToSet(own) /\ around.gold /\ around.beside THEN Append(s, "pay") ELSE s
Stepped(s) == IF around.door = "in sight" /\ ~ around.inside THEN <<"step">> \o s ELSE s
FirstThree(s) == SubSeq(s, 1, IF Len(s) < 3 THEN Len(s) ELSE 3)

(* A slip: the last three actions remain.                                  *)
NudgeLastThree(s) ==
  IF ~ around.inside /\ around.door = "adjacent" THEN <<"interact enter", "interact exit">>
  ELSE IF ~ around.inside /\ around.door = "near" THEN <<"step">>
  ELSE LET all == Tipped(Stepped(s), s)
       IN SubSeq(all, IF Len(all) > 3 THEN Len(all) - 2 ELSE 1, Len(all))

Nudge(s) ==
  IF ~ around.inside /\ around.door = "adjacent" THEN <<"interact enter", "interact exit">>
  ELSE IF ~ around.inside /\ around.door = "near" THEN <<"step">>
  ELSE FirstThree(Tipped(Stepped(s), s))

Tactical ==
  /\ at = "tactical"
  /\ register' = ObserveOthers /\ theory' = KeptTheories
  /\ plan' \in Plans
  /\ IF agent = "claude" THEN batch' = <<Bound(plan')[1]>> /\ at' = "act"
     ELSE batch' = Nudge(Bound(plan')) /\ at' = IF note THEN "ship note" ELSE "act"
  /\ UNCHANGED <<agent, around, view, note, goals, count, waited, gap>>

(* The local model fails or says what is no JSON: Qwen's driver skips the  *)
(* cycle, and a note that was made in it is never shipped.  What tactical  *)
(* has seen it has already put in the register.                            *)
CycleFails ==
  /\ agent = "qwen" /\ at \in {"reflect", "tactical"} /\ at' = "watch" /\ Forget
  /\ IF at = "tactical" THEN register' = ObserveOthers /\ theory' = KeptTheories
                        ELSE UNCHANGED <<register, theory>>
  /\ UNCHANGED <<agent, goals, count, waited, gap>>

(* agent.reflect and agent.act_batch: sent or not, the loop goes on.  A    *)
(* failed send ends Claude's brain task, not its program.                  *)
ShipNote == at = "ship note" /\ Goto("act")
ActBatch ==
  /\ at = "act" /\ at' = "watch" /\ Forget
  /\ UNCHANGED <<agent, mind>>
Silenced ==
  /\ at = "watch" \/ (at = "act" /\ agent = "claude")
  /\ at' = "silent" /\ Forget /\ UNCHANGED <<agent, mind>>

(* The run time is over: seen when no call of the model is under way.      *)
RuntimeEnds ==
  /\ at \in {"watch", "ship note", "act", "silent"} /\ at' = "closing" /\ Forget
  /\ UNCHANGED <<agent, mind>>
Close == at = "closing" /\ Goto("exited")

(* SIGALRM, half a minute later, whatever the program is doing.            *)
Alarm ==
  /\ agent = "qwen" /\ at # "exited" /\ at' = "exited" /\ Forget
  /\ UNCHANGED <<agent, mind>>

(* What the stub does takes no time to speak of.                           *)
Stubbed  == /\ agent = "claude"
            /\ InitPersona \/ ReflexLayer \/ NotYet \/ BeginReflection \/ Reflect \/ Tactical
Starting == Register \/ StartFails
HarnessNext ==
  \/ InitPersona \/ Register \/ StartFails
  \/ NextObservation \/ ReflexLayer \/ NotYet \/ BeginReflection \/ Reflect \/ Tactical
  \/ CycleFails
  \/ ShipNote \/ ActBatch \/ Silenced \/ RuntimeEnds \/ Close \/ Alarm

----------------------------------------------------------------------------
(* An entity met for the first time in an observation is known after it,   *)
(* if no more are in view than the register has room for.                  *)
NewlyMetIsKept ==
  [][at = "tactical" /\ at' # "exited" /\ Len(view) <= RegisterCap
       => ToSet(view) \subseteq ToSet(register) \cup ToSet(register')]_harnessVars

(* Unless a door is at most two tiles away, the nudge keeps the plan: what *)
(* is sent is the plan from its beginning, after at most one step and      *)
(* before at most one tip, and never more than three actions; a plan that  *)
(* already pays gets no tip.                                               *)
PlanIsKept ==
  agent = "qwen" /\ at = "act" =>
    /\ Len(batch) \in 1..3
    /\ around.inside \/ around.door \in {"none", "in sight"} =>
         \E step \in {<< >>, <<"step">>}, tip \in {<< >>, <<"pay">>} :
           /\ IsPrefix(batch, step \o Bound(plan) \o tip)
           /\ tip = << >> \/ "pay" \notin ToSet(plan)

(* The model is asked to reflect on every ReflectiveEvery-th cycle of the  *)
(* brain, failed cycles included: never sooner, also when reflecting       *)
(* fails, and never later.                                                 *)
ReflectionCadence == gap \in {0, ReflectiveEvery} /\ waited < ReflectiveEvery

(* The program ends, even when a call of the model never returns.          *)
ProgramEnds == <>(at = "exited")

(* "The table below is the engine's full verb surface ... so no verb is    *)
(* silently dropped" (harness.py:168): the body is told to wait only when  *)
(* the model has planned a wait.                                           *)
NoVerbDropped ==
  agent = "qwen" /\ at = "act" /\ "wait" \in ToSet(batch) => "wait" \in ToSet(plan)

(* The layers keep what they are given: the plan through the nudge, the    *)
(* cadence of the reflection through failed cycles.                        *)
HarnessSafe == HarnessTypeOK /\ PlanIsKept /\ ReflectionCadence
=============================================================================
