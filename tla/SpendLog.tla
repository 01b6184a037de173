------------------------------ MODULE SpendLog ------------------------------
(***************************************************************************)
(* The log of what was spent on the models of Anthropic                    *)
(* (tools/budget_log.py): the threads of one process record the cost of    *)
(* each call under a lock and warn when a tripwire is crossed, while the   *)
(* command line may archive the log and begin a new one.                   *)
(*                                                                         *)
(* A cost is a whole number of the unit the prices are multiples of.       *)
(***************************************************************************)
EXTENDS Integers

CONSTANTS
  Threads, NoThread,
  Costs,      \* what a call may cost
  Tripwires,  \* TRIPWIRES_USD
  MaxTotal,   \* bound on the total: no call is recorded beyond it
  MaxResets   \* bound on the resets

ASSUME SpendAssumption ==
  /\ NoThread \notin Threads /\ Costs \subseteq Nat /\ Tripwires \subseteq Nat \ {0}
  /\ MaxTotal \in Nat /\ MaxResets \in Nat

VARIABLES
  total,   \* the sum over the log
  lock,    \* _lock: the thread that has it
  stage_of, \* where each thread is: out, waiting, reading, appending, telling
  cost,    \* what its call has cost
  prev,    \* the sum it has read
  announced, \* how often each tripwire was announced since the log began
  resets,  \* how often the log was archived
  mixed    \* a log was archived while a call was being recorded

spendVars == <<total, lock, stage_of, cost, prev, announced, resets, mixed>>

Holding == {"reading", "appending", "telling"}

(* Every variable has its type, and who records has the lock.              *)
SpendTypeOK ==
  /\ total \in Nat /\ lock \in Threads \cup {NoThread}
  /\ stage_of \in [Threads -> {"out", "waiting"} \cup Holding]
  /\ cost \in [Threads -> Nat] /\ prev \in [Threads -> Nat]
  /\ announced \in [Tripwires -> Nat] /\ resets \in Nat /\ mixed \in BOOLEAN
  /\ \A t \in Threads : stage_of[t] \in Holding => lock = t

SpendInit ==
  /\ total = 0 /\ lock = NoThread /\ stage_of = [t \in Threads |-> "out"]
  /\ cost = [t \in Threads |-> 0] /\ prev = cost
  /\ announced = [w \in Tripwires |-> 0] /\ resets = 0 /\ mixed = FALSE

Step(t, from, to) == stage_of[t] = from /\ stage_of' = [stage_of EXCEPT ![t] = to]

(* record, with the cost of the call: the lock,                            *)
Call(t) ==
  /\ Step(t, "out", "waiting")
  /\ \E c \in Costs : total + c <= MaxTotal /\ cost' = [cost EXCEPT ![t] = c]
  /\ UNCHANGED <<total, lock, prev, announced, resets, mixed>>
(* A slip: there is no lock.                                               *)
AcquireNone(t) ==
  /\ Step(t, "waiting", "reading") /\ lock' = t
  /\ UNCHANGED <<total, cost, prev, announced, resets, mixed>>
Acquire(t) ==
  /\ Step(t, "waiting", "reading") /\ lock = NoThread /\ lock' = t
  /\ UNCHANGED <<total, cost, prev, announced, resets, mixed>>

(* the sum over the log,                                                   *)
Totals(t) ==
  /\ Step(t, "reading", "appending") /\ prev' = [prev EXCEPT ![t] = total]
  /\ UNCHANGED <<total, lock, cost, announced, resets, mixed>>

(* the line; a log that cannot be written is nobody's trouble,             *)
AppendLine(t) ==
  /\ Step(t, "appending", "telling") /\ total' = total + cost[t]
  /\ UNCHANGED <<lock, cost, prev, announced, resets, mixed>>
Fails(t) ==
  /\ stage_of[t] \in {"reading", "appending"} /\ Step(t, stage_of[t], "out") /\ lock' = NoThread
  /\ UNCHANGED <<total, cost, prev, announced, resets, mixed>>

(* and the tripwires the call has crossed.                                 *)
Crossed(t) == {w \in Tripwires : prev[t] < w /\ w <= prev[t] + cost[t]}
Tell(t) ==
  /\ Step(t, "telling", "out") /\ lock' = NoThread
  /\ announced' = [w \in Tripwires |-> announced[w] + (IF w \in Crossed(t) THEN 1 ELSE 0)]
  /\ UNCHANGED <<total, cost, prev, resets, mixed>>

(* budget_log --reset, in a process of its own.                            *)
Reset ==
  /\ resets < MaxResets /\ total > 0 /\ resets' = resets + 1
  /\ total' = 0 /\ announced' = [w \in Tripwires |-> 0]
  /\ mixed' = (mixed \/ lock # NoThread)
  /\ UNCHANGED <<lock, stage_of, cost, prev>>

SpendNext ==
  \/ Reset
  \/ \E t \in Threads : Call(t) \/ Acquire(t) \/ Totals(t) \/ AppendLine(t) \/ Fails(t) \/ Tell(t)
SpendSpec == SpendInit /\ [][SpendNext]_spendVars

-----------------------------------------------------------------------------
(* Properties *)

(* Unless the log was archived under a call that was being recorded, every *)
(* tripwire is announced once when the total reaches it, by whichever      *)
(* brought it there, and never before.                                     *)
ToldWhenCrossed ==
  ~ mixed /\ (lock = NoThread \/ stage_of[lock] # "telling") =>
    \A w \in Tripwires : announced[w] = IF w <= total THEN 1 ELSE 0

(* The lock keeps calls apart, and tripwires are announced when crossed.   *)
SpendSafe == SpendTypeOK /\ ToldWhenCrossed
=============================================================================
