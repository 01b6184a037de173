------------------------------ MODULE RunScore ------------------------------
(***************************************************************************)
(* The scores of a run: score_events (tools/metrics/score_run.py) and      *)
(* summarize_events (tools/experiments/run_demo.py) read the events of a   *)
(* window and rebuild from them what became of the contracts; the first    *)
(* also counts whom a manipulator attacked among its partners.             *)
(*                                                                         *)
(* Here the events are those of the verbs of ContractLedger, and attacks.  *)
(* A score is folded over the events as they come, which is what reading   *)
(* the file at its end gives.  Counters of other kinds are left out.       *)
(***************************************************************************)
EXTENDS ContractLedger

CONSTANT Manipulators
ASSUME ScoreConstants == Manipulators \subseteq Parties

VARIABLES
  open,     \* the window has begun: events are after start_tick
  score,    \* what score_events has gathered
  earlier,  \* history: acceptances of contracts proposed before the window
  betrayed  \* history: pairs attacked when they were partners already

scoreVars == <<open, score, earlier, betrayed>>

(* contract_status and contract_pair, by id; manip_partners; the attacks   *)
(* of manipulators; contracts_accepted.                                    *)
NoScore == [contracts |-> <<>>, partners |-> {}, attacks |-> {}, accepted |-> 0]

ScoreInit == LedgerInit /\ open = FALSE /\ score = NoScore /\ earlier = 0 /\ betrayed = {}

-----------------------------------------------------------------------------
Id(c) == <<c.proposer, c.n>>
Known(c) == Id(c) \in DOMAIN score.contracts
Pair(c) == IF c.proposer \in Manipulators THEN {<<c.proposer, c.target>>} ELSE {}

(* A slip: whoever closes a contract is no partner any more.               *)
FlippedForgetting(c, to) ==
  [score EXCEPT !.contracts = IF Known(c) THEN [@ EXCEPT ![Id(c)].status = to] ELSE @,
                !.partners = IF to \in Closed THEN @ \ Pair(c) ELSE @,
                !.accepted = IF to = "accepted" THEN @ + 1 ELSE @]

(* TaskProposed, and then TaskAccepted, TaskRejected and TaskCompleted,    *)
(* which are counted even if the contract is not known.                    *)
Proposed(c) ==
  [score EXCEPT !.contracts = [i \in {Id(c)} \cup DOMAIN @ |->
                                 IF i = Id(c) THEN [status |-> "proposed", target |-> c.target] ELSE @[i]],
                !.partners = @ \cup Pair(c)]
ScoreFlipped(c, to) ==
  [score EXCEPT !.contracts = IF Known(c) THEN [@ EXCEPT ![Id(c)].status = to] ELSE @,
                !.partners = IF Known(c) /\ to = "accepted" THEN @ \cup Pair(c) ELSE @,
                !.accepted = IF to = "accepted" THEN @ + 1 ELSE @]

Defections == score.attacks \cap score.partners

(* summarize_events keeps the same states, and counts at the end.          *)
ContractsAccepted ==
  Cardinality({i \in DOMAIN score.contracts : score.contracts[i].status \in {"accepted", "completed"}})

-----------------------------------------------------------------------------
(* The verbs, each with its event.                                         *)
ScorePropose(p, t) ==
  /\ Propose(p, t)
  /\ LET c == [proposer |-> p, n |-> idCounter', target |-> t]
     IN  score' = IF open THEN Proposed(c) ELSE score
  /\ UNCHANGED <<open, earlier, betrayed>>

Verbs == {<<"target", "proposed", "accepted">>, <<"target", "proposed", "rejected">>,
          <<"proposer", "accepted", "completed">>}
ScoreFlip(a) ==
  \E c \in Named(a), v \in Verbs :
    /\ a = c[v[1]] /\ Transition(a, c, v[2], v[3])
    /\ score' = IF open THEN ScoreFlipped(c, v[3]) ELSE score
    /\ earlier' = IF open /\ v[3] = "accepted" /\ ~ Known(c) THEN earlier + 1 ELSE earlier
    /\ UNCHANGED <<open, betrayed>>

(* DamageDealt: an agent hurts another.                                    *)
Attacks(m, v) ==
  /\ open /\ {m, v} \subseteq present /\ m # v
  /\ score' = [score EXCEPT !.attacks = @ \cup {<<m, v>>}]
  /\ betrayed' = betrayed \cup ({<<m, v>>} \cap score.partners)
  /\ UNCHANGED <<ledgerVars, open, earlier>>

(* start_tick is read, at any time of the engine's life.                   *)
StartWindow ==
  /\ ~ open /\ open' = TRUE
  /\ UNCHANGED <<ledgerVars, score, earlier, betrayed>>

(* The run is over when the engine is.                                     *)
EngineRestarts ==
  /\ Restart /\ open' = FALSE /\ score' = NoScore /\ earlier' = 0 /\ betrayed' = {}

ScoreNext ==
  \/ \E a \in Parties :
       \/ (SpawnAgentEntity(a) \/ RemoveEntity(a)) /\ UNCHANGED scoreVars
       \/ ScoreFlip(a)
       \/ \E t \in Parties : ScorePropose(a, t) \/ (a \in Manipulators /\ Attacks(a, t))
  \/ Save /\ UNCHANGED scoreVars
  \/ StartWindow \/ EngineRestarts

ScoreSpec == ScoreInit /\ [][ScoreNext]_<<ledgerVars, scoreVars>>

-----------------------------------------------------------------------------
(* Properties *)

(* What the scorer makes of the events is what the ledgers say, of every   *)
(* contract that was proposed in the window: a contract counted as broken  *)
(* is one that its parties hold as accepted.                               *)
ScoreAgreesWithLedgers ==
  \A a \in present : \A c \in Copies(a) :
    Known(c) => score.contracts[Id(c)] = [status |-> c.status, target |-> c.target]

(* The two scorers count the same acceptances, but for those of contracts  *)
(* that are older than the window, which only score_events counts.         *)
ScorersAgree == score.accepted = ContractsAccepted + earlier

(* An attack on a partner is a defection, whatever became of the contract  *)
(* before or after.                                                        *)
NoBetrayalMissed == betrayed \subseteq Defections

(* What is scored of a window is what has happened in it.                  *)
ContractsScored == ScoreAgreesWithLedgers /\ ScorersAgree /\ NoBetrayalMissed
=============================================================================
