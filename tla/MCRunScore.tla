----------------------------- MODULE MCRunScore -----------------------------
(* RunScore with the bodies up to permutation, but for the manipulator; or *)
(* the counters of other events, on a run of their own.                    *)
EXTENDS RunScore, EventCounts, TLC

VARIABLE half  \* which of the two runs; the other stays as it starts
all == <<half, ledgerVars, scoreVars, countVars>>

Start == half \in {"contracts", "counts"} /\ ScoreInit /\ CountsInit
ContractsRun == half = "contracts" /\ UNCHANGED <<half, countVars>>
CountsRun    == half = "counts" /\ UNCHANGED <<half, ledgerVars, scoreVars>>
RunSpec == Start /\ [][(ContractsRun /\ ScoreNext) \/ (CountsRun /\ CountsNext)]_all

(* What the scorers say of the contracts and of all else is what happened. *)
ScoreIsTrue ==
  /\ half = "contracts" => ContractsScored
  /\ half = "counts" => CountsAreTrue

Purses == [p |-> 2, q |-> 0, r |-> 1]
Interchangeable == Permutations(Fresh \ Manipulators)
=============================================================================
