---------------------------- MODULE MCExperiment ----------------------------
(***************************************************************************)
(* The processes beside the engine, one at a time: a launcher with a       *)
(* language model and a rule-based bot and one body to replace theirs; the *)
(* narrator, on deals that make up clusters in different ways, with a      *)
(* signal at any time; a batch and a user of the research loop; a study of *)
(* three runs; and two threads that spend.                                 *)
(***************************************************************************)
EXTENDS Narrator, Experiment, ResearchLoop, BrainStudy, SpendLog

Pair     == {1, 2}
Three    == 1..3
OneLlm   == {1}
Cadences == <<1, 2, 3>>

Turns == [p \in Procs |-> IF p \in Batches THEN 2 ELSE 1]

VARIABLE process_of  \* the process that runs
all == <<process_of, vars, narratorVars, researchVars, studyVars, spendVars>>

Init ==
  /\ process_of \in {"launcher", "narrator", "research", "study", "spending"}
  /\ ExperimentInit /\ NarratorInit /\ ResearchInit /\ StudyInit /\ SpendInit
  /\ process_of # "launcher" => program = "run_cast"
  /\ process_of # "study" => serving = None

(* The file grows by a line of the present tick, or three ticks later.     *)
Now == IF log = << >> THEN 0 ELSE log[Len(log)].tick
EngineWrites ==
  \/ \E t \in {Now, Now + 3} \cap 0..MaxTick :
       \/ \E e \in {Speech(t, 1), Deal(t, 1, 2), Deal(t, 1, 3)} : WriteLine(e)
       \/ BeginLine(Deal(t, 1, 2))
       \/ \E e \in {Death(t, 2), Noise(t)} : t = Now /\ WriteLine(e)
  \/ FinishLine
Signal == ~ signal /\ signal' = TRUE /\ UNCHANGED file

Only(p, others) == process_of = p /\ UNCHANGED <<process_of, others>>
Launching   == Only("launcher", <<narratorVars, researchVars, studyVars, spendVars>>)
Narrating   == Only("narrator", <<vars, researchVars, studyVars, spendVars>>)
Researching == Only("research", <<vars, narratorVars, studyVars, spendVars>>)
Studying    == Only("study", <<vars, narratorVars, researchVars, spendVars>>)
Spending    == Only("spending", <<vars, narratorVars, researchVars, studyVars>>)

Next ==
  \/ Launching /\ ExperimentNext
  \/ Narrating /\ NarratorStep
  \/ Narrating /\ EngineWrites /\ UNCHANGED <<signal, killed, stage, todo, process>>
  \/ Narrating /\ Signal /\ UNCHANGED <<killed, stage, todo, process>>
  \/ Researching /\ ResearchNext
  \/ Studying /\ StudyNext
  \/ Spending /\ SpendNext

Spec ==
  /\ Init /\ [][Next]_all
  /\ WF_all(Launching /\ MainRun) /\ WF_all(Launching /\ DeadlinePasses)
  /\ \A p \in Batches : WF_all(Researching /\ BatchStep(p))
  /\ WF_all(Studying /\ Driver)

(* Whatever the processes they wait for do, a launched run, a batch and a  *)
(* study come to their end.                                                *)
EndsForGood == RunEndsForGood /\ BatchGoesOn /\ StudyEnds
=============================================================================
