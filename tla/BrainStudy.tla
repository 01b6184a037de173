----------------------------- MODULE BrainStudy -----------------------------
(***************************************************************************)
(* The study that compares brains (tools/experiments/run_brain_study.py):  *)
(* for every repetition and arm an engine is started, run_p7_real run      *)
(* against it, the engine stopped, the events archived, and a row added to *)
(* the comparison.                                                         *)
(*                                                                         *)
(* The driver knows its engine by the port: whoever answers there counts   *)
(* as up.  Engines and the run are external; another engine may hold the   *)
(* port from the outset.                                                   *)
(***************************************************************************)
EXTENDS Integers, Sequences

CONSTANT StudyRuns  \* the number of runs: repetitions times arms

ASSUME StudyAssumption == StudyRuns \in Nat

None == 0
Another == StudyRuns + 1  \* an engine that the study did not start
Engines == 1..Another

VARIABLES
  studyAt,   \* next, booting, running, stopping, saving, failed, done, interrupted
  current,   \* the number of the run
  up,        \* the engines that live
  serving,   \* the engine that has the port, or None
  events,    \* the engines whose events are in the event file
  served,    \* the engines that the run has had to do with
  outcome,   \* how the run has ended: what it wrote, or a timeout
  rows,      \* the rows: run, whether it has a score, whose engine and events
  compared   \* the number of rows in the comparison on disk

studyVars == <<studyAt, current, up, serving, events, served, outcome, rows, compared>>

Row == [run : 1..StudyRuns, score : BOOLEAN, engines : SUBSET Engines, archive : SUBSET Engines]
Outcomes == {"", "score", "nothing", "garbled", "timeout", "ctrl-c"}

(* Every variable has its type, only an engine that lives has the port,    *)
(* and the engine of a run that is over lives no more.                     *)
StudyTypeOK ==
  /\ studyAt \in {"next", "booting", "running", "stopping", "saving", "failed", "done", "interrupted"}
  /\ current \in 1..StudyRuns + 1 /\ up \subseteq Engines /\ serving \in up \cup {None}
  /\ events \subseteq Engines /\ served \subseteq Engines /\ outcome \in Outcomes
  /\ rows \in Seq(Row) /\ compared \in 0..StudyRuns
  /\ up \subseteq {current, Another}

StudyInit ==
  /\ studyAt = "next" /\ current = 1 /\ events = {} /\ served = {} /\ outcome = ""
  /\ serving \in {None, Another} /\ up = {serving} \ {None}
  /\ rows = << >> /\ compared = 0

-----------------------------------------------------------------------------
(* An engine that has loaded its bundle takes the port, or ends when       *)
(* another has it; it may crash at any time.                               *)
EngineServes(e) ==
  /\ e \in up /\ serving = None /\ studyAt \notin {"done", "interrupted"}
  /\ serving' = e
  /\ served' = IF studyAt = "running" THEN served \cup {e} ELSE served
  /\ UNCHANGED <<studyAt, current, up, events, outcome, rows, compared>>
EngineEnds(e) ==
  /\ e \in up /\ studyAt \notin {"done", "interrupted"}
  /\ up' = up \ {e} /\ serving' = IF serving = e THEN None ELSE serving
  /\ UNCHANGED <<studyAt, current, events, served, outcome, rows, compared>>
EngineLogs ==
  /\ serving # None /\ studyAt \notin {"done", "interrupted"} /\ events' = events \cup {serving}
  /\ UNCHANGED <<studyAt, current, up, serving, served, outcome, rows, compared>>

-----------------------------------------------------------------------------
(* start_engine: the event file is emptied, the engine started, and the    *)
(* port asked until somebody answers,                                      *)
StartEngine ==
  /\ studyAt = "next" /\ current <= StudyRuns /\ studyAt' = "booting"
  /\ events' = {} /\ up' = up \cup {current} /\ served' = {} /\ outcome' = ""
  /\ UNCHANGED <<current, serving, rows, compared>>
Answered ==
  /\ studyAt = "booting" /\ serving # None /\ studyAt' = "running" /\ served' = {serving}
  /\ UNCHANGED <<current, up, serving, events, outcome, rows, compared>>
(* the engine has ended, or 120 seconds have passed, when it is killed.    *)
BootFails ==
  /\ studyAt = "booting" /\ serving = None /\ studyAt' = "failed" /\ up' = up \ {current}
  /\ UNCHANGED <<current, serving, events, served, outcome, rows, compared>>

(* run_p7_real ends by itself, with or without a score, or leaves a file   *)
(* that cannot be read; without an engine it is refused.                   *)
RunEnded(how) ==
  /\ studyAt = "running" /\ studyAt' = "stopping" /\ outcome' = how
  /\ UNCHANGED <<current, up, serving, events, served, rows, compared>>
RunReturns ==
  \/ RunEnded("nothing")
  \/ served # {} /\ (RunEnded("score") \/ RunEnded("garbled"))
RunTimesOut == RunEnded("timeout")

(* Ctrl-C reaches the engine too.                                          *)
CtrlC ==
  \/ RunEnded("ctrl-c")
  \/ /\ studyAt = "booting" /\ studyAt' = "interrupted" /\ up' = up \ {current}
     /\ serving' = IF serving = current THEN None ELSE serving
     /\ UNCHANGED <<current, events, served, outcome, rows, compared>>

(* A slip: the engine is stopped only after a run that returned.           *)
StoppedIfReturned == IF outcome \in {"timeout", "ctrl-c"} THEN None ELSE current
Stopped == current
(* stop_engine, in any case: SIGINT and, 15 seconds later, kill.           *)
AfterRunOutcome ==
  CASE outcome = "timeout" -> "failed" [] outcome = "ctrl-c" -> "interrupted" [] OTHER -> "saving"
StopEngine ==
  /\ studyAt = "stopping" /\ studyAt' = AfterRunOutcome
  /\ up' = up \ {Stopped} /\ serving' = IF serving = Stopped THEN None ELSE serving
  /\ UNCHANGED <<current, events, served, outcome, rows, compared>>

(* The events are archived, if the run has made its directory, and the     *)
(* score is read; the comparison is written anew after every row.          *)
AddRow(row) ==
  /\ rows' = Append(rows, row) /\ compared' = Len(rows') /\ current' = current + 1
  /\ studyAt' = IF current' > StudyRuns THEN "done" ELSE "next"
  /\ UNCHANGED <<up, serving, events, served, outcome>>
Save ==
  /\ studyAt = "saving" /\ outcome # "garbled"
  /\ \E archive \in {events, {}} :
       AddRow([run |-> current, score |-> outcome = "score", engines |-> served, archive |-> archive])
Garbled ==
  /\ studyAt = "saving" /\ outcome = "garbled" /\ studyAt' = "failed"
  /\ UNCHANGED <<current, up, serving, events, served, outcome, rows, compared>>

(* Whatever was raised, the run has a row without a score, and the study   *)
(* goes on.                                                                *)
RunFailed ==
  /\ studyAt = "failed"
  /\ AddRow([run |-> current, score |-> FALSE, engines |-> {}, archive |-> {}])

-----------------------------------------------------------------------------
Driver == StartEngine \/ Answered \/ BootFails \/ RunTimesOut \/ StopEngine \/ Save \/ Garbled \/ RunFailed
StudyNext ==
  \/ Driver \/ RunReturns \/ CtrlC \/ EngineLogs
  \/ \E e \in Engines : EngineServes(e) \/ EngineEnds(e)

(* The driver goes on and its timeouts come; neither an engine nor a run   *)
(* is promised to end.                                                     *)
StudyFairness == WF_studyVars(Driver)
StudySpec == StudyInit /\ [][StudyNext]_studyVars /\ StudyFairness

-----------------------------------------------------------------------------
(* Properties *)

(* Every run, failed or not, has one row, in the order of the runs, and    *)
(* after each the comparison on disk has them all.                         *)
RowPerRun ==
  /\ Len(rows) = current - 1 /\ compared = Len(rows)
  /\ \A i \in 1..Len(rows) : rows[i].run = i

(* Unless another engine was there before, every row is about the engine   *)
(* that was started for it, and no other.                                  *)
OwnEngine ==
  \A i \in 1..Len(rows) : rows[i].engines \subseteq {rows[i].run, Another}

(* And so are the events archived with it.                                 *)
OwnEvents ==
  \A i \in 1..Len(rows) : rows[i].archive \subseteq {rows[i].run, Another}

(* A study that has begun ends, whatever engines and runs do, and leaves   *)
(* no engine of its own.                                                   *)
StudyEnds ==
  studyAt = "booting" ~> (studyAt \in {"done", "interrupted"} /\ up \subseteq {Another})

(* Each run of the study is listed, with its own engine and events.        *)
StudySafe == StudyTypeOK /\ RowPerRun /\ OwnEngine /\ OwnEvents
=============================================================================
