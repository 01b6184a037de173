----------------------------- MODULE Experiment -----------------------------
(***************************************************************************)
(* The launchers of a cast: run_p7_real, run_demo (tools/experiments) and  *)
(* run_cast (tools/demo).  The engine is probed and the cast registered,   *)
(* each bot runs, under a supervisor that replaces a dead body where there *)
(* is one, the run is looked at now and then, the narrator reads the       *)
(* events beside it, and at the end, early or not, everything is stopped   *)
(* and what is left of the run written to files.                           *)
(*                                                                         *)
(* A launcher is one asyncio thread: while it collects, no supervisor      *)
(* runs, but the engine goes on.  The bots are external, and so is the     *)
(* narrator here, of which the launcher only sees that it ends.  Of the    *)
(* engine there is what it does with the bodies of the cast (agent.go).    *)
(***************************************************************************)
EXTENDS Integers, Sequences, FiniteSets

CONSTANTS
  Bodies,  \* what the engine may register, 1..n in this order
  NoBody,
  Slots,   \* the places of the cast, 1..n
  Llm      \* the places of language models

ASSUME ExperimentAssumption ==
  /\ IsFiniteSet(Slots) /\ Slots = 1..Cardinality(Slots)
  /\ IsFiniteSet(Bodies) /\ Bodies = 1..Cardinality(Bodies) /\ NoBody \notin Bodies
  /\ Llm \subseteq Slots

VARIABLES
  program,   \* which launcher this is
  phase,     \* where it is: see Phases
  narr,      \* the narrator process: none, reading, asked to end, ended, killed
  place,     \* where the supervisor of each slot is: see Places
  body,      \* the body of the current bot of a slot, or NoBody
  accepted,  \* the current bot has had an action accepted
  told,      \* _stopped of the current bot
  alive,     \* the bodies on the engine
  indoors,   \* those that are in a room, or between two maps
  link,      \* what the engine knows of the bot of each body: see Links
  born,      \* bodies registered so far
  eventful,  \* a contract, damage or payment is in the event file, or gold has moved
  late,      \* the deadline has passed
  trouble,   \* what the window ended with: "none", Ctrl-C, or an exception
  written    \* how many of Outputs are written

bots   == <<place, body, accepted, told>>
engine == <<alive, indoors, link, born, eventful>>
ending == <<trouble, written>>
vars   == <<program, phase, narr, bots, engine, late, ending>>

(* The launchers differ in what they do beside running the cast.           *)
Programs   == {"run_p7_real", "run_demo", "run_cast"}
Supervises == program \in {"run_p7_real", "run_cast"}
Scores     == program = "run_p7_real"

(* What the launcher writes at the end, in this order.                     *)
Outputs ==
  CASE program = "run_p7_real" -> <<"summary", "score", "report">>
    [] program = "run_demo"    -> <<"summary">>
    [] OTHER                   -> << >>

(* collect is the last reading of the engine; stopping is the second and a *)
(* half after stop(), of which run_cast has none; narrating is the wait    *)
(* for the narrator.  The launcher is refused when its preflight fails or  *)
(* nobody is left to run, fails with an exception and quits by Ctrl-C      *)
(* while it cleans up.                                                     *)
Over   == {"done", "refused", "failed", "quit"}
Phases == {"preflight", "register", "window", "collect", "stopping", "narrating", "writing"}
          \cup Over

(* joining is the second before a replacement and its registration; a slot *)
(* is stray when its last bot was registered and never run, and skipped    *)
(* when no bot is asked for or its brain is out of reach.                  *)
Places == {"skipped", "none", "ready", "running", "joining", "over", "stray"}

(* A registration is fresh until its bot has connected, and closed when    *)
(* the bot has hung up.  The engine then forgets it: the body is gone, or  *)
(* left.                                                                   *)
Links == {"fresh", "open", "closed", "gone", "left"}

(* Every variable has its type, and no body has two bots.                  *)
ExperimentTypeOK ==
  /\ program \in Programs /\ phase \in Phases
  /\ narr \in {"none", "reading", "asked", "ended", "killed"}
  /\ place \in [Slots -> Places] /\ body \in [Slots -> Bodies \cup {NoBody}]
  /\ \A s, t \in Slots : s # t /\ body[s] # NoBody => body[s] # body[t]
  /\ {accepted, told} \subseteq [Slots -> BOOLEAN]
  /\ alive \subseteq 1..born /\ indoors \subseteq alive /\ link \in [Bodies -> Links]
  /\ born \in 0..Cardinality(Bodies) /\ {eventful, late} \subseteq BOOLEAN
  /\ trouble \in {"none", "interrupt", "raised"}
  /\ written \in 0..Len(Outputs)

ExperimentInit ==
  /\ program \in Programs /\ phase = "preflight" /\ narr = "none"
  /\ place = [s \in Slots |-> "none"] /\ body = [s \in Slots |-> NoBody]
  /\ accepted = [s \in Slots |-> FALSE] /\ told = accepted
  /\ alive = {} /\ indoors = {} /\ link = [b \in Bodies |-> "fresh"]
  /\ born = 0 /\ eventful = FALSE /\ late = FALSE
  /\ trouble = "none" /\ written = 0

-----------------------------------------------------------------------------
(* The arguments ask for some of the places; run_cast leaves out those     *)
(* whose language model does not answer or has no key.                     *)
Asks(cast) == place' = [s \in Slots |-> IF s \in cast THEN "none" ELSE "skipped"]

(* run_demo starts the narrator before anybody is registered.              *)
NarratorFirst == narr' = IF program = "run_demo" THEN "reading" ELSE "none"

(* The engine answers, and for run_p7_real shows an item where there is    *)
(* one; else nothing has been started.                                     *)
Preflight ==
  /\ phase = "preflight"
  /\ \/ /\ phase' = "register" /\ \E cast \in SUBSET Slots : Asks(cast)
        /\ NarratorFirst
     \/ /\ phase' = IF program = "run_p7_real" THEN "refused" ELSE "failed"
        /\ UNCHANGED <<place, narr>>
  /\ UNCHANGED <<program, body, accepted, told, engine, late, ending>>

(* register_llm, register_archetype: the engine makes a body, and a bot is *)
(* made for it.                                                            *)
NewBody ==
  /\ born < Cardinality(Bodies) /\ born' = born + 1
  /\ alive' = alive \cup {born'} /\ indoors' = indoors
  /\ link' = [link EXCEPT ![born'] = "fresh"]
NewBot(s) ==
  /\ body' = [body EXCEPT ![s] = born']
  /\ accepted' = [accepted EXCEPT ![s] = FALSE] /\ told' = [told EXCEPT ![s] = FALSE]

(* The cast, one after the other.  A registration that fails ends the      *)
(* launcher and leaves what is there: bodies, and the narrator of run_demo.*)
Register(s) ==
  /\ phase = "register" /\ place[s] = "none" /\ \A t \in 1..s-1 : place[t] # "none"
  /\ NewBody /\ NewBot(s) /\ place' = [place EXCEPT ![s] = "ready"]
  /\ UNCHANGED <<program, phase, narr, eventful, late, ending>>
RegisterFails ==
  /\ phase = "register" /\ \E s \in Slots : place[s] = "none"
  /\ phase' = "failed"
  /\ UNCHANGED <<program, narr, bots, engine, late, ending>>

(* The narrator is started, if it was not, and every slot gets its task.   *)
(* run_cast does not go on with nobody.                                    *)
Nobody == \A s \in Slots : place[s] = "skipped"
Launch ==
  /\ phase = "register" /\ \A s \in Slots : place[s] \in {"ready", "skipped"}
  /\ phase' = IF program = "run_cast" /\ Nobody THEN "refused" ELSE "window"
  /\ place' = [s \in Slots |-> IF place[s] = "ready" THEN "running" ELSE place[s]]
  /\ narr' = IF Scores THEN "reading" ELSE narr
  /\ UNCHANGED <<program, body, accepted, told, engine, late, ending>>

-----------------------------------------------------------------------------
(* The engine and the bots, while they run.                                *)
ThreadFree == phase # "collect" /\ (phase = "stopping" => program # "run_cast")

(* run() connects first; the engine has the bot from then on.              *)
Connects(s) ==
  /\ place[s] = "running" /\ link[body[s]] = "fresh" /\ ThreadFree
  /\ link' = [link EXCEPT ![body[s]] = "open"]
  /\ UNCHANGED <<program, phase, narr, bots, alive, indoors, born, eventful, late, ending>>

Acts(s) ==
  /\ place[s] = "running" /\ body[s] \in alive /\ link[body[s]] = "open" /\ phase = "window"
  /\ s \in Llm /\ ~ accepted[s] /\ accepted' = [accepted EXCEPT ![s] = TRUE]
  /\ UNCHANGED <<program, phase, narr, place, body, told, engine, late, ending>>

(* A body goes through a door, into a room or back.                        *)
Outdoors == alive \ indoors
Warps(b) ==
  /\ phase = "window" /\ b \in alive /\ link[b] = "open"
  /\ indoors' = IF b \in indoors THEN indoors \ {b} ELSE indoors \cup {b}
  /\ UNCHANGED <<program, phase, narr, bots, alive, link, born, eventful, late, ending>>

(* What happens is told apart as long as run_p7_real may look at it.       *)
Reads == Scores /\ phase = "window"
Stirs ==
  /\ Reads /\ ~ eventful /\ eventful' = TRUE
  /\ UNCHANGED <<program, phase, narr, bots, alive, indoors, link, born, late, ending>>

(* Bodies die and are reaped from the window on until the bots are         *)
(* cancelled; while the launcher collects no task runs to notice it.       *)
Followed == phase \in {"window", "stopping"}
Dies(b) ==
  /\ Followed /\ b \in alive /\ link[b] \in {"fresh", "open"}
  /\ alive' = alive \ {b} /\ indoors' = indoors \ {b}
  /\ eventful' \in {eventful, eventful \/ Reads}
  /\ UNCHANGED <<program, phase, narr, bots, link, born, late, ending>>

(* The engine forgets a registration: when nobody connected for a minute,  *)
(* and the body is removed; or some time after its connection was closed,  *)
(* when the body is looked for on the overworld only.                      *)
Forgets(b, where) ==
  /\ b \in alive /\ alive' = alive \ ({b} \cap where) /\ indoors' = indoors \ {b}
  /\ link' = [link EXCEPT ![b] = IF b \in where THEN "gone" ELSE "left"]
  /\ UNCHANGED <<program, phase, narr, bots, born, eventful, late, ending>>
Reaps(b)     == Followed /\ link[b] = "fresh" /\ Forgets(b, alive)
TearsDown(b) == (Followed \/ phase = "narrating") /\ link[b] = "closed" /\ Forgets(b, Outdoors)

(* The narrator ends on its own when the file is idle, and after SIGINT.   *)
(* Nobody looks at it before the end of the window.                        *)
NarratorExits ==
  /\ phase \in {"stopping", "narrating"} /\ narr \in {"reading", "asked"} /\ narr' = "ended"
  /\ UNCHANGED <<program, phase, bots, engine, late, ending>>

-----------------------------------------------------------------------------
(* supervise, when run() of the bot has returned or raised.                *)
AfterRun(s) == IF Supervises /\ ~ late /\ ~ told[s] THEN "joining" ELSE "over"

(* run() ends when the body has died, when the bot was told to stop, and   *)
(* with an exception, as when it cannot connect.  A connection is closed;  *)
(* what becomes of the body, unless it has died, is for the engine.        *)
HangUp(bs) ==
  link' = [b \in Bodies |-> IF b \in bs /\ link[b] = "open"
                             THEN IF b \in alive THEN "closed" ELSE "gone"
                             ELSE link[b]]
RunEnds(s) ==
  /\ place[s] = "running" /\ ThreadFree
  /\ place' = [place EXCEPT ![s] = AfterRun(s)] /\ HangUp({body[s]})
  /\ UNCHANGED <<program, phase, narr, body, accepted, told>>
  /\ UNCHANGED <<alive, indoors, born, eventful, late, ending>>

(* A second later a replacement is asked for, whatever has been said       *)
(* meanwhile.  It runs if the deadline has not passed; else it is never    *)
(* connected.  A registration that fails gives the slot up.                *)
Joins(s) ==
  /\ place[s] = "joining" /\ ThreadFree
  /\ \/ /\ NewBody /\ NewBot(s)
        /\ place' = [place EXCEPT ![s] = IF late THEN "stray" ELSE "running"]
     \/ /\ place' = [place EXCEPT ![s] = "over"]
        /\ UNCHANGED <<body, accepted, told, alive, indoors, link, born>>
  /\ UNCHANGED <<program, phase, narr, eventful, late, ending>>

DeadlinePasses ==
  /\ phase = "window" /\ ~ late /\ late' = TRUE
  /\ UNCHANGED <<program, phase, narr, bots, engine, ending>>

-----------------------------------------------------------------------------
(* Every ten to twenty seconds the window looks about.  run_p7_real checks *)
(* for a run that is not worth its time, after the first 60 and 90         *)
(* seconds: what counts is what the current bots did, and whether anything *)
(* happened or any gold that it could read has moved.                      *)
Dead    == \E s \in Llm : place[s] # "skipped" /\ \A t \in Llm : ~ accepted[t]
Stalled == ~ eventful
Poll ==
  /\ phase = "window" /\ phase' = "collect"
  /\ late \/ (Scores /\ (Dead \/ Stalled))
  /\ UNCHANGED <<program, narr, bots, engine, late, ending>>

(* collect_state and collect_social_heatmap: what the engine tells of the  *)
(* bots goes into the summary; the first does without what it cannot have. *)
(* The end of the window, Ctrl-C in it, or the engine not answering the    *)
(* collection of run_demo: stop() of every current bot.  What the bots did *)
(* is not looked at any more and is forgotten.                             *)
Window(how) ==
  CASE how = "none"      -> phase = "collect"
    [] how = "raised"    -> phase = "collect" /\ program = "run_demo"
    [] how = "interrupt" -> phase = "window"
StopBots(how) ==
  /\ Window(how) /\ trouble' = how
  /\ told' = [s \in Slots |-> TRUE] /\ phase' = "stopping"
  /\ accepted' = [s \in Slots |-> FALSE] /\ eventful' = FALSE
  /\ UNCHANGED <<program, narr, place, body, alive, indoors, link, born, late, written>>

(* A slip: only the bots that were told to stop are cancelled.             *)
CancelledTold == {s \in Slots : place[s] \notin {"stray", "skipped"} /\ told[s]}
Cancelled == {s \in Slots : place[s] \notin {"stray", "skipped"}}

(* What is left is cancelled, and the connection of a bot that runs is     *)
(* closed.  A registration in flight may have made a body, which has no    *)
(* bot.  Then SIGINT to the narrator.  Ctrl-C at this point has the event  *)
(* loop cancel the tasks, reaches the narrator too, and nobody waits.      *)
Cancel ==
  /\ phase = "stopping" /\ phase' \in {"narrating", "quit"}
  /\ place' = [s \in Slots |-> IF s \in Cancelled THEN "over" ELSE place[s]]
  /\ \E made \in 0..Cardinality({s \in Slots : place[s] = "joining"}) :
       /\ born + made <= Cardinality(Bodies) /\ born' = born + made
       /\ alive' = alive \cup (born+1..born')
  /\ HangUp({body[s] : s \in {t \in Cancelled : place[t] = "running"}})
  /\ narr' = IF narr = "reading" THEN "asked" ELSE narr
  /\ UNCHANGED <<program, body, accepted, told, indoors, eventful, late, ending>>

(* After the wait the exception, if there was one, goes on; else what      *)
(* there is to write is written.                                           *)
Then ==
  CASE trouble = "raised" -> "failed"
    [] trouble = "interrupt" \/ Outputs = << >> -> "done"
    [] OTHER -> "writing"

(* A slip: the wait has no timeout.                                        *)
WaitForever ==
  /\ phase = "narrating" /\ narr \in {"none", "ended"} /\ phase' = Then /\ narr' = narr
  /\ UNCHANGED <<program, bots, engine, late, ending>>
(* wait(timeout): the narrator has ended, or is killed.                    *)
Wait ==
  /\ phase = "narrating" /\ phase' = Then
  /\ narr' = IF narr = "asked" THEN "killed" ELSE narr
  /\ UNCHANGED <<program, bots, engine, late, ending>>

(* A second Ctrl-C does not wait for the narrator.                         *)
Quit ==
  /\ phase = "narrating" /\ trouble = "interrupt" /\ phase' = "quit"
  /\ UNCHANGED <<program, narr, bots, engine, late, ending>>

(* The outputs, one by one; the report quotes the closing narrative from   *)
(* the file of the narrator.  An event file that cannot be read, or a full *)
(* disk, ends the launcher.                                                *)
WriteOutput ==
  /\ phase = "writing"
  /\ \/ /\ written' = written + 1
        /\ phase' = IF written' = Len(Outputs) THEN "done" ELSE "writing"
     \/ written' = written /\ phase' = "failed"
  /\ UNCHANGED <<program, narr, bots, engine, late, trouble>>

-----------------------------------------------------------------------------
MainRun ==
  \/ Preflight \/ RegisterFails \/ Launch \/ Poll \/ Cancel \/ Wait \/ WriteOutput
  \/ StopBots("none") \/ StopBots("raised")
  \/ \E s \in Slots : Register(s)

ExperimentNext ==
  \/ MainRun \/ StopBots("interrupt") \/ Quit \/ NarratorExits \/ DeadlinePasses \/ Stirs
  \/ \E s \in Slots : RunEnds(s) \/ Joins(s) \/ Connects(s) \/ Acts(s)
  \/ \E b \in Bodies : Dies(b) \/ Warps(b) \/ TearsDown(b) \/ Reaps(b)

(* The thread goes on, and time passes.  Neither a bot nor the narrator is *)
(* promised to end, nor a registration to be answered.                     *)
ExperimentFairness == WF_vars(MainRun) /\ WF_vars(DeadlinePasses)

ExperimentSpec == ExperimentInit /\ [][ExperimentNext]_vars /\ ExperimentFairness

-----------------------------------------------------------------------------
(* Properties *)

(* When the bots have been cancelled none is connected, not even one that  *)
(* joined after stop() had been called; so each body the launcher ever     *)
(* asked for is gone, or waits to be torn down (closed) or reaped (fresh), *)
(* or stays for good because it was not on the overworld when its          *)
(* connection was torn down (agent.go readPump, reapStaleRegistrations).   *)
NoBodyLeftBehind ==
  phase \in {"narrating", "writing", "done", "quit"} =>
    /\ \A s \in Slots : place[s] \in {"over", "stray", "skipped"}
    /\ \A b \in alive : link[b] \in {"closed", "fresh", "left"}

(* The outputs are written when nothing that they are about goes on: the   *)
(* bots are gone and the narrator writes no more; and a run that ends as   *)
(* planned has all of them.                                                *)
OutputsComeLast ==
  /\ written > 0 => narr \in {"none", "ended", "killed"} /\ \A s \in Slots : place[s] # "running"
  /\ phase = "done" /\ trouble = "none" => written = Len(Outputs)

(* A launched run ends, however bots, deaths and the narrator behave, and  *)
(* leaves no narrator that was not asked to end, nor one that was unless   *)
(* the user did not wait for it.                                           *)
RunEndsForGood ==
  phase = "window" ~> (phase \in Over /\ narr # "reading" /\ (narr = "asked" => phase = "quit"))

(* The launcher leaves no bot connected, and writes its outputs last.      *)
LauncherSafe == ExperimentTypeOK /\ NoBodyLeftBehind /\ OutputsComeLast
=============================================================================
