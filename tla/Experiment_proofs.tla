------------------------- MODULE Experiment_proofs -------------------------
(***************************************************************************)
(* For any cast: a launcher leaves no bot connected and writes its outputs *)
(* last, whatever ends its run.                                            *)
(*                                                                         *)
(* For any processes, batches, numbers of runs and of commands: processes  *)
(* that share the experiments without a lock build each run by themselves, *)
(* and list a run at most once and only when everything its row points to  *)
(* is there, as long as none stops while it makes a file anew and no two   *)
(* have a page open for writing.  A row is lost only when two are at the   *)
(* pages at once, or one is killed there.                                  *)
(*                                                                         *)
(* For any number of runs of the study that compares brains: each has one  *)
(* row, about its own engine and its own events.                           *)
(*                                                                         *)
(* For any threads, prices and tripwires: the calls of one process are     *)
(* recorded one after the other, and a tripwire is announced exactly when  *)
(* the total reaches it.                                                   *)
(*                                                                         *)
(* For any agents, caps, cadences and budgets: the narrator tells each     *)
(* event of an agent once, loses none but from a full bucket, and groups   *)
(* agents by their deals, as its union-find computes it.                   *)
(***************************************************************************)
EXTENDS MCExperiment, SequenceTheorems, FiniteSetTheorems, WellFoundedInduction, TLAPS

-----------------------------------------------------------------------------
(* A launcher. *)

Ended == {"over", "stray", "skipped"}
Quiet == {"none", "ended", "killed"}

(* A body that a bot has had is no new one.                                *)
BodiesAreOld == \A s \in Slots : body[s] # NoBody => body[s] <= born

(* A connection is that of a bot that runs, and a body that is gone for    *)
(* the engine is gone.                                                     *)
Linked ==
  /\ \A b \in Bodies : link[b] = "open" => \E s \in Slots : place[s] = "running" /\ body[s] = b
  /\ \A b \in Bodies : b > born => link[b] = "fresh"
  /\ \A b \in alive : link[b] # "gone"

(* Every slot has its task in the window, and none before or after it.     *)
TasksByPhase ==
  /\ phase = "preflight" => \A s \in Slots : place[s] = "none"
  /\ phase \in {"window", "collect", "stopping"} =>
       \A s \in Slots : place[s] \notin {"none", "ready"}
  /\ phase \in {"narrating", "writing", "done", "quit"} => \A s \in Slots : place[s] \in Ended

(* The narrator is asked to end before it is waited for, and waited for    *)
(* before anything is written.                                             *)
NarratorByPhase ==
  /\ phase = "narrating" => narr # "reading"
  /\ phase \in {"writing", "done"} => narr \in Quiet

OutputsByPhase ==
  /\ written > 0 => /\ phase \in {"writing", "done", "failed"} /\ narr \in Quiet
                    /\ \A s \in Slots : place[s] \in Ended
  /\ phase = "writing" => written < Len(Outputs)
  /\ phase = "done" /\ trouble = "none" => written = Len(Outputs)

EInv ==
  /\ ExperimentTypeOK /\ BodiesAreOld /\ Linked
  /\ TasksByPhase /\ NarratorByPhase /\ OutputsByPhase

LEMMA LauncherConstants ==
  /\ IsFiniteSet(Slots) /\ Slots = 1..Cardinality(Slots) /\ Cardinality(Slots) \in Nat
  /\ Bodies = 1..Cardinality(Bodies) /\ Cardinality(Bodies) \in Nat /\ NoBody \notin Bodies
  <1>1. Cardinality(Slots) \in Nat /\ Cardinality(Bodies) \in Nat
    BY ExperimentAssumption, FS_CardinalityType DEF ExperimentAssumption
  <1> QED BY <1>1, ExperimentAssumption DEF ExperimentAssumption

(* A launcher has no outputs, one or three, whatever happens to it.        *)
LEMMA OutputsAre ==
  ASSUME ExperimentTypeOK
  PROVE  Len(Outputs) \in Nat /\ (Outputs = <<>> => Len(Outputs) = 0) /\ (Len(Outputs) = 0 => Outputs = <<>>)
  <1>1. Len(<<"summary", "score", "report">>) = 3 /\ Len(<<"summary">>) = 1
    OBVIOUS
  <1>2. <<"summary", "score", "report">> # <<>> /\ <<"summary">> # <<>>
    OBVIOUS
  <1>3. CASE program = "run_p7_real"
    <2>1. Outputs = <<"summary", "score", "report">>
      BY <1>3 DEF Outputs
    <2> QED BY <1>1, <1>2, <2>1
  <1>4. CASE program = "run_demo"
    <2>1. Outputs = <<"summary">>
      BY <1>4 DEF Outputs
    <2> QED BY <1>1, <1>2, <2>1
  <1>5. CASE program = "run_cast"
    <2>1. Outputs = <<>>
      BY <1>5 DEF Outputs
    <2> QED BY <2>1
  <1> QED BY <1>3, <1>4, <1>5 DEF ExperimentTypeOK, Programs

(* Bots and their bodies, and what the engine knows of them.               *)
BotsType ==
  /\ place \in [Slots -> Places] /\ body \in [Slots -> Bodies \cup {NoBody}]
  /\ \A s, t \in Slots : s # t /\ body[s] # NoBody => body[s] # body[t]
  /\ accepted \in [Slots -> BOOLEAN] /\ told \in [Slots -> BOOLEAN]
EngineType ==
  /\ alive \subseteq 1..born /\ indoors \subseteq alive /\ link \in [Bodies -> Links]
  /\ born \in 0..Cardinality(Bodies) /\ eventful \in BOOLEAN
FlowType ==
  /\ program \in Programs /\ phase \in Phases
  /\ narr \in {"none", "reading", "asked", "ended", "killed"} /\ late \in BOOLEAN
  /\ trouble \in {"none", "interrupt", "raised"}
  /\ written \in 0..Len(Outputs)

LEMMA TypesAre == ExperimentTypeOK <=> BotsType /\ EngineType /\ FlowType
  BY LauncherConstants DEF ExperimentTypeOK, BotsType, EngineType, FlowType

LEMMA TypesThen == ExperimentTypeOK' <=> BotsType' /\ EngineType' /\ FlowType'
  BY LauncherConstants DEF ExperimentTypeOK, BotsType, EngineType, FlowType

(* A body that lives has been made.                                        *)
LEMMA AliveAreBodies ==
  ASSUME EngineType
  PROVE  alive \subseteq Bodies /\ born \in Nat
  <1>1. PICK n \in Nat : n = Cardinality(Bodies) /\ Bodies = 1..n
    BY LauncherConstants
  <1>2. alive \subseteq 1..born /\ born \in 0..n
    BY <1>1 DEF EngineType
  <1>3. 1..born \subseteq 1..n /\ born \in Nat
    BY <1>2
  <1> QED BY <1>1, <1>2, <1>3, Zenon

LEMMA LauncherStart == ExperimentInit => EInv
  <1> SUFFICES ASSUME ExperimentInit PROVE EInv
    OBVIOUS
  <1>1. program \in Programs /\ written = 0
    BY DEF ExperimentInit
  <1>2. Len(Outputs) \in Nat
    <2>1. CASE program = "run_p7_real"
      BY <2>1 DEF Outputs
    <2>2. CASE program = "run_demo"
      BY <2>2 DEF Outputs
    <2>3. CASE program = "run_cast"
      BY <2>3 DEF Outputs
    <2> QED BY <1>1, <2>1, <2>2, <2>3 DEF Programs
  <1>3. FlowType
    <2>1. \A n \in Nat : 0 \in 0..n
      OBVIOUS
    <2>2. written \in 0..Len(Outputs)
      BY <1>1, <1>2, <2>1
    <2>3. /\ phase \in Phases /\ narr \in {"none", "reading", "asked", "ended", "killed"} /\ late \in BOOLEAN
          /\ trouble \in {"none", "interrupt", "raised"}
      BY DEF ExperimentInit, Phases
    <2> QED BY <1>1, <2>2, <2>3 DEF FlowType
  <1>4. BotsType
    BY LauncherConstants DEF ExperimentInit, BotsType, Places
  <1>5. EngineType
    <2>1. alive = {} /\ indoors = {} /\ born = 0 /\ eventful = FALSE /\ link \in [Bodies -> Links]
      BY DEF ExperimentInit, Links
    <2>2. \A n \in Nat : 0 \in 0..n
      OBVIOUS
    <2>3. born \in 0..Cardinality(Bodies)
      BY <2>1, <2>2, LauncherConstants
    <2> QED BY <2>1, <2>3 DEF EngineType
  <1>6. BodiesAreOld /\ Linked
    BY DEF ExperimentInit, BodiesAreOld, Linked
  <1>7. TasksByPhase /\ NarratorByPhase /\ OutputsByPhase
    BY <1>1 DEF ExperimentInit, TasksByPhase, NarratorByPhase, OutputsByPhase
  <1> QED BY <1>3, <1>4, <1>5, <1>6, <1>7, TypesAre DEF EInv

(* The outputs are those of the program.                                   *)
LEMMA FlowGoesOn ==
  ASSUME ExperimentTypeOK, program' = program, phase' \in Phases,
         narr' \in {"none", "reading", "asked", "ended", "killed"}, late' \in BOOLEAN,
         trouble' \in {"none", "interrupt", "raised"}, written' \in 0..Len(Outputs)
  PROVE  FlowType'
  <1>1. Outputs' = Outputs
    BY DEF Outputs
  <1> QED BY <1>1, TypesAre DEF FlowType

(* Nothing happens to a bot, and if anything to a body, it goes.           *)
LEMMA BodiesGo ==
  ASSUME EInv, UNCHANGED <<place, body, born, link>>, alive' \subseteq alive
  PROVE  BodiesAreOld' /\ Linked'
  BY DEF EInv, BodiesAreOld, Linked

(* The launcher stays where it is.                                         *)
LEMMA LauncherStays ==
  ASSUME EInv, UNCHANGED <<program, phase, narr, place, trouble, written>>
  PROVE  TasksByPhase' /\ NarratorByPhase' /\ OutputsByPhase'
  <1>1. Outputs' = Outputs
    BY DEF Outputs
  <1> QED BY <1>1 DEF EInv, TasksByPhase, NarratorByPhase, OutputsByPhase

LEMMA LauncherRests ==
  ASSUME EInv, ExperimentTypeOK', alive' \subseteq alive,
         UNCHANGED <<program, phase, narr, place, body, born, link, trouble, written>>
  PROVE  EInv'
  BY LauncherStays, BodiesGo DEF EInv

(* It ends the window, step by step.                                       *)
LEMMA WindowGoesOn ==
  ASSUME EInv, ExperimentTypeOK', phase \in {"window", "collect"}, phase' \in {"collect", "stopping"},
         UNCHANGED <<place, body, born, link, alive, written>>
  PROVE  EInv'
  <1>1. ~ (written > 0)
    BY DEF EInv, OutputsByPhase
  <1>2. TasksByPhase' /\ NarratorByPhase' /\ OutputsByPhase'
    BY <1>1 DEF EInv, TasksByPhase, NarratorByPhase, OutputsByPhase
  <1> QED BY <1>2, BodiesGo DEF EInv

(* The task of one slot goes on, which it can only while there are tasks.  *)
LEMMA TaskGoesOn ==
  ASSUME EInv, NEW s \in Slots, place[s] \notin Ended, place[s] \notin {"none", "ready"},
         NEW spot \in Places \ {"none", "ready"}, place' = [place EXCEPT ![s] = spot],
         UNCHANGED <<program, phase, narr, trouble, written>>
  PROVE  TasksByPhase' /\ NarratorByPhase' /\ OutputsByPhase'
  <1>1. Outputs' = Outputs
    BY DEF Outputs
  <1>2. place \in [Slots -> Places]
    BY TypesAre DEF EInv, BotsType
  <1>3. ~ (written > 0) /\ phase \notin {"preflight", "narrating", "writing", "done", "quit"}
    BY DEF EInv, OutputsByPhase, TasksByPhase
  <1>4. TasksByPhase'
    BY <1>2, <1>3 DEF EInv, TasksByPhase
  <1>5. NarratorByPhase' /\ OutputsByPhase'
    BY <1>1, <1>3 DEF EInv, NarratorByPhase, OutputsByPhase
  <1> QED BY <1>4, <1>5

(* A body is made and given to a slot: no other bot has it.                *)
LEMMA BodyIsNew ==
  ASSUME EInv, NEW s \in Slots, NewBody, NewBot(s), eventful' \in BOOLEAN
  PROVE  /\ EngineType' /\ BodiesAreOld'
         /\ born' \in Bodies /\ born' \in Nat /\ born' = born + 1
         /\ link' = [link EXCEPT ![born'] = "fresh"] /\ alive' = alive \cup {born'}
         /\ \A t \in Slots : t # s => body'[t] = body[t] /\ body[t] # born'
         /\ body' \in [Slots -> Bodies \cup {NoBody}]
         /\ \A t, u \in Slots : t # u /\ body'[t] # NoBody => body'[t] # body'[u]
         /\ accepted' \in [Slots -> BOOLEAN] /\ told' \in [Slots -> BOOLEAN]
  <1>1. PICK n \in Nat : n = Cardinality(Bodies) /\ Bodies = 1..n
    BY LauncherConstants
  <1>2. BotsType /\ EngineType /\ NoBody \notin Bodies
    BY TypesAre, LauncherConstants DEF EInv
  <1>3. born \in 0..n /\ born < n /\ born' = born + 1 /\ alive \subseteq 1..born
    BY <1>1, <1>2 DEF EngineType, NewBody
  <1>4. born' \in Bodies /\ born' \in 0..n /\ born' \in Nat
    <2>1. \A b \in 0..n : b < n => b + 1 \in 1..n /\ b + 1 \in 0..n /\ b + 1 \in Nat
      OBVIOUS
    <2>2. born' \in 1..n /\ born' \in 0..n /\ born' \in Nat
      BY <1>3, <2>1
    <2> QED BY <1>1, <2>2
  <1>5. \A t \in Slots : body[t] # NoBody => body[t] \in Bodies /\ body[t] <= born
    BY <1>2 DEF BotsType, EInv, BodiesAreOld
  <1>6. \A t \in Slots : body[t] # born'
    BY <1>1, <1>2, <1>3, <1>4, <1>5
  <1>7. /\ body' = [body EXCEPT ![s] = born'] /\ body' \in [Slots -> Bodies \cup {NoBody}]
        /\ body'[s] = born' /\ \A t \in Slots : t # s => body'[t] = body[t]
    BY <1>2, <1>4 DEF NewBot, BotsType
  <1>8. \A t, u \in Slots : t # u /\ body'[t] # NoBody => body'[t] # body'[u]
    BY <1>2, <1>6, <1>7 DEF BotsType
  <1>9. accepted' \in [Slots -> BOOLEAN] /\ told' \in [Slots -> BOOLEAN]
    BY <1>2 DEF NewBot, BotsType
  <1>10. alive' = alive \cup {born'} /\ alive' \subseteq 1..born' /\ indoors' \subseteq alive'
    <2>1. alive' = alive \cup {born'} /\ indoors' = indoors /\ indoors \subseteq alive
      BY <1>2 DEF NewBody, EngineType
    <2>2. 1..born \subseteq 1..born' /\ born' \in 1..born'
      BY <1>3
    <2> QED BY <1>3, <2>1, <2>2, Zenon
  <1>11. link' = [link EXCEPT ![born'] = "fresh"] /\ link' \in [Bodies -> Links]
    BY <1>2 DEF NewBody, EngineType, Links
  <1>12. EngineType'
    BY <1>1, <1>4, <1>10, <1>11 DEF EngineType
  <1>13. BodiesAreOld'
    <2> SUFFICES ASSUME NEW t \in Slots, body'[t] # NoBody PROVE body'[t] <= born'
      BY DEF BodiesAreOld
    <2>1. CASE t = s
      BY <1>3, <1>7, <2>1
    <2>2. CASE t # s
      <3>1. body[t] \in Bodies /\ body[t] <= born /\ body'[t] = body[t]
        BY <1>5, <1>7, <2>2
      <3> QED BY <1>1, <1>3, <3>1
    <2> QED BY <2>1, <2>2
  <1> QED BY <1>3, <1>4, <1>6, <1>7, <1>8, <1>9, <1>10, <1>11, <1>12, <1>13

(* It has no connection yet, and the slot had none.                        *)
LEMMA NewBodyIsFresh ==
  ASSUME EInv, NEW s \in Slots, NewBody, NewBot(s), eventful' \in BOOLEAN,
         place[s] # "running", \A t \in Slots : t # s => place'[t] = place[t]
  PROVE  Linked'
  <1>1. link \in [Bodies -> Links] /\ Linked /\ alive \subseteq Bodies /\ born \in Nat
    BY TypesAre, AliveAreBodies DEF EInv, EngineType
  <1>2. \A b \in Bodies : link'[b] = IF b = born' THEN "fresh" ELSE link[b]
    BY <1>1, BodyIsNew
  <1>3. ASSUME NEW b \in Bodies, link'[b] = "open"
        PROVE  \E t \in Slots : place'[t] = "running" /\ body'[t] = b
    <2>1. link[b] = "open"
      BY <1>2, <1>3
    <2>2. PICK t \in Slots : place[t] = "running" /\ body[t] = b
      BY <1>1, <2>1 DEF Linked
    <2> QED BY <2>2, BodyIsNew
  <1>4. ASSUME NEW b \in Bodies, b > born' PROVE link'[b] = "fresh"
    <2>1. b > born
      <3>1. PICK n \in Nat : Bodies = 1..n
        BY LauncherConstants
      <3>2. born' = born + 1
        BY BodyIsNew
      <3> QED BY <1>1, <1>4, <3>1, <3>2
    <2> QED BY <1>1, <1>2, <2>1 DEF Linked
  <1>5. ASSUME NEW b \in alive' PROVE link'[b] # "gone"
    BY <1>1, <1>2, BodyIsNew DEF Linked
  <1> QED BY <1>3, <1>4, <1>5 DEF Linked

(* Bots hang up, and the connections of the others stay.                   *)
LEMMA HangingUp ==
  ASSUME EngineType, Linked, NEW bs, HangUp(bs)
  PROVE  /\ link' \in [Bodies -> Links]
         /\ \A b \in Bodies : /\ link'[b] = "open" => link[b] = "open" /\ b \notin bs
                              /\ link[b] = "fresh" => link'[b] = "fresh"
         /\ \A b \in alive : link'[b] # "gone"
  <1>1. link' = [b \in Bodies |-> IF b \in bs /\ link[b] = "open"
                                  THEN IF b \in alive THEN "closed" ELSE "gone"
                                  ELSE link[b]]
    BY DEF HangUp
  <1> QED BY <1>1, AliveAreBodies DEF EngineType, Linked, Links

(* The engine forgets the registration of a body that has no connection.   *)
LEMMA Forgetting ==
  ASSUME EInv, NEW b \in Bodies, NEW where, Forgets(b, where), link[b] \in {"fresh", "closed"}
  PROVE  EngineType' /\ Linked' /\ BodiesAreOld'
  <1>1. EngineType /\ Linked /\ b \in alive
    BY TypesAre DEF EInv, Forgets
  <1>2. /\ alive' = alive \ ({b} \cap where) /\ indoors' = indoors \ {b}
        /\ link' = [link EXCEPT ![b] = IF b \in where THEN "gone" ELSE "left"]
        /\ UNCHANGED <<place, body, born, eventful>>
    BY DEF Forgets, bots
  <1>3. \A a \in Bodies : link'[a] = IF a = b THEN IF b \in where THEN "gone" ELSE "left" ELSE link[a]
    BY <1>1, <1>2 DEF EngineType
  <1>4. EngineType'
    <2>1. link' \in [Bodies -> Links]
      BY <1>1, <1>2 DEF EngineType, Links
    <2>2. alive' \subseteq 1..born' /\ indoors' \subseteq alive'
      BY <1>1, <1>2 DEF EngineType
    <2> QED BY <1>1, <1>2, <2>1, <2>2 DEF EngineType
  <1>5. Linked'
    <2>1. \A a \in alive' : link'[a] # "gone"
      BY <1>1, <1>2, <1>3, AliveAreBodies DEF Linked
    <2>2. ~ (b > born)
      <3>1. b \in 1..born /\ born \in Nat
        BY <1>1, AliveAreBodies DEF EngineType
      <3> QED BY <3>1
    <2>3. \A a \in Bodies : a > born' => link'[a] = "fresh"
      BY <1>1, <1>2, <1>3, <2>2 DEF Linked
    <2>4. \A a \in Bodies : link'[a] = "open" => \E s \in Slots : place'[s] = "running" /\ body'[s] = a
      BY <1>1, <1>2, <1>3 DEF Linked
    <2> QED BY <2>1, <2>3, <2>4 DEF Linked
  <1>6. BodiesAreOld'
    BY <1>2 DEF EInv, BodiesAreOld
  <1> QED BY <1>4, <1>5, <1>6

LEMMA LauncherStep == EInv /\ [ExperimentNext]_vars => EInv'
  <1> SUFFICES ASSUME EInv, [ExperimentNext]_vars PROVE EInv'
    OBVIOUS
  <1>t. ExperimentTypeOK /\ BotsType /\ EngineType /\ FlowType
    BY TypesAre DEF EInv
  <1>a. BodiesAreOld /\ Linked /\ TasksByPhase /\ NarratorByPhase /\ OutputsByPhase
    BY DEF EInv
  <1>f. ASSUME UNCHANGED <<program, phase, narr, late, trouble, written>>
        PROVE  FlowType'
    BY <1>t, <1>f, FlowGoesOn DEF FlowType
  <1>e. ASSUME UNCHANGED engine PROVE EngineType'
    BY <1>t, <1>e DEF EngineType, engine
  <1>b. ASSUME UNCHANGED bots PROVE BotsType'
    BY <1>t, <1>b DEF BotsType, bots
  <1>1. CASE Preflight
    <2>1. /\ program' = program /\ phase' \in {"register", "refused", "failed"}
          /\ narr' \in {"none", "reading", narr} /\ UNCHANGED <<late, trouble, written>>
          /\ UNCHANGED <<body, accepted, told, engine>>
      BY <1>1 DEF Preflight, NarratorFirst, ending
    <2>2. place' \in [Slots -> Places] /\ phase = "preflight"
      BY <1>1, <1>t DEF Preflight, Asks, Places, BotsType
    <2>3. BotsType' /\ FlowType'
      BY <2>1, <2>2, <1>t, FlowGoesOn DEF BotsType, FlowType, Phases, Over
    <2>4. ExperimentTypeOK'
      BY <2>1, <2>3, <1>e, TypesThen
    <2>5. ~ (written > 0)
      BY <1>a, <2>2 DEF OutputsByPhase
    <2>6. BodiesAreOld' /\ TasksByPhase' /\ NarratorByPhase' /\ OutputsByPhase'
      BY <1>a, <2>1, <2>5 DEF BodiesAreOld, TasksByPhase, NarratorByPhase, OutputsByPhase, engine
    <2>7. Linked'
      BY <1>a, <2>1, <2>2 DEF Linked, TasksByPhase, engine
    <2> QED BY <2>4, <2>6, <2>7 DEF EInv
  <1>2. ASSUME NEW s \in Slots, Register(s) PROVE EInv'
    <2>1. /\ phase = "register" /\ place[s] = "none"
          /\ NewBody /\ NewBot(s) /\ place' = [place EXCEPT ![s] = "ready"]
          /\ UNCHANGED <<program, phase, narr, eventful, late, trouble, written>>
      BY <1>2 DEF Register, ending
    <2>2. /\ place' \in [Slots -> Places] /\ \A t \in Slots : t # s => place'[t] = place[t]
          /\ eventful' \in BOOLEAN
      BY <1>t, <2>1 DEF BotsType, Places, EngineType
    <2>3. BotsType' /\ EngineType' /\ BodiesAreOld'
      BY <2>1, <2>2, BodyIsNew DEF BotsType
    <2>4. ExperimentTypeOK'
      BY <2>1, <2>3, <1>f, TypesThen
    <2>5. ~ (written > 0)
      BY <1>a, <2>1 DEF OutputsByPhase
    <2>6. TasksByPhase' /\ NarratorByPhase' /\ OutputsByPhase'
      BY <2>1, <2>5 DEF TasksByPhase, NarratorByPhase, OutputsByPhase
    <2>7. Linked'
      BY <2>1, <2>2, NewBodyIsFresh
    <2> QED BY <2>3, <2>4, <2>6, <2>7 DEF EInv
  <1>3. CASE RegisterFails
    <2>1. phase = "register" /\ phase' = "failed" /\ UNCHANGED <<program, narr, bots, engine, late, ending>>
      BY <1>3 DEF RegisterFails
    <2>2. FlowType'
      BY <2>1, <1>t, FlowGoesOn DEF FlowType, Phases, Over, ending
    <2>3. ExperimentTypeOK'
      BY <2>1, <2>2, <1>b, <1>e, TypesThen
    <2>4. ~ (written > 0)
      BY <1>a, <2>1 DEF OutputsByPhase
    <2>5. TasksByPhase' /\ NarratorByPhase' /\ OutputsByPhase'
      BY <2>1, <2>4 DEF TasksByPhase, NarratorByPhase, OutputsByPhase, ending
    <2> QED BY <2>1, <2>3, <2>5, BodiesGo DEF EInv, bots, engine
  <1>4. CASE Launch
    <2>1. /\ phase = "register" /\ phase' \in {"refused", "window"}
          /\ place' = [s \in Slots |-> IF place[s] = "ready" THEN "running" ELSE place[s]]
          /\ \A s \in Slots : place[s] \in {"ready", "skipped"}
          /\ narr' \in {"reading", narr}
          /\ UNCHANGED <<program, body, accepted, told, engine, late, ending>>
      BY <1>4 DEF Launch
    <2>2. \A s \in Slots : place'[s] \in {"running", "skipped"}
      BY <2>1
    <2>3. BotsType'
      BY <1>t, <2>1 DEF BotsType, Places
    <2>4. FlowType'
      BY <2>1, <1>t, FlowGoesOn DEF FlowType, Phases, Over, ending
    <2>5. ExperimentTypeOK'
      BY <2>1, <2>3, <2>4, <1>e, TypesThen
    <2>6. ~ (written > 0)
      BY <1>a, <2>1 DEF OutputsByPhase
    <2>7. TasksByPhase' /\ NarratorByPhase' /\ OutputsByPhase'
      BY <2>1, <2>2, <2>6 DEF TasksByPhase, NarratorByPhase, OutputsByPhase, ending
    <2>8. BodiesAreOld' /\ Linked'
      BY <1>a, <2>1, <2>2 DEF BodiesAreOld, Linked, engine
    <2> QED BY <2>5, <2>7, <2>8 DEF EInv
  <1>5. ASSUME NEW s \in Slots, Connects(s) PROVE EInv'
    <2>1. /\ place[s] = "running" /\ link[body[s]] = "fresh" /\ link' = [link EXCEPT ![body[s]] = "open"]
          /\ UNCHANGED <<program, phase, narr, bots, alive, indoors, born, eventful, late, trouble, written>>
      BY <1>5 DEF Connects, ending
    <2>2. link' \in [Bodies -> Links]
      BY <1>t, <2>1 DEF EngineType, Links
    <2>3. EngineType'
      BY <1>t, <2>1, <2>2 DEF EngineType
    <2>4. ExperimentTypeOK'
      BY <2>1, <2>3, <1>f, <1>b, TypesThen
    <2>5. \A b \in Bodies : link'[b] = IF b = body[s] THEN "open" ELSE link[b]
      BY <1>t, <2>1 DEF EngineType
    <2>6. \A b \in Bodies : b > born => b # body[s]
      <3>1. PICK n \in Nat : Bodies = 1..n
        BY LauncherConstants
      <3>2. born \in Nat /\ NoBody \notin Bodies
        BY <1>t, AliveAreBodies, LauncherConstants
      <3> SUFFICES ASSUME NEW b \in Bodies, b > born, b = body[s] PROVE FALSE
        OBVIOUS
      <3>3. body[s] # NoBody /\ body[s] \in 1..n
        BY <3>1, <3>2
      <3>4. body[s] <= born
        BY <1>a, <3>3 DEF BodiesAreOld
      <3> QED BY <3>2, <3>3, <3>4
    <2>7. BodiesAreOld' /\ Linked'
      <3>1. \A b \in Bodies : link'[b] = "open" => \E t \in Slots : place'[t] = "running" /\ body'[t] = b
        BY <1>a, <2>1, <2>5 DEF Linked, bots
      <3>2. \A b \in Bodies : b > born' => link'[b] = "fresh"
        BY <1>a, <2>1, <2>5, <2>6 DEF Linked
      <3>3. \A b \in alive' : link'[b] # "gone"
        BY <1>a, <1>t, <2>1, <2>5, AliveAreBodies DEF Linked
      <3> QED BY <1>a, <2>1, <3>1, <3>2, <3>3 DEF BodiesAreOld, Linked, bots
    <2>8. TasksByPhase' /\ NarratorByPhase' /\ OutputsByPhase'
      BY <2>1, LauncherStays DEF bots
    <2> QED BY <2>4, <2>7, <2>8 DEF EInv
  <1>6. ASSUME NEW s \in Slots, Acts(s) PROVE EInv'
    <2>1. /\ UNCHANGED <<program, phase, narr, place, body, told, engine, late, trouble, written>>
          /\ accepted' = [accepted EXCEPT ![s] = TRUE]
      BY <1>6 DEF Acts, ending
    <2>2. BotsType'
      BY <1>t, <2>1 DEF BotsType
    <2>3. ExperimentTypeOK'
      BY <2>1, <2>2, <1>f, <1>e, TypesThen
    <2> QED BY <2>1, <2>3, LauncherRests DEF engine
  <1>7. ASSUME NEW b \in Bodies, Warps(b) PROVE EInv'
    <2>1. /\ b \in alive /\ indoors' \in {indoors \ {b}, indoors \cup {b}}
          /\ UNCHANGED <<program, phase, narr, bots, alive, link, born, eventful, late, trouble, written>>
      BY <1>7 DEF Warps, ending
    <2>2. EngineType'
      BY <1>t, <2>1 DEF EngineType
    <2>3. ExperimentTypeOK'
      BY <2>1, <2>2, <1>f, <1>b, TypesThen
    <2> QED BY <2>1, <2>3, LauncherRests DEF bots
  <1>8. CASE Stirs
    <2>1. /\ eventful' = TRUE
          /\ UNCHANGED <<program, phase, narr, bots, alive, indoors, link, born, late, trouble, written>>
      BY <1>8 DEF Stirs, ending
    <2>2. EngineType'
      BY <1>t, <2>1 DEF EngineType
    <2>3. ExperimentTypeOK'
      BY <2>1, <2>2, <1>f, <1>b, TypesThen
    <2> QED BY <2>1, <2>3, LauncherRests DEF bots
  <1>9. ASSUME NEW b \in Bodies, Dies(b) PROVE EInv'
    <2>1. /\ alive' = alive \ {b} /\ indoors' = indoors \ {b}
          /\ UNCHANGED <<program, phase, narr, bots, link, born, late, trouble, written>>
      BY <1>9 DEF Dies, ending
    <2>2. eventful' \in BOOLEAN
      BY <1>t, <1>9 DEF Dies, EngineType, Reads, Scores
    <2>3. EngineType'
      BY <1>t, <2>1, <2>2 DEF EngineType
    <2>4. ExperimentTypeOK'
      BY <2>1, <2>3, <1>f, <1>b, TypesThen
    <2> QED BY <2>1, <2>4, LauncherRests DEF bots
  <1>10. ASSUME NEW b \in Bodies, Reaps(b) \/ TearsDown(b) PROVE EInv'
    <2>1. \E where : Forgets(b, where) /\ link[b] \in {"fresh", "closed"}
      BY <1>10 DEF Reaps, TearsDown
    <2>2. EngineType' /\ Linked' /\ BodiesAreOld'
      BY <2>1, Forgetting
    <2>3. UNCHANGED <<program, phase, narr, bots, late, trouble, written>>
      BY <2>1 DEF Forgets, ending
    <2>4. ExperimentTypeOK'
      BY <2>2, <2>3, <1>f, <1>b, TypesThen
    <2>5. TasksByPhase' /\ NarratorByPhase' /\ OutputsByPhase'
      BY <2>3, LauncherStays DEF bots
    <2> QED BY <2>2, <2>4, <2>5 DEF EInv
  <1>11. CASE NarratorExits
    <2>1. /\ phase \in {"stopping", "narrating"} /\ narr' = "ended"
          /\ UNCHANGED <<program, phase, bots, engine, late, ending>>
      BY <1>11 DEF NarratorExits
    <2>2. FlowType'
      BY <2>1, <1>t, FlowGoesOn DEF FlowType, ending
    <2>3. ExperimentTypeOK'
      BY <2>1, <2>2, <1>b, <1>e, TypesThen
    <2>4. Outputs' = Outputs
      BY <2>1 DEF Outputs
    <2>5. TasksByPhase' /\ NarratorByPhase' /\ OutputsByPhase'
      BY <1>a, <2>1, <2>4 DEF TasksByPhase, NarratorByPhase, OutputsByPhase, Quiet, ending, bots
    <2> QED BY <2>1, <2>3, <2>5, BodiesGo DEF EInv, bots, engine
  <1>12. ASSUME NEW s \in Slots, RunEnds(s) PROVE EInv'
    <2>1. /\ place[s] = "running" /\ place' = [place EXCEPT ![s] = AfterRun(s)] /\ HangUp({body[s]})
          /\ UNCHANGED <<program, phase, narr, body, accepted, told>>
          /\ UNCHANGED <<alive, indoors, born, eventful, late, trouble, written>>
      BY <1>12 DEF RunEnds, ending
    <2>2. AfterRun(s) \in {"joining", "over"}
      BY DEF AfterRun
    <2>3. /\ link' \in [Bodies -> Links] /\ \A b \in alive : link'[b] # "gone"
          /\ \A b \in Bodies : /\ link'[b] = "open" => link[b] = "open" /\ b # body[s]
                               /\ link[b] = "fresh" => link'[b] = "fresh"
      BY <1>a, <1>t, <2>1, HangingUp
    <2>4. /\ place' \in [Slots -> Places] /\ \A t \in Slots : t # s => place'[t] = place[t]
      BY <1>t, <2>1, <2>2 DEF BotsType, Places
    <2>5. BotsType' /\ EngineType'
      BY <1>t, <2>1, <2>3, <2>4 DEF BotsType, EngineType
    <2>6. ExperimentTypeOK'
      BY <2>1, <2>5, <1>f, TypesThen
    <2>7. TasksByPhase' /\ NarratorByPhase' /\ OutputsByPhase'
      BY <2>1, <2>2, TaskGoesOn DEF Ended, Places
    <2>8. BodiesAreOld' /\ Linked'
      <3>1. \A b \in Bodies : link'[b] = "open" => \E t \in Slots : place'[t] = "running" /\ body'[t] = b
        <4> SUFFICES ASSUME NEW b \in Bodies, link'[b] = "open"
                     PROVE  \E t \in Slots : place'[t] = "running" /\ body'[t] = b
          OBVIOUS
        <4>1. PICK t \in Slots : place[t] = "running" /\ body[t] = b
          BY <1>a, <2>3 DEF Linked
        <4>2. t # s
          BY <2>3, <4>1
        <4> QED BY <2>1, <2>4, <4>1, <4>2
      <3>2. (\A b \in Bodies : b > born' => link'[b] = "fresh") /\ \A b \in alive' : link'[b] # "gone"
        BY <1>a, <2>1, <2>3 DEF Linked
      <3> QED BY <1>a, <2>1, <3>1, <3>2 DEF BodiesAreOld, Linked
    <2> QED BY <2>6, <2>7, <2>8 DEF EInv
  <1>13. ASSUME NEW s \in Slots, Joins(s) PROVE EInv'
    <2>1. place[s] = "joining" /\ UNCHANGED <<program, phase, narr, eventful, late, trouble, written>>
      BY <1>13 DEF Joins, ending
    <2>2. CASE NewBody /\ NewBot(s) /\ place' = [place EXCEPT ![s] = IF late THEN "stray" ELSE "running"]
      <3>1. PICK there \in {"stray", "running"} : place' = [place EXCEPT ![s] = there]
        BY <2>2
      <3>2. /\ place' \in [Slots -> Places] /\ \A t \in Slots : t # s => place'[t] = place[t]
            /\ eventful' \in BOOLEAN
        BY <1>t, <2>1, <3>1 DEF BotsType, Places, EngineType
      <3>3. BotsType' /\ EngineType' /\ BodiesAreOld'
        BY <2>2, <3>2, BodyIsNew DEF BotsType
      <3>4. ExperimentTypeOK'
        BY <2>1, <3>3, <1>f, TypesThen
      <3>5. TasksByPhase' /\ NarratorByPhase' /\ OutputsByPhase'
        BY <2>1, <3>1, TaskGoesOn DEF Ended, Places
      <3>6. Linked'
        BY <2>1, <2>2, <3>2, NewBodyIsFresh
      <3> QED BY <3>3, <3>4, <3>5, <3>6 DEF EInv
    <2>3. CASE /\ place' = [place EXCEPT ![s] = "over"]
               /\ UNCHANGED <<body, accepted, told, alive, indoors, link, born>>
      <3>1. /\ place' \in [Slots -> Places] /\ \A t \in Slots : t # s => place'[t] = place[t]
        BY <1>t, <2>3 DEF BotsType, Places
      <3>2. BotsType' /\ EngineType'
        BY <1>t, <2>1, <2>3, <3>1 DEF BotsType, EngineType
      <3>3. ExperimentTypeOK'
        BY <2>1, <3>2, <1>f, TypesThen
      <3>4. TasksByPhase' /\ NarratorByPhase' /\ OutputsByPhase'
        BY <2>1, <2>3, TaskGoesOn DEF Ended, Places
      <3>5. BodiesAreOld' /\ Linked'
        BY <1>a, <2>1, <2>3, <3>1 DEF BodiesAreOld, Linked
      <3> QED BY <3>3, <3>4, <3>5 DEF EInv
    <2> QED BY <1>13, <2>2, <2>3 DEF Joins
  <1>14. CASE DeadlinePasses
    <2>1. late' = TRUE /\ UNCHANGED <<program, phase, narr, bots, engine, ending>>
      BY <1>14 DEF DeadlinePasses
    <2>2. FlowType'
      BY <2>1, <1>t, FlowGoesOn DEF FlowType, ending
    <2>3. ExperimentTypeOK'
      BY <2>1, <2>2, <1>b, <1>e, TypesThen
    <2> QED BY <2>1, <2>3, LauncherRests DEF bots, engine, ending
  <1>15. CASE Poll
    <2>1. /\ phase = "window" /\ phase' = "collect"
          /\ UNCHANGED <<program, narr, bots, engine, late, ending>>
      BY <1>15 DEF Poll
    <2>2. FlowType'
      BY <2>1, <1>t, FlowGoesOn DEF FlowType, Phases, ending
    <2>3. ExperimentTypeOK'
      BY <2>1, <2>2, <1>b, <1>e, TypesThen
    <2> QED BY <2>1, <2>3, WindowGoesOn DEF bots, engine, ending
  <1>16. ASSUME NEW how \in {"none", "raised", "interrupt"}, StopBots(how) PROVE EInv'
    <2>1. /\ phase \in {"window", "collect"} /\ trouble' = how /\ phase' = "stopping"
          /\ told' = [s \in Slots |-> TRUE] /\ accepted' = [s \in Slots |-> FALSE] /\ eventful' = FALSE
          /\ UNCHANGED <<program, narr, place, body, alive, indoors, link, born, late, written>>
      BY <1>16 DEF StopBots, Window
    <2>2. FlowType'
      BY <2>1, <1>t, FlowGoesOn DEF FlowType, Phases
    <2>3. BotsType' /\ EngineType'
      BY <2>1, <1>t DEF BotsType, EngineType
    <2>4. ExperimentTypeOK'
      BY <2>2, <2>3, TypesThen
    <2> QED BY <2>1, <2>4, WindowGoesOn
  <1>17. CASE Cancel
    <2> DEFINE closed == {body[s] : s \in {t \in Cancelled : place[t] = "running"}}
               joining == {s \in Slots : place[s] = "joining"}
    <2>1. /\ phase = "stopping" /\ phase' \in {"narrating", "quit"}
          /\ place' = [s \in Slots |-> IF s \in Cancelled THEN "over" ELSE place[s]]
          /\ narr' = IF narr = "reading" THEN "asked" ELSE narr
          /\ HangUp(closed)
          /\ UNCHANGED <<program, body, accepted, told, indoors, eventful, late, trouble, written>>
      BY <1>17 DEF Cancel, ending
    <2>2. PICK more \in 0..Cardinality(joining) :
            /\ born + more <= Cardinality(Bodies) /\ born' = born + more
            /\ alive' = alive \cup (born+1..born')
      BY <1>17 DEF Cancel
    <2>3. more \in Nat
      <3>1. IsFiniteSet(joining)
        BY LauncherConstants, FS_Subset
      <3>2. Cardinality(joining) \in Nat
        BY <3>1, FS_CardinalityType
      <3> HIDE DEF joining
      <3> QED BY <3>2
    <2>4. \A s \in Slots : place'[s] = IF place[s] \in {"stray", "skipped"} THEN place[s] ELSE "over"
      BY <2>1 DEF Cancelled
    <2>5. \A s \in Slots : place[s] = "running" => body[s] \in closed
      BY DEF Cancelled
    <2> HIDE DEF closed, joining
    <2>6. /\ link' \in [Bodies -> Links] /\ \A b \in alive : link'[b] # "gone"
          /\ \A b \in Bodies : /\ link'[b] = "open" => link[b] = "open" /\ b \notin closed
                               /\ link[b] = "fresh" => link'[b] = "fresh"
      BY <1>a, <1>t, <2>1, HangingUp
    <2>7. PICK n \in Nat : n = Cardinality(Bodies) /\ Bodies = 1..n
      BY LauncherConstants
    <2>8. born \in 0..n /\ born + more <= n /\ born' = born + more /\ alive \subseteq 1..born
      BY <1>t, <2>2, <2>7 DEF EngineType
    <2>9. /\ born' \in 0..n /\ born <= born' /\ 1..born \subseteq 1..born'
          /\ born + 1..born' \subseteq 1..born' /\ \A b \in born + 1..born' : b > born /\ b \in 1..n
      <3>1. \A m \in 0..n, k \in Nat : m + k <= n =>
              /\ m + k \in 0..n /\ m <= m + k /\ 1..m \subseteq 1..(m + k)
              /\ m + 1..(m + k) \subseteq 1..(m + k) /\ \A b \in m + 1..(m + k) : b > m /\ b \in 1..n
        OBVIOUS
      <3> QED BY <2>3, <2>8, <3>1
    <2>10. alive' \subseteq 1..born' /\ alive \subseteq alive'
      BY <2>2, <2>8, <2>9, Zenon
    <2>11. EngineType'
      BY <1>t, <2>1, <2>6, <2>7, <2>9, <2>10 DEF EngineType
    <2>12. BotsType'
      <3>1. place' \in [Slots -> Places]
        BY <1>t, <2>1 DEF BotsType, Places
      <3> QED BY <1>t, <2>1, <3>1 DEF BotsType
    <2>13. FlowType'
      BY <2>1, <1>t, FlowGoesOn DEF FlowType, Phases, Over
    <2>14. ExperimentTypeOK'
      BY <2>11, <2>12, <2>13, TypesThen
    <2>15. BodiesAreOld'
      <3> SUFFICES ASSUME NEW s \in Slots, body[s] # NoBody PROVE body[s] <= born'
        BY <2>1 DEF BodiesAreOld
      <3>1. body[s] \in 1..n /\ body[s] <= born
        BY <1>a, <1>t, <2>7 DEF BodiesAreOld, BotsType
      <3> QED BY <2>8, <2>9, <3>1
    <2>16. Linked'
      <3>1. \A b \in Bodies : link'[b] # "open"
        BY <1>a, <2>5, <2>6 DEF Linked
      <3>2. \A b \in Bodies : b > born' => link'[b] = "fresh"
        BY <1>a, <2>6, <2>7, <2>8, <2>9 DEF Linked
      <3>3. \A b \in alive' : link'[b] # "gone"
        BY <1>a, <2>2, <2>6, <2>7, <2>9 DEF Linked
      <3> QED BY <3>1, <3>2, <3>3 DEF Linked
    <2>17. ~ (written > 0)
      BY <1>a, <2>1 DEF OutputsByPhase
    <2>18. TasksByPhase' /\ NarratorByPhase' /\ OutputsByPhase'
      BY <2>1, <2>4, <2>17 DEF TasksByPhase, NarratorByPhase, OutputsByPhase, Ended
    <2> QED BY <2>14, <2>15, <2>16, <2>18 DEF EInv
  <1>18. CASE Wait
    <2>1. /\ phase = "narrating" /\ phase' = Then /\ narr' = IF narr = "asked" THEN "killed" ELSE narr
          /\ UNCHANGED <<program, bots, engine, late, ending>>
      BY <1>18 DEF Wait
    <2>2. /\ phase' \in {"failed", "done", "writing"} /\ (phase' = "writing" => Outputs # <<>>)
          /\ (phase' = "done" => trouble # "none" \/ Outputs = <<>>)
      BY <2>1 DEF Then
    <2>3. FlowType'
      BY <1>t, <2>1, <2>2, FlowGoesOn DEF FlowType, Phases, Over, ending
    <2>4. ExperimentTypeOK'
      BY <2>1, <2>3, <1>b, <1>e, TypesThen
    <2>5. written = 0 /\ Outputs' = Outputs
      <3>1. PICK n \in Nat : n = Len(Outputs)
        BY <1>t, OutputsAre
      <3>2. written \in 0..n /\ ~ (written > 0)
        BY <1>a, <1>t, <2>1, <3>1 DEF OutputsByPhase, FlowType
      <3> QED BY <2>1, <3>2 DEF Outputs
    <2>6. narr' \in Quiet
      BY <1>a, <1>t, <2>1 DEF NarratorByPhase, FlowType, Quiet
    <2>7. TasksByPhase' /\ NarratorByPhase'
      BY <1>a, <2>1, <2>2, <2>6 DEF TasksByPhase, NarratorByPhase, bots
    <2>8. OutputsByPhase'
      <3>1. PICK n \in Nat : n = Len(Outputs) /\ (n = 0 <=> Outputs = <<>>)
        BY <1>t, OutputsAre
      <3> QED BY <2>1, <2>2, <2>5, <3>1 DEF OutputsByPhase, ending
    <2> QED BY <2>1, <2>4, <2>7, <2>8, BodiesGo DEF EInv, bots, engine
  <1>19. CASE Quit
    <2>1. /\ phase = "narrating" /\ phase' = "quit"
          /\ UNCHANGED <<program, narr, bots, engine, late, ending>>
      BY <1>19 DEF Quit
    <2>2. FlowType'
      BY <1>t, <2>1, FlowGoesOn DEF FlowType, Phases, Over, ending
    <2>3. ExperimentTypeOK'
      BY <2>1, <2>2, <1>b, <1>e, TypesThen
    <2>4. ~ (written > 0)
      BY <1>a, <2>1 DEF OutputsByPhase
    <2>5. TasksByPhase' /\ NarratorByPhase' /\ OutputsByPhase'
      BY <1>a, <2>1, <2>4 DEF TasksByPhase, NarratorByPhase, OutputsByPhase, bots, ending
    <2> QED BY <2>1, <2>3, <2>5, BodiesGo DEF EInv, bots, engine
  <1>20. CASE WriteOutput
    <2>1. /\ phase = "writing"
          /\ \/ /\ written' = written + 1 /\ phase' = IF written' = Len(Outputs) THEN "done" ELSE "writing"
             \/ written' = written /\ phase' = "failed"
          /\ UNCHANGED <<program, narr, bots, engine, late, trouble>>
      BY <1>20 DEF WriteOutput
    <2>2. PICK n \in Nat : n = Len(Outputs) /\ n = Len(Outputs')
      BY <1>t, <2>1, OutputsAre DEF Outputs
    <2>3. written \in 0..n /\ written < n /\ narr \in Quiet /\ \A s \in Slots : place[s] \in Ended
      BY <1>a, <1>t, <2>1, <2>2 DEF OutputsByPhase, NarratorByPhase, TasksByPhase, FlowType
    <2>4. /\ written' \in 0..n
          /\ \/ phase' = "done" /\ written' = n
             \/ phase' = "writing" /\ written' < n
             \/ phase' = "failed"
      BY <2>1, <2>2, <2>3
    <2>5. FlowType'
      BY <1>t, <2>1, <2>2, <2>4, FlowGoesOn DEF FlowType, Phases, Over
    <2>6. ExperimentTypeOK'
      BY <2>1, <2>5, <1>b, <1>e, TypesThen
    <2>7. TasksByPhase' /\ NarratorByPhase'
      BY <2>1, <2>3, <2>4 DEF TasksByPhase, NarratorByPhase, bots
    <2>8. OutputsByPhase'
      BY <2>1, <2>2, <2>3, <2>4 DEF OutputsByPhase, bots
    <2> QED BY <2>1, <2>6, <2>7, <2>8, BodiesGo DEF EInv, bots, engine
  <1>21. CASE UNCHANGED vars
    <2>1. ExperimentTypeOK'
      BY <1>21, <1>f, <1>b, <1>e, TypesThen DEF vars, ending
    <2> QED BY <1>21, <2>1, LauncherRests DEF vars, bots, engine, ending
  <1> QED
    BY <1>1, <1>2, <1>3, <1>4, <1>5, <1>6, <1>7, <1>8, <1>9, <1>10, <1>11, <1>12, <1>13, <1>14, <1>15,
       <1>16, <1>17, <1>18, <1>19, <1>20, <1>21 DEF ExperimentNext, MainRun

LEMMA LauncherIsSafe == EInv => LauncherSafe
  <1> SUFFICES ASSUME EInv PROVE LauncherSafe
    OBVIOUS
  <1>1. NoBodyLeftBehind
    <2> SUFFICES ASSUME phase \in {"narrating", "writing", "done", "quit"}
                 PROVE  /\ \A s \in Slots : place[s] \in {"over", "stray", "skipped"}
                        /\ \A b \in alive : link[b] \in {"closed", "fresh", "left"}
      BY DEF NoBodyLeftBehind
    <2>1. \A s \in Slots : place[s] \in {"over", "stray", "skipped"}
      BY DEF EInv, TasksByPhase, Ended
    <2>2. alive \subseteq Bodies /\ link \in [Bodies -> Links] /\ Linked
      BY TypesAre, AliveAreBodies DEF EInv, EngineType
    <2>3. ASSUME NEW b \in alive PROVE link[b] \in {"closed", "fresh", "left"}
      BY <2>1, <2>2 DEF Linked, Links
    <2> QED BY <2>1, <2>3
  <1>2. OutputsComeLast
    BY DEF EInv, OutputsComeLast, OutputsByPhase, Ended, Quiet
  <1> QED BY <1>1, <1>2 DEF EInv, LauncherSafe

(* For any cast and bodies, however bots, deaths, doors, deadlines, Ctrl-C *)
(* and exceptions fall: no body has two bots; after the bots have been     *)
(* cancelled none is connected, not even a replacement that joined after   *)
(* stop(), and what body is left waits for the engine to tear it down or   *)
(* to reap it, or was not on the overworld when that happened; nothing is  *)
(* written while a bot runs or the narrator writes, and a run that ends as *)
(* planned has all its outputs (run_p7_real.py, run_demo.py, run_cast.py,  *)
(* supervise and their clean-up; agent.go).                                *)
THEOREM LauncherCleansUp == ExperimentSpec => []LauncherSafe
  BY LauncherIsSafe, LauncherStart, LauncherStep, PTL DEF ExperimentSpec

-----------------------------------------------------------------------------
(* The research loop. *)

(* A process at work has a run in hand and a turn to take for it, and      *)
(* files lie in run directories.                                           *)
Numbered ==
  /\ \A p \in Procs : doing[p] # "idle" => dir[p] \in RunIds /\ turn[p] < MaxTurns[p]
  /\ \A r \in RunIds : files[r] # {} => r \in made

(* A page that is being written is empty, and nobody else writes it.       *)
Writing == {"heading", "write"}
WrittenByOne ==
  ~ overlaid =>
    /\ \A p, q \in Procs :
         p # q /\ doing[p] \in Writing /\ doing[q] \in Writing => pageNo[p] # pageNo[q]
    /\ \A p \in Procs : doing[p] \in Writing => page[pageNo[p]].lines = << >>

(* A run has a row, or is about to have one.                               *)
Reported(r) ==
  \/ \E i \in 1..Len(Pages) : Has(page[i].lines, r)
  \/ \E p \in Procs : Has(text[p], r) \/ (dir[p] = r /\ doing[p] \in AtPages)

(* The steps of finalize from the one on in which a file is made.          *)
Past(f) ==
  CASE f = "derived" -> Finalizing \ {"remove"}
    [] f = "metrics" -> {"put_metrics", "judge", "put_judge", "report", "put_report"} \cup AtPages
    [] f = "judge"   -> {"put_judge", "report", "put_report"} \cup AtPages
    [] OTHER         -> {"put_report"} \cup AtPages
IsPast(r, f) == \E p \in Procs : dir[p] = r /\ doing[p] \in Past(f)

(* A file that finalize makes is there, or a process that can still make   *)
(* it has removed it.                                                      *)
Remakes(p, f) ==
  \/ f = "derived" /\ doing[p] = "create" /\ owner[dir[p]] = NoOwner
  \/ f = "derived" /\ doing[p] = "fill" /\ owner[dir[p]] = p
  \/ f \in Texts /\ doing[p] = Put[f]
InPlace(r, f) == f \in files[r] \/ \E p \in Procs : dir[p] = r /\ Remakes(p, f)

(* What is on the disk when a process is at a step, or a row is there.     *)
Filed ==
  /\ \A r \in RunIds : "metadata" \in files[r] => "bundle" \in files[r]
  /\ \A p \in Procs :
       /\ doing[p] \in {"metadata", "engine"} => "bundle" \in files[dir[p]]
       /\ doing[p] \in Tools => {"bundle", "metadata", "logs"} \subseteq files[dir[p]]
  /\ \A r \in RunIds : Reported(r) =>
       /\ r \in made /\ {"bundle", "metadata"} \subseteq files[r]
       /\ r \in spoilt \/ "logs" \in files[r]
FilesInPlace ==
  \A r \in RunIds \ spoilt, f \in Made : Reported(r) \/ IsPast(r, f) => InPlace(r, f)

ResearchInv ==
  /\ ResearchTypeOK /\ Numbered /\ OwnDirectory
  /\ NoRowTwice /\ WrittenByOne /\ Filed /\ FilesInPlace

(* What a process does at the pages, and what it does elsewhere.           *)
Proceeds(p)   == ProcessStep(p) \/ Pick(p) \/ Ask(p) \/ Update(p) \/ Kill(p)
PageStep(p)   == Look(p) \/ OpenHeader(p) \/ WriteHeader(p) \/ ReadPage(p) \/ OpenPage(p) \/ WritePage(p)
BuildStep(p)  == MakeDir(p) \/ Copy(p) \/ WriteMetadata(p) \/ RunEngine(p)
ToolStep(p)   == RemoveDatabase(p) \/ CreateDatabase(p) \/ FillDatabase(p) \/ OpenText(p) \/ WriteText(p)
OffStep(p)    == Finalize(p) \/ Pick(p) \/ Ask(p) \/ Update(p)
FailStep(p)   == Raise(p) \/ Kill(p)

LEMMA StepsAre ==
  ASSUME NEW p
  PROVE  Proceeds(p) <=> PageStep(p) \/ BuildStep(p) \/ ToolStep(p) \/ OffStep(p) \/ FailStep(p)
  BY DEF Proceeds, ProcessStep, PageStep, BuildStep, ToolStep, OffStep, FailStep

(* The steps of finalize by name.                                          *)
LEMMA StepNames ==
  /\ Len(Pages) = 2 /\ Put["metrics"] = "put_metrics" /\ Put["judge"] = "put_judge"
  /\ Put["report"] = "put_report"
  /\ AfterText["metrics"] = "judge" /\ AfterText["judge"] = "report" /\ AfterText["report"] = "look"
  /\ Texts = {"metrics", "judge", "report"} /\ Made = {"derived", "metrics", "judge", "report"}
  /\ Tools = {"remove", "create", "fill", "metrics", "judge", "report",
              "put_metrics", "put_judge", "put_report"}
  <1>1. /\ Put["metrics"] = "put_metrics" /\ Put["judge"] = "put_judge" /\ Put["report"] = "put_report"
        /\ AfterText["metrics"] = "judge" /\ AfterText["judge"] = "report" /\ AfterText["report"] = "look"
    BY DEF Put, AfterText
  <1>2. Texts = {"metrics", "judge", "report"} /\ Made = {"derived", "metrics", "judge", "report"}
    BY DEF Texts, Made
  <1>3. {Put[f] : f \in Texts} = {"put_metrics", "put_judge", "put_report"}
    BY <1>1, <1>2
  <1> QED BY <1>1, <1>2, <1>3 DEF Pages, Tools

LEMMA StepsOf ==
  /\ Finalizing = {"remove", "create", "fill", "metrics", "judge", "report",
                   "put_metrics", "put_judge", "put_report",
                   "look", "head", "heading", "read", "open", "write"}
  /\ Steps = {"idle", "mkdir", "finalize", "update", "aborted", "killed",
              "copy", "metadata", "engine"} \cup Finalizing
  BY StepNames DEF Steps, Building, Finalizing, AtPages

(* What a text is opened or written as.                                    *)
LEMMA TextSteps ==
  ASSUME NEW p
  PROVE  /\ OpenText(p) => \E f \in Texts : /\ doing[p] = f /\ Go(p, Put[f]) /\ Without(p, f)
                                            /\ UNCHANGED <<made, owner, page, Stay>>
         /\ WriteText(p) => \E f \in Texts : /\ doing[p] = Put[f] /\ Go(p, AfterText[f]) /\ AddFile(p, f)
                                             /\ UNCHANGED <<made, owner, page, Place, overlaid, spoilt>>
  BY DEF OpenText, WriteText

LEMMA ResearchStart == ResearchInit => ResearchInv
  <1> SUFFICES ASSUME ResearchInit PROVE ResearchInv
    OBVIOUS
  <1> USE ResearchAssumption, StepNames DEF ResearchAssumption
  <1>1. /\ << >> \in Seq(PageLines) /\ \A r : ~ Has(<< >>, r) /\ Once(<< >>, r)
    BY DEF Has, Once
  <1>2. /\ \A p \in Procs : doing[p] = "idle" /\ dir[p] = NoRun /\ text[p] = << >>
        /\ \A i \in 1..2 : page[i].lines = << >>
        /\ \A r \in RunIds : files[r] = {}
    BY DEF ResearchInit
  <1>3. \A p \in Procs : doing[p] \notin Building \cup Finalizing \cup Tools \cup AtPages \cup Writing
    BY <1>2, StepsOf DEF Building, AtPages, Writing
  <1>4. ResearchTypeOK
    <2>1. page \in [1..Len(Pages) -> [there : BOOLEAN, lines : Seq(PageLines)]]
      BY <1>1 DEF ResearchInit
    <2>2. doing \in [Procs -> Steps] /\ text \in [Procs -> Seq(PageLines)]
      BY <1>1, StepsOf DEF ResearchInit
    <2>3. /\ turn \in [Procs -> Nat] /\ (\A p \in Procs : turn[p] <= MaxTurns[p])
          /\ pageNo \in [Procs -> 1..Len(Pages)]
      BY DEF ResearchInit
    <2>4. /\ made \subseteq RunIds /\ files \in [RunIds -> SUBSET Files]
          /\ owner \in [RunIds -> Procs \cup {NoOwner}] /\ spoilt \subseteq RunIds
      BY DEF ResearchInit
    <2>5. dir \in [Procs -> RunIds \cup {NoRun}]
      BY DEF ResearchInit
    <2>6. verdict \in [Procs -> BOOLEAN] /\ {clashed, overlaid} \subseteq BOOLEAN
      BY DEF ResearchInit
    <2> QED BY <1>2, <1>3, <2>1, <2>2, <2>3, <2>4, <2>5, <2>6 DEF ResearchTypeOK
  <1>5. Numbered /\ OwnDirectory
    BY <1>2, <1>3 DEF Numbered, OwnDirectory
  <1>6. NoRowTwice /\ WrittenByOne
    BY <1>1, <1>2, <1>3 DEF NoRowTwice, WrittenByOne
  <1>7. \A r \in RunIds : ~ Reported(r)
    BY <1>1, <1>2, <1>3 DEF Reported
  <1>8. \A r \in RunIds, f \in Made : ~ IsPast(r, f)
    BY <1>3, StepsOf DEF IsPast, Past, AtPages
  <1>9. Filed /\ FilesInPlace
    <2>1. \A p \in Procs : doing[p] \notin {"metadata", "engine"} /\ doing[p] \notin Tools
      BY <1>2, <1>3
    <2> QED BY <1>2, <1>7, <1>8, <2>1 DEF Filed, FilesInPlace
  <1> QED BY <1>4, <1>5, <1>6, <1>9 DEF ResearchInv

-----------------------------------------------------------------------------
(* What a process does is nothing to where the others are.                 *)
LEMMA OthersStay ==
  ASSUME ResearchTypeOK, NEW p \in Procs, Proceeds(p), NEW q \in Procs, q # p
  PROVE  /\ doing'[q] = doing[q] /\ dir'[q] = dir[q] /\ text'[q] = text[q] /\ pageNo'[q] = pageNo[q]
         /\ turn'[q] = turn[q] /\ verdict'[q] = verdict[q]
  <1> USE DEF ResearchTypeOK, Go, Conclude, Stay, Place, Begin
  <1>1. CASE BuildStep(p)
    BY <1>1 DEF BuildStep, MakeDir, Copy, WriteMetadata, RunEngine
  <1>2. CASE ToolStep(p)
    BY <1>2, TextSteps DEF ToolStep, RemoveDatabase, CreateDatabase, FillDatabase
  <1>3. CASE PageStep(p)
    BY <1>3 DEF PageStep, Look, OpenHeader, WriteHeader, OpenPage, OpenIt, ReadPage, WritePage, TurnPage
  <1>4. CASE OffStep(p)
    BY <1>4 DEF OffStep, Finalize, Pick, Ask, Update
  <1>5. CASE FailStep(p)
    BY <1>5 DEF FailStep, Raise, Kill
  <1> QED BY <1>1, <1>2, <1>3, <1>4, <1>5, StepsAre

(* What a process has in hand when it takes a step, and after it.          *)
LEMMA InHand ==
  ASSUME ResearchInv, NEW p \in Procs, Proceeds(p)
  PROVE  /\ doing' \in [Procs -> Steps]
         /\ dir' \in [Procs -> RunIds \cup {NoRun}]
         /\ IF doing'[p] = "idle" THEN dir'[p] = NoRun
            ELSE IF doing[p] = "idle" THEN dir'[p] \in RunIds /\ doing'[p] \in {"mkdir", "finalize", "update"}
            ELSE dir'[p] = dir[p] /\ dir[p] \in RunIds
         /\ doing[p] = "idle" \/ dir[p] \in RunIds
  <1> USE StepNames, StepsOf DEF ResearchInv, ResearchTypeOK, Numbered, Go, Conclude, Stay, Place
  <1>1. CASE BuildStep(p)
    BY <1>1 DEF BuildStep, MakeDir, Copy, WriteMetadata, RunEngine
  <1>2. CASE RemoveDatabase(p) \/ CreateDatabase(p) \/ FillDatabase(p)
    BY <1>2 DEF RemoveDatabase, CreateDatabase, FillDatabase
  <1>3. CASE OpenText(p) \/ WriteText(p)
    <2>1. PICK f \in Texts : /\ UNCHANGED dir
                             /\ \/ doing[p] = f /\ Go(p, Put[f])
                                \/ doing[p] = Put[f] /\ Go(p, AfterText[f])
      BY <1>3, TextSteps
    <2>2. f \in {"metrics", "judge", "report"}
      OBVIOUS
    <2>3. doing[p] # "idle" /\ \E step \in Finalizing : Go(p, step)
      BY <2>1, <2>2
    <2> QED BY <2>1, <2>3
  <1>4. CASE PageStep(p)
    BY <1>4 DEF PageStep, Look, OpenHeader, WriteHeader, OpenPage, OpenIt, ReadPage, WritePage, TurnPage
  <1>5. CASE Finalize(p) \/ Update(p)
    BY <1>5 DEF Finalize, Update
  <1>6. CASE Pick(p) \/ Ask(p)
    <2>1. /\ doing[p] = "idle" /\ \E r \in RunIds : dir' = [dir EXCEPT ![p] = r]
          /\ \E step \in {"mkdir", "finalize", "update"} : Go(p, step)
      BY <1>6 DEF Pick, Ask
    <2> QED BY <2>1
  <1>7. CASE FailStep(p)
    BY <1>7 DEF FailStep, Raise, Kill
  <1> QED BY <1>1, <1>2, <1>3, <1>4, <1>5, <1>6, <1>7, StepsAre DEF ToolStep, OffStep

(* The other variables of a process.                                       *)
LEMMA CountersStay ==
  ASSUME ResearchInv, NEW p \in Procs, Proceeds(p)
  PROVE  /\ turn' \in [Procs -> Nat] /\ pageNo' \in [Procs -> 1..Len(Pages)]
         /\ \A q \in Procs : turn'[q] <= MaxTurns[q]
         /\ verdict' \in [Procs -> BOOLEAN]
         /\ doing'[p] # "idle" => turn'[p] < MaxTurns[p]
  <1> DEFINE Own ==
         /\ turn' \in [Procs -> Nat] /\ pageNo' \in [Procs -> 1..Len(Pages)]
         /\ verdict' \in [Procs -> BOOLEAN] /\ (doing'[p] # "idle" => turn'[p] < MaxTurns[p])
         /\ turn'[p] <= MaxTurns[p]
  <1>1. /\ turn \in [Procs -> Nat] /\ pageNo \in [Procs -> 1..Len(Pages)]
        /\ verdict \in [Procs -> BOOLEAN]
        /\ doing \in [Procs -> Steps] /\ (doing[p] # "idle" => turn[p] < MaxTurns[p])
        /\ (\A q \in Procs : turn[q] <= MaxTurns[q])
        /\ MaxTurns \in [Procs -> Nat] /\ Len(Pages) = 2
    BY StepNames, ResearchAssumption DEF ResearchAssumption, ResearchInv, ResearchTypeOK, Numbered
  <1>2. ASSUME doing[p] # "idle", NEW well \in BOOLEAN, Conclude(p, well) PROVE Own
    BY <1>1, <1>2 DEF Conclude, Go
  <1>3. ASSUME doing[p] # "idle", UNCHANGED <<turn, pageNo, verdict>> PROVE Own
    BY <1>1, <1>3
  <1>4. ASSUME doing[p] # "idle", TurnPage(p) PROVE Own
    <2>1. CASE LastPage(p)
      BY <1>2, <1>4, <2>1 DEF TurnPage
    <2>2. CASE ~ LastPage(p)
      <3>1. UNCHANGED <<turn, verdict>> /\ pageNo' = [pageNo EXCEPT ![p] = @ + 1]
        BY <1>4, <2>2 DEF TurnPage
      <3>2. pageNo[p] + 1 \in 1..Len(Pages)
        BY <1>1, <2>2 DEF LastPage
      <3> QED BY <1>1, <1>4, <3>1, <3>2
    <2> QED BY <2>1, <2>2
  <1>5. Own
    <2> HIDE DEF Own
    <2>1. CASE BuildStep(p)
      <3>1. doing[p] # "idle" /\ (UNCHANGED <<turn, pageNo, verdict>> \/ Conclude(p, TRUE) \/ Conclude(p, FALSE))
        BY <2>1 DEF BuildStep, MakeDir, Copy, WriteMetadata, RunEngine, Stay, Place
      <3> QED BY <1>2, <1>3, <3>1
    <2>2. CASE ToolStep(p)
      <3>1. doing[p] # "idle" /\ UNCHANGED <<turn, pageNo, verdict>>
        BY <2>2, StepNames
        DEF ToolStep, RemoveDatabase, CreateDatabase, FillDatabase, OpenText, WriteText, Stay, Place
      <3> QED BY <1>3, <3>1
    <2>3. CASE PageStep(p)
      <3>1. doing[p] # "idle" /\ (UNCHANGED <<turn, pageNo, verdict>> \/ TurnPage(p))
        BY <2>3 DEF PageStep, Look, OpenHeader, WriteHeader, ReadPage, OpenPage, WritePage, OpenIt, Stay, Place
      <3> QED BY <1>3, <1>4, <3>1
    <2>4. CASE Finalize(p) \/ Update(p) \/ FailStep(p)
      <3>1. doing[p] # "idle" /\ (UNCHANGED <<turn, pageNo, verdict>> \/ Conclude(p, FALSE))
        BY <2>4, StepNames DEF Finalize, Update, FailStep, Raise, Kill, Place
      <3> QED BY <1>2, <1>3, <3>1
    <2>5. CASE Pick(p) \/ Ask(p)
      <3>1. /\ turn[p] < MaxTurns[p] /\ UNCHANGED <<turn, pageNo>>
            /\ verdict' = [verdict EXCEPT ![p] = TRUE]
        BY <2>5 DEF Pick, Ask, Begin
      <3> QED BY <1>1, <3>1 DEF Own
    <2> QED BY <2>1, <2>2, <2>3, <2>4, <2>5, StepsAre DEF OffStep
  <1> QED BY <1>1, <1>5, OthersStay DEF ResearchInv

(* What is noted of it stays noted.                                        *)
LEMMA MarksStay ==
  ASSUME ResearchInv, NEW p \in Procs, Proceeds(p)
  PROVE  /\ clashed' \in BOOLEAN /\ overlaid' \in BOOLEAN
         /\ (clashed => clashed') /\ (overlaid => overlaid')
         /\ spoilt' = spoilt \/ (spoilt' = spoilt \cup {dir[p]} /\ dir[p] \in RunIds)
  <1>1. clashed \in BOOLEAN /\ overlaid \in BOOLEAN
    BY DEF ResearchInv, ResearchTypeOK
  <1>2. \/ clashed' = clashed \/ ComeToPages(p)
        \/ clashed' = (clashed \/ doing[p] = "write")
    <2>1. CASE BuildStep(p) \/ ToolStep(p)
      BY <2>1 DEF BuildStep, MakeDir, Copy, WriteMetadata, RunEngine, Stay, marks,
                  ToolStep, RemoveDatabase, CreateDatabase, FillDatabase, OpenText, WriteText
    <2>2. CASE PageStep(p)
      BY <2>2 DEF PageStep, Look, OpenHeader, WriteHeader, ReadPage, OpenPage, WritePage, OpenIt, Stay, marks
    <2>3. CASE OffStep(p) \/ FailStep(p)
      BY <2>3 DEF OffStep, Finalize, Pick, Ask, Update, Begin, marks, FailStep, Raise, Kill
    <2> QED BY <2>1, <2>2, <2>3, StepsAre
  <1>3. overlaid' = overlaid \/ OpenIt(p)
    <2>1. CASE BuildStep(p) \/ ToolStep(p)
      BY <2>1 DEF BuildStep, MakeDir, Copy, WriteMetadata, RunEngine, Stay, marks,
                  ToolStep, RemoveDatabase, CreateDatabase, FillDatabase, OpenText, WriteText
    <2>2. CASE PageStep(p)
      BY <2>2 DEF PageStep, Look, OpenHeader, WriteHeader, ReadPage, OpenPage, WritePage, Stay, marks
    <2>3. CASE OffStep(p) \/ FailStep(p)
      BY <2>3 DEF OffStep, Finalize, Pick, Ask, Update, Begin, marks, FailStep, Raise, Kill
    <2> QED BY <2>1, <2>2, <2>3, StepsAre
  <1>4. clashed' \in BOOLEAN /\ (clashed => clashed')
    <2>1. CASE clashed' = clashed
      BY <1>1, <2>1, Zenon
    <2>2. CASE ComeToPages(p)
      BY <1>1, <2>2, Zenon DEF ComeToPages
    <2>3. CASE clashed' = (clashed \/ doing[p] = "write")
      BY <1>1, <2>3, Zenon
    <2> QED BY <1>2, <2>1, <2>2, <2>3
  <1>5. overlaid' \in BOOLEAN /\ (overlaid => overlaid')
    <2>1. CASE overlaid' = overlaid
      BY <1>1, <2>1, Zenon
    <2>2. CASE OpenIt(p)
      BY <1>1, <2>2, Zenon DEF OpenIt
    <2> QED BY <1>3, <2>1, <2>2
  <1>6. spoilt' = spoilt \/ (spoilt' = spoilt \cup {dir[p]} /\ dir[p] \in RunIds)
    <2>1. CASE BuildStep(p) \/ ToolStep(p)
      BY <2>1 DEF BuildStep, MakeDir, Copy, WriteMetadata, RunEngine, Stay, marks,
                  ToolStep, RemoveDatabase, CreateDatabase, FillDatabase, OpenText, WriteText
    <2>2. CASE PageStep(p)
      BY <2>2 DEF PageStep, Look, OpenHeader, WriteHeader, ReadPage, OpenPage, WritePage, OpenIt, Stay, marks
    <2>3. CASE Finalize(p) \/ Pick(p) \/ Ask(p)
      BY <2>3 DEF Finalize, Pick, Ask, Begin, marks
    <2>4. CASE Update(p) \/ FailStep(p)
      <3>1. spoilt' = spoilt \/ spoilt' = spoilt \cup {dir[p]}
        BY <2>4 DEF Update, FailStep, Raise, Kill, Stops
      <3>2. doing[p] # "idle"
        BY <2>4, StepNames DEF Update, FailStep, Raise, Kill
      <3> QED BY <3>1, <3>2 DEF ResearchInv, Numbered
    <2> QED BY <2>1, <2>2, <2>3, <2>4, StepsAre DEF OffStep
  <1> QED BY <1>4, <1>5, <1>6

-----------------------------------------------------------------------------
(* What is written over an empty page is all it has, and over another, in  *)
(* part.                                                                   *)
LEMMA CoverIs ==
  ASSUME NEW S, NEW new \in Seq(S), NEW old \in Seq(S)
  PROVE  /\ Covering(new, old) \in Seq(S) /\ Covering(new, << >>) = new
         /\ \A r : Has(Covering(new, old), r) => Has(new, r) \/ Has(old, r)
         /\ \A r : Has(new, r) => Has(Covering(new, old), r)
  <1> DEFINE n == Len(new)
             rest == SubSeq(old, n + 1, Len(old))
  <1>1. n \in Nat /\ Len(old) \in Nat /\ Covering(new, old) = new \o rest
    BY DEF Covering
  <1>2. \A i \in n+1..Len(old) : old[i] \in S /\ i \in 1..Len(old)
    BY <1>1
  <1>3. /\ rest \in Seq(S) /\ Len(rest) = IF n + 1 <= Len(old) THEN Len(old) - (n + 1) + 1 ELSE 0
        /\ \A i \in 1..Len(old) - (n + 1) + 1 : rest[i] = old[n + 1 + i - 1]
    BY <1>1, <1>2, SubSeqProperties
  <1>4. Covering(new, << >>) = new
    <2>1. SubSeq(<< >>, n + 1, Len(<< >>)) = << >>
      BY <1>1, SubSeqEmpty
    <2> QED BY <2>1, ConcatEmptySeq DEF Covering
  <1> HIDE DEF n, rest
  <1>5. /\ new \o rest \in Seq(S) /\ Len(new \o rest) = Len(new) + Len(rest)
        /\ \A i \in 1..Len(new) + Len(rest) :
             (new \o rest)[i] = IF i <= Len(new) THEN new[i] ELSE rest[i - Len(new)]
    BY <1>3, ConcatProperties
  <1>6. n = Len(new) /\ Len(rest) \in Nat
    BY <1>3 DEF n
  <1>7. ASSUME NEW r, Has(new \o rest, r) PROVE Has(new, r) \/ Has(old, r)
    <2>1. PICK k \in 1..Len(new) + Len(rest) : (new \o rest)[k] = r
      BY <1>5, <1>7 DEF Has
    <2>2. CASE k <= Len(new)
      BY <1>5, <1>6, <2>1, <2>2 DEF Has
    <2>3. CASE ~ (k <= Len(new))
      <3>1. k - n \in 1..Len(rest) /\ rest[k - n] = r
        BY <1>1, <1>5, <1>6, <2>1, <2>3
      <3>2. k - n \in 1..Len(old) - (n + 1) + 1 /\ n + 1 + (k - n) - 1 = k /\ k \in 1..Len(old)
        BY <1>1, <1>3, <1>6, <3>1
      <3>3. old[k] = r
        BY <1>3, <3>1, <3>2
      <3> QED BY <3>2, <3>3 DEF Has
    <2> QED BY <2>2, <2>3
  <1>8. ASSUME NEW r, Has(new, r) PROVE Has(new \o rest, r)
    <2>1. PICK k \in 1..Len(new) : new[k] = r
      BY <1>8 DEF Has
    <2>2. k \in 1..Len(new) + Len(rest) /\ (new \o rest)[k] = r
      BY <1>1, <1>5, <1>6, <2>1
    <2> QED BY <1>5, <2>2 DEF Has
  <1> QED BY <1>1, <1>4, <1>5, <1>7, <1>8

(* A row added to lines that have it not, and the header alone.            *)
LEMMA RowAddedOnce ==
  ASSUME NEW lines \in Seq(PageLines), NEW r \in RunIds
  PROVE  /\ Append(lines, r) \in Seq(PageLines) /\ Has(Append(lines, r), r)
         /\ \A x : Has(Append(lines, r), x) => Has(lines, x) \/ x = r
         /\ \A x : Has(lines, x) => Has(Append(lines, r), x)
         /\ ~ Has(lines, r) /\ (\A x \in RunIds : Once(lines, x)) =>
              \A x \in RunIds : Once(Append(lines, r), x)
  <1> DEFINE new == Append(lines, r)
  <1>1. /\ new \in Seq(PageLines) /\ Len(new) = Len(lines) + 1 /\ new[Len(lines) + 1] = r
        /\ \A k \in 1..Len(lines) : new[k] = lines[k]
        /\ Len(lines) \in Nat /\ DOMAIN new = 1..Len(lines) + 1 /\ DOMAIN lines = 1..Len(lines)
    BY DEF PageLines
  <1> HIDE DEF new
  <1>2. \A k \in DOMAIN new : k \in DOMAIN lines \/ k = Len(lines) + 1
    BY <1>1
  <1>3. Len(lines) + 1 \in DOMAIN new /\ DOMAIN lines \subseteq DOMAIN new
    BY <1>1
  <1>4. ASSUME ~ Has(lines, r), NEW x \in RunIds, Once(lines, x) PROVE Once(new, x)
    BY <1>1, <1>2, <1>4 DEF Has, Once
  <1>5. Has(new, r) /\ \A x : (Has(new, x) => Has(lines, x) \/ x = r) /\ (Has(lines, x) => Has(new, x))
    BY <1>1, <1>2, <1>3 DEF Has
  <1> QED BY <1>1, <1>4, <1>5 DEF new

LEMMA HeaderAlone ==
  /\ <<Header>> \in Seq(PageLines) /\ << >> \in Seq(PageLines)
  /\ \A r \in RunIds : ~ Has(<<Header>>, r) /\ Once(<<Header>>, r)
  /\ \A r : ~ Has(<< >>, r) /\ Once(<< >>, r)
  <1>1. Header \in PageLines /\ \A r \in RunIds : r # Header
    BY ResearchAssumption DEF ResearchAssumption, PageLines, RunIds, Header
  <1>2. <<Header>> \in Seq(PageLines) /\ DOMAIN <<Header>> = {1} /\ <<Header>>[1] = Header
    BY <1>1
  <1> QED BY <1>1, <1>2 DEF Has, Once

(* Each step does one thing to the pages and to what has been read.        *)
LEMMA PagesAndTexts ==
  ASSUME ResearchInv, NEW p \in Procs, Proceeds(p)
  PROVE  \/ /\ page' = page /\ (text' = text \/ text' = [text EXCEPT ![p] = << >>])
            /\ doing'[p] \notin {"heading", "open", "write"}
         \/ ReadPage(p)
         \/ /\ OpenIt(p) /\ text' = text /\ dir' = dir /\ pageNo' = pageNo
            /\ \/ doing[p] = "head" /\ doing'[p] = "heading"
               \/ doing[p] = "open" /\ doing'[p] = "write"
         \/ /\ doing[p] \in Writing /\ doing'[p] \notin {"heading", "open", "write"}
            /\ text' = text \/ text' = [text EXCEPT ![p] = << >>]
            /\ \/ doing[p] = "heading" /\ WriteIt(p, <<Header>>)
               \/ doing[p] = "write" /\ WriteIt(p, WithRow(p))
  <1> USE DEF Go
  <1>0. doing \in [Procs -> Steps]
    BY DEF ResearchInv, ResearchTypeOK
  <1>1. CASE BuildStep(p)
    BY <1>0, <1>1 DEF BuildStep, MakeDir, Copy, WriteMetadata, RunEngine, Conclude, Stay, Place
  <1>2. CASE RemoveDatabase(p) \/ CreateDatabase(p) \/ FillDatabase(p)
    BY <1>0, <1>2 DEF RemoveDatabase, CreateDatabase, FillDatabase, Stay, Place
  <1>3. CASE OpenText(p) \/ WriteText(p)
    <2>1. UNCHANGED <<page, text>>
      BY <1>3 DEF OpenText, WriteText, Stay, Place
    <2>2. PICK f \in Texts : Go(p, Put[f]) \/ Go(p, AfterText[f])
      BY <1>3, TextSteps
    <2>3. f \in {"metrics", "judge", "report"}
      BY StepNames
    <2>4. Put[f] \notin {"heading", "open", "write"} /\ AfterText[f] \notin {"heading", "open", "write"}
      BY <2>3, StepNames
    <2> QED BY <1>0, <2>1, <2>2, <2>4
  <1>4. CASE OffStep(p)
    BY <1>0, <1>4 DEF OffStep, Finalize, Pick, Ask, Update, Begin, Conclude, Place, disk
  <1>5. CASE FailStep(p)
    BY <1>0, <1>5 DEF FailStep, Raise, Kill, Conclude, Place, disk
  <1>6. CASE Look(p)
    BY <1>0, <1>6 DEF Look, Stay, Place, disk
  <1>7. CASE OpenHeader(p) \/ OpenPage(p)
    BY <1>0, <1>7 DEF OpenHeader, OpenPage, OpenIt, Place
  <1>8. CASE WriteHeader(p)
    BY <1>0, <1>8 DEF WriteHeader, Writing, Stay, Place
  <1>9. CASE WritePage(p)
    BY <1>0, <1>9 DEF WritePage, TurnPage, Conclude, Writing
  <1> QED BY <1>1, <1>2, <1>3, <1>4, <1>5, <1>6, <1>7, <1>8, <1>9, StepsAre DEF ToolStep, PageStep

(* The lines of a page that is read, and of the one that is written.       *)
LEMMA RowsStayOnce ==
  ASSUME ResearchInv, NEW p \in Procs, Proceeds(p)
  PROVE  /\ text' \in [Procs -> Seq(PageLines)]
         /\ page' \in [1..Len(Pages) -> [there : BOOLEAN, lines : Seq(PageLines)]]
         /\ NoRowTwice' /\ WrittenByOne'
  <1>0. /\ page \in [1..2 -> [there : BOOLEAN, lines : Seq(PageLines)]] /\ Len(Pages) = 2
        /\ text \in [Procs -> Seq(PageLines)] /\ pageNo \in [Procs -> 1..2]
        /\ doing \in [Procs -> Steps] /\ (doing[p] # "idle" => dir[p] \in RunIds)
        /\ \A i \in 1..2 : page[i].lines \in Seq(PageLines)
    BY StepNames DEF ResearchInv, ResearchTypeOK, Numbered
  <1>1. ASSUME ~ overlaid'
        PROVE  /\ \A i \in 1..2, r \in RunIds : Once(page[i].lines, r)
               /\ \A q \in Procs, r \in RunIds : Once(text[q], r)
               /\ \A q \in Procs : doing[q] \in {"open", "write"} => ~ Has(text[q], dir[q])
               /\ \A q, t \in Procs :
                    q # t /\ doing[q] \in Writing /\ doing[t] \in Writing => pageNo[q] # pageNo[t]
               /\ \A q \in Procs : doing[q] \in Writing => page[pageNo[q]].lines = << >>
    BY <1>0, <1>1, MarksStay DEF ResearchInv, NoRowTwice, WrittenByOne
  <1>2. \A q \in Procs \ {p} : doing'[q] = doing[q] /\ dir'[q] = dir[q] /\ text'[q] = text[q]
                               /\ pageNo'[q] = pageNo[q]
    BY OthersStay DEF ResearchInv
  <1>3. << >> \in Seq(PageLines) /\ \A r : ~ Has(<< >>, r) /\ Once(<< >>, r)
    BY HeaderAlone
  (* The goal, in terms of the process that moves.                         *)
  <1>4. ASSUME ~ overlaid' =>
                 /\ \A i \in 1..2, r \in RunIds : Once(page'[i].lines, r)
                 /\ \A r \in RunIds : Once(text'[p], r)
                 /\ doing'[p] \in {"open", "write"} => ~ Has(text'[p], dir'[p])
        PROVE  NoRowTwice'
    BY <1>0, <1>1, <1>2, <1>4 DEF NoRowTwice
  <1>5. ASSUME ~ overlaid' =>
                 /\ doing'[p] \in Writing =>
                      /\ \A q \in Procs \ {p} : doing[q] \in Writing => pageNo[q] # pageNo'[p]
                      /\ page'[pageNo'[p]].lines = << >>
                 /\ \A q \in Procs \ {p} : doing[q] \in Writing => page'[pageNo[q]].lines = << >>
        PROVE  WrittenByOne'
    BY <1>1, <1>2, <1>5 DEF WrittenByOne
  <1>6. CASE /\ page' = page /\ (text' = text \/ text' = [text EXCEPT ![p] = << >>])
             /\ doing'[p] \notin {"heading", "open", "write"}
    <2>1. text' \in [Procs -> Seq(PageLines)] /\ text'[p] \in {text[p], << >>}
      BY <1>0, <1>3, <1>6
    <2>2. NoRowTwice'
      BY <1>1, <1>3, <1>4, <1>6, <2>1
    <2>3. WrittenByOne'
      BY <1>1, <1>5, <1>6 DEF Writing
    <2> QED BY <1>0, <1>6, <2>1, <2>2, <2>3
  <1>7. CASE ReadPage(p)
    <2> DEFINE lines == page[pageNo[p]].lines
    <2>1. page' = page /\ pageNo[p] \in 1..2 /\ lines \in Seq(PageLines) /\ doing'[p] \notin Writing
      BY <1>0, <1>7 DEF ReadPage, TurnPage, Conclude, Go, Writing, disk
    <2>2. CASE Has(lines, dir[p])
      <3>1. text' = [text EXCEPT ![p] = << >>] /\ doing'[p] \notin {"open", "write"}
        BY <1>0, <1>7, <2>2 DEF ReadPage, TurnPage, Conclude, Go
      <3>2. text' \in [Procs -> Seq(PageLines)] /\ text'[p] = << >>
        BY <1>0, <1>3, <3>1
      <3>3. NoRowTwice' /\ WrittenByOne'
        BY <1>1, <1>3, <1>4, <1>5, <2>1, <3>1, <3>2
      <3> QED BY <1>0, <2>1, <3>2, <3>3
    <2>3. CASE ~ Has(lines, dir[p])
      <3>1. text' = [text EXCEPT ![p] = lines] /\ dir' = dir
        BY <1>7, <2>3 DEF ReadPage
      <3>2. ASSUME ~ overlaid' PROVE \A r \in RunIds : Once(lines, r)
        BY <1>1, <2>1, <3>2
      <3> HIDE DEF lines
      <3>3. text'[p] = lines /\ text' \in [Procs -> Seq(PageLines)]
        BY <1>0, <2>1, <3>1
      <3>4. NoRowTwice'
        BY <1>1, <1>4, <2>1, <2>3, <3>1, <3>2, <3>3
      <3>5. WrittenByOne'
        BY <1>1, <1>5, <2>1
      <3> QED BY <1>0, <2>1, <3>3, <3>4, <3>5
    <2> QED BY <2>2, <2>3
  <1>8. CASE /\ OpenIt(p) /\ text' = text /\ dir' = dir /\ pageNo' = pageNo
             /\ \/ doing[p] = "head" /\ doing'[p] = "heading"
                \/ doing[p] = "open" /\ doing'[p] = "write"
    <2> DEFINE empty == [there |-> TRUE, lines |-> << >>]
    <2>1. page' = [page EXCEPT ![pageNo[p]] = empty] /\ empty \in [there : BOOLEAN, lines : Seq(PageLines)]
          /\ empty.lines = << >>
      BY <1>3, <1>8 DEF OpenIt
    <2>2. ASSUME ~ overlaid'
          PROVE  \A q \in Procs \ {p} : doing[q] \in Writing => pageNo[q] # pageNo[p]
      BY <1>8, <2>2, Zenon DEF OpenIt, Writing
    <2> HIDE DEF empty
    <2>3. /\ page' \in [1..2 -> [there : BOOLEAN, lines : Seq(PageLines)]]
          /\ \A i \in 1..2 : page'[i] = IF i = pageNo[p] THEN empty ELSE page[i]
      BY <1>0, <2>1
    <2>4. NoRowTwice'
      BY <1>0, <1>1, <1>3, <1>4, <1>8, <2>1, <2>3
    <2>5. WrittenByOne'
      BY <1>0, <1>1, <1>5, <1>8, <2>1, <2>2, <2>3 DEF Writing
    <2> QED BY <1>0, <1>8, <2>3, <2>4, <2>5
  <1>9. CASE /\ doing[p] \in Writing /\ doing'[p] \notin {"heading", "open", "write"}
             /\ text' = text \/ text' = [text EXCEPT ![p] = << >>]
             /\ \/ doing[p] = "heading" /\ WriteIt(p, <<Header>>)
                \/ doing[p] = "write" /\ WriteIt(p, WithRow(p))
    <2>1. text' \in [Procs -> Seq(PageLines)] /\ text'[p] \in {text[p], << >>}
      BY <1>0, <1>3, <1>9
    <2>2. PICK new \in Seq(PageLines) :
            /\ WriteIt(p, new)
            /\ ~ overlaid' => \A r \in RunIds : Once(new, r)
      <3>1. CASE doing[p] = "heading" /\ WriteIt(p, <<Header>>)
        BY <3>1, HeaderAlone
      <3>2. CASE doing[p] = "write" /\ WriteIt(p, WithRow(p))
        <4>1. dir[p] \in RunIds /\ text[p] \in Seq(PageLines)
          BY <1>0, <3>2
        <4>2. /\ WithRow(p) \in Seq(PageLines)
              /\ ~ Has(text[p], dir[p]) /\ (\A x \in RunIds : Once(text[p], x)) =>
                   \A x \in RunIds : Once(WithRow(p), x)
          BY <4>1, RowAddedOnce DEF WithRow
        <4> QED BY <1>1, <3>2, <4>2
      <3> QED BY <1>9, <3>1, <3>2
    <2> DEFINE lines == Covering(new, page[pageNo[p]].lines)
    <2>3. lines \in Seq(PageLines) /\ (page[pageNo[p]].lines = << >> => lines = new)
      BY <1>0, CoverIs
    <2>4. page' = [page EXCEPT ![pageNo[p]].lines = lines]
      BY <2>2 DEF WriteIt
    <2> HIDE DEF lines
    <2>5. /\ page' \in [1..2 -> [there : BOOLEAN, lines : Seq(PageLines)]]
          /\ \A i \in 1..2 : page'[i].lines = IF i = pageNo[p] THEN lines ELSE page[i].lines
      BY <1>0, <2>3, <2>4
    <2>6. ASSUME ~ overlaid'
          PROVE  /\ \A r \in RunIds : Once(lines, r)
                 /\ \A q \in Procs \ {p} : doing[q] \in Writing => pageNo[q] # pageNo[p]
      BY <1>1, <1>9, <2>2, <2>3, <2>6
    <2>7. NoRowTwice'
      BY <1>0, <1>1, <1>3, <1>4, <1>9, <2>1, <2>5, <2>6
    <2>8. WrittenByOne'
      BY <1>0, <1>1, <1>5, <1>9, <2>5, <2>6 DEF Writing
    <2> QED BY <1>0, <2>1, <2>5, <2>7, <2>8
  <1> QED BY <1>6, <1>7, <1>8, <1>9, PagesAndTexts

-----------------------------------------------------------------------------
(* The files of the runs. *)

(* A run directory is built by the process that has made it.               *)
LEMMA DirectoriesStayOwn ==
  ASSUME ResearchInv, NEW p \in Procs, Proceeds(p)
  PROVE  OwnDirectory'
  <1>0. doing \in [Procs -> Steps] /\ \A q \in Procs : doing[q] \in Building => dir[q] \in made
    BY DEF ResearchInv, ResearchTypeOK
  <1>1. doing'[p] \in Building =>
          dir'[p] = dir[p] /\ (doing[p] \in Building \/ dir[p] \notin made)
    <2>1. CASE BuildStep(p)
      BY <1>0, <2>1 DEF BuildStep, MakeDir, Copy, WriteMetadata, RunEngine, Go, Conclude,
                        Stay, Place, Building
    <2>2. CASE RemoveDatabase(p) \/ CreateDatabase(p) \/ FillDatabase(p)
      BY <1>0, <2>2 DEF RemoveDatabase, CreateDatabase, FillDatabase, Go, Building
    <2>3. CASE OpenText(p) \/ WriteText(p)
      <3>1. PICK f \in Texts : Go(p, Put[f]) \/ Go(p, AfterText[f])
        BY <2>3, TextSteps
      <3>2. Put[f] \notin Building /\ AfterText[f] \notin Building
        BY StepNames DEF Building
      <3> QED BY <1>0, <3>1, <3>2 DEF Go
    <2>4. CASE PageStep(p)
      BY <1>0, <2>4 DEF PageStep, Look, OpenHeader, WriteHeader, OpenPage, ReadPage, WritePage,
                        TurnPage, Go, Conclude, Building
    <2>5. CASE OffStep(p) \/ FailStep(p)
      BY <1>0, <2>5 DEF OffStep, Finalize, Pick, Ask, Update, FailStep, Raise, Kill, Go,
                        Conclude, Building
    <2> QED BY <2>1, <2>2, <2>3, <2>4, <2>5, StepsAre DEF ToolStep
  <1>2. \A q \in Procs \ {p} : doing'[q] = doing[q] /\ dir'[q] = dir[q]
    BY OthersStay DEF ResearchInv
  <1> QED BY <1>0, <1>1, <1>2 DEF ResearchInv, OwnDirectory

(* A process changes the files of the run it has in hand, one at a time,   *)
(* and never removes what it is not about to make again.                   *)
LEMMA FilesOf ==
  ASSUME ResearchInv, NEW p \in Procs, Proceeds(p)
  PROVE  /\ made \subseteq made' /\ made' \subseteq RunIds
         /\ \/ files' = files
            \/ /\ \E f \in Files : AddFile(p, f) /\ (f = "metadata" => doing[p] = "metadata")
               /\ doing[p] \in Building \cup Tools
            \/ (\E f \in Made : Without(p, f)) /\ doing[p] \in Tools
         /\ \/ owner' = owner
            \/ /\ \E q \in {p, NoOwner} : owner' = [owner EXCEPT ![dir[p]] = q]
               /\ doing[p] \in Tools
  <1> USE StepNames
  <1>0. /\ made \subseteq RunIds /\ (doing[p] # "idle" => dir[p] \in RunIds)
        /\ {"bundle", "metadata", "logs"} \cup Made \subseteq Files
    BY DEF ResearchInv, ResearchTypeOK, Numbered, Files
  <1>1. CASE BuildStep(p)
    <2>1. CASE MakeDir(p)
      BY <1>0, <2>1 DEF MakeDir
    <2>2. CASE Copy(p)
      BY <1>0, <2>2 DEF Copy, Building
    <2>3. CASE WriteMetadata(p)
      BY <1>0, <2>3 DEF WriteMetadata, Building
    <2>4. CASE RunEngine(p)
      BY <1>0, <2>4 DEF RunEngine, Building, AddFile
    <2> QED BY <1>1, <2>1, <2>2, <2>3, <2>4 DEF BuildStep
  <1>2. CASE RemoveDatabase(p)
    BY <1>0, <1>2 DEF RemoveDatabase
  <1>3. CASE CreateDatabase(p)
    BY <1>0, <1>3 DEF CreateDatabase
  <1>4. CASE FillDatabase(p)
    BY <1>0, <1>4 DEF FillDatabase
  <1>5. CASE OpenText(p) \/ WriteText(p)
    <2>1. UNCHANGED <<made, owner>>
      BY <1>5 DEF OpenText, WriteText
    <2>2. PICK f \in Texts : doing[p] \in {f, Put[f]} /\ (Without(p, f) \/ AddFile(p, f))
      BY <1>5, TextSteps
    <2>3. f \in {"metrics", "judge", "report"}
      OBVIOUS
    <2>4. doing[p] \in Tools /\ f # "metadata" /\ f \in Made /\ f \in Files
      BY <1>0, <2>2, <2>3
    <2> QED BY <1>0, <2>1, <2>2, <2>4
  <1>6. CASE PageStep(p)
    BY <1>0, <1>6 DEF PageStep, Look, OpenHeader, WriteHeader, ReadPage, OpenPage, OpenIt,
                      WritePage, WriteIt, disk
  <1>7. CASE OffStep(p) \/ FailStep(p)
    BY <1>0, <1>7 DEF OffStep, Finalize, Pick, Ask, Update, Begin, FailStep, Raise, Kill, disk
  <1> QED BY <1>1, <1>2, <1>3, <1>4, <1>5, <1>6, <1>7, StepsAre DEF ToolStep

(* So the files of the other runs stay, and some of this one's.            *)
LEMMA FilesStay ==
  ASSUME ResearchInv, NEW p \in Procs, Proceeds(p)
  PROVE  /\ files' \in [RunIds -> SUBSET Files]
         /\ owner' \in [RunIds -> Procs \cup {NoOwner}]
         /\ \A r \in RunIds : r # dir[p] => files'[r] = files[r] /\ owner'[r] = owner[r]
         /\ \A r \in RunIds, f \in {"bundle", "metadata", "logs"} : f \in files[r] => f \in files'[r]
         /\ \A r \in RunIds : files'[r] # {} => r \in made'
         /\ \A r \in RunIds : "metadata" \in files'[r] =>
              "metadata" \in files[r] \/ (r = dir[p] /\ doing[p] = "metadata")
  <1>0. /\ files \in [RunIds -> SUBSET Files] /\ owner \in [RunIds -> Procs \cup {NoOwner}]
        /\ (doing[p] \in Building \cup Tools => dir[p] \in made)
        /\ (doing[p] # "idle" => dir[p] \in RunIds)
        /\ \A r \in RunIds : files[r] # {} => r \in made
    BY DEF ResearchInv, ResearchTypeOK, Numbered, Finalizing
  <1>1. made \subseteq made' /\ "idle" \notin Building \cup Tools
    BY FilesOf, StepNames DEF Building
  <1>2. /\ owner' \in [RunIds -> Procs \cup {NoOwner}]
        /\ \A r \in RunIds : r # dir[p] => owner'[r] = owner[r]
    BY <1>0, FilesOf
  <1>3. CASE files' = files
    BY <1>0, <1>1, <1>2, <1>3
  <1>4. CASE /\ \E f \in Files : AddFile(p, f) /\ (f = "metadata" => doing[p] = "metadata")
             /\ doing[p] \in Building \cup Tools
    <2>1. PICK f \in Files : AddFile(p, f) /\ (f = "metadata" => doing[p] = "metadata")
      BY <1>4
    <2>2. /\ files' \in [RunIds -> SUBSET Files]
          /\ \A r \in RunIds : files'[r] = IF r = dir[p] THEN files[r] \cup {f} ELSE files[r]
      BY <1>0, <2>1 DEF AddFile
    <2> QED BY <1>0, <1>1, <1>2, <1>4, <2>1, <2>2
  <1>5. CASE (\E f \in Made : Without(p, f)) /\ doing[p] \in Tools
    <2>1. PICK f \in Made : Without(p, f)
      BY <1>5
    <2>2. /\ files' \in [RunIds -> SUBSET Files]
          /\ \A r \in RunIds : files'[r] = IF r = dir[p] THEN files[r] \ {f} ELSE files[r]
      BY <1>0, <2>1 DEF Without
    <2>3. f \notin {"bundle", "metadata", "logs"}
      BY StepNames
    <2> QED BY <1>0, <1>1, <1>2, <2>2, <2>3
  <1> QED BY <1>3, <1>4, <1>5, FilesOf

(* What brings a run to the pages.                                         *)
LEMMA ReportedBefore ==
  ASSUME ResearchInv, NEW p \in Procs, Proceeds(p), NEW r \in RunIds, Reported(r)'
  PROVE  \/ Reported(r)
         \/ /\ r = dir[p] /\ doing[p] = "update" /\ "metadata" \in files[r]
            /\ (files[r] = Files \/ r \in spoilt')
         \/ r = dir[p] /\ doing[p] = "put_report"
  <1> USE DEF Reported
  <1>0. /\ page \in [1..2 -> [there : BOOLEAN, lines : Seq(PageLines)]] /\ Len(Pages) = 2
        /\ text \in [Procs -> Seq(PageLines)] /\ pageNo \in [Procs -> 1..2]
        /\ doing \in [Procs -> Steps] /\ (doing[p] # "idle" => dir[p] \in RunIds)
        /\ \A i \in 1..2 : page[i].lines \in Seq(PageLines)
    BY StepNames DEF ResearchInv, ResearchTypeOK, Numbered
  <1>1. \A q \in Procs \ {p} : doing'[q] = doing[q] /\ dir'[q] = dir[q] /\ text'[q] = text[q]
    BY OthersStay DEF ResearchInv
  <1>2. ~ Has(<< >>, r)
    BY HeaderAlone
  <1>3. doing[p] \in AtPages => doing[p] # "idle"
    BY DEF AtPages
  (* The lines of a page are from a page or a text, or are the row.        *)
  <1>4. ASSUME NEW i \in 1..2, Has(page'[i].lines, r) PROVE Reported(r)
    <2>1. CASE page' = page
      BY <1>0, <1>4, <2>1
    <2>2. CASE OpenIt(p)
      <3>1. page' = [page EXCEPT ![pageNo[p]] = [there |-> TRUE, lines |-> << >>]]
        BY <2>2 DEF OpenIt
      <3>2. page'[i].lines \in {page[i].lines, << >>}
        BY <1>0, <3>1
      <3> QED BY <1>0, <1>2, <1>4, <3>2
    <2>3. CASE \/ doing[p] = "heading" /\ WriteIt(p, <<Header>>)
               \/ doing[p] = "write" /\ WriteIt(p, WithRow(p))
      <3>1. PICK new \in Seq(PageLines) :
              WriteIt(p, new) /\ (Has(new, r) => Has(text[p], r) \/ (r = dir[p] /\ doing[p] \in AtPages))
        <4>1. CASE doing[p] = "heading" /\ WriteIt(p, <<Header>>)
          BY <4>1, HeaderAlone
        <4>2. CASE doing[p] = "write" /\ WriteIt(p, WithRow(p))
          <5>1. dir[p] \in RunIds /\ text[p] \in Seq(PageLines) /\ doing[p] \in AtPages
            BY <1>0, <4>2 DEF AtPages
          <5>2. WithRow(p) \in Seq(PageLines) /\ (Has(WithRow(p), r) => Has(text[p], r) \/ r = dir[p])
            BY <5>1, RowAddedOnce DEF WithRow
          <5> QED BY <4>2, <5>1, <5>2
        <4> QED BY <2>3, <4>1, <4>2
      <3> DEFINE lines == Covering(new, page[pageNo[p]].lines)
      <3>2. Has(lines, r) => Has(new, r) \/ Has(page[pageNo[p]].lines, r)
        BY <1>0, CoverIs
      <3>3. page' = [page EXCEPT ![pageNo[p]].lines = lines]
        BY <3>1 DEF WriteIt
      <3> HIDE DEF lines
      <3>4. page'[i].lines = IF i = pageNo[p] THEN lines ELSE page[i].lines
        BY <1>0, <3>3
      <3> QED BY <1>0, <1>4, <3>1, <3>2, <3>4
    <2>4. CASE ReadPage(p)
      <3>1. page' = page
        BY <2>4 DEF ReadPage, disk
      <3> QED BY <1>0, <1>4, <3>1
    <2>5. \/ page' = page \/ OpenIt(p) \/ ReadPage(p)
          \/ doing[p] = "heading" /\ WriteIt(p, <<Header>>)
          \/ doing[p] = "write" /\ WriteIt(p, WithRow(p))
      BY PagesAndTexts
    <2> QED BY <2>1, <2>2, <2>3, <2>4, <2>5
  <1>5. ASSUME Has(text'[p], r) PROVE Reported(r)
    <2>1. CASE text' = text \/ text' = [text EXCEPT ![p] = << >>]
      BY <1>0, <1>2, <1>5, <2>1
    <2>2. CASE ReadPage(p)
      <3>1. \/ text' = [text EXCEPT ![p] = << >>]
            \/ text' = [text EXCEPT ![p] = page[pageNo[p]].lines]
        BY <2>2 DEF ReadPage, TurnPage, Conclude
      <3> QED BY <1>0, <1>2, <1>5, <3>1
    <2> QED BY <2>1, <2>2, PagesAndTexts
  <1>6. ASSUME dir'[p] = r, doing'[p] \in AtPages, ~ (dir[p] = r /\ doing[p] \in AtPages)
        PROVE  \/ /\ r = dir[p] /\ doing[p] = "update" /\ "metadata" \in files[r]
                  /\ (files[r] = Files \/ r \in spoilt')
               \/ r = dir[p] /\ doing[p] = "put_report"
    <2>1. dir'[p] = dir[p] /\ dir[p] = r /\ doing[p] \notin AtPages
      BY <1>6, InHand DEF AtPages, NoRun, RunIds
    <2> USE DEF AtPages, Go, Conclude
    <2>2. CASE BuildStep(p)
      BY <1>0, <1>6, <2>2 DEF BuildStep, MakeDir, Copy, WriteMetadata, RunEngine
    <2>3. CASE RemoveDatabase(p) \/ CreateDatabase(p) \/ FillDatabase(p)
      BY <1>0, <1>6, <2>3 DEF RemoveDatabase, CreateDatabase, FillDatabase
    <2>4. CASE OpenText(p) \/ WriteText(p)
      <3>1. PICK f \in Texts : Go(p, Put[f]) \/ (doing[p] = Put[f] /\ Go(p, AfterText[f]))
        BY <2>4, TextSteps
      <3>2. f \in {"metrics", "judge", "report"}
        BY StepNames
      <3> QED BY <1>0, <1>6, <2>1, <3>1, <3>2, StepNames
    <2>5. CASE PageStep(p)
      BY <2>1, <2>5 DEF PageStep, Look, OpenHeader, WriteHeader, OpenPage, ReadPage, WritePage
    <2>6. CASE Finalize(p) \/ Pick(p) \/ Ask(p) \/ FailStep(p)
      BY <1>0, <1>6, <2>6 DEF Finalize, Pick, Ask, FailStep, Raise, Kill
    <2>7. CASE Update(p)
      <3>1. "metadata" \in files[dir[p]] /\ doing[p] = "update"
        BY <1>0, <1>6, <2>7 DEF Update
      <3>2. spoilt' = IF files[dir[p]] = Files THEN spoilt ELSE spoilt \cup {dir[p]}
        BY <2>7, <3>1 DEF Update
      <3> QED BY <2>1, <3>1, <3>2
    <2> QED BY <2>2, <2>3, <2>4, <2>5, <2>6, <2>7, StepsAre DEF ToolStep, OffStep
  <1>7. PICK q \in Procs : \/ \E i \in 1..2 : Has(page'[i].lines, r)
                           \/ Has(text'[q], r) \/ (dir'[q] = r /\ doing'[q] \in AtPages)
    BY <1>0
  <1> QED BY <1>1, <1>4, <1>5, <1>6, <1>7

(* What is on the disk stays there, or is made again.                      *)
LEMMA FiledKept ==
  ASSUME ResearchInv, NEW p \in Procs, Proceeds(p)
  PROVE  Filed'
  <1> USE StepNames
  <1>0. /\ doing \in [Procs -> Steps] /\ made \subseteq made' /\ spoilt \subseteq spoilt'
        /\ (doing[p] # "idle" => dir[p] \in RunIds)
        /\ files \in [RunIds -> SUBSET Files]
    BY FilesOf, MarksStay DEF ResearchInv, ResearchTypeOK, Numbered
  <1>1. \A q \in Procs \ {p} : doing'[q] = doing[q] /\ dir'[q] = dir[q]
    BY OthersStay DEF ResearchInv
  <1>2. /\ \A r \in RunIds : "metadata" \in files[r] => "bundle" \in files[r]
        /\ \A q \in Procs :
             /\ doing[q] \in {"metadata", "engine"} => "bundle" \in files[dir[q]]
             /\ doing[q] \in Tools => {"bundle", "metadata", "logs"} \subseteq files[dir[q]]
        /\ \A r \in RunIds : Reported(r) =>
             /\ r \in made /\ {"bundle", "metadata"} \subseteq files[r]
             /\ r \in spoilt \/ "logs" \in files[r]
    BY DEF ResearchInv, Filed
  <1>3. \A q \in Procs : doing[q] \in {"metadata", "engine"} \cup Tools => dir[q] \in RunIds
    BY DEF ResearchInv, Numbered
  <1>4. \A r \in RunIds : "metadata" \in files'[r] => "bundle" \in files'[r]
    <2> TAKE r \in RunIds
    <2>1. "metadata" \in files[r] \/ (r = dir[p] /\ doing[p] = "metadata") => "bundle" \in files[r]
      BY <1>2
    <2> QED BY <2>1, FilesStay
  (* Where the process that moves comes to.                                *)
  <1>5. /\ doing'[p] \in {"metadata", "engine"} =>
             dir'[p] = dir[p] /\ dir[p] \in RunIds /\ "bundle" \in files'[dir[p]]
        /\ doing'[p] \in Tools =>
             dir'[p] = dir[p] /\ dir[p] \in RunIds /\ {"bundle", "metadata", "logs"} \subseteq files[dir[p]]
    <2>0. doing'[p] \in {"metadata", "engine"} \cup Tools => dir'[p] = dir[p] /\ dir[p] \in RunIds
      BY InHand
    <2> USE DEF Go, Conclude
    <2>1. CASE MakeDir(p) \/ RunEngine(p)
      BY <1>0, <2>1 DEF MakeDir, RunEngine
    <2>2. CASE Copy(p)
      <3>1. doing'[p] \notin {"engine"} \cup Tools /\ (doing'[p] = "metadata" => AddFile(p, "bundle"))
        BY <1>0, <2>2 DEF Copy
      <3> QED BY <1>0, <2>0, <3>1 DEF AddFile
    <2>3. CASE WriteMetadata(p)
      <3>1. doing'[p] \notin {"metadata"} \cup Tools /\ doing[p] = "metadata"
        BY <1>0, <2>3 DEF WriteMetadata
      <3>2. "bundle" \in files[dir[p]]
        BY <1>2, <3>1
      <3> QED BY <2>0, <3>1, <3>2, FilesStay
    <2>4. CASE ToolStep(p)
      <3>1. doing[p] \in Tools
        BY <2>4 DEF ToolStep, RemoveDatabase, CreateDatabase, FillDatabase, OpenText, WriteText
      <3>2. doing'[p] \notin {"metadata", "engine"}
        <4>1. CASE RemoveDatabase(p) \/ CreateDatabase(p) \/ FillDatabase(p)
          BY <1>0, <4>1 DEF RemoveDatabase, CreateDatabase, FillDatabase
        <4>2. CASE OpenText(p) \/ WriteText(p)
          <5>1. PICK f \in Texts : Go(p, Put[f]) \/ Go(p, AfterText[f])
            BY <4>2, TextSteps
          <5>2. f \in {"metrics", "judge", "report"}
            OBVIOUS
          <5> QED BY <1>0, <5>1, <5>2
        <4> QED BY <2>4, <4>1, <4>2 DEF ToolStep
      <3> QED BY <1>2, <2>0, <3>1, <3>2
    <2>5. CASE PageStep(p)
      BY <1>0, <2>5 DEF PageStep, Look, OpenHeader, WriteHeader, OpenPage, ReadPage, WritePage, TurnPage
    <2>6. CASE Finalize(p)
      <3>1. doing'[p] \notin {"metadata", "engine"}
            /\ (doing'[p] \in Tools => {"metadata", "logs"} \subseteq files[dir[p]])
        BY <1>0, <2>6 DEF Finalize
      <3> QED BY <1>2, <2>0, <3>1
    <2>7. CASE Pick(p) \/ Ask(p) \/ Update(p) \/ FailStep(p)
      BY <1>0, <2>7 DEF Pick, Ask, Update, FailStep, Raise, Kill
    <2> QED BY <2>1, <2>2, <2>3, <2>4, <2>5, <2>6, <2>7, StepsAre DEF BuildStep, OffStep
  <1>6. \A q \in Procs :
          /\ doing'[q] \in {"metadata", "engine"} => "bundle" \in files'[dir'[q]]
          /\ doing'[q] \in Tools => {"bundle", "metadata", "logs"} \subseteq files'[dir'[q]]
    <2> TAKE q \in Procs
    <2>1. CASE q = p
      BY <1>5, <2>1, FilesStay
    <2>2. CASE q # p
      BY <1>1, <1>2, <1>3, <2>2, FilesStay
    <2> QED BY <2>1, <2>2
  <1>7. ASSUME NEW r \in RunIds, Reported(r)'
        PROVE  /\ r \in made' /\ {"bundle", "metadata"} \subseteq files'[r]
               /\ r \in spoilt' \/ "logs" \in files'[r]
    <2>1. CASE Reported(r)
      BY <1>0, <1>2, <2>1, FilesStay
    <2>2. CASE r = dir[p] /\ doing[p] = "put_report"
      <3>1. {"bundle", "metadata", "logs"} \subseteq files[r]
        BY <1>2, <2>2
      <3>2. {"bundle", "metadata", "logs"} \subseteq files'[r]
        BY <3>1, FilesStay
      <3>3. files'[r] # {}
        BY <3>2
      <3> QED BY <3>2, <3>3, FilesStay
    <2>3. CASE "metadata" \in files[r] /\ (files[r] = Files \/ r \in spoilt')
      <3>1. {"bundle", "metadata"} \subseteq files[r] /\ (r \in spoilt' \/ "logs" \in files[r])
        BY <1>2, <2>3 DEF Files
      <3>2. {"bundle", "metadata"} \subseteq files'[r] /\ (r \in spoilt' \/ "logs" \in files'[r])
        BY <3>1, FilesStay
      <3>3. files'[r] # {}
        BY <3>2
      <3> QED BY <3>2, <3>3, FilesStay
    <2> QED BY <1>7, <2>1, <2>2, <2>3, ReportedBefore
  <1> QED BY <1>4, <1>6, <1>7 DEF Filed

-----------------------------------------------------------------------------
(* The steps of finalize by which each file is made.                       *)
LEMMA PastIs ==
  /\ Past("derived") = {"create", "fill", "metrics", "judge", "report",
                        "put_metrics", "put_judge", "put_report"} \cup AtPages
  /\ Past("metrics") = {"put_metrics", "judge", "put_judge", "report", "put_report"} \cup AtPages
  /\ Past("judge") = {"put_judge", "report", "put_report"} \cup AtPages
  /\ Past("report") = {"put_report"} \cup AtPages
  BY StepNames DEF Past, Finalizing, AtPages

(* A file stays in place that the step is not about.                       *)
LEMMA StaysInPlace ==
  ASSUME ResearchInv, NEW p \in Procs, Proceeds(p), NEW r \in RunIds, NEW f \in Made,
         InPlace(r, f), f \in files[r] => f \in files'[r],
         f # "derived" \/ owner'[r] = owner[r], dir[p] = r => ~ Remakes(p, f)
  PROVE  InPlace(r, f)'
  <1>1. CASE f \in files[r]
    BY <1>1 DEF InPlace
  <1>2. CASE f \notin files[r]
    <2>1. PICK q \in Procs : dir[q] = r /\ Remakes(q, f)
      BY <1>2 DEF InPlace
    <2>2. q # p
      BY <2>1
    <2>3. doing'[q] = doing[q] /\ dir'[q] = dir[q]
      BY <2>2, OthersStay DEF ResearchInv
    <2>4. dir'[q] = r /\ Remakes(q, f)'
      BY <2>1, <2>3, StepNames DEF Remakes
    <2> QED BY <2>4 DEF InPlace
  <1> QED BY <1>1, <1>2

(* A file that the step makes, or removes to make it again, is in place.   *)
LEMMA MadeInPlace ==
  ASSUME NEW p \in Procs, NEW r \in RunIds, NEW f \in Made,
         f \in files'[r] \/ (dir'[p] = r /\ Remakes(p, f)')
  PROVE  InPlace(r, f)'
  BY DEF InPlace

(* A process that comes past a file has removed or made it just now.       *)
LEMMA PastBefore ==
  ASSUME ResearchInv, NEW p \in Procs, Proceeds(p), NEW r \in RunIds, NEW f,
         (Reported(r) \/ IsPast(r, f))', ~ Reported(r), ~ IsPast(r, f)
  PROVE  /\ dir[p] = r
         /\ doing[p] \notin Past(f) /\ doing[p] \notin AtPages
         /\ \/ doing'[p] \in Past(f) \/ doing[p] = "put_report"
            \/ doing[p] = "update" /\ (files[r] = Files \/ r \in spoilt')
  <1>1. \A q \in Procs \ {p} : doing'[q] = doing[q] /\ dir'[q] = dir[q]
    BY OthersStay DEF ResearchInv
  <1>2. ASSUME Reported(r)'
        PROVE  /\ dir[p] = r
               /\ \/ doing[p] = "put_report"
                  \/ doing[p] = "update" /\ (files[r] = Files \/ r \in spoilt')
    BY <1>2, ReportedBefore
  <1>3. ASSUME IsPast(r, f)' PROVE dir[p] = r /\ dir'[p] = r /\ doing'[p] \in Past(f)
    <2>1. PICK q \in Procs : dir'[q] = r /\ doing'[q] \in Past(f)
      BY <1>3 DEF IsPast
    <2>2. q = p
      BY <1>1, <2>1 DEF IsPast
    <2>3. doing'[p] \notin {"idle", "mkdir", "finalize", "update"}
      BY <2>1, <2>2, StepNames DEF Past, Finalizing, AtPages
    <2> QED BY <2>1, <2>2, <2>3, InHand
  <1>4. dir[p] = r
    BY <1>2, <1>3
  <1>5. doing[p] \notin Past(f) /\ doing[p] \notin AtPages
    BY <1>4 DEF IsPast, Reported
  <1> QED BY <1>2, <1>3, <1>4, <1>5

(* What finalize makes is in place again after each of its steps.          *)
LEMMA ToolsKeep ==
  ASSUME ResearchInv, NEW p \in Procs, ToolStep(p), NEW r \in RunIds \ spoilt', NEW f \in Made,
         (Reported(r) \/ IsPast(r, f))'
  PROVE  InPlace(r, f)'
  <1> USE StepNames, PastIs
  <1>0. /\ Proceeds(p) /\ doing \in [Procs -> Steps] /\ files \in [RunIds -> SUBSET Files]
        /\ owner \in [RunIds -> Procs \cup {NoOwner}]
        /\ (doing[p] # "idle" => dir[p] \in RunIds) /\ NoOwner \notin Procs
    BY StepsAre, ResearchAssumption
    DEF ResearchInv, ResearchTypeOK, Numbered, ResearchAssumption, Proceeds
  <1>1. Reported(r) \/ IsPast(r, f) => InPlace(r, f)
    <2>1. r \notin spoilt
      BY <1>0, MarksStay
    <2> QED BY <2>1 DEF ResearchInv, FilesInPlace
  <1>2. f \in {"derived", "metrics", "judge", "report"}
    OBVIOUS
  (* A run that the process has not in hand.                               *)
  <1>3. CASE dir[p] # r
    <2>1. Reported(r) \/ IsPast(r, f)
      BY <1>0, <1>3, PastBefore
    <2>2. files'[r] = files[r] /\ owner'[r] = owner[r]
      BY <1>0, <1>3, FilesStay
    <2> QED BY <1>0, <1>1, <1>3, <2>1, <2>2, StaysInPlace
  <1>4. CASE dir[p] = r /\ RemoveDatabase(p)
    <2>1. /\ doing[p] = "remove" /\ doing'[p] = "create" /\ dir'[p] = r
          /\ files'[r] = files[r] \ {"derived"} /\ owner'[r] = NoOwner
      BY <1>0, <1>4 DEF RemoveDatabase, Go, Without, Stay, Place
    <2>2. CASE f = "derived"
      BY <2>1, <2>2, MadeInPlace DEF Remakes
    <2>3. CASE f # "derived"
      <3>1. Reported(r) \/ IsPast(r, f)
        BY <1>0, <1>2, <2>1, <2>3, PastBefore DEF AtPages
      <3>2. ~ Remakes(p, f)
        BY <1>2, <2>1, <2>3 DEF Remakes
      <3> QED BY <1>0, <1>1, <2>1, <2>3, <3>1, <3>2, StaysInPlace
    <2> QED BY <2>2, <2>3
  <1>5. CASE dir[p] = r /\ CreateDatabase(p)
    <2>1. /\ doing[p] = "create" /\ doing'[p] = "fill" /\ dir'[p] = r
          /\ files'[r] = files[r] /\ owner'[r] = p
      BY <1>0, <1>5 DEF CreateDatabase, Go, Stay, Place
    <2>2. CASE f = "derived"
      BY <2>1, <2>2, MadeInPlace DEF Remakes
    <2>3. CASE f # "derived"
      <3>1. Reported(r) \/ IsPast(r, f)
        BY <1>0, <1>2, <2>1, <2>3, PastBefore DEF AtPages
      <3>2. ~ Remakes(p, f)
        BY <1>2, <2>1, <2>3 DEF Remakes
      <3> QED BY <1>0, <1>1, <2>1, <2>3, <3>1, <3>2, StaysInPlace
    <2> QED BY <2>2, <2>3
  <1>6. CASE dir[p] = r /\ FillDatabase(p)
    <2>1. /\ doing[p] = "fill" /\ doing'[p] = "metrics" /\ owner'[r] = owner[r]
          /\ files'[r] = IF owner[r] = p THEN files[r] \cup {"derived"} ELSE files[r]
      BY <1>0, <1>6 DEF FillDatabase, Go, AddFile
    <2>2. Reported(r) \/ IsPast(r, f)
      <3>1. CASE f = "derived"
        BY <1>6, <2>1, <3>1 DEF IsPast
      <3>2. CASE f # "derived"
        BY <1>0, <1>2, <2>1, <3>2, PastBefore DEF AtPages
      <3> QED BY <3>1, <3>2
    <2>3. CASE f = "derived" /\ owner[r] = p
      BY <2>1, <2>3, MadeInPlace
    <2>4. CASE ~ (f = "derived" /\ owner[r] = p)
      <3>1. ~ Remakes(p, f)
        BY <1>2, <1>6, <2>1, <2>4 DEF Remakes
      <3> QED BY <1>0, <1>1, <2>1, <2>2, <3>1, StaysInPlace
    <2> QED BY <2>3, <2>4
  <1>7. CASE dir[p] = r /\ OpenText(p)
    <2>1. PICK g \in Texts : /\ doing[p] = g /\ Go(p, Put[g]) /\ Without(p, g)
                             /\ UNCHANGED <<made, owner, page, Stay>>
      BY <1>7, TextSteps
    <2>2. g \in {"metrics", "judge", "report"}
      OBVIOUS
    <2>3. /\ doing'[p] = Put[g] /\ dir'[p] = r /\ owner'[r] = owner[r] /\ files'[r] = files[r] \ {g}
      BY <1>0, <1>7, <2>1 DEF Go, Without, Stay, Place
    <2>4. CASE f = g
      BY <2>3, <2>4, MadeInPlace DEF Remakes
    <2>5. CASE f # g
      <3>1. Put[g] \in Past(f) => g \in Past(f)
        BY <1>2, <2>2, <2>5 DEF AtPages
      <3>2. g \notin {"put_report", "update"}
        BY <2>2
      <3>3. Reported(r) \/ IsPast(r, f)
        BY <1>0, <2>1, <2>3, <3>1, <3>2, PastBefore
      <3>4. ~ Remakes(p, f)
        BY <1>2, <2>1, <2>2 DEF Remakes
      <3> QED BY <1>0, <1>1, <2>3, <2>5, <3>3, <3>4, StaysInPlace
    <2> QED BY <2>4, <2>5
  <1>8. CASE dir[p] = r /\ WriteText(p)
    <2>1. PICK g \in Texts : /\ doing[p] = Put[g] /\ Go(p, AfterText[g]) /\ AddFile(p, g)
                             /\ UNCHANGED <<made, owner, page, Place, overlaid, spoilt>>
      BY <1>8, TextSteps
    <2>2. g \in {"metrics", "judge", "report"}
      OBVIOUS
    <2>3. doing'[p] = AfterText[g] /\ owner'[r] = owner[r] /\ files'[r] = files[r] \cup {g}
      BY <1>0, <1>8, <2>1 DEF Go, AddFile
    <2>4. CASE f = g
      BY <2>3, <2>4, MadeInPlace
    <2>5. CASE f # g
      <3>1. AfterText[g] \in Past(f) => Put[g] \in Past(f)
        BY <1>2, <2>2, <2>5 DEF AtPages
      <3>2. Put[g] = "put_report" => Put[g] \in Past(f)
        BY <1>2, <2>2
      <3>3. Reported(r) \/ IsPast(r, f)
        BY <1>0, <2>1, <2>2, <2>3, <3>1, <3>2, PastBefore
      <3>4. ~ Remakes(p, f)
        BY <1>2, <2>1, <2>2, <2>5 DEF Remakes
      <3> QED BY <1>0, <1>1, <2>3, <3>3, <3>4, StaysInPlace
    <2> QED BY <2>4, <2>5
  <1> QED BY <1>3, <1>4, <1>5, <1>6, <1>7, <1>8 DEF ToolStep

(* A process that stops with a file removed is noted, and the other steps  *)
(* remove no file.                                                         *)
LEMMA OthersKeepInPlace ==
  ASSUME ResearchInv, NEW p \in Procs, Proceeds(p), ~ ToolStep(p),
         NEW r \in RunIds \ spoilt', NEW f \in Made, (Reported(r) \/ IsPast(r, f))'
  PROVE  InPlace(r, f)'
  <1> USE StepNames, PastIs
  <1>0. /\ doing \in [Procs -> Steps] /\ files \in [RunIds -> SUBSET Files]
        /\ (doing[p] # "idle" => dir[p] \in RunIds)
    BY DEF ResearchInv, ResearchTypeOK, Numbered
  <1>1. Reported(r) \/ IsPast(r, f) => InPlace(r, f)
    <2>1. r \notin spoilt
      BY MarksStay
    <2> QED BY <2>1 DEF ResearchInv, FilesInPlace
  <1>2. f \in {"derived", "metrics", "judge", "report"}
    OBVIOUS
  <1>3. UNCHANGED owner /\ (f \in files[r] => f \in files'[r])
    <2>1. CASE BuildStep(p)
      <3>1. UNCHANGED owner /\ \A x \in RunIds : files[x] \subseteq files'[x]
        BY <1>0, <2>1 DEF BuildStep, MakeDir, Copy, WriteMetadata, RunEngine, AddFile
      <3> QED BY <3>1
    <2>2. CASE PageStep(p)
      BY <2>2 DEF PageStep, Look, OpenHeader, WriteHeader, ReadPage, OpenPage, OpenIt, WritePage,
                  WriteIt, disk
    <2>3. CASE OffStep(p) \/ FailStep(p)
      BY <2>3 DEF OffStep, Finalize, Pick, Ask, Update, Begin, FailStep, Raise, Kill, disk
    <2> QED BY <2>1, <2>2, <2>3, StepsAre
  (* The process that moves is not about to make the file.                 *)
  <1>4. dir[p] = r => ~ Remakes(p, f)
    <2>1. CASE BuildStep(p) \/ PageStep(p) \/ OffStep(p)
      <3>1. doing[p] \notin {"create", "fill", "put_metrics", "put_judge", "put_report"}
        BY <2>1 DEF BuildStep, MakeDir, Copy, WriteMetadata, RunEngine, OffStep, Finalize, Pick, Ask,
             Update, PageStep, Look, OpenHeader, WriteHeader, ReadPage, OpenPage, WritePage
      <3> QED BY <1>2, <3>1 DEF Remakes
    <2>2. CASE FailStep(p)
      <3>1. Stops(p)
        BY <2>2 DEF FailStep, Raise, Kill
      <3>2. ASSUME dir[p] = r PROVE ~ Spoils(p)
        BY <3>1, <3>2 DEF Stops
      <3> QED BY <3>2 DEF Spoils, Remakes
    <2> QED BY <2>1, <2>2, StepsAre
  <1>5. CASE Reported(r) \/ IsPast(r, f)
    BY <1>1, <1>3, <1>4, <1>5, StaysInPlace
  <1>6. CASE ~ Reported(r) /\ ~ IsPast(r, f)
    <2>1. /\ dir[p] = r /\ doing[p] \notin AtPages
          /\ \/ doing'[p] \in Past(f) \/ doing[p] = "put_report"
             \/ doing[p] = "update" /\ files[r] = Files
      BY <1>6, PastBefore
    <2>2. CASE doing[p] = "update" /\ files[r] = Files
      <3>1. f \in files'[r]
        BY <1>2, <1>3, <2>2 DEF Files
      <3> QED BY <3>1, MadeInPlace
    <2>3. CASE doing'[p] \in Past(f) \/ doing[p] = "put_report"
      <3>1. f # "report" => doing[p] # "put_report"
        BY <1>2, <1>6, <2>1 DEF IsPast
      <3>2. CASE BuildStep(p)
        BY <1>0, <1>2, <2>3, <3>2
        DEF BuildStep, MakeDir, Copy, WriteMetadata, RunEngine, Go, Conclude, AtPages
      <3>3. CASE PageStep(p)
        BY <2>1, <3>3
        DEF PageStep, Look, OpenHeader, WriteHeader, ReadPage, OpenPage, WritePage, AtPages
      <3>4. CASE Finalize(p) \/ Pick(p) \/ Ask(p)
        BY <1>0, <1>2, <2>3, <3>4 DEF Finalize, Pick, Ask, Go, Conclude, AtPages
      <3>5. CASE FailStep(p)
        <4>1. doing[p] # "put_report"
          BY <1>2, <1>6, <2>1 DEF IsPast
        <4>2. doing'[p] \in {"idle", "killed"}
          BY <1>0, <3>5 DEF FailStep, Raise, Kill, Go, Conclude
        <4> QED BY <1>2, <2>3, <4>1, <4>2 DEF AtPages
      <3>6. CASE Update(p)
        <4>1. doing[p] = "update" /\ doing'[p] \in {"look", "idle"}
              /\ (doing'[p] = "look" => files[r] = Files \/ r \in spoilt')
          BY <1>0, <2>1, <3>6 DEF Update, Go, Conclude
        <4>2. files[r] = Files
          BY <1>2, <2>3, <4>1 DEF AtPages
        <4> QED BY <2>2, <4>1, <4>2
      <3> QED BY <3>2, <3>3, <3>4, <3>5, <3>6, StepsAre DEF OffStep
    <2> QED BY <2>1, <2>2, <2>3
  <1> QED BY <1>5, <1>6


LEMMA WorkKeeps ==
  ASSUME ResearchInv, NEW p \in Procs, Proceeds(p)
  PROVE  ResearchInv'
  <1>0. /\ doing[p] = "idle" => dir[p] = NoRun
        /\ \A q \in Procs : doing[q] \in Building \cup Finalizing => dir[q] \in made
        /\ \A q \in Procs : doing[q] # "idle" => dir[q] \in RunIds /\ turn[q] < MaxTurns[q]
        /\ \A q \in Procs : doing[q] = "idle" => dir[q] = NoRun
        /\ spoilt \subseteq RunIds
    BY DEF ResearchInv, ResearchTypeOK, Numbered
  <1>1. \A q \in Procs \ {p} : doing'[q] = doing[q] /\ dir'[q] = dir[q] /\ turn'[q] = turn[q]
    BY OthersStay DEF ResearchInv
  <1>2. made \subseteq made' /\ made' \subseteq RunIds
    BY FilesOf
  <1>3. Filed' /\ FilesInPlace'
    <2>1. FilesInPlace'
      <3>1. CASE ToolStep(p)
        BY <3>1, ToolsKeep DEF FilesInPlace
      <3>2. CASE ~ ToolStep(p)
        BY <3>2, OthersKeepInPlace DEF FilesInPlace
      <3> QED BY <3>1, <3>2
    <2> QED BY <2>1, FiledKept
  (* A process that builds or finalizes does so in a directory there is.   *)
  <1>4. doing'[p] \in Building \cup Finalizing => dir'[p] \in made'
    <2>1. ASSUME doing'[p] \in AtPages PROVE dir'[p] \in made'
      <3>1. dir'[p] \in RunIds
        BY <2>1, InHand DEF AtPages
      <3>2. Reported(dir[p])'
        BY <2>1, <3>1 DEF Reported
      <3>3. dir'[p] = dir[p]
        BY <2>1, InHand DEF AtPages
      <3> QED BY <1>3, <3>1, <3>2, <3>3 DEF Filed
    <2>2. ASSUME doing'[p] \in Tools PROVE dir'[p] \in made'
      <3>1. dir'[p] \in RunIds
        BY <2>2, InHand, StepNames
      <3>2. files'[dir'[p]] # {}
        BY <1>3, <2>2 DEF Filed
      <3> QED BY <3>1, <3>2, FilesStay
    <2>3. ASSUME doing'[p] \in Building PROVE dir'[p] \in made'
      <3>1. CASE MakeDir(p)
        BY <3>1 DEF MakeDir, Stay, Place
      <3>2. CASE Copy(p) \/ WriteMetadata(p) \/ RunEngine(p)
        <4>1. doing[p] \in Building /\ doing[p] # "idle"
          BY <3>2 DEF Copy, WriteMetadata, RunEngine, Building
        <4>2. dir'[p] = dir[p]
          BY <2>3, <4>1, InHand DEF Building
        <4> QED BY <1>0, <1>2, <4>1, <4>2
      <3>3. CASE ~ BuildStep(p)
        <4>1. doing \in [Procs -> Steps]
          BY DEF ResearchInv, ResearchTypeOK
        <4>2. doing'[p] \notin Building
          <5> USE DEF Building, Go, Conclude
          <5>1. CASE RemoveDatabase(p) \/ CreateDatabase(p) \/ FillDatabase(p)
            BY <4>1, <5>1 DEF RemoveDatabase, CreateDatabase, FillDatabase
          <5>2. CASE OpenText(p) \/ WriteText(p)
            <6>1. PICK f \in Texts : Go(p, Put[f]) \/ Go(p, AfterText[f])
              BY <5>2, TextSteps
            <6>2. Put[f] \notin Building /\ AfterText[f] \notin Building
              BY StepNames
            <6> QED BY <4>1, <6>1, <6>2
          <5>3. CASE PageStep(p)
            BY <4>1, <5>3 DEF PageStep, Look, OpenHeader, WriteHeader, OpenPage, ReadPage, WritePage,
                              TurnPage
          <5>4. CASE OffStep(p) \/ FailStep(p)
            BY <4>1, <5>4 DEF OffStep, Finalize, Pick, Ask, Update, FailStep, Raise, Kill
          <5> QED BY <3>3, <5>1, <5>2, <5>3, <5>4, StepsAre DEF ToolStep
        <4> QED BY <2>3, <4>2
      <3> QED BY <3>1, <3>2, <3>3 DEF BuildStep
    <2> QED BY <2>1, <2>2, <2>3 DEF Finalizing
  <1>5. ResearchTypeOK'
    <2>1. \A q \in Procs : doing'[q] = "idle" => dir'[q] = NoRun
      BY <1>0, <1>1, InHand
    <2>2. \A q \in Procs : doing'[q] \in Building \cup Finalizing => dir'[q] \in made'
      BY <1>0, <1>1, <1>2, <1>4
    <2>3. spoilt' \subseteq RunIds /\ clashed' \in BOOLEAN /\ overlaid' \in BOOLEAN
      <3>1. clashed' \in BOOLEAN /\ overlaid' \in BOOLEAN
        BY MarksStay, Zenon
      <3>2. spoilt' \subseteq RunIds
        BY <1>0, MarksStay
      <3> QED BY <3>1, <3>2
    <2>4. {clashed', overlaid'} \subseteq BOOLEAN
      BY <2>3, Zenon
    <2>5. /\ text' \in [Procs -> Seq(PageLines)]
          /\ page' \in [1..Len(Pages) -> [there : BOOLEAN, lines : Seq(PageLines)]]
      BY RowsStayOnce
    <2>6. files' \in [RunIds -> SUBSET Files] /\ owner' \in [RunIds -> Procs \cup {NoOwner}]
      BY FilesStay
    <2>7. doing' \in [Procs -> Steps] /\ dir' \in [Procs -> RunIds \cup {NoRun}]
      BY InHand
    <2>8. /\ turn' \in [Procs -> Nat] /\ pageNo' \in [Procs -> 1..Len(Pages)]
          /\ \A q \in Procs : turn'[q] <= MaxTurns[q]
          /\ verdict' \in [Procs -> BOOLEAN]
      BY CountersStay
    <2> QED BY <1>2, <2>1, <2>2, <2>3, <2>4, <2>5, <2>6, <2>7, <2>8 DEF ResearchTypeOK
  <1>6. Numbered'
    <2>1. \A q \in Procs : doing'[q] # "idle" => dir'[q] \in RunIds
      BY <1>0, <1>1, InHand
    <2>2. \A q \in Procs : doing'[q] # "idle" => turn'[q] < MaxTurns[q]
      BY <1>0, <1>1, CountersStay
    <2> QED BY <2>1, <2>2, FilesStay DEF Numbered
  <1>7. NoRowTwice' /\ WrittenByOne' /\ OwnDirectory'
    BY RowsStayOnce, DirectoriesStayOwn
  <1> QED BY <1>3, <1>5, <1>6, <1>7 DEF ResearchInv

(* The log of a run that a user starts is one file more.                   *)
LEMMA EngineKeeps ==
  ASSUME ResearchInv, NEW r \in RunIds, UserRunsEngine(r)
  PROVE  ResearchInv'
  <1>0. /\ UNCHANGED <<made, owner, page, doing, dir, turn, pageNo, text, verdict>>
        /\ UNCHANGED <<clashed, overlaid, spoilt>> /\ r \in made
        /\ files' = [files EXCEPT ![r] = @ \cup {"logs"}]
        /\ files \in [RunIds -> SUBSET Files]
    BY DEF UserRunsEngine, Stay, Place, marks, ResearchInv, ResearchTypeOK
  <1>1. /\ files' \in [RunIds -> SUBSET Files]
        /\ \A q \in RunIds : files[q] \subseteq files'[q] /\ files'[q] \subseteq files[q] \cup {"logs"}
        /\ \A q \in RunIds : q # r => files'[q] = files[q]
    BY <1>0 DEF Files
  <1>2. ResearchTypeOK'
    BY <1>0, <1>1 DEF ResearchInv, ResearchTypeOK
  <1>3. Numbered'
    BY <1>0, <1>1 DEF ResearchInv, Numbered
  <1>4. OwnDirectory' /\ NoRowTwice' /\ WrittenByOne'
    BY <1>0 DEF ResearchInv, OwnDirectory, NoRowTwice, WrittenByOne
  <1>5. Filed'
    <2>1. \A q \in RunIds : Reported(q)' => Reported(q)
      BY <1>0 DEF Reported
    <2>2. \A p \in Procs : doing[p] \in {"metadata", "engine"} \cup Tools => dir[p] \in RunIds
      BY StepNames DEF ResearchInv, Numbered
    <2>3. Filed
      BY DEF ResearchInv
    <2> QED BY <1>0, <1>1, <2>1, <2>2, <2>3 DEF Filed
  <1>6. FilesInPlace'
    <2>1. ASSUME NEW q \in RunIds, NEW f, (Reported(q) \/ IsPast(q, f))'
          PROVE  Reported(q) \/ IsPast(q, f)
      BY <1>0, <2>1 DEF Reported, IsPast
    <2>2. ASSUME NEW q \in RunIds, NEW f, InPlace(q, f) PROVE InPlace(q, f)'
      BY <1>0, <1>1, <2>2 DEF InPlace, Remakes
    <2> QED BY <1>0, <2>1, <2>2 DEF ResearchInv, FilesInPlace
  <1> QED BY <1>2, <1>3, <1>4, <1>5, <1>6 DEF ResearchInv

LEMMA ResearchRests ==
  ASSUME ResearchInv, UNCHANGED researchVars
  PROVE  ResearchInv'
  <1>1. /\ UNCHANGED <<made, files, owner, page, doing, dir, turn, pageNo, text, verdict>>
        /\ UNCHANGED <<clashed, overlaid, spoilt>>
    BY DEF researchVars, disk, marks
  <1>2. ResearchTypeOK' /\ Numbered'
    BY <1>1 DEF ResearchInv, ResearchTypeOK, Numbered
  <1>3. OwnDirectory' /\ NoRowTwice' /\ WrittenByOne'
    BY <1>1 DEF ResearchInv, OwnDirectory, NoRowTwice, WrittenByOne
  <1>4. Filed' /\ FilesInPlace'
    <2>1. \A r, f : (Reported(r)' <=> Reported(r)) /\ (IsPast(r, f)' <=> IsPast(r, f))
                    /\ (InPlace(r, f)' <=> InPlace(r, f))
      BY <1>1 DEF Reported, IsPast, InPlace, Remakes
    <2> QED BY <1>1, <2>1 DEF ResearchInv, Filed, FilesInPlace
  <1> QED BY <1>2, <1>3, <1>4 DEF ResearchInv

LEMMA ResearchKeeps == ResearchInv /\ [ResearchNext]_researchVars => ResearchInv'
  BY WorkKeeps, EngineKeeps, ResearchRests DEF ResearchNext, Proceeds

(* A file of a run that has a row is there, or being made again.           *)
LEMMA FilesAreKept ==
  ASSUME ResearchInv, NEW r \in RunIds \ spoilt, Reported(r), NEW f \in Files
  PROVE  Kept(r, f)
  <1>1. \A p \in Procs : \A g : Remakes(p, g) => Making(p, g)
    BY StepNames DEF Remakes, Making
  <1>2. CASE f \in Made
    <2>1. InPlace(r, f)
      BY <1>2 DEF ResearchInv, FilesInPlace
    <2> QED BY <1>1, <2>1 DEF InPlace, Kept
  <1>3. CASE f \notin Made
    <2>1. f \in {"bundle", "metadata", "logs"}
      BY <1>3, StepNames DEF Files
    <2> QED BY <2>1 DEF ResearchInv, Filed, Kept
  <1> QED BY <1>2, <1>3

LEMMA ResearchIsSafe == ResearchInv => ResearchSafe
  <1> SUFFICES ASSUME ResearchInv PROVE RowsAreReported
    BY DEF ResearchInv, ResearchSafe
  <1>1. ASSUME NEW i \in 1..Len(Pages), NEW r \in RunIds, Has(page[i].lines, r)
        PROVE  /\ r \in made /\ {"bundle", "metadata"} \subseteq files[r]
               /\ r \in spoilt \/ \A f \in Files : Kept(r, f)
    <2>1. Reported(r)
      BY <1>1 DEF Reported
    <2> QED BY <2>1, FilesAreKept DEF ResearchInv, Filed
  <1> QED BY <1>1 DEF RowsAreReported

(* For any processes, numbers of runs and of commands: two processes never *)
(* build the same directory; no page has two rows of a run, unless two     *)
(* processes had it open for writing at once; and a run that has a row has *)
(* what the row points to, or a process is writing it anew, unless one     *)
(* stopped in that or the run was listed as it was - however often runs    *)
(* are finalized and updated, whoever raises or is killed                  *)
(* (orchestrator.py, _next_run_id and mkdir; exp/cli.py, cmd_finalize;     *)
(* jsonl2sqlite; journal/update.py, append_index_row and                   *)
(* append_world_journal).                                                  *)
THEOREM RunsAreBuiltAloneAndListedOnce == ResearchSpec => []ResearchSafe
  BY ResearchIsSafe, ResearchStart, ResearchKeeps, PTL DEF ResearchSpec

-----------------------------------------------------------------------------
(* The pages. *)

(* Pages are made with their headers, one after the other.                 *)
PagesInOrder ==
  /\ \A i \in 1..Len(Pages) : ~ page[i].there => page[i].lines = << >>
  /\ \A p \in Procs :
       /\ doing[p] \in Writing => page[pageNo[p]].there
       /\ doing[p] \notin AtPages \cup {"killed"} => pageNo[p] = 1

(* A process that is alone at the pages finds them as it has read them.    *)
AloneAtPages ==
  ~ clashed =>
    /\ \A p, q \in Procs : p # q => ~ {doing[p], doing[q]} \subseteq AtPages
    /\ \A p \in Procs :
         /\ doing[p] = "head" => ~ page[pageNo[p]].there
         /\ doing[p] = "open" => text[p] = page[pageNo[p]].lines
         /\ doing[p] \in Writing => page[pageNo[p]].lines = << >>
         /\ doing[p] \in AtPages => \A i \in 1..pageNo[p]-1 : Has(page[i].lines, dir[p])

Paged == PagesInOrder /\ AloneAtPages
RowsAreKept == \A i \in 1..Len(Pages), r \in RunIds : Listed(i, r) => Listed(i, r)'

LEMMA PagesStart == ResearchInit => Paged
  BY DEF ResearchInit, Paged, PagesInOrder, AloneAtPages, AtPages, Writing

(* A process that does not come to the pages, or leaves them.              *)
LEMMA PagesLeft ==
  ASSUME ResearchInv, Paged, NEW p \in Procs, Proceeds(p), page' = page, doing'[p] \notin AtPages,
         doing'[p] # "killed" => pageNo'[p] = 1, ~ clashed' => ~ clashed /\ doing[p] # "write"
  PROVE  Paged' /\ (~ clashed' => RowsAreKept)
  <1>1. \A q \in Procs \ {p} : doing'[q] = doing[q] /\ dir'[q] = dir[q] /\ text'[q] = text[q]
                               /\ pageNo'[q] = pageNo[q]
    BY OthersStay DEF ResearchInv
  <1>2. PagesInOrder'
    BY <1>1 DEF Paged, PagesInOrder, AtPages, Writing
  <1>3. AloneAtPages'
    BY <1>1 DEF Paged, AloneAtPages, AtPages, Writing
  <1>4. ASSUME ~ clashed' PROVE RowsAreKept
    BY <1>1, <1>4 DEF RowsAreKept, Listed
  <1> QED BY <1>2, <1>3, <1>4 DEF Paged

LEMMA MakingStaysOff ==
  ASSUME ResearchInv, Paged, NEW p \in Procs, Proceeds(p), ~ PageStep(p), doing'[p] # "look"
  PROVE  Paged' /\ (~ clashed' => RowsAreKept)
  <1>0. /\ doing \in [Procs -> Steps] /\ pageNo \in [Procs -> 1..Len(Pages)] /\ clashed \in BOOLEAN
        /\ doing[p] \notin AtPages \cup {"killed"} => pageNo[p] = 1
        /\ Len(Pages) = 2
    BY StepNames DEF ResearchInv, ResearchTypeOK, Paged, PagesInOrder
  <1> USE DEF Go, Conclude, Stay, Place, marks, AtPages, disk
  <1>1. CASE MakeDir(p) \/ Copy(p) \/ Pick(p) \/ Ask(p)
    <2>1. page' = page /\ pageNo' = pageNo /\ clashed' = clashed
      BY <1>1 DEF MakeDir, Copy, Pick, Ask, Begin
    <2>2. doing[p] \notin AtPages \cup {"killed"} /\ doing'[p] \notin AtPages
      BY <1>0, <1>1 DEF MakeDir, Copy, Pick, Ask
    <2> QED BY <1>0, <2>1, <2>2, PagesLeft
  <1>2. CASE WriteMetadata(p) \/ RunEngine(p) \/ Finalize(p)
    <2>1. page' = page /\ (pageNo' = pageNo \/ pageNo' = [pageNo EXCEPT ![p] = 1]) /\ clashed' = clashed
      BY <1>2 DEF WriteMetadata, RunEngine, Finalize
    <2>2. doing[p] \notin AtPages \cup {"killed"} /\ doing'[p] \notin AtPages
      BY <1>0, <1>2, StepNames DEF WriteMetadata, RunEngine, Finalize
    <2> QED BY <1>0, <2>1, <2>2, PagesLeft
  <1>3. CASE Raise(p)
    <2>1. page' = page /\ pageNo' = [pageNo EXCEPT ![p] = 1] /\ clashed' = clashed
      BY <1>3 DEF Raise
    <2>2. doing[p] # "write" /\ doing'[p] \notin AtPages
      BY <1>0, <1>3, StepNames DEF Raise
    <2> QED BY <1>0, <2>1, <2>2, PagesLeft
  <1>4. CASE Kill(p)
    <2>1. page' = page /\ doing'[p] = "killed" /\ (~ clashed' => ~ clashed /\ doing[p] # "write")
      BY <1>0, <1>4 DEF Kill
    <2>2. doing'[p] \notin AtPages
      BY <2>1
    <2> QED BY <2>1, <2>2, PagesLeft
  <1>5. CASE RemoveDatabase(p) \/ CreateDatabase(p) \/ FillDatabase(p)
    <2>1. page' = page /\ pageNo' = pageNo /\ clashed' = clashed
      BY <1>5 DEF RemoveDatabase, CreateDatabase, FillDatabase
    <2>2. doing[p] \notin AtPages \cup {"killed"} /\ doing'[p] \notin AtPages
      BY <1>0, <1>5 DEF RemoveDatabase, CreateDatabase, FillDatabase
    <2> QED BY <1>0, <2>1, <2>2, PagesLeft
  <1>6. CASE OpenText(p) \/ WriteText(p)
    <2>1. page' = page /\ pageNo' = pageNo /\ clashed' = clashed
      BY <1>6 DEF OpenText, WriteText
    <2>2. PICK f \in Texts : \/ doing[p] = f /\ Go(p, Put[f])
                             \/ doing[p] = Put[f] /\ Go(p, AfterText[f])
      BY <1>6, TextSteps
    <2>3. f \in {"metrics", "judge", "report"}
      BY StepNames
    <2>4. doing[p] \notin AtPages \cup {"killed"} /\ doing'[p] \notin AtPages
      BY <1>0, <2>2, <2>3, StepNames
    <2> QED BY <1>0, <2>1, <2>4, PagesLeft
  <1>7. CASE Update(p)
    <2>1. Conclude(p, FALSE) /\ clashed' = clashed /\ page' = page
      BY <1>0, <1>7 DEF Update
    <2>2. doing[p] \notin AtPages \cup {"killed"} /\ doing'[p] \notin AtPages /\ pageNo'[p] = 1
      BY <1>0, <1>7, <2>1 DEF Update
    <2> QED BY <1>0, <2>1, <2>2, PagesLeft
  <1> QED BY <1>1, <1>2, <1>3, <1>4, <1>5, <1>6, <1>7, StepsAre
          DEF BuildStep, ToolStep, OffStep, FailStep

(* A process that comes to the pages finds nobody there, or it is noted.   *)
LEMMA ComingKeeps ==
  ASSUME ResearchInv, Paged, NEW p \in Procs, Proceeds(p), ~ PageStep(p), doing'[p] = "look"
  PROVE  Paged' /\ (~ clashed' => RowsAreKept) /\ doing[p] \notin AtPages
  <1>0. doing \in [Procs -> Steps] /\ clashed \in BOOLEAN
    BY DEF ResearchInv, ResearchTypeOK
  <1>1. WriteText(p) \/ Update(p)
    <2> USE DEF Go, Conclude
    <2>1. CASE BuildStep(p)
      BY <1>0, <2>1 DEF BuildStep, MakeDir, Copy, WriteMetadata, RunEngine
    <2>2. CASE RemoveDatabase(p) \/ CreateDatabase(p) \/ FillDatabase(p)
      BY <1>0, <2>2 DEF RemoveDatabase, CreateDatabase, FillDatabase
    <2>3. CASE OpenText(p)
      <3>1. PICK f \in Texts : Go(p, Put[f])
        BY <2>3, TextSteps
      <3>2. f \in {"metrics", "judge", "report"}
        BY StepNames
      <3> QED BY <1>0, <3>1, <3>2, StepNames
    <2>4. CASE Finalize(p) \/ Pick(p) \/ Ask(p) \/ FailStep(p)
      BY <1>0, <2>4 DEF Finalize, Pick, Ask, FailStep, Raise, Kill
    <2> QED BY <2>1, <2>2, <2>3, <2>4, StepsAre DEF ToolStep, OffStep
  <1>2. /\ doing[p] \notin AtPages \cup {"killed"}
        /\ page' = page /\ pageNo' = pageNo /\ text' = text /\ dir' = dir /\ ComeToPages(p)
    <2>1. CASE WriteText(p)
      <3>1. PICK f \in Texts : doing[p] = Put[f]
        BY <2>1, TextSteps
      <3>2. f \in {"metrics", "judge", "report"}
        BY StepNames
      <3>3. doing[p] \notin AtPages \cup {"killed"}
        BY <3>1, <3>2, StepNames DEF AtPages
      <3> QED BY <2>1, <3>3 DEF WriteText, Place
    <2>2. CASE Update(p)
      BY <1>0, <2>2 DEF Update, Go, Conclude, Place, AtPages, disk
    <2> QED BY <1>1, <2>1, <2>2
  <1>3. ~ clashed' => ~ clashed /\ \A q \in Procs \ {p} : doing[q] \notin AtPages
    BY <1>0, <1>2 DEF ComeToPages
  <1>4. pageNo[p] = 1
    BY <1>2 DEF Paged, PagesInOrder
  <1>5. \A q \in Procs \ {p} : doing'[q] = doing[q] /\ dir'[q] = dir[q] /\ text'[q] = text[q]
                               /\ pageNo'[q] = pageNo[q]
    BY OthersStay DEF ResearchInv
  <1>6. PagesInOrder'
    BY <1>2, <1>4, <1>5 DEF Paged, PagesInOrder, AtPages, Writing
  <1>7. AloneAtPages'
    BY <1>2, <1>3, <1>4, <1>5 DEF Paged, AloneAtPages, AtPages, Writing
  <1>8. ASSUME ~ clashed' PROVE RowsAreKept
    BY <1>2, <1>3, <1>5, <1>8 DEF RowsAreKept, Listed, AtPages
  <1> QED BY <1>2, <1>6, <1>7, <1>8 DEF Paged

(* What is written and read at the pages.                                  *)
LEMMA AtThePages ==
  ASSUME ResearchInv, Paged, NEW p \in Procs, PageStep(p)
  PROVE  /\ Paged'
         /\ ~ clashed' =>
              /\ RowsAreKept
              /\ doing'[p] = "idle" => \A i \in 1..Len(Pages) : Has(page'[i].lines, dir[p])
  <1> DEFINE n == pageNo[p]
  <1>0. /\ doing \in [Procs -> Steps] /\ pageNo \in [Procs -> 1..2] /\ n \in 1..2 /\ Len(Pages) = 2
        /\ page \in [1..2 -> [there : BOOLEAN, lines : Seq(PageLines)]]
        /\ text \in [Procs -> Seq(PageLines)] /\ text[p] \in Seq(PageLines)
        /\ dir \in [Procs -> RunIds \cup {NoRun}] /\ dir[p] \in RunIds
        /\ page[n] \in [there : BOOLEAN, lines : Seq(PageLines)] /\ page[n].lines \in Seq(PageLines)
    <2>1. doing[p] # "idle"
      BY DEF PageStep, Look, OpenHeader, WriteHeader, ReadPage, OpenPage, WritePage
    <2> QED BY <2>1, StepNames DEF ResearchInv, ResearchTypeOK, Numbered
  <1>1. \A q \in Procs \ {p} : doing'[q] = doing[q] /\ dir'[q] = dir[q] /\ text'[q] = text[q]
                               /\ pageNo'[q] = pageNo[q]
    BY OthersStay, StepsAre DEF ResearchInv
  <1>2. doing[p] \in AtPages /\ clashed' = clashed
    BY DEF PageStep, Look, OpenHeader, WriteHeader, ReadPage, OpenPage, WritePage, OpenIt,
           Stay, marks, AtPages
  <1>3. ASSUME ~ clashed PROVE \A q \in Procs \ {p} : doing[q] \notin AtPages
    BY <1>2, <1>3 DEF Paged, AloneAtPages
  <1>4. \A r : ~ Has(<< >>, r)
    BY HeaderAlone
  <1>5. /\ \A i \in 1..2 : ~ page[i].there => page[i].lines = << >>
        /\ \A q \in Procs : doing[q] \in Writing => page[pageNo[q]].there
        /\ \A q \in Procs : doing[q] \notin AtPages \cup {"killed"} => pageNo[q] = 1
    BY <1>0 DEF Paged, PagesInOrder
  <1>6. ASSUME ~ clashed
        PROVE  /\ doing[p] = "head" => ~ page[n].there
               /\ doing[p] = "open" => text[p] = page[n].lines
               /\ doing[p] \in Writing => page[n].lines = << >>
               /\ \A i \in 1..n-1 : Has(page[i].lines, dir[p])
    BY <1>2, <1>6 DEF Paged, AloneAtPages
  <1> HIDE DEF n
  (* The goal, in terms of the process that moves.                         *)
  <1>7. ASSUME \A i \in 1..2 : (page[i].there => page'[i].there)
                               /\ (~ page'[i].there => page'[i].lines = << >>),
               doing'[p] \in Writing => page'[pageNo'[p]].there,
               doing'[p] \notin AtPages => pageNo'[p] = 1
        PROVE  PagesInOrder'
    BY <1>0, <1>1, <1>5, <1>7 DEF PagesInOrder
  <1>8. ASSUME ~ clashed =>
                 /\ doing'[p] = "head" => ~ page'[pageNo'[p]].there
                 /\ doing'[p] = "open" => text'[p] = page'[pageNo'[p]].lines
                 /\ doing'[p] \in Writing => page'[pageNo'[p]].lines = << >>
                 /\ doing'[p] \in AtPages => \A i \in 1..pageNo'[p]-1 : Has(page'[i].lines, dir'[p])
        PROVE  AloneAtPages'
    BY <1>1, <1>2, <1>3, <1>8 DEF AloneAtPages, AtPages, Writing
  <1>9. ASSUME ~ clashed, NEW i \in 1..2, NEW r \in RunIds, Listed(i, r)
        PROVE  Has(page[i].lines, r) \/ (doing[p] = "write" /\ n = i /\ Has(text[p], r))
    BY <1>3, <1>9 DEF Listed, AtPages, n
  <1>10. CASE Look(p)
    <2>1. /\ page' = page /\ pageNo' = pageNo /\ text' = text /\ dir' = dir
          /\ doing'[p] = IF page[n].there THEN "read" ELSE "head"
          /\ doing[p] = "look"
      BY <1>0, <1>10 DEF Look, Go, Stay, Place, disk, n
    <2>2. PagesInOrder'
      BY <1>0, <1>5, <1>7, <2>1 DEF n, AtPages, Writing
    <2>3. AloneAtPages'
      BY <1>0, <1>6, <1>8, <2>1 DEF n, Writing
    <2>4. ASSUME ~ clashed PROVE RowsAreKept
      BY <1>0, <1>9, <2>1, <2>4 DEF RowsAreKept, Listed
    <2> QED BY <1>2, <2>1, <2>2, <2>3, <2>4 DEF Paged
  <1>11. CASE OpenHeader(p) \/ OpenPage(p)
    <2>1. /\ page' = [page EXCEPT ![n] = [there |-> TRUE, lines |-> << >>]]
          /\ pageNo' = pageNo /\ text' = text /\ dir' = dir
          /\ \/ doing'[p] = "heading" /\ doing[p] = "head"
             \/ doing'[p] = "write" /\ doing[p] = "open"
      BY <1>0, <1>11 DEF OpenHeader, OpenPage, OpenIt, Go, Place, n
    <2>2. /\ page'[n] = [there |-> TRUE, lines |-> << >>]
          /\ \A i \in 1..2 : i # n => page'[i] = page[i]
      BY <1>0, <2>1
    <2>3. PagesInOrder'
      <3>1. ASSUME NEW i \in 1..2
            PROVE  (page[i].there => page'[i].there) /\ (~ page'[i].there => page'[i].lines = << >>)
        BY <1>5, <2>2
      <3>2. page'[pageNo'[p]].there
        BY <2>1, <2>2 DEF n
      <3> QED BY <1>7, <2>1, <3>1, <3>2 DEF AtPages
    <2>4. AloneAtPages'
      <3>1. ASSUME ~ clashed PROVE \A i \in 1..n-1 : Has(page'[i].lines, dir[p])
        BY <1>0, <1>6, <2>2, <3>1
      <3> QED BY <1>8, <2>1, <2>2, <3>1 DEF n
    <2>5. ASSUME ~ clashed PROVE RowsAreKept
      <3>1. ASSUME NEW i \in 1..2, NEW r \in RunIds, Listed(i, r)
            PROVE  Has(page'[i].lines, r) \/ (i = n /\ doing'[p] = "write" /\ Has(text[p], r))
        <4>1. Has(page[i].lines, r)
          BY <1>9, <2>1, <2>5, <3>1
        <4>2. doing[p] = "head" => page[n].lines = << >>
          BY <1>0, <1>5, <1>6, <2>5
        <4> QED BY <1>4, <1>6, <2>1, <2>2, <2>5, <4>1, <4>2
      <3> QED BY <1>0, <2>1, <3>1 DEF RowsAreKept, Listed, n
    <2> QED BY <1>2, <2>1, <2>3, <2>4, <2>5 DEF Paged
  <1>12. CASE ReadPage(p)
    <2>0. doing[p] = "read" /\ page' = page
      BY <1>12 DEF ReadPage, disk
    <2>1. \/ /\ doing'[p] = "open" /\ text'[p] = page[n].lines /\ pageNo' = pageNo /\ dir' = dir
             /\ ~ Has(page[n].lines, dir[p])
          \/ /\ doing'[p] = "idle" /\ pageNo'[p] = 1 /\ n = 2 /\ Has(page[n].lines, dir[p])
          \/ /\ doing'[p] = "look" /\ n = 1 /\ pageNo'[p] = 2 /\ dir' = dir /\ Has(page[n].lines, dir[p])
      <3>1. CASE Has(page[n].lines, dir[p])
        BY <1>0, <1>12, <3>1 DEF ReadPage, TurnPage, LastPage, Conclude, Go, n
      <3>2. CASE ~ Has(page[n].lines, dir[p])
        BY <1>0, <1>12, <3>2 DEF ReadPage, Go, n
      <3> QED BY <3>1, <3>2
    <2>2. PagesInOrder'
      BY <1>0, <1>5, <1>7, <2>0, <2>1 DEF n, AtPages, Writing
    <2>3. AloneAtPages'
      BY <1>0, <1>6, <1>8, <2>0, <2>1 DEF n, AtPages, Writing
    <2>4. ASSUME ~ clashed PROVE RowsAreKept
      BY <1>0, <1>9, <2>0, <2>4 DEF RowsAreKept, Listed
    <2>5. ASSUME ~ clashed, doing'[p] = "idle" PROVE \A i \in 1..2 : Has(page'[i].lines, dir[p])
      BY <1>0, <1>6, <2>0, <2>1, <2>5
    <2> QED BY <1>0, <1>2, <2>2, <2>3, <2>4, <2>5 DEF Paged
  <1>13. CASE WriteHeader(p) \/ WritePage(p)
    <2> DEFINE new == IF doing[p] = "heading" THEN <<Header>> ELSE WithRow(p)
               lines == Covering(new, page[n].lines)
    <2>0. /\ page' = [page EXCEPT ![n].lines = lines]
          /\ \/ doing[p] = "heading" /\ doing'[p] = "read" /\ pageNo' = pageNo /\ dir' = dir
             \/ doing[p] = "write" /\ doing'[p] = "idle" /\ pageNo'[p] = 1 /\ n = 2
             \/ doing[p] = "write" /\ doing'[p] = "look" /\ n = 1 /\ pageNo'[p] = 2 /\ dir' = dir
      <3>1. CASE WriteHeader(p)
        BY <1>0, <3>1 DEF WriteHeader, WriteIt, Go, Stay, Place, n
      <3>2. CASE WritePage(p)
        BY <1>0, <3>2 DEF WritePage, WriteIt, TurnPage, LastPage, Conclude, Go, n
      <3> QED BY <1>13, <3>1, <3>2
    <2>1. /\ new \in Seq(PageLines) /\ (\A r : Has(new, r) => Has(lines, r))
          /\ doing[p] = "write" => Has(new, dir[p]) /\ \A r : Has(text[p], r) => Has(new, r)
      <3>1. WithRow(p) \in Seq(PageLines) /\ Has(WithRow(p), dir[p])
            /\ \A r : Has(text[p], r) => Has(WithRow(p), r)
        BY <1>0, RowAddedOnce DEF WithRow
      <3>2. new \in Seq(PageLines)
        BY <3>1, HeaderAlone
      <3>3. \A r : Has(new, r) => Has(lines, r)
        <4> HIDE DEF new
        <4> QED BY <1>0, <3>2, CoverIs
      <3> QED BY <3>1, <3>2, <3>3
    <2> HIDE DEF new, lines
    <2>2. /\ page'[n].lines = lines /\ page'[n].there = page[n].there
          /\ \A i \in 1..2 : i # n => page'[i] = page[i]
      BY <1>0, <2>0
    <2>3. PagesInOrder'
      <3>1. page[n].there
        BY <1>5, <2>0 DEF n, Writing
      <3> QED BY <1>0, <1>5, <1>7, <2>0, <2>2, <3>1 DEF AtPages, Writing
    <2>4. AloneAtPages'
      <3>1. ASSUME ~ clashed, doing'[p] \in AtPages
            PROVE  \A i \in 1..pageNo'[p]-1 : Has(page'[i].lines, dir'[p])
        <4>1. CASE doing[p] = "heading"
          BY <1>0, <1>6, <2>0, <2>2, <3>1, <4>1 DEF n
        <4>2. CASE doing[p] = "write"
          BY <1>0, <2>0, <2>1, <2>2, <3>1, <4>2 DEF AtPages
        <4> QED BY <2>0, <4>1, <4>2
      <3> QED BY <1>8, <2>0, <3>1 DEF Writing
    <2>5. ASSUME ~ clashed PROVE RowsAreKept
      <3>1. ASSUME NEW i \in 1..2, NEW r \in RunIds, Listed(i, r) PROVE Has(page'[i].lines, r)
        <4>1. page[n].lines = << >>
          BY <1>6, <2>0, <2>5 DEF Writing
        <4>2. CASE i = n
          <5>1. doing[p] = "write" /\ Has(text[p], r)
            BY <1>4, <1>9, <2>5, <3>1, <4>1, <4>2
          <5> QED BY <2>1, <2>2, <4>2, <5>1
        <4>3. CASE i # n
          BY <1>9, <2>2, <2>5, <3>1, <4>3
        <4> QED BY <4>2, <4>3
      <3> QED BY <1>0, <3>1 DEF RowsAreKept, Listed
    <2>6. ASSUME ~ clashed, doing'[p] = "idle" PROVE \A i \in 1..2 : Has(page'[i].lines, dir[p])
      <3>1. n = 2 /\ doing[p] = "write"
        BY <2>0, <2>6
      <3> QED BY <1>0, <1>6, <2>1, <2>2, <2>6, <3>1
    <2> QED BY <1>0, <1>2, <2>3, <2>4, <2>5, <2>6 DEF Paged
  <1> QED BY <1>10, <1>11, <1>12, <1>13 DEF PageStep

LEMMA PagesStep ==
  ASSUME ResearchInv, Paged, NEW p \in Procs, Proceeds(p)
  PROVE  Paged' /\ NothingUnlisted
  <1>0. \A q \in Procs \ {p} : doing'[q] = doing[q]
    BY OthersStay DEF ResearchInv
  <1>1. CASE PageStep(p)
    <2>1. /\ Paged'
          /\ ~ clashed' =>
               /\ RowsAreKept
               /\ doing'[p] = "idle" => \A i \in 1..Len(Pages) : Has(page'[i].lines, dir[p])
      BY <1>1, AtThePages
    <2> QED BY <1>0, <2>1 DEF NothingUnlisted, RowsAreKept, AtPages
  <1>2. CASE ~ PageStep(p)
    <2>1. Paged' /\ (~ clashed' => RowsAreKept)
      BY <1>2, ComingKeeps, MakingStaysOff
    <2>2. doing[p] \in AtPages /\ doing'[p] = "idle" => ~ verdict'[p]
      <3>1. doing \in [Procs -> Steps] /\ verdict \in [Procs -> BOOLEAN]
        BY DEF ResearchInv, ResearchTypeOK
      <3>2. CASE Raise(p)
        BY <3>1, <3>2 DEF Raise, Conclude
      <3>3. CASE Kill(p)
        BY <3>1, <3>3 DEF Kill, Go
      <3>4. CASE BuildStep(p) \/ OffStep(p)
        BY <3>4 DEF BuildStep, MakeDir, Copy, WriteMetadata, RunEngine, OffStep, Finalize, Pick, Ask,
                    Update, AtPages
      <3>5. CASE ToolStep(p)
        <4>1. doing[p] \in Tools
          BY <3>5 DEF ToolStep, RemoveDatabase, CreateDatabase, FillDatabase, OpenText, WriteText, Tools
        <4> QED BY <4>1, StepNames DEF AtPages
      <3> QED BY <1>2, <3>2, <3>3, <3>4, <3>5, StepsAre DEF FailStep
    <2> QED BY <1>0, <2>1, <2>2 DEF NothingUnlisted, RowsAreKept, AtPages
  <1> QED BY <1>1, <1>2

LEMMA VerdictStep ==
  ASSUME ResearchInv, NEW p \in Procs, Proceeds(p)
  PROVE  VerdictIsTrue
  <1>0. /\ doing \in [Procs -> Steps] /\ verdict \in [Procs -> BOOLEAN]
        /\ dir \in [Procs -> RunIds \cup {NoRun}]
        /\ (doing[p] # "idle" => dir[p] \in RunIds) /\ (doing[p] = "idle" => dir[p] = NoRun)
        /\ NoRun \notin RunIds
    BY ResearchAssumption
    DEF ResearchInv, ResearchTypeOK, Numbered, ResearchAssumption, NoRun, RunIds
  <1>1. \A q \in Procs \ {p} : dir'[q] = dir[q]
    BY OthersStay DEF ResearchInv
  <1>2. ASSUME dir[p] # NoRun, dir'[p] = NoRun, verdict'[p]
        PROVE  \/ Kept(dir[p], "report") \/ dir[p] \in spoilt
               \/ doing[p] = "engine" /\ "logs" \notin files[dir[p]]
               \/ doing[p] = "metadata"
    <2> USE <1>0, <1>2 DEF Conclude, Go, Stay, Place
    <2>1. CASE MakeDir(p) \/ Copy(p)
      BY <2>1 DEF MakeDir, Copy
    <2>2. CASE WriteMetadata(p) \/ RunEngine(p)
      BY <2>2 DEF WriteMetadata, RunEngine
    <2>3. CASE ToolStep(p)
      BY <2>3 DEF ToolStep, RemoveDatabase, CreateDatabase, FillDatabase, OpenText, WriteText
    <2>4. CASE Finalize(p) \/ Update(p) \/ FailStep(p)
      BY <2>4 DEF Finalize, Update, FailStep, Raise, Kill
    <2>5. CASE Pick(p) \/ Ask(p)
      BY <2>5 DEF Pick, Ask
    <2>6. CASE PageStep(p)
      <3>1. doing[p] \in AtPages
        BY <2>6 DEF PageStep, Look, OpenHeader, WriteHeader, ReadPage, OpenPage, WritePage, AtPages
      <3>2. Reported(dir[p]) /\ dir[p] \in RunIds
        BY <3>1 DEF Reported, AtPages
      <3>3. "report" \in Files
        BY DEF Files
      <3> QED BY <3>2, <3>3, FilesAreKept
    <2> QED BY <2>1, <2>2, <2>3, <2>4, <2>5, <2>6, StepsAre DEF BuildStep, OffStep
  <1> QED BY <1>1, <1>2 DEF VerdictIsTrue

(* The log of a run that a user starts, or nothing at all.                 *)
LEMMA PagesRest ==
  ASSUME ResearchInv, Paged, (\E r \in RunIds : UserRunsEngine(r)) \/ UNCHANGED researchVars
  PROVE  Paged' /\ NothingUnlisted /\ VerdictIsTrue
  <1>1. UNCHANGED <<page, doing, dir, turn, pageNo, text, verdict, clashed>>
    BY DEF UserRunsEngine, Stay, Place, marks, disk, researchVars
  <1>2. Paged'
    BY <1>1 DEF Paged, PagesInOrder, AloneAtPages, Writing
  <1>3. NothingUnlisted
    BY <1>1 DEF NothingUnlisted, Listed, AtPages
  <1>4. VerdictIsTrue
    BY <1>1 DEF VerdictIsTrue
  <1> QED BY <1>2, <1>3, <1>4

LEMMA PagesKeep ==
  ResearchInv /\ Paged /\ [ResearchNext]_researchVars =>
    ResearchInv' /\ Paged' /\ NothingUnlisted /\ VerdictIsTrue
  <1> SUFFICES ASSUME ResearchInv, Paged, [ResearchNext]_researchVars
               PROVE  ResearchInv' /\ Paged' /\ NothingUnlisted /\ VerdictIsTrue
    OBVIOUS
  <1>1. ResearchInv'
    BY ResearchKeeps
  <1>2. ASSUME NEW p \in Procs, Proceeds(p) PROVE Paged' /\ NothingUnlisted /\ VerdictIsTrue
    BY <1>2, PagesStep, VerdictStep
  <1> QED BY <1>1, <1>2, PagesRest DEF ResearchNext, Proceeds

(* For any processes, numbers of runs and of commands: as long as no two   *)
(* processes were at the index and the journal at once, and none was       *)
(* killed while it rewrote one, no row is ever lost and whatever is        *)
(* finalized or listed with success is in both (append_index_row and       *)
(* append_world_journal read, empty and rewrite the page); and a run that  *)
(* a batch or a command says has succeeded has its report, which may be    *)
(* in the course of being written anew or left half written by another,    *)
(* or was listed as it is, or never had a log, or was only to be made.     *)
THEOREM RowsAreNeverLost == ResearchSpec => RecordsAreTrue
  BY PagesKeep, ResearchStart, PagesStart, PTL DEF ResearchSpec, RecordsAreTrue

-----------------------------------------------------------------------------
(* The study. *)

(* While a run is being worked on, the event file and the run have to do   *)
(* with its engine alone, or with one that was there before; when the run  *)
(* is over its engine is too.                                              *)
AtWork == {"booting", "running", "stopping", "saving", "failed"}
EngineOfTheRun ==
  /\ studyAt \in AtWork => /\ current <= StudyRuns
                           /\ events \subseteq {current, Another}
                           /\ served \subseteq {current, Another}
  /\ studyAt \notin {"booting", "running", "stopping"} => up \subseteq {Another}

StudyInv == StudyTypeOK /\ RowPerRun /\ OwnEngine /\ OwnEvents /\ EngineOfTheRun

(* A row about the run in hand, without engines of others, completes it.   *)
LEMMA RowAdded ==
  ASSUME StudyInv, studyAt \in AtWork,
         up \subseteq {Another},
         NEW row \in Row, row.run = current,
         row.engines \subseteq {current, Another}, row.archive \subseteq {current, Another},
         AddRow(row)
  PROVE  StudyInv'
<1> USE DEF StudyInv, AtWork
<1>1. /\ current \in Nat /\ current >= 1 /\ current <= StudyRuns /\ StudyRuns \in Nat /\ rows \in Seq(Row)
      /\ Len(rows) = current - 1 /\ Len(rows) \in Nat
  BY StudyAssumption DEF StudyAssumption, StudyTypeOK, RowPerRun, EngineOfTheRun
<1>2. /\ rows' = Append(rows, row) /\ rows' \in Seq(Row) /\ Len(rows') = current
      /\ compared' = current /\ current' = current + 1
      /\ UNCHANGED <<up, serving, events, served, outcome>>
      /\ studyAt' \in {"done", "next"}
  BY <1>1 DEF AddRow
<1>3. \A i \in 1..Len(rows') : rows'[i] = IF i = current THEN row ELSE rows[i]
  BY <1>1, <1>2
<1>4. \A i \in 1..Len(rows') : i # current => i \in 1..Len(rows)
  BY <1>1, <1>2
<1>5. RowPerRun'
  BY <1>1, <1>2, <1>3, <1>4 DEF RowPerRun
<1>6. OwnEngine'
  BY <1>2, <1>3, <1>4 DEF OwnEngine, Another
<1>7. OwnEvents'
  BY <1>2, <1>3, <1>4 DEF OwnEvents, Another
<1>8. StudyTypeOK'
  BY <1>1, <1>2 DEF StudyTypeOK, Engines, Another, None
<1>9. EngineOfTheRun'
  BY <1>2 DEF EngineOfTheRun, Another
<1> QED  BY <1>5, <1>6, <1>7, <1>8, <1>9

(* The run that is worked on is one of the study.                          *)
LEMMA RunInHand ==
  ASSUME StudyInv, studyAt \in AtWork
  PROVE  /\ current \in 1..StudyRuns
         /\ {events, served, {}} \subseteq SUBSET Engines
         /\ \A es \in {events, served, {}} : es \subseteq {current, Another}
<1>1. current \in 1..StudyRuns + 1 /\ current <= StudyRuns /\ StudyRuns \in Nat
  BY StudyAssumption DEF StudyAssumption, StudyInv, StudyTypeOK, EngineOfTheRun
<1>2. events \subseteq Engines /\ served \subseteq Engines
  BY DEF StudyInv, StudyTypeOK
<1>3. events \subseteq {current, Another} /\ served \subseteq {current, Another}
  BY DEF StudyInv, EngineOfTheRun
<1>4. current \in 1..StudyRuns
  BY <1>1
<1> QED  BY <1>2, <1>3, <1>4

(* A run that has ended is saved with its own engine and its own events.   *)
LEMMA StudySaved == StudyInv /\ Save => StudyInv'
<1> SUFFICES ASSUME StudyInv, Save PROVE StudyInv'
  OBVIOUS
<1>1. studyAt = "saving" /\ studyAt \in AtWork
  BY DEF Save, AtWork
<1>2. PICK archive \in {events, {}} :
        AddRow([run |-> current, score |-> outcome = "score", engines |-> served, archive |-> archive])
  BY DEF Save
<1> DEFINE row == [run |-> current, score |-> outcome = "score", engines |-> served, archive |-> archive]
<1>3. /\ current \in 1..StudyRuns /\ served \in SUBSET Engines /\ archive \in SUBSET Engines
      /\ served \subseteq {current, Another} /\ archive \subseteq {current, Another}
  BY <1>1, RunInHand
<1>4. row \in Row
  BY <1>3 DEF Row
<1>5. row.run = current /\ row.engines = served /\ row.archive = archive
  OBVIOUS
<1>6. up \subseteq {Another}
  BY <1>1 DEF StudyInv, EngineOfTheRun
<1>7. AddRow(row)
  BY <1>2
<1> HIDE DEF row
<1> QED  BY <1>1, <1>3, <1>4, <1>5, <1>6, <1>7, RowAdded

LEMMA StudyFailed == StudyInv /\ RunFailed => StudyInv'
<1> SUFFICES ASSUME StudyInv, RunFailed PROVE StudyInv'
  OBVIOUS
<1>1. studyAt = "failed" /\ studyAt \in AtWork
  BY DEF RunFailed, AtWork
<1> DEFINE row == [run |-> current, score |-> FALSE, engines |-> {}, archive |-> {}]
<1>3. current \in 1..StudyRuns
  BY <1>1, RunInHand
<1>4. row \in Row
  BY <1>3 DEF Row
<1>5. row.run = current /\ row.engines = {} /\ row.archive = {}
  OBVIOUS
<1>6. up \subseteq {Another}
  BY <1>1 DEF StudyInv, EngineOfTheRun
<1>7. AddRow(row)
  BY DEF RunFailed
<1> HIDE DEF row
<1> QED  BY <1>1, <1>4, <1>5, <1>6, <1>7, RowAdded

LEMMA StudyInitOK == StudyInit => StudyInv
<1> SUFFICES ASSUME StudyInit PROVE StudyInv
  OBVIOUS
<1>0. outcome \in Outcomes
  BY DEF StudyInit, Outcomes
<1>1. /\ studyAt = "next" /\ current = 1 /\ events = {} /\ served = {} /\ compared = 0
      /\ serving \in {0, StudyRuns + 1} /\ up = {serving} \ {0} /\ StudyRuns \in Nat
  BY StudyAssumption DEF StudyAssumption, StudyInit, None, Another
<1>2. rows \in Seq(Row) /\ Len(rows) = 0
  BY EmptySeq DEF StudyInit
<1>3. StudyTypeOK
  <2>1. current \in 1..StudyRuns + 1 /\ compared \in 0..StudyRuns
    BY <1>1
  <2>2. up \subseteq Engines /\ serving \in up \cup {None} /\ up \subseteq {current, Another}
    BY <1>1 DEF Engines, Another, None
  <2>3. events \subseteq Engines /\ served \subseteq Engines
    BY <1>1
  <2> QED  BY <1>0, <1>1, <1>2, <2>1, <2>2, <2>3 DEF StudyTypeOK
<1>4. RowPerRun /\ OwnEngine /\ OwnEvents
  <2>1. \A i \in 1..Len(rows) : FALSE
    BY <1>2
  <2>2. Len(rows) = current - 1 /\ compared = Len(rows)
    BY <1>1, <1>2
  <2> QED  BY <2>1, <2>2, Zenon DEF RowPerRun, OwnEngine, OwnEvents
<1>5. EngineOfTheRun
  BY <1>1 DEF EngineOfTheRun, AtWork, Another
<1> QED  BY <1>3, <1>4, <1>5 DEF StudyInv

(* Every step but the addition of a row leaves the rows alone.             *)
LEMMA StudyStep == StudyInv /\ [StudyNext]_studyVars => StudyInv'
<1> SUFFICES ASSUME StudyInv, [StudyNext]_studyVars PROVE StudyInv'
  OBVIOUS
<1>a. /\ StudyTypeOK /\ RowPerRun /\ OwnEngine /\ OwnEvents /\ EngineOfTheRun /\ StudyRuns \in Nat
  BY StudyAssumption DEF StudyAssumption, StudyInv
<1>k. ASSUME UNCHANGED <<current, rows, compared>>, StudyTypeOK', EngineOfTheRun' PROVE StudyInv'
  BY <1>a, <1>k DEF StudyInv, RowPerRun, OwnEngine, OwnEvents, Another
<1> USE DEF AtWork, Another, Engines, None, Outcomes
<1>1. CASE StartEngine
  BY <1>a, <1>1, <1>k DEF StartEngine, StudyTypeOK, EngineOfTheRun
<1>2. CASE Answered
  BY <1>a, <1>2, <1>k DEF Answered, StudyTypeOK, EngineOfTheRun
<1>3. CASE BootFails
  BY <1>a, <1>3, <1>k DEF BootFails, StudyTypeOK, EngineOfTheRun
<1>4. ASSUME NEW how \in Outcomes, RunEnded(how) PROVE StudyInv'
  BY <1>a, <1>4, <1>k DEF RunEnded, StudyTypeOK, EngineOfTheRun
<1>5. CASE StopEngine
  <2>1. AfterRunOutcome \in {"failed", "interrupted", "saving"}
    BY DEF AfterRunOutcome
  <2>2. StudyTypeOK' /\ EngineOfTheRun'
    BY <1>a, <1>5, <2>1 DEF StopEngine, Stopped, StudyTypeOK, EngineOfTheRun
  <2> QED  BY <1>5, <2>2, <1>k DEF StopEngine
<1>6. CASE Save
  BY <1>6, StudySaved
<1>7. CASE Garbled
  BY <1>a, <1>7, <1>k DEF Garbled, StudyTypeOK, EngineOfTheRun
<1>8. CASE RunFailed
  BY <1>8, StudyFailed
<1>9. CASE RunReturns
  BY <1>9, <1>4 DEF RunReturns
<1>10. CASE CtrlC
  <2>1. CASE RunEnded("ctrl-c")
    BY <2>1, <1>4
  <2>2. CASE studyAt = "booting" /\ ~ RunEnded("ctrl-c")
    BY <1>a, <1>10, <2>2, <1>k DEF CtrlC, StudyTypeOK, EngineOfTheRun
  <2> QED  BY <1>10, <2>1, <2>2 DEF CtrlC
<1>11. CASE EngineLogs
  BY <1>a, <1>11, <1>k DEF EngineLogs, StudyTypeOK, EngineOfTheRun
<1>12. ASSUME NEW e \in Engines, EngineServes(e) PROVE StudyInv'
  BY <1>a, <1>12, <1>k DEF EngineServes, StudyTypeOK, EngineOfTheRun
<1>13. ASSUME NEW e \in Engines, EngineEnds(e) PROVE StudyInv'
  BY <1>a, <1>13, <1>k DEF EngineEnds, StudyTypeOK, EngineOfTheRun
<1>14. CASE UNCHANGED studyVars
  BY <1>a, <1>14, <1>k DEF studyVars, StudyTypeOK, EngineOfTheRun
<1>15. CASE RunTimesOut
  BY <1>15, <1>4 DEF RunTimesOut
<1> QED
  BY <1>1, <1>2, <1>3, <1>5, <1>6, <1>7, <1>8, <1>9, <1>10, <1>11, <1>12, <1>13, <1>14, <1>15
  DEF StudyNext, Driver

(* Each run of the study has one row, on the disk too, about its own       *)
(* engine and its own events, whatever engines, runs and Ctrl-C do.        *)
THEOREM EachRunHasItsRow == StudySpec => []StudySafe
<1>1. StudyInv => StudySafe
  BY DEF StudyInv, StudySafe
<1> QED  BY <1>1, StudyInitOK, StudyStep, PTL DEF StudySpec

-----------------------------------------------------------------------------
(* The spend log. *)

(* Exactly the tripwires up to a sum have been announced, once each.       *)
ToldUpTo(sum) == \A w \in Tripwires : announced[w] = IF w <= sum THEN 1 ELSE 0

(* What the one that has the lock has read is still so: the total while it *)
(* is appending, the total without its call when it has appended.          *)
ReadingHolds ==
  ~ mixed => \A t \in Threads :
    /\ stage_of[t] = "appending" => prev[t] = total
    /\ stage_of[t] = "telling" => prev[t] + cost[t] = total /\ ToldUpTo(prev[t])

SpendInv == SpendTypeOK /\ ReadingHolds /\ ToldWhenCrossed

LEMMA SpendStart == SpendInit => SpendInv
  <1> SUFFICES ASSUME SpendInit PROVE SpendInv
    OBVIOUS
  <1>1. \A t \in Threads : stage_of[t] = "out"
    BY DEF SpendInit
  <1>2. SpendTypeOK
    BY <1>1 DEF SpendInit, SpendTypeOK, Holding
  <1>3. ReadingHolds
    BY <1>1 DEF ReadingHolds
  <1>4. ToldWhenCrossed
    BY SpendAssumption DEF SpendAssumption, SpendInit, ToldWhenCrossed
  <1> QED BY <1>2, <1>3, <1>4 DEF SpendInv

(* A call is made and no one else's is: nothing is written, nothing told.  *)
LEMMA NothingWritten ==
  ASSUME SpendInv, NEW t \in Threads, Call(t) \/ Acquire(t) \/ Totals(t) \/ Fails(t)
  PROVE  SpendInv'
  <1> USE SpendAssumption DEF SpendAssumption, SpendInv, Holding
  <1>1. stage_of' \in [Threads -> {"out", "waiting"} \cup Holding]
    BY DEF Call, Acquire, Totals, Fails, Step, SpendTypeOK
  <1>2. \A u \in Threads \ {t} : stage_of'[u] = stage_of[u]
    BY DEF Call, Acquire, Totals, Fails, Step, SpendTypeOK
  <1>3. cost' \in [Threads -> Nat]
    <2>1. CASE Call(t)
      <3> PICK c \in Costs : cost' = [cost EXCEPT ![t] = c]
        BY <2>1 DEF Call
      <3> QED BY DEF SpendTypeOK
    <2> QED BY <2>1 DEF Acquire, Totals, Fails, SpendTypeOK
  <1>4. SpendTypeOK'
    BY <1>1, <1>2, <1>3 DEF Call, Acquire, Totals, Fails, Step, SpendTypeOK
  <1>5. stage_of[t] # "telling" /\ stage_of'[t] # "telling"
    BY DEF Call, Acquire, Totals, Fails, Step, SpendTypeOK
  <1>6. UNCHANGED <<total, announced, mixed>>
    BY DEF Call, Acquire, Totals, Fails
  <1>7. \A u \in Threads \ {t} : cost'[u] = cost[u] /\ prev'[u] = prev[u]
    BY DEF Call, Acquire, Totals, Fails, SpendTypeOK
  <1>8. stage_of'[t] = "appending" => prev'[t] = total
    BY DEF Call, Acquire, Totals, Fails, Step, SpendTypeOK
  <1>9. ReadingHolds'
    BY <1>2, <1>5, <1>6, <1>7, <1>8 DEF ReadingHolds, ToldUpTo
  <1>10. lock = NoThread \/ lock = t \/ (lock' = lock /\ stage_of'[lock] = stage_of[lock])
    BY <1>2 DEF Call, Acquire, Totals, Fails, SpendTypeOK, Step
  <1>11. lock' \in {NoThread, t} \/ lock' = lock
    BY DEF Call, Acquire, Totals, Fails
  <1>12. ToldWhenCrossed'
    BY <1>5, <1>6, <1>10, <1>11 DEF ToldWhenCrossed
  <1> QED BY <1>4, <1>9, <1>12

(* The log has a line more: what was told is what the reader had read.     *)
LEMMA LineWritten ==
  ASSUME SpendInv, NEW t \in Threads, AppendLine(t)
  PROVE  SpendInv'
  <1> USE SpendAssumption DEF SpendAssumption, SpendInv, Holding
  <1>1. lock = t /\ lock' = t /\ stage_of[t] = "appending" /\ stage_of'[t] = "telling"
    BY DEF AppendLine, Step, SpendTypeOK
  <1>2. \A u \in Threads \ {t} : stage_of'[u] = stage_of[u] /\ stage_of[u] \notin Holding
    BY <1>1 DEF AppendLine, Step, SpendTypeOK
  <1>3. SpendTypeOK'
    BY <1>1, <1>2 DEF AppendLine, Step, SpendTypeOK
  <1>4. ~ mixed => prev[t] = total /\ ToldUpTo(total)
    BY <1>1 DEF ReadingHolds, ToldWhenCrossed, ToldUpTo
  <1>5. ReadingHolds'
    BY <1>1, <1>2, <1>4 DEF ReadingHolds, AppendLine, ToldUpTo
  <1>6. ToldWhenCrossed'
    BY <1>1 DEF ToldWhenCrossed, SpendTypeOK
  <1> QED BY <1>3, <1>5, <1>6

(* The tripwires between what was read and what was written are told.      *)
LEMMA TripwiresTold ==
  ASSUME SpendInv, NEW t \in Threads, Tell(t)
  PROVE  SpendInv'
  <1> USE SpendAssumption DEF SpendAssumption, SpendInv, Holding
  <1>1. lock = t /\ lock' = NoThread /\ stage_of[t] = "telling" /\ stage_of'[t] = "out"
    BY DEF Tell, Step, SpendTypeOK
  <1>2. \A u \in Threads \ {t} : stage_of'[u] = stage_of[u] /\ stage_of[u] \notin Holding
    BY <1>1 DEF Tell, Step, SpendTypeOK
  <1>3. announced' \in [Tripwires -> Nat]
    BY DEF Tell, SpendTypeOK
  <1>4. SpendTypeOK'
    BY <1>1, <1>2, <1>3 DEF Tell, Step, SpendTypeOK
  <1>5. ReadingHolds'
    BY <1>1, <1>2 DEF ReadingHolds
  <1>6. ASSUME ~ mixed, NEW w \in Tripwires
        PROVE  announced'[w] = IF w <= total THEN 1 ELSE 0
    <2>1. prev[t] + cost[t] = total /\ announced[w] = IF w <= prev[t] THEN 1 ELSE 0
      BY <1>1, <1>6 DEF ReadingHolds, ToldUpTo
    <2>2. announced'[w] = announced[w] + (IF prev[t] < w /\ w <= total THEN 1 ELSE 0)
      BY <2>1 DEF Tell, Crossed
    <2>3. prev[t] \in Nat /\ cost[t] \in Nat /\ w \in Nat
      BY DEF SpendTypeOK
    <2> QED BY <2>1, <2>2, <2>3
  <1>7. ToldWhenCrossed'
    BY <1>6 DEF ToldWhenCrossed, Tell
  <1> QED BY <1>4, <1>5, <1>7

(* A new log has nothing to tell, unless a call is being recorded.         *)
LEMMA LogArchived ==
  ASSUME SpendInv, Reset
  PROVE  SpendInv'
  <1> USE SpendAssumption DEF SpendAssumption, SpendInv, Holding
  <1>1. SpendTypeOK'
    BY DEF Reset, SpendTypeOK
  <1>2. ~ mixed' => \A t \in Threads : stage_of'[t] \notin Holding
    BY DEF Reset, SpendTypeOK
  <1>3. ReadingHolds'
    BY <1>2 DEF ReadingHolds
  <1>4. ToldWhenCrossed'
    BY DEF Reset, ToldWhenCrossed
  <1> QED BY <1>1, <1>3, <1>4

LEMMA SpendStep == SpendInv /\ [SpendNext]_spendVars => SpendInv'
  <1> SUFFICES ASSUME SpendInv, [SpendNext]_spendVars PROVE SpendInv'
    OBVIOUS
  <1>1. CASE Reset
    BY <1>1, LogArchived
  <1>2. ASSUME NEW t \in Threads, Call(t) \/ Acquire(t) \/ Totals(t) \/ Fails(t) PROVE SpendInv'
    BY <1>2, NothingWritten
  <1>3. ASSUME NEW t \in Threads, AppendLine(t) PROVE SpendInv'
    BY <1>3, LineWritten
  <1>4. ASSUME NEW t \in Threads, Tell(t) PROVE SpendInv'
    BY <1>4, TripwiresTold
  <1>5. CASE UNCHANGED spendVars
    BY <1>5 DEF spendVars, SpendInv, SpendTypeOK, ReadingHolds, ToldUpTo, ToldWhenCrossed
  <1> QED BY <1>1, <1>2, <1>3, <1>4, <1>5 DEF SpendNext

(* For any threads, prices and tripwires: who records has the lock, and    *)
(* unless the log was archived under a call, every tripwire is announced   *)
(* once when the total reaches it and never before                         *)
(* (budget_log.py, record: _lock, prev_usd < t <= new_usd).                *)
THEOREM TripwiresAreToldOnce == SpendSpec => []SpendSafe
  <1>1. SpendInv => SpendSafe
    BY DEF SpendInv, SpendSafe
  <1> QED BY <1>1, SpendStart, SpendStep, PTL DEF SpendSpec

-----------------------------------------------------------------------------
(* The narrator: what cluster_agents computes. *)

LEMMA LeastIndex ==
  ASSUME NEW S \in SUBSET Nat, S # {}
  PROVE  \E m \in S : \A k \in S : m <= k
  <1>1. IsWellFoundedOn(OpToRel(<, Nat), Nat)
    BY NatLessThanWellFounded
  <1>2. PICK m \in S : \A k \in S : <<k, m>> \notin OpToRel(<, Nat)
    BY <1>1, WFMin
  <1>3. \A k \in S : ~ k < m
    BY <1>2, Zenon DEF OpToRel
  <1> QED BY <1>3

(* A step that keeps to a set can be taken any number of times.            *)
Iterates(m, base, step, g) ==
  g[0] = base /\ \A n \in 1..m : g[n] = step[<<n, g[n-1]>>]

LEMMA IteratesExist ==
  ASSUME NEW S, NEW m \in Nat, NEW base \in S, NEW step \in [(1..m) \X S -> S]
  PROVE  \E g \in [0..m -> S] : Iterates(m, base, step, g)
  <1> DEFINE Built(k) == \E g \in [0..k -> S] : Iterates(k, base, step, g)
             Bad == {k \in 0..m : ~ Built(k)}
  <1> SUFFICES ASSUME Bad # {} PROVE FALSE
    OBVIOUS
  <1>1. PICK k \in Bad : \A j \in Bad : k <= j
    <2>1. Bad \in SUBSET Nat
      OBVIOUS
    <2> HIDE DEF Bad
    <2> QED BY <2>1, LeastIndex
  <1>2. k # 0
    <2> SUFFICES ASSUME k = 0 PROVE FALSE
      OBVIOUS
    <2> DEFINE g == [n \in 0..0 |-> base]
    <2>1. g \in [0..0 -> S] /\ Iterates(0, base, step, g)
      BY DEF Iterates
    <2> QED BY <1>1, <2>1
  <1>3. k \in 1..m /\ k - 1 \in 0..m /\ k - 1 \notin Bad
    BY <1>1, <1>2
  <1>4. PICK f \in [0..k-1 -> S] : Iterates(k - 1, base, step, f)
    BY <1>3
  <1> DEFINE g == [n \in 0..k |-> IF n = k THEN step[<<k, f[k-1]>>] ELSE f[n]]
  <1>5. step[<<k, f[k-1]>>] \in S
    <2>1. f[k-1] \in S
      BY <1>3, <1>4
    <2>2. <<k, f[k-1]>> \in (1..m) \X S
      BY <1>3, <2>1
    <2> QED BY <2>2
  <1>6. g \in [0..k -> S]
    BY <1>3, <1>4, <1>5
  <1>7. \A n \in 0..k-1 : g[n] = f[n]
    BY <1>3
  <1>8. g[k] = step[<<k, f[k-1]>>]
    BY <1>3
  <1> HIDE DEF g
  <1>9. Iterates(k, base, step, g)
    <2>1. g[0] = base
      BY <1>3, <1>4, <1>7 DEF Iterates
    <2>2. ASSUME NEW n \in 1..k PROVE g[n] = step[<<n, g[n-1]>>]
      <3>1. CASE n = k
        <4>1. g[n-1] = f[k-1]
          BY <1>3, <1>7, <3>1
        <4> QED BY <1>8, <3>1, <4>1
      <3>2. CASE n # k
        <4>1. n \in 1..k-1 /\ n \in 0..k-1 /\ n - 1 \in 0..k-1
          BY <1>3, <3>2
        <4> QED BY <1>4, <1>7, <4>1 DEF Iterates
      <3> QED BY <3>1, <3>2
    <2> QED BY <2>1, <2>2 DEF Iterates
  <1> QED BY <1>1, <1>6, <1>9

LEMMA HowMany == Cardinality(Agents) \in Nat
  BY FS_CardinalityType, NarratorAssumption DEF NarratorAssumption

-----------------------------------------------------------------------------
(* A forest: r names the root of each agent, and what is above an agent on *)
(* the way to its root is in above.                                        *)
Parents == [Agents -> Agents]
Walks   == [parent : Parents, x : Agents]

Hangs(parent, r, above) ==
  /\ parent \in Parents /\ r \in Parents /\ above \in [Agents -> SUBSET Agents]
  /\ \A x \in Agents :
       /\ r[parent[x]] = r[x] /\ (parent[x] = x <=> r[x] = x)
       /\ x \notin above[x] /\ \A y \in above[x] : r[y] = r[x]
       /\ parent[x] # x => parent[x] \in above[x] /\ above[parent[x]] \subseteq above[x]

LEMMA HalveTypes == ASSUME NEW f \in Walks PROVE Halve(f) \in Walks
  BY DEF Walks, Parents, Halve

(* A step of the walk leaves the trees what they are and goes up.          *)
LEMMA HalveClimbs ==
  ASSUME NEW f \in Walks, NEW r, NEW above, Hangs(f.parent, r, above)
  PROVE  /\ Hangs(Halve(f).parent, r, above) /\ r[Halve(f).x] = r[f.x]
         /\ f.parent[f.x] = f.x => Halve(f) = f
         /\ f.parent[f.x] # f.x => Halve(f).x \in above[f.x] /\ above[Halve(f).x] \subseteq above[f.x]
  <1> DEFINE p == f.parent
             x == f.x
             g == p[p[x]]
  <1>1. p \in Parents /\ x \in Agents /\ p[x] \in Agents /\ g \in Agents
    BY DEF Walks, Parents
  <1>2. CASE p[x] = x
    BY <1>2 DEF Halve
  <1>3. CASE p[x] # x
    <2>1. Halve(f) = [parent |-> [p EXCEPT ![x] = g], x |-> g]
      BY <1>3 DEF Halve
    <2>2. p[x] \in above[x] /\ above[p[x]] \subseteq above[x] /\ r[p[x]] = r[x]
      BY <1>1, <1>3 DEF Hangs
    <2>3. g = p[x] \/ (g \in above[p[x]] /\ above[g] \subseteq above[p[x]])
      BY <1>1 DEF Hangs
    <2>4. g \in above[x] /\ above[g] \subseteq above[x] /\ r[g] = r[x]
      BY <1>1, <2>2, <2>3 DEF Hangs
    <2> DEFINE q == [p EXCEPT ![x] = g]
    <2>5. q \in Parents /\ q[x] = g /\ \A y \in Agents : y # x => q[y] = p[y]
      BY <1>1 DEF Parents
    <2>6. g # x /\ r[x] # x
      BY <1>1, <1>3, <2>4 DEF Hangs
    <2> HIDE DEF q
    <2>7. Hangs(q, r, above)
      BY <1>1, <2>4, <2>5, <2>6 DEF Hangs
    <2> QED BY <1>3, <2>1, <2>4, <2>7 DEF q
  <1> QED BY <1>2, <1>3

(* The walk is there, and it ends where it should.                         *)
LEMMA FindWalks ==
  ASSUME NEW p \in Parents, NEW x \in Agents
  PROVE  \E g : /\ \A n \in 0..Cardinality(Agents) : g[n] \in Walks
                /\ g[0] = [parent |-> p, x |-> x]
                /\ \A n \in 1..Cardinality(Agents) : g[n] = Halve(g[n-1])
                /\ Find(p, x) = g[Cardinality(Agents)]
  <1> DEFINE N == Cardinality(Agents)
             base == [parent |-> p, x |-> x]
             Is(g) == g = [n \in 0..N |-> IF n = 0 THEN base ELSE Halve(g[n-1])]
             step == [t \in (1..N) \X Walks |-> Halve(t[2])]
  <1>0. N \in Nat
    BY HowMany
  <1>1. Find(p, x) = (CHOOSE g : Is(g))[N]
    BY DEF Find
  <1> HIDE DEF N
  <1>2. base \in Walks /\ step \in [(1..N) \X Walks -> Walks]
    <2>1. base \in Walks
      BY DEF Walks
    <2>2. \A t \in (1..N) \X Walks : t[2] \in Walks
      OBVIOUS
    <2>3. \A t \in (1..N) \X Walks : Halve(t[2]) \in Walks
      BY <2>2, HalveTypes
    <2> QED BY <2>1, <2>3
  <1>3. PICK g \in [0..N -> Walks] : Iterates(N, base, step, g)
    <2> HIDE DEF base, step
    <2> QED BY <1>0, <1>2, IteratesExist
  <1>4. \A n \in 1..N : g[n] = Halve(g[n-1])
    <2> SUFFICES ASSUME NEW n \in 1..N PROVE g[n] = Halve(g[n-1])
      OBVIOUS
    <2>1. n - 1 \in 0..N
      BY <1>0
    <2>2. <<n, g[n-1]>> \in (1..N) \X Walks
      BY <2>1
    <2>3. g[n] = step[<<n, g[n-1]>>]
      BY <1>3 DEF Iterates
    <2> QED BY <2>2, <2>3
  <1>5. g[0] = base
    BY <1>3 DEF Iterates
  <1>6. \E h : Is(h)
    <2>1. \A n \in 0..N : n = 0 \/ n \in 1..N
      BY <1>0
    <2>2. g = [n \in 0..N |-> g[n]]
      BY <1>3
    <2>3. \A n \in 0..N : g[n] = IF n = 0 THEN base ELSE Halve(g[n-1])
      BY <1>4, <1>5, <2>1
    <2> HIDE DEF base
    <2>4. Is(g)
      BY <2>2, <2>3, Zenon
    <2> QED BY <2>4
  <1> DEFINE h == CHOOSE f : Is(f)
  <1>7. Is(h)
    BY <1>6
  <1> HIDE DEF base, h
  <1>8. h[0] = base /\ \A n \in 1..N : h[n] = Halve(h[n-1])
    <2>1. 0 \in 0..N /\ \A n \in 1..N : n \in 0..N /\ n # 0
      BY <1>0
    <2>2. h = [n \in 0..N |-> IF n = 0 THEN base ELSE Halve(h[n-1])]
      BY <1>7
    <2> QED BY <2>1, <2>2, Zenon
  <1> DEFINE Bad == {n \in 0..N : h[n] \notin Walks}
  <1>9. Bad = {}
    <2> SUFFICES ASSUME Bad # {} PROVE FALSE
      OBVIOUS
    <2>1. PICK k \in Bad : \A j \in Bad : k <= j
      <3>1. Bad \in SUBSET Nat
        BY <1>0
      <3> HIDE DEF Bad
      <3> QED BY <3>1, LeastIndex
    <2>2. k # 0
      BY <1>2, <1>8, <2>1
    <2>3. k \in 1..N /\ k - 1 \in 0..N /\ ~ k <= k - 1
      BY <1>0, <2>1, <2>2
    <2>4. h[k-1] \in Walks
      BY <2>1, <2>3
    <2>5. h[k] \in Walks
      BY <1>8, <2>3, <2>4, HalveTypes
    <2> QED BY <2>1, <2>5
  <1>10. Find(p, x) = h[N]
    BY <1>1 DEF h
  <1> QED BY <1>8, <1>9, <1>10 DEF base, N

LEMMA FindsRoot ==
  ASSUME NEW p \in Parents, NEW x \in Agents, NEW r, NEW above, Hangs(p, r, above)
  PROVE  /\ Hangs(Find(p, x).parent, r, above) /\ Find(p, x).x = r[x]
         /\ r[r[x]] = r[x]
  <1> DEFINE N == Cardinality(Agents)
  <1>0. N \in Nat
    BY HowMany
  <1> HIDE DEF N
  <1>1. PICK g : /\ \A n \in 0..N : g[n] \in Walks
                 /\ g[0] = [parent |-> p, x |-> x]
                 /\ \A n \in 1..N : g[n] = Halve(g[n-1])
                 /\ Find(p, x) = g[N]
    BY FindWalks DEF N
  <1>2. \A a \in Agents : /\ IsFiniteSet(above[a]) /\ Cardinality(above[a]) \in Nat
                          /\ Cardinality(above[a]) < N
    <2> SUFFICES ASSUME NEW a \in Agents
                 PROVE  /\ IsFiniteSet(above[a]) /\ Cardinality(above[a]) \in Nat
                        /\ Cardinality(above[a]) < N
      OBVIOUS
    <2>1. above[a] \in SUBSET Agents /\ a \notin above[a] /\ IsFiniteSet(Agents)
      BY NarratorAssumption DEF Hangs, NarratorAssumption
    <2>2. /\ IsFiniteSet(above[a]) /\ Cardinality(above[a]) <= N
          /\ N = Cardinality(above[a]) => Agents = above[a]
      BY <2>1, FS_Subset DEF N
    <2>3. Cardinality(above[a]) \in Nat
      BY <2>2, FS_CardinalityType
    <2> QED BY <1>0, <2>1, <2>2, <2>3
  <1> DEFINE Up(n) == g[n].parent[g[n].x] = g[n].x
                      \/ Cardinality(above[g[n].x]) + n <= Cardinality(above[x])
             Good(n) == Hangs(g[n].parent, r, above) /\ r[g[n].x] = r[x] /\ Up(n)
             Bad == {n \in 0..N : ~ Good(n)}
  <1>3. Good(0)
    <2>1. g[0].parent = p /\ g[0].x = x
      BY <1>1
    <2>2. Cardinality(above[x]) + 0 <= Cardinality(above[x])
      BY <1>2
    <2> QED BY <2>1, <2>2
  <1>4. ASSUME NEW n \in 1..N, Good(n-1) PROVE Good(n)
    <2>1. n - 1 \in 0..N /\ n \in 0..N /\ n - 1 \in Nat /\ n \in Nat
      BY <1>0
    <2> DEFINE f == g[n-1]
    <2>2. f \in Walks /\ g[n] = Halve(f) /\ g[n] \in Walks
      BY <1>1, <2>1
    <2>3. f.x \in Agents /\ g[n].x \in Agents
      BY <2>2 DEF Walks
    <2>4. Hangs(f.parent, r, above) /\ r[f.x] = r[x]
      BY <1>4
    <2> HIDE DEF f
    <2>5. Hangs(g[n].parent, r, above) /\ r[g[n].x] = r[x]
      BY <2>2, <2>4, HalveClimbs
    <2>6. CASE f.parent[f.x] = f.x
      BY <2>2, <2>4, <2>5, <2>6, HalveClimbs
    <2>7. CASE f.parent[f.x] # f.x
      <3>1. g[n].x \in above[f.x] /\ above[g[n].x] \subseteq above[f.x]
        BY <2>2, <2>4, <2>7, HalveClimbs
      <3>2. g[n].x \notin above[g[n].x]
        BY <2>3, <2>5 DEF Hangs
      <3>3. Cardinality(above[g[n].x]) < Cardinality(above[f.x])
        <4>1. /\ Cardinality(above[g[n].x]) <= Cardinality(above[f.x])
              /\ Cardinality(above[f.x]) = Cardinality(above[g[n].x]) => above[f.x] = above[g[n].x]
          BY <1>2, <2>3, <3>1, FS_Subset
        <4>2. Cardinality(above[g[n].x]) \in Nat /\ Cardinality(above[f.x]) \in Nat
          BY <1>2, <2>3
        <4> QED BY <3>1, <3>2, <4>1, <4>2
      <3>4. Cardinality(above[f.x]) + (n - 1) <= Cardinality(above[x])
        BY <1>4, <2>7 DEF f
      <3>5. Up(n)
        <4>1. /\ Cardinality(above[g[n].x]) \in Nat /\ Cardinality(above[f.x]) \in Nat
              /\ Cardinality(above[x]) \in Nat
          BY <1>2, <2>3
        <4> QED BY <2>1, <3>3, <3>4, <4>1
      <3> QED BY <2>5, <3>5
    <2> QED BY <2>6, <2>7
  <1> HIDE DEF Good
  <1>5. Bad = {}
    <2> SUFFICES ASSUME Bad # {} PROVE FALSE
      OBVIOUS
    <2>1. PICK k \in Bad : \A j \in Bad : k <= j
      <3>1. Bad \in SUBSET Nat
        BY <1>0
      <3> HIDE DEF Bad
      <3> QED BY <3>1, LeastIndex
    <2>2. k # 0
      BY <1>3, <2>1
    <2>3. k \in 1..N /\ k - 1 \in 0..N /\ ~ k <= k - 1
      BY <1>0, <2>1, <2>2
    <2>4. Good(k-1)
      BY <2>1, <2>3
    <2> QED BY <1>4, <2>1, <2>3, <2>4
  <1>6. Good(N)
    BY <1>0, <1>5
  <1> DEFINE z == g[N].x
  <1>7. z \in Agents
    BY <1>0, <1>1 DEF Walks
  <1>8. g[N].parent[z] = z
    <2>1. ~ Cardinality(above[z]) + N <= Cardinality(above[x])
      BY <1>0, <1>2, <1>7
    <2> QED BY <1>6, <2>1 DEF Good
  <1>9. r[z] = z /\ r[z] = r[x] /\ Hangs(g[N].parent, r, above)
    BY <1>6, <1>7, <1>8 DEF Good, Hangs
  <1> QED BY <1>1, <1>9

LEMMA FindTypes ==
  ASSUME NEW p \in Parents, NEW x \in Agents
  PROVE  Find(p, x) \in Walks
  <1>1. Cardinality(Agents) \in 0..Cardinality(Agents)
    BY HowMany
  <1>2. PICK g : /\ \A n \in 0..Cardinality(Agents) : g[n] \in Walks
                 /\ g[0] = [parent |-> p, x |-> x]
                 /\ \A n \in 1..Cardinality(Agents) : g[n] = Halve(g[n-1])
                 /\ Find(p, x) = g[Cardinality(Agents)]
    BY FindWalks
  <1> QED BY <1>1, <1>2

-----------------------------------------------------------------------------
(* Two trees become one.                                                   *)
Merged(r, a, b) == [y \in Agents |-> IF r[y] = r[a] THEN r[b] ELSE r[y]]

LEMMA UniteTypes ==
  ASSUME NEW p \in Parents, NEW a \in Agents, NEW b \in Agents
  PROVE  Unite(p, a, b) \in Parents
  <1>1. Find(p, a) \in Walks
    BY FindTypes
  <1>2. Find(p, a).parent \in Parents /\ Find(p, a).x \in Agents
    BY <1>1 DEF Walks
  <1>3. Find(Find(p, a).parent, b) \in Walks
    BY <1>2, FindTypes
  <1> QED BY <1>2, <1>3 DEF Unite, Walks, Parents

LEMMA UniteMerges ==
  ASSUME NEW p \in Parents, NEW a \in Agents, NEW b \in Agents, NEW r, NEW above, Hangs(p, r, above)
  PROVE  \E climb : Hangs(Unite(p, a, b), Merged(r, a, b), climb)
  <1> DEFINE fa == Find(p, a)
             fb == Find(fa.parent, b)
             q  == fb.parent
             R  == Merged(r, a, b)
  <1>1. Hangs(fa.parent, r, above) /\ fa.x = r[a] /\ r[r[a]] = r[a]
    BY FindsRoot
  <1>2. fa.parent \in Parents
    BY <1>1 DEF Hangs
  <1>3. Hangs(q, r, above) /\ fb.x = r[b] /\ r[r[b]] = r[b]
    BY <1>1, <1>2, FindsRoot
  <1>4. Unite(p, a, b) = IF r[a] = r[b] THEN q ELSE [q EXCEPT ![r[a]] = r[b]]
    BY <1>1, <1>3 DEF Unite
  <1> HIDE DEF q
  <1>5. r \in Parents /\ r[a] \in Agents /\ r[b] \in Agents /\ q \in Parents
    BY <1>3 DEF Hangs, Parents
  <1>6. CASE r[a] = r[b]
    <2>1. R = r
      BY <1>5, <1>6 DEF Merged, Parents
    <2> QED BY <1>3, <1>4, <1>6, <2>1
  <1>7. CASE r[a] # r[b]
    <2> DEFINE s == [q EXCEPT ![r[a]] = r[b]]
               climb == [y \in Agents |-> IF r[y] = r[a] THEN above[y] \cup {r[b]} \cup above[r[b]]
                                       ELSE above[y]]
    <2>1. s \in Parents /\ s[r[a]] = r[b] /\ \A y \in Agents : y # r[a] => s[y] = q[y]
      BY <1>5 DEF Parents
    <2>2. R \in Parents /\ \A y \in Agents : R[y] = IF r[y] = r[a] THEN r[b] ELSE r[y]
      BY <1>5 DEF Merged, Parents
    <2>3. above \in [Agents -> SUBSET Agents]
      BY <1>3 DEF Hangs
    <2>4. /\ climb \in [Agents -> SUBSET Agents]
          /\ \A y \in Agents : climb[y] = IF r[y] = r[a] THEN above[y] \cup {r[b]} \cup above[r[b]]
                                       ELSE above[y]
      BY <1>5, <2>3
    <2> HIDE DEF s, climb, R
    <2>5. ASSUME NEW y \in Agents, r[y] # r[a]
          PROVE  /\ R[s[y]] = R[y] /\ (s[y] = y <=> R[y] = y)
                 /\ y \notin climb[y] /\ \A z \in climb[y] : R[z] = R[y]
                 /\ s[y] # y => s[y] \in climb[y] /\ climb[s[y]] \subseteq climb[y]
      <3>1. y # r[a]
        BY <1>1, <2>5
      <3>2. s[y] = q[y] /\ R[y] = r[y] /\ climb[y] = above[y] /\ q[y] \in Agents
        BY <1>5, <2>1, <2>2, <2>4, <2>5, <3>1 DEF Parents
      <3>3. /\ r[q[y]] = r[y] /\ (q[y] = y <=> r[y] = y)
            /\ y \notin above[y] /\ \A z \in above[y] : z \in Agents /\ r[z] = r[y]
            /\ q[y] # y => q[y] \in above[y] /\ above[q[y]] \subseteq above[y]
        BY <1>3, <2>3 DEF Hangs
      <3>4. R[q[y]] = r[y] /\ climb[q[y]] = above[q[y]]
        BY <2>2, <2>4, <2>5, <3>2, <3>3
      <3>5. \A z \in above[y] : R[z] = r[y]
        BY <2>2, <2>5, <3>3
      <3> QED BY <3>2, <3>3, <3>4, <3>5
    <2>6. ASSUME NEW y \in Agents, r[y] = r[a]
          PROVE  /\ R[s[y]] = R[y] /\ (s[y] = y <=> R[y] = y)
                 /\ y \notin climb[y] /\ \A z \in climb[y] : R[z] = R[y]
                 /\ s[y] # y => s[y] \in climb[y] /\ climb[s[y]] \subseteq climb[y]
      <3>1. /\ r[q[y]] = r[y] /\ (q[y] = y <=> r[y] = y)
            /\ y \notin above[y] /\ \A z \in above[y] : z \in Agents /\ r[z] = r[y]
            /\ q[y] # y => q[y] \in above[y] /\ above[q[y]] \subseteq above[y]
        BY <1>3, <2>3 DEF Hangs
      <3>2. \A z \in above[r[b]] : z \in Agents /\ r[z] = r[b]
        BY <1>3, <1>5, <2>3 DEF Hangs
      <3>3. R[y] = r[b] /\ climb[y] = above[y] \cup {r[b]} \cup above[r[b]]
        BY <2>2, <2>4, <2>6
      <3>4. R[r[b]] = r[b] /\ climb[r[b]] = above[r[b]] /\ y # r[b]
        BY <1>3, <1>5, <1>7, <2>2, <2>4, <2>6
      <3>5. \A z \in above[y] \cup above[r[b]] : R[z] = r[b]
        BY <2>2, <2>6, <3>1, <3>2
      <3>6. y \notin climb[y] /\ \A z \in climb[y] : R[z] = R[y]
        BY <1>7, <2>6, <3>1, <3>2, <3>3, <3>4, <3>5
      <3>7. CASE y = r[a]
        <4>1. s[y] = r[b]
          BY <2>1, <3>7
        <4> QED BY <3>3, <3>4, <3>6, <4>1
      <3>8. CASE y # r[a]
        <4>1. s[y] = q[y] /\ q[y] # y /\ q[y] \in Agents
          BY <1>5, <2>1, <2>6, <3>1, <3>8 DEF Parents
        <4>2. R[q[y]] = r[b] /\ climb[q[y]] = above[q[y]] \cup {r[b]} \cup above[r[b]]
          BY <2>2, <2>4, <2>6, <3>1, <4>1
        <4>3. above[q[y]] \subseteq above[y] /\ q[y] \in above[y]
          BY <3>1, <4>1
        <4> QED BY <3>3, <3>4, <3>6, <4>1, <4>2, <4>3
      <3> QED BY <3>7, <3>8
    <2>7. Hangs(s, R, climb)
      BY <2>1, <2>2, <2>4, <2>5, <2>6 DEF Hangs
    <2> QED BY <1>4, <1>7, <2>7 DEF s, R
  <1> QED BY <1>6, <1>7

-----------------------------------------------------------------------------
(* Deal by deal: a set of agents is whole when no deal of s leaves it.     *)
Whole(c, s) == \A i \in s : log[i].pair \cap c # {} => log[i].pair \subseteq c

Groups(r, s) ==
  /\ \A i \in s : \A x, y \in log[i].pair : r[x] = r[y]
  /\ \A x, y \in Agents : r[x] = r[y] =>
       \A c \in SUBSET Agents : Whole(c, s) /\ x \in c => y \in c

LEMMA PairIs ==
  ASSUME NEW pair \in Pairs, pair # {}
  PROVE  LET a == CHOOSE x \in pair : TRUE
             b == CHOOSE x \in pair : x # a
         IN a \in Agents /\ b \in Agents /\ pair = {a, b}
  <1>1. pair \in SUBSET Agents /\ Cardinality(pair) = 2
    BY DEF Pairs
  <1>2. IsFiniteSet(pair)
    BY <1>1, FS_Subset, NarratorAssumption DEF NarratorAssumption
  <1> DEFINE a == CHOOSE x \in pair : TRUE
  <1>3. a \in pair
    OBVIOUS
  <1> HIDE DEF a
  <1>4. IsFiniteSet(pair \ {a}) /\ Cardinality(pair \ {a}) = 1
    BY <1>1, <1>2, <1>3, FS_RemoveElement
  <1>5. PICK z : pair \ {a} = {z}
    BY <1>4, FS_Singleton
  <1> DEFINE b == CHOOSE x \in pair : x # a
  <1>6. b \in pair /\ b # a
    BY <1>5
  <1> HIDE DEF b
  <1>7. pair = {a, b}
    BY <1>3, <1>5, <1>6
  <1> QED BY <1>1, <1>3, <1>6, <1>7 DEF a, b

LEMMA TieGroups ==
  ASSUME NEW p \in Parents, NEW r, NEW above, Hangs(p, r, above),
         NEW s, NEW n, \A i \in s \cup {n} : log[i].pair \in Pairs, Groups(r, s)
  PROVE  \E w, climb : Hangs(Tie(p, log[n].pair), w, climb) /\ Groups(w, s \cup {n})
  <1> DEFINE pair == log[n].pair
  <1>1. CASE pair = {}
    <2>1. Tie(p, pair) = p
      BY <1>1 DEF Tie
    <2>2. Groups(r, s \cup {n})
      BY <1>1 DEF Groups, Whole
    <2> QED BY <2>1, <2>2
  <1>2. CASE pair # {}
    <2> DEFINE a == CHOOSE x \in pair : TRUE
               b == CHOOSE x \in pair : x # a
               w == Merged(r, a, b)
    <2>1. a \in Agents /\ b \in Agents /\ pair = {a, b}
      BY <1>2, PairIs
    <2>2. Tie(p, pair) = Unite(p, a, b)
      BY <1>2 DEF Tie
    <2> HIDE DEF a, b, pair
    <2>3. PICK climb : Hangs(Unite(p, a, b), w, climb)
      BY <2>1, UniteMerges
    <2>4. r \in [Agents -> Agents]
      BY DEF Hangs, Parents
    <2>5. \A y \in Agents : w[y] = IF r[y] = r[a] THEN r[b] ELSE r[y]
      BY <2>4 DEF Merged
    <2> HIDE DEF w
    <2>6. ASSUME NEW i \in s \cup {n}, NEW x \in log[i].pair, NEW y \in log[i].pair
          PROVE  w[x] = w[y]
      <3>1. CASE i = n
        <4>1. w[a] = r[b] /\ w[b] = r[b]
          BY <2>1, <2>5
        <4>2. x \in {a, b} /\ y \in {a, b}
          BY <2>1, <3>1 DEF pair
        <4> QED BY <4>1, <4>2
      <3>2. CASE i \in s
        <4>1. r[x] = r[y]
          BY <3>2 DEF Groups
        <4>2. x \in Agents /\ y \in Agents
          BY <3>2 DEF Pairs
        <4> QED BY <2>5, <4>1, <4>2
      <3> QED BY <3>1, <3>2
    <2>7. ASSUME NEW x \in Agents, NEW y \in Agents, w[x] = w[y],
                 NEW c \in SUBSET Agents, Whole(c, s \cup {n}), x \in c
          PROVE  y \in c
      <3>1. Whole(c, s) /\ (a \in c <=> b \in c)
        <4>1. pair \cap c # {} => pair \subseteq c
          BY <2>7 DEF Whole, pair
        <4>2. Whole(c, s)
          BY <2>7 DEF Whole
        <4> QED BY <2>1, <4>1, <4>2
      <3>2. \A u, v \in Agents : r[u] = r[v] /\ u \in c => v \in c
        BY <3>1 DEF Groups
      <3> QED BY <2>1, <2>5, <2>7, <3>1, <3>2
    <2>8. Groups(w, s \cup {n})
      BY <2>6, <2>7 DEF Groups
    <2> QED BY <2>2, <2>3, <2>8 DEF pair
  <1> QED BY <1>1, <1>2

-----------------------------------------------------------------------------
(* The forest, event by event.                                             *)
LEMMA TieTypes ==
  ASSUME NEW p \in Parents, NEW pair \in Pairs
  PROVE  Tie(p, pair) \in Parents
  <1>1. CASE pair = {}
    BY <1>1 DEF Tie
  <1>2. CASE pair # {}
    <2> DEFINE a == CHOOSE x \in pair : TRUE
               b == CHOOSE x \in pair : x # a
    <2>1. a \in Agents /\ b \in Agents
      BY <1>2, PairIs
    <2>2. Tie(p, pair) = Unite(p, a, b)
      BY <1>2 DEF Tie
    <2> HIDE DEF a, b
    <2> QED BY <2>1, <2>2, UniteTypes
  <1> QED BY <1>1, <1>2

LEMMA ForestGrows ==
  ASSUME NEW s \in SUBSET Lines, \A i \in s : log[i].pair \in Pairs
  PROVE  \E g : /\ g[0] = [a \in Agents |-> a] /\ Forest(s) = g[MaxLines]
                /\ \A n \in 0..MaxLines : g[n] \in Parents
                /\ \A n \in Lines : g[n] = IF n \in s THEN Tie(g[n-1], log[n].pair) ELSE g[n-1]
  <1> DEFINE base == [a \in Agents |-> a]
             Grow(n, p) == IF n \in s THEN Tie(p, log[n].pair) ELSE p
             Is(g) == g = [n \in 0..MaxLines |-> IF n = 0 THEN base ELSE Grow(n, g[n-1])]
             step == [t \in (1..MaxLines) \X Parents |-> Grow(t[1], t[2])]
  <1>0. MaxLines \in Nat
    BY NarratorAssumption DEF NarratorAssumption
  <1>1. Forest(s) = (CHOOSE g : Is(g))[MaxLines]
    BY DEF Forest
  <1>2. base \in Parents
    BY DEF Parents
  <1>3. \A n \in 1..MaxLines, p \in Parents : Grow(n, p) \in Parents
    BY TieTypes
  <1>4. step \in [(1..MaxLines) \X Parents -> Parents]
    <2> HIDE DEF Grow
    <2> QED BY <1>3
  <1> HIDE DEF base, Grow
  <1>5. PICK g \in [0..MaxLines -> Parents] : Iterates(MaxLines, base, step, g)
    <2> HIDE DEF step
    <2> QED BY <1>0, <1>2, <1>4, IteratesExist
  <1>6. \A n \in 1..MaxLines : g[n] = Grow(n, g[n-1])
    <2> SUFFICES ASSUME NEW n \in 1..MaxLines PROVE g[n] = Grow(n, g[n-1])
      OBVIOUS
    <2>1. n - 1 \in 0..MaxLines
      BY <1>0
    <2>2. <<n, g[n-1]>> \in (1..MaxLines) \X Parents
      BY <2>1
    <2>3. g[n] = step[<<n, g[n-1]>>]
      BY <1>5 DEF Iterates
    <2> QED BY <2>2, <2>3
  <1>7. g[0] = base
    BY <1>5 DEF Iterates
  <1>8. \E h : Is(h)
    <2>1. \A n \in 0..MaxLines : n = 0 \/ n \in 1..MaxLines
      BY <1>0
    <2>2. g = [n \in 0..MaxLines |-> g[n]]
      BY <1>5
    <2>3. \A n \in 0..MaxLines : g[n] = IF n = 0 THEN base ELSE Grow(n, g[n-1])
      BY <1>6, <1>7, <2>1
    <2>4. Is(g)
      BY <2>2, <2>3, Zenon
    <2> QED BY <2>4
  <1> DEFINE h == CHOOSE f : Is(f)
  <1>9. Is(h)
    BY <1>8
  <1> HIDE DEF h
  <1>10. h[0] = base /\ \A n \in 1..MaxLines : h[n] = Grow(n, h[n-1])
    <2>1. 0 \in 0..MaxLines /\ \A n \in 1..MaxLines : n \in 0..MaxLines /\ n # 0
      BY <1>0
    <2>2. h = [n \in 0..MaxLines |-> IF n = 0 THEN base ELSE Grow(n, h[n-1])]
      BY <1>9
    <2> QED BY <2>1, <2>2, Zenon
  <1> DEFINE Bad == {n \in 0..MaxLines : h[n] \notin Parents}
  <1>11. Bad = {}
    <2> SUFFICES ASSUME Bad # {} PROVE FALSE
      OBVIOUS
    <2>1. PICK k \in Bad : \A j \in Bad : k <= j
      <3>1. Bad \in SUBSET Nat
        BY <1>0
      <3> HIDE DEF Bad
      <3> QED BY <3>1, LeastIndex
    <2>2. k # 0
      BY <1>2, <1>10, <2>1
    <2>3. k \in 1..MaxLines /\ k - 1 \in 0..MaxLines /\ ~ k <= k - 1
      BY <1>0, <2>1, <2>2
    <2>4. h[k-1] \in Parents
      BY <2>1, <2>3
    <2>5. h[k] \in Parents
      BY <1>3, <1>10, <2>3, <2>4
    <2> QED BY <2>1, <2>5
  <1>12. Forest(s) = h[MaxLines]
    BY <1>1 DEF h
  <1> QED BY <1>10, <1>11, <1>12 DEF base, Grow, Lines

LEMMA ForestGroups ==
  ASSUME NEW s \in SUBSET Lines, \A i \in s : log[i].pair \in Pairs
  PROVE  \E r, above : Hangs(Forest(s), r, above) /\ Groups(r, s)
  <1>1. PICK g : /\ g[0] = [a \in Agents |-> a] /\ Forest(s) = g[MaxLines]
                 /\ \A n \in 0..MaxLines : g[n] \in Parents
                 /\ \A n \in Lines : g[n] = IF n \in s THEN Tie(g[n-1], log[n].pair) ELSE g[n-1]
    BY ForestGrows
  <1>0. MaxLines \in Nat
    BY NarratorAssumption DEF NarratorAssumption
  <1> DEFINE Good(n) == \E r, above : Hangs(g[n], r, above) /\ Groups(r, s \cap (1..n))
             Bad == {n \in 0..MaxLines : ~ Good(n)}
  <1>2. Good(0)
    <2> DEFINE id == [a \in Agents |-> a]
               none == [a \in Agents |-> {}]
    <2>1. Hangs(id, id, none)
      BY DEF Hangs, Parents
    <2>2. s \cap (1..0) = {}
      OBVIOUS
    <2>3. Groups(id, {})
      BY DEF Groups
    <2>4. g[0] = id /\ Groups(id, s \cap (1..0))
      BY <1>1, <2>2, <2>3
    <2> QED BY <2>1, <2>4
  <1>3. ASSUME NEW n \in 1..MaxLines, Good(n-1) PROVE Good(n)
    <2>1. PICK r, above : Hangs(g[n-1], r, above) /\ Groups(r, s \cap (1..n-1))
      BY <1>3
    <2>2. 1..n = (1..n-1) \cup {n}
      OBVIOUS
    <2>3. g[n] = IF n \in s THEN Tie(g[n-1], log[n].pair) ELSE g[n-1]
      BY <1>1 DEF Lines
    <2>4. n - 1 \in 0..MaxLines
      BY <1>0
    <2>5. g[n-1] \in Parents
      BY <1>1, <2>4
    <2>6. CASE n \in s
      <3> DEFINE S == s \cap (1..n-1)
      <3>1. S \cup {n} = s \cap (1..n)
        BY <2>2, <2>6
      <3>2. \A i \in S \cup {n} : log[i].pair \in Pairs
        BY <2>6
      <3> HIDE DEF S
      <3>3. \E w, climb : Hangs(Tie(g[n-1], log[n].pair), w, climb) /\ Groups(w, S \cup {n})
        BY <2>1, <2>5, <3>2, TieGroups DEF S
      <3> QED BY <2>3, <2>6, <3>1, <3>3
    <2>7. CASE n \notin s
      <3>1. s \cap (1..n-1) = s \cap (1..n)
        BY <2>2, <2>7
      <3> QED BY <2>1, <2>3, <2>7, <3>1
    <2> QED BY <2>6, <2>7
  <1> HIDE DEF Good
  <1>4. Bad = {}
    <2> SUFFICES ASSUME Bad # {} PROVE FALSE
      OBVIOUS
    <2>1. PICK k \in Bad : \A j \in Bad : k <= j
      <3>1. Bad \in SUBSET Nat
        BY <1>0
      <3> HIDE DEF Bad
      <3> QED BY <3>1, LeastIndex
    <2>2. k # 0
      BY <1>2, <2>1
    <2>3. k \in 1..MaxLines /\ k - 1 \in 0..MaxLines /\ ~ k <= k - 1
      BY <1>0, <2>1, <2>2
    <2>4. Good(k-1)
      BY <2>1, <2>3
    <2> QED BY <1>3, <2>1, <2>3, <2>4
  <1>5. Good(MaxLines)
    <2>1. MaxLines \in 0..MaxLines
      BY <1>0
    <2> QED BY <1>4, <2>1
  <1>6. s \cap (1..MaxLines) = s
    BY DEF Lines
  <1> QED BY <1>1, <1>5, <1>6 DEF Good

-----------------------------------------------------------------------------
(* The chains of deals.                                                    *)
Tied(s) == s \cup UNION {log[i].pair : i \in {j \in global : log[j].pair \cap s # {}}}
Reaches(g) ==
  g = [n \in 0..Cardinality(Agents) |-> [a \in Agents |-> IF n = 0 THEN {a} ELSE Tied(g[n-1][a])]]

LEMMA ComponentsAre ==
  LET component == (CHOOSE g : Reaches(g))[Cardinality(Agents)]
  IN  ClustersAreComponents <=>
        ClusterAgents(global) = {component[a] : a \in {b \in Agents : component[b] # {b}}}
  BY DEF ClustersAreComponents, Reaches, Tied

LEMMA TiedIs ==
  ASSUME \A i \in global : log[i].pair \in Pairs, NEW s \in SUBSET Agents
  PROVE  /\ Tied(s) \in SUBSET Agents /\ s \subseteq Tied(s)
         /\ Tied(s) = s => Whole(s, global)
         /\ \A c \in SUBSET Agents : Whole(c, global) /\ s \subseteq c => Tied(s) \subseteq c
  <1>1. \A i \in global : log[i].pair \in SUBSET Agents
    BY DEF Pairs
  <1>2. \A x : x \in Tied(s) <=> x \in s \/ \E i \in global : log[i].pair \cap s # {} /\ x \in log[i].pair
    BY DEF Tied
  <1>3. Tied(s) \in SUBSET Agents /\ s \subseteq Tied(s)
    BY <1>1, <1>2
  <1>4. Tied(s) = s => Whole(s, global)
    BY <1>2 DEF Whole
  <1>5. ASSUME NEW c \in SUBSET Agents, Whole(c, global), s \subseteq c PROVE Tied(s) \subseteq c
    <2>1. \A i \in global : log[i].pair \cap s # {} => log[i].pair \subseteq c
      BY <1>5 DEF Whole
    <2> QED BY <1>2, <1>5, <2>1
  <1> QED BY <1>3, <1>4, <1>5

(* What chains of as many deals as there are agents reach is whole, and in *)
(* every whole set with the agent.                                         *)
LEMMA ChainsEnd ==
  ASSUME \A i \in global : log[i].pair \in Pairs
  PROVE  \E component :
           /\ component = (CHOOSE g : Reaches(g))[Cardinality(Agents)]
           /\ \A a \in Agents :
                /\ component[a] \in SUBSET Agents /\ a \in component[a] /\ Whole(component[a], global)
                /\ \A c \in SUBSET Agents : Whole(c, global) /\ a \in c => component[a] \subseteq c
  <1> DEFINE N == Cardinality(Agents)
             Sets == [Agents -> SUBSET Agents]
             base == [a \in Agents |-> {a}]
             Further(f) == [a \in Agents |-> Tied(f[a])]
             step == [t \in (1..N) \X Sets |-> Further(t[2])]
  <1>0. N \in Nat
    BY HowMany
  <1>1. base \in Sets
    OBVIOUS
  <1>2. \A f \in Sets : Further(f) \in Sets
    BY TiedIs
  <1>3. step \in [(1..N) \X Sets -> Sets]
    <2>1. \A t \in (1..N) \X Sets : t[2] \in Sets
      OBVIOUS
    <2> HIDE DEF Further, Sets
    <2> QED BY <1>2, <2>1
  <1> HIDE DEF Sets, Further, N, base
  <1>4. PICK g \in [0..N -> Sets] : Iterates(N, base, step, g)
    <2> HIDE DEF step
    <2> QED BY <1>0, <1>1, <1>3, IteratesExist
  <1>5. \A n \in 1..N : g[n] = Further(g[n-1])
    <2> SUFFICES ASSUME NEW n \in 1..N PROVE g[n] = Further(g[n-1])
      OBVIOUS
    <2>1. n - 1 \in 0..N
      BY <1>0
    <2>2. <<n, g[n-1]>> \in (1..N) \X Sets
      BY <2>1
    <2>3. g[n] = step[<<n, g[n-1]>>]
      BY <1>4 DEF Iterates
    <2> QED BY <2>2, <2>3
  <1>6. g[0] = base
    BY <1>4 DEF Iterates
  <1>7. Reaches(g)
    <2>1. g = [n \in 0..N |-> g[n]]
      BY <1>4
    <2>2. \A n \in 0..N : g[n] = [a \in Agents |-> IF n = 0 THEN {a} ELSE Tied(g[n-1][a])]
      <3> SUFFICES ASSUME NEW n \in 0..N
                   PROVE  g[n] = [a \in Agents |-> IF n = 0 THEN {a} ELSE Tied(g[n-1][a])]
        OBVIOUS
      <3>1. CASE n = 0
        BY <1>6, <3>1 DEF base
      <3>2. CASE n # 0
        <4>1. n \in 1..N
          BY <1>0, <3>2
        <4> QED BY <1>5, <3>2, <4>1 DEF Further
      <3> QED BY <3>1, <3>2
    <2>3. g = [n \in 0..N |-> [a \in Agents |-> IF n = 0 THEN {a} ELSE Tied(g[n-1][a])]]
      BY <2>1, <2>2, Zenon
    <2> QED BY <2>3 DEF Reaches, N
  <1> DEFINE h == CHOOSE f : Reaches(f)
  <1>8. Reaches(h)
    BY <1>7
  <1> HIDE DEF h
  <1>9. h[0] = base /\ \A n \in 1..N : h[n] = Further(h[n-1])
    <2>1. 0 \in 0..N /\ \A n \in 1..N : n \in 0..N /\ n # 0
      BY <1>0
    <2>2. h = [n \in 0..N |-> [a \in Agents |-> IF n = 0 THEN {a} ELSE Tied(h[n-1][a])]]
      BY <1>8 DEF Reaches, N
    <2>3. h[0] = base
      BY <2>1, <2>2 DEF base
    <2>4. \A n \in 1..N : h[n] = [a \in Agents |-> Tied(h[n-1][a])]
      BY <2>1, <2>2
    <2> QED BY <2>3, <2>4 DEF Further
  <1>10. ASSUME NEW a \in Agents
         PROVE  /\ h[N][a] \in SUBSET Agents /\ a \in h[N][a] /\ Whole(h[N][a], global)
                /\ \A c \in SUBSET Agents : Whole(c, global) /\ a \in c => h[N][a] \subseteq c
    <2> DEFINE Within(n) ==
                 \A c \in SUBSET Agents : Whole(c, global) /\ a \in c => h[n][a] \subseteq c
               Good(n) == /\ h[n][a] \in SUBSET Agents /\ a \in h[n][a] /\ Within(n)
                          /\ Whole(h[n][a], global) \/ n < Cardinality(h[n][a])
               Bad == {n \in 0..N : ~ Good(n)}
    <2>1. Good(0)
      <3>1. h[0][a] = {a} /\ Cardinality({a}) = 1
        BY <1>9, FS_Singleton DEF base
      <3> QED BY <3>1
    <2>2. ASSUME NEW n \in 1..N, Good(n-1) PROVE Good(n)
      <3> DEFINE s == h[n-1][a]
      <3>1. h[n][a] = Tied(s)
        BY <1>9 DEF Further
      <3>2. s \in SUBSET Agents /\ a \in s /\ Within(n-1)
        BY <2>2
      <3>3. /\ Tied(s) \in SUBSET Agents /\ s \subseteq Tied(s)
            /\ Tied(s) = s => Whole(s, global)
            /\ \A c \in SUBSET Agents : Whole(c, global) /\ s \subseteq c => Tied(s) \subseteq c
        BY <3>2, TiedIs
      <3>4. \A c \in SUBSET Agents : Whole(c, global) /\ a \in c => s \subseteq c
        BY <3>2
      <3>6. Whole(s, global) \/ n - 1 < Cardinality(s)
        BY <2>2
      <3> HIDE DEF s
      <3>5. Within(n)
        BY <3>1, <3>3, <3>4
      <3>7. CASE Whole(s, global)
        <4>1. Tied(s) = s
          BY <3>2, <3>3, <3>7
        <4> QED BY <3>1, <3>2, <3>3, <3>5, <3>7, <4>1
      <3>8. CASE ~ Whole(s, global)
        <4>1. Tied(s) # s
          BY <3>3, <3>8
        <4>2. IsFiniteSet(Tied(s))
          BY <3>3, FS_Subset, NarratorAssumption DEF NarratorAssumption
        <4>3. /\ IsFiniteSet(s) /\ Cardinality(s) <= Cardinality(Tied(s))
              /\ Cardinality(Tied(s)) = Cardinality(s) => Tied(s) = s
          BY <3>3, <4>2, FS_Subset
        <4>4. Cardinality(s) \in Nat /\ Cardinality(Tied(s)) \in Nat
          BY <4>2, <4>3, FS_CardinalityType
        <4>5. n < Cardinality(Tied(s))
          BY <1>0, <3>6, <3>8, <4>1, <4>3, <4>4
        <4> QED BY <3>1, <3>2, <3>3, <3>5, <4>5
      <3> QED BY <3>7, <3>8
    <2> HIDE DEF Good
    <2>3. Bad = {}
      <3> SUFFICES ASSUME Bad # {} PROVE FALSE
        OBVIOUS
      <3>1. PICK k \in Bad : \A j \in Bad : k <= j
        <4>1. Bad \in SUBSET Nat
          BY <1>0
        <4> HIDE DEF Bad
        <4> QED BY <4>1, LeastIndex
      <3>2. k # 0
        BY <2>1, <3>1
      <3>3. k \in 1..N /\ k - 1 \in 0..N /\ ~ k <= k - 1
        BY <1>0, <3>1, <3>2
      <3>4. Good(k-1)
        BY <3>1, <3>3
      <3> QED BY <2>2, <3>1, <3>3, <3>4
    <2>4. Good(N)
      <3>1. N \in 0..N
        BY <1>0
      <3> QED BY <2>3, <3>1
    <2>5. h[N][a] \in SUBSET Agents
      BY <2>4 DEF Good
    <2>6. Cardinality(h[N][a]) \in Nat /\ Cardinality(h[N][a]) <= N
      <3>1. IsFiniteSet(h[N][a]) /\ Cardinality(h[N][a]) <= N
        BY <2>5, FS_Subset, NarratorAssumption DEF NarratorAssumption, N
      <3> QED BY <3>1, FS_CardinalityType
    <2>7. Whole(h[N][a], global)
      BY <1>0, <2>4, <2>6 DEF Good
    <2> QED BY <2>4, <2>7 DEF Good
  <1>11. h[N] = (CHOOSE g_ : Reaches(g_))[Cardinality(Agents)]
    BY DEF h, N
  <1> QED BY <1>10, <1>11

(* Two ways to the same sets: the union-find, and the chains.              *)
LEMMA ClustersTrue ==
  ASSUME global \subseteq Lines, \A i \in global : log[i].pair \in Pairs
  PROVE  ClustersAreComponents
  <1>1. PICK r, above : Hangs(Forest(global), r, above) /\ Groups(r, global)
    BY ForestGroups
  <1>2. PICK component :
          /\ component = (CHOOSE g : Reaches(g))[Cardinality(Agents)]
          /\ \A a \in Agents :
               /\ component[a] \in SUBSET Agents /\ a \in component[a] /\ Whole(component[a], global)
               /\ \A c \in SUBSET Agents : Whole(c, global) /\ a \in c => component[a] \subseteq c
    BY ChainsEnd
  <1> DEFINE tree(a) == {b \in Agents : r[b] = r[a]}
  <1>3. \A a \in Agents : Find(Forest(global), a).x = r[a]
    BY <1>1, FindsRoot DEF Hangs
  <1>4. ASSUME NEW a \in Agents PROVE component[a] = tree(a)
    <2>1. Whole(tree(a), global)
      <3> SUFFICES ASSUME NEW i \in global, NEW x \in log[i].pair \cap tree(a), NEW y \in log[i].pair
                   PROVE  y \in tree(a)
        BY DEF Whole
      <3>1. r[x] = r[y] /\ y \in Agents
        BY <1>1 DEF Groups, Pairs
      <3> QED BY <3>1
    <2>2. component[a] \subseteq tree(a)
      BY <1>2, <2>1
    <2>3. tree(a) \subseteq component[a]
      BY <1>1, <1>2 DEF Groups
    <2> QED BY <2>2, <2>3
  <1>5. ClusterAgents(global) = {c \in {tree(a) : a \in Agents} : Cardinality(c) >= 2}
    <2> DEFINE root == [a \in Agents |-> Find(Forest(global), a).x]
               class(a) == {b \in Agents : root[b] = root[a]}
    <2>1. ClusterAgents(global) = {c \in {class(a) : a \in Agents} : Cardinality(c) >= 2}
      BY DEF ClusterAgents
    <2>2. \A a \in Agents : root[a] = r[a]
      BY <1>3
    <2>3. \A a \in Agents : class(a) = tree(a)
      BY <2>2
    <2> HIDE DEF class, tree
    <2>4. {class(a) : a \in Agents} = {tree(a) : a \in Agents}
      BY <2>3
    <2> QED BY <2>1, <2>4
  <1>6. ASSUME NEW a \in Agents PROVE Cardinality(tree(a)) >= 2 <=> tree(a) # {a}
    <2>1. a \in tree(a) /\ tree(a) \in SUBSET Agents
      OBVIOUS
    <2>2. IsFiniteSet(tree(a))
      BY <2>1, FS_Subset, NarratorAssumption DEF NarratorAssumption
    <2> HIDE DEF tree
    <2>3. Cardinality(tree(a)) \in Nat /\ Cardinality(tree(a)) # 0
      BY <2>1, <2>2, FS_CardinalityType, FS_EmptySet
    <2>4. Cardinality(tree(a)) = 1 <=> tree(a) = {a}
      BY <2>1, <2>2, FS_Singleton
    <2> QED BY <2>3, <2>4
  <1>7. {c \in {tree(a) : a \in Agents} : Cardinality(c) >= 2}
        = {component[a] : a \in {b \in Agents : component[b] # {b}}}
    <2> HIDE DEF tree
    <2> QED BY <1>4, <1>6
  <1> QED BY <1>2, <1>5, <1>7, ComponentsAre

-----------------------------------------------------------------------------
(* The narrator: what is told, and when. *)

(* Whoever writes the file and sends the signals is not modelled: a line   *)
(* is appended to the file, whole or in two halves, and signals come at    *)
(* any time.                                                               *)
FileGrows ==
  /\ FinishLine \/ \E e \in Event : WriteLine(e) \/ BeginLine(e)
  /\ UNCHANGED <<signal, killed, stage, todo, process>>
SignalComes ==
  /\ signal' \in BOOLEAN /\ killed' \in BOOLEAN
  /\ UNCHANGED <<file, stage, todo, process>>
NarratorNext == NarratorStep \/ FileGrows \/ SignalComes

(* What is kept and what was told has been read, and a bucket has events   *)
(* of its agent.                                                           *)
Windows ==
  /\ \A a \in Agents : \A i \in bucket[a] : i <= at /\ log[i].actor = a
  /\ \A i \in global : i <= at
  /\ \A k \in DOMAIN out : \A i \in out[k].events : i <= at

(* A tier runs when it is due, and the first one agent by agent.           *)
TierRuns ==
  /\ stage = 1 => \A c \in todo : \E a \in Agents : c = {a}
  /\ stage \in 1..3 => tick >= next[stage]

(* What a tier has told is a cadence older than its next round, but for    *)
(* what it tells in the round at hand, and after the loop.                 *)
Rounds ==
  \A k \in 1..3 :
    /\ next[k] >= Cadence[k]
    /\ \A i \in Records(k) :
         \/ out[i].tick + Cadence[k] <= next[k]
         \/ stage = k /\ k # 3 /\ out[i].tick = tick /\ out[i].scope \notin todo
         \/ stage \in {Closing, Closed}

Told == Windows /\ TierRuns /\ Rounds /\ ToldOnce /\ NothingSkipped /\ RoundsAreSpaced
NInv == NarratorTypeOK /\ Told

LEMMA NarratorNumbers ==
  /\ MaxLines \in Nat /\ MaxTick \in Nat /\ MaxQwen \in Nat /\ MaxClaude \in Nat
  /\ CapAgent \in Nat \ {0} /\ CapGlobal \in Nat \ {0}
  /\ \A k \in 1..3 : Cadence[k] \in Nat \ {0}
  BY NarratorAssumption DEF NarratorAssumption

(* The latest n of a set: all but older ones, and if there are those, n.   *)
LEMMA LatestIs ==
  ASSUME NEW s \in SUBSET Lines, NEW n \in Nat \ {0}
  PROVE  /\ Latest(s, n) \subseteq s /\ Cardinality(Latest(s, n)) \in Nat
         /\ Cardinality(Latest(s, n)) <= n
         /\ \A i \in s \ Latest(s, n) :
              Cardinality(Latest(s, n)) = n /\ \A j \in Latest(s, n) : i < j
         /\ \A m \in s : (\A j \in s : j <= m) => m \in Latest(s, n)
  <1> DEFINE L == Latest(s, n)
             From(i) == {j \in s : i <= j}
  <1>0. MaxLines \in Nat /\ \A i \in s : i \in 1..MaxLines /\ i \in Nat
    BY NarratorNumbers DEF Lines
  <1>1. IsFiniteSet(s)
    <2>1. IsFiniteSet(1..MaxLines)
      BY <1>0, FS_Interval
    <2> QED BY <1>0, <2>1, FS_Subset DEF Lines
  <1>2. \A t \in SUBSET s : IsFiniteSet(t) /\ Cardinality(t) \in Nat
    BY <1>1, FS_Subset, FS_CardinalityType
  <1>3. \A i : i \in L <=> i \in s /\ Cardinality(From(i)) <= n
    BY DEF Latest
  <1> HIDE DEF L
  <1>4. ASSUME NEW i \in L, NEW j \in s, i <= j PROVE j \in L
    <2>a. i \in s /\ i \in Nat /\ j \in Nat
      BY <1>0, <1>3
    <2>0. \A k \in s : j <= k => i <= k
      BY <1>0, <1>4, <2>a
    <2>1. From(j) \in SUBSET From(i) /\ From(i) \in SUBSET s
      BY <2>0
    <2>2. Cardinality(From(j)) <= Cardinality(From(i))
      BY <1>2, <2>1, FS_Subset
    <2>3. Cardinality(From(j)) \in Nat /\ Cardinality(From(i)) \in Nat
      BY <1>2, <2>1
    <2> QED BY <1>3, <2>2, <2>3
  <1>5. L \subseteq s /\ Cardinality(L) \in Nat
    BY <1>2, <1>3
  <1>6. Cardinality(L) <= n
    <2>1. CASE L = {}
      BY <2>1, FS_EmptySet
    <2>2. CASE L # {}
      <3>1. PICK m \in L : \A k \in L : m <= k
        BY <1>0, <1>5, <2>2, LeastIndex
      <3>2. L = From(m)
        BY <1>4, <1>5, <3>1
      <3> QED BY <1>3, <3>1, <3>2
    <2> QED BY <2>1, <2>2
  <1>7. \A i \in s \ L : \A j \in L : i < j
    <2> SUFFICES ASSUME NEW i \in s \ L, NEW j \in L PROVE i < j
      OBVIOUS
    <2>1. ~ j <= i
      BY <1>4
    <2> QED BY <1>0, <1>5, <2>1
  <1>8. ASSUME NEW x \in s \ L PROVE Cardinality(L) = n
    <2> DEFINE Gaps == {MaxLines - i : i \in s \ L}
    <2>1. Gaps \in SUBSET Nat /\ Gaps # {}
      BY <1>0
    <2>2. PICK g \in Gaps : \A h \in Gaps : g <= h
      <3> HIDE DEF Gaps
      <3> QED BY <2>1, LeastIndex
    <2>3. PICK i \in s \ L : g = MaxLines - i
      BY <2>2
    <2>4. \A j \in s \ L : j <= i
      <3> SUFFICES ASSUME NEW j \in s \ L PROVE j <= i
        OBVIOUS
      <3>1. MaxLines - i <= MaxLines - j
        BY <2>2, <2>3
      <3> QED BY <1>0, <3>1
    <2>5. From(i) = L \cup {i}
      <3>1. \A j \in s : i <= j => j \in L \/ j = i
        BY <1>0, <2>4
      <3>2. \A j \in L : i <= j /\ j \in s
        BY <1>0, <1>5, <1>7
      <3> QED BY <1>0, <3>1, <3>2
    <2>6. Cardinality(L \cup {i}) = Cardinality(L) + 1
      BY <1>2, <1>5, FS_AddElement
    <2>7. ~ Cardinality(L) + 1 <= n
      BY <1>3, <2>5, <2>6
    <2> QED BY <1>5, <1>6, <2>7
  <1>9. ASSUME NEW m \in s, \A j \in s : j <= m PROVE m \in L
    <2>1. From(m) = {m}
      <3>1. \A j \in s : m <= j <=> j = m
        BY <1>0, <1>9
      <3> QED BY <3>1
    <2>2. Cardinality(From(m)) = 1
      BY <2>1, FS_Singleton
    <2> QED BY <1>3, <2>2
  <1> QED BY <1>5, <1>6, <1>7, <1>8, <1>9 DEF L

(* Which tier is next, and what it has to do.                              *)
LEMMA DueIs ==
  ASSUME NarratorTypeOK, NEW t \in Int, NEW k \in 1..4
  PROVE  Due(t, k) = Following \/ (Due(t, k) \in k..3 /\ t >= next[Due(t, k)])
  <1> DEFINE Ripe == {n \in k..3 : t >= next[n]}
  <1>1. CASE Ripe = {}
    BY <1>1 DEF Due
  <1>2. CASE Ripe # {}
    <2>1. PICK m \in Ripe : \A j \in Ripe : m <= j
      <3>1. Ripe \in SUBSET Nat
        OBVIOUS
      <3> HIDE DEF Ripe
      <3> QED BY <1>2, <3>1, LeastIndex
    <2>2. \A j \in k..m-1 : t < next[j]
      <3> SUFFICES ASSUME NEW j \in k..m-1 PROVE t < next[j]
        OBVIOUS
      <3>1. j \in k..3 /\ j \in 1..3 /\ ~ m <= j
        BY <2>1
      <3>2. next[j] \in Nat /\ ~ t >= next[j]
        BY <2>1, <3>1 DEF NarratorTypeOK
      <3> QED BY <3>2
    <2>3. Due(t, k) = CHOOSE n \in k..3 : t >= next[n] /\ \A j \in k..n-1 : t < next[j]
      BY <1>2 DEF Due
    <2>4. \E n \in k..3 : t >= next[n] /\ \A j \in k..n-1 : t < next[j]
      BY <2>1, <2>2
    <2> QED BY <2>3, <2>4
  <1> QED BY <1>1, <1>2

LEMMA WorkIs ==
  ASSUME NEW k \in Int, NEW b, NEW g
  PROVE  /\ Work(k, b, g) \subseteq SUBSET Agents
         /\ k = 1 => \A c \in Work(k, b, g) : \E a \in Agents : c = {a}
  <1>1. ClusterAgents(g) \subseteq SUBSET Agents
    BY DEF ClusterAgents
  <1>2. CASE k = 1
    BY <1>2 DEF Work
  <1>3. CASE k = 2
    BY <1>1, <1>3 DEF Work
  <1>4. CASE k # 1 /\ k # 2
    BY <1>4 DEF Work
  <1> QED BY <1>2, <1>3, <1>4

(* A call of a model is counted within its budget.                         *)
LEMMA CountedIs ==
  ASSUME NarratorTypeOK, NEW m \in Models, NEW a \in Answers(m) \cup {"nothing"}, Counted(m, a)
  PROVE  calls' \in [Models -> Nat] /\ calls'["qwen"] <= MaxQwen /\ calls'["claude"] <= MaxClaude
  <1>1. calls \in [Models -> Nat] /\ calls["qwen"] <= MaxQwen /\ calls["claude"] <= MaxClaude
    BY DEF NarratorTypeOK
  <1>2. CASE calls' = calls
    BY <1>1, <1>2
  <1>3. CASE calls' # calls
    <2>1. calls' = [calls EXCEPT ![m] = @ + 1] /\ a # "skipped" /\ a # "nothing"
      BY <1>3 DEF Counted, Models
    <2>2. ~ Refused(m)
      BY <2>1 DEF Answers
    <2>3. calls[m] < Budget[m] /\ calls[m] + 1 \in Nat
      BY <1>1, <2>2, NarratorNumbers DEF Refused, Budget, Models
    <2> QED BY <1>1, <2>1, <2>3, NarratorNumbers DEF Budget, Models
  <1> QED BY <1>2, <1>3

-----------------------------------------------------------------------------
(* A record more. *)

LEMMA RecordAdded ==
  ASSUME NarratorTypeOK, NEW r \in Record, out' = Append(out, r)
  PROVE  /\ out' \in Seq(Record) /\ Len(out) \in Nat
         /\ DOMAIN out = 1..Len(out) /\ DOMAIN out' = 1..Len(out)+1
         /\ (\A i \in DOMAIN out : out'[i] = out[i]) /\ out'[Len(out)+1] = r
         /\ \A k : Records(k)' = Records(k) \cup (IF r.level = k THEN {Len(out)+1} ELSE {})
         /\ \A k : r.level # k => Records(k)' = Records(k)
  <1>1. out \in Seq(Record)
    BY DEF NarratorTypeOK
  <1>2. /\ out' \in Seq(Record) /\ Len(out) \in Nat
        /\ DOMAIN out = 1..Len(out) /\ DOMAIN out' = 1..Len(out)+1
        /\ \A i \in DOMAIN out : out'[i] = out[i]
        /\ out'[Len(out)+1] = r
    BY <1>1
  <1>3. ASSUME NEW k PROVE Records(k)' = Records(k) \cup (IF r.level = k THEN {Len(out)+1} ELSE {})
    <2>1. Records(k)' = {i \in 1..Len(out)+1 : out'[i].level = k}
      BY <1>2 DEF Records
    <2>2. \A i : i \in 1..Len(out)+1 <=> i \in 1..Len(out) \/ i = Len(out)+1
      BY <1>2
    <2>3. \A i \in 1..Len(out) : out'[i] = out[i]
      BY <1>2
    <2> QED BY <1>2, <2>1, <2>2, <2>3 DEF Records
  <1>4. ASSUME NEW k, r.level # k PROVE Records(k)' = Records(k)
    BY <1>3, <1>4
  <1> QED BY <1>2, <1>3, <1>4

LEMMA RecordTypes ==
  ASSUME NarratorTypeOK, NEW k
  PROVE  \A i \in Records(k) : i \in Nat /\ i <= Len(out) /\ i \in DOMAIN out /\ out[i] \in Record
                               /\ out[i].tick \in 0..MaxTick /\ out[i].tick \in Nat
  <1>1. out \in Seq(Record)
    BY DEF NarratorTypeOK
  <1>2. \A i \in DOMAIN out : i \in Nat /\ i <= Len(out) /\ out[i] \in Record
    BY <1>1
  <1> QED BY <1>2, NarratorNumbers DEF Records, Record

(* A tier that is due and tells of somebody of whom it has not told in     *)
(* this round is a cadence after the last time.                            *)
LEMMA TellingIsSpaced ==
  ASSUME NarratorTypeOK, Told, NEW r \in Record, out' = Append(out, r), r.tick = tick,
         r.level \in 1..3 => stage = r.level /\ (r.level = 3 \/ r.scope \in todo)
  PROVE  RoundsAreSpaced'
  <1> DEFINE m == Len(out) + 1
  <1>0. /\ tick \in Nat /\ \A k \in 1..3 : next[k] \in Nat /\ Cadence[k] \in Nat
        /\ \A k \in 1..3 : \A i \in Records(k) : out[i].tick \in Nat
    <2>1. tick \in Nat /\ next \in [1..3 -> Nat]
      BY NarratorNumbers DEF NarratorTypeOK
    <2>2. \A k \in 1..3 : \A i \in Records(k) : out[i].tick \in Nat
      BY RecordTypes
    <2> QED BY <2>1, <2>2, NarratorNumbers
  <1>1. /\ Len(out) \in Nat /\ DOMAIN out = 1..Len(out)
        /\ \A i \in DOMAIN out : out'[i] = out[i]
        /\ out'[m] = r
        /\ \A k : Records(k)' = Records(k) \cup (IF r.level = k THEN {m} ELSE {})
    BY RecordAdded
  <1>2. \A k \in 1..3 : \A i \in Records(k) : i \in 1..Len(out) /\ i < m /\ out'[i] = out[i]
    BY <1>1, RecordTypes
  <1>3. ASSUME NEW k \in 1..3, r.level = k
        PROVE  /\ r.tick >= Cadence[k]
               /\ \A i \in Records(k) : out[i].scope = r.scope => r.tick >= out[i].tick + Cadence[k]
    <2>1. tick >= next[k] /\ next[k] >= Cadence[k] /\ stage = k
      BY <1>3 DEF Told, TierRuns, Rounds
    <2>2. tick >= Cadence[k]
      BY <1>0, <2>1
    <2>3. ASSUME NEW i \in Records(k), out[i].scope = r.scope
          PROVE  out[i].tick + Cadence[k] <= next[k]
      BY <1>3, <2>1, <2>3 DEF Told, Rounds, Closing, Closed
    <2>4. ASSUME NEW i \in Records(k), out[i].scope = r.scope PROVE tick >= out[i].tick + Cadence[k]
      <3>1. /\ out[i].tick + Cadence[k] <= next[k] /\ tick >= next[k]
            /\ tick \in Nat /\ next[k] \in Nat /\ out[i].tick \in Nat /\ Cadence[k] \in Nat
        BY <1>0, <2>1, <2>3, <2>4
      <3> QED BY <3>1
    <2> QED BY <2>2, <2>4
  <1> HIDE DEF m
  <1>4. ASSUME NEW k \in 1..3, NEW i \in Records(k)', NEW j \in Records(k)'
        PROVE  /\ out'[i].tick >= Cadence[k]
               /\ i < j /\ out'[i].scope = out'[j].scope => out'[j].tick >= out'[i].tick + Cadence[k]
    <2>1. /\ i \in Records(k) \/ (i = m /\ r.level = k)
          /\ j \in Records(k) \/ (j = m /\ r.level = k)
      BY <1>1
    <2>2. CASE i \in Records(k) /\ j \in Records(k)
      BY <1>2, <2>2 DEF Told, RoundsAreSpaced
    <2>3. CASE i \in Records(k) /\ j = m /\ r.level = k
      <3>1. out'[i] = out[i] /\ out'[j] = r
        BY <1>1, <1>2, <2>3
      <3>2. out[i].tick >= Cadence[k]
        BY <2>3 DEF Told, RoundsAreSpaced
      <3>3. out[i].scope = r.scope => r.tick >= out[i].tick + Cadence[k]
        BY <1>3, <2>3
      <3> QED BY <3>1, <3>2, <3>3
    <2>4. CASE i = m /\ r.level = k
      <3>1. ~ i < j
        BY <1>1, <1>2, <2>1, <2>4 DEF m
      <3> QED BY <1>1, <1>3, <2>4, <3>1
    <2> QED BY <2>1, <2>2, <2>3, <2>4
  <1> QED BY <1>4 DEF RoundsAreSpaced

(* Reading on, waiting and ending change nothing that was told.            *)
LEMMA QuietKeeps ==
  ASSUME NarratorTypeOK, Told, UNCHANGED <<bucket, global, out, failed, next, tick>>,
         (stage' = stage /\ todo' = todo) \/ (stage = Following /\ stage' \in {Following, Closing}),
         (at' = at /\ missed' = missed) \/ (at' = at + 1 /\ missed' = missed \cup {at'}),
         Len(log) <= Len(log'), \A i \in 1..Len(log) : log'[i] = log[i]
  PROVE  Told'
  <1>0. at \in Nat /\ Len(log) \in Nat /\ at <= Len(log)
    BY DEF NarratorTypeOK
  <1>1. at <= at' /\ at' \in Nat
    BY <1>0
  <1>2. \A i \in 1..at : i \in 1..Len(log) /\ log'[i] = log[i]
    BY <1>0
  <1>3. \A i \in Lines : i <= at => i \in 1..at /\ i <= at' /\ i \in Nat
    BY <1>0, <1>1, NarratorNumbers DEF Lines
  <1>4. /\ \A a \in Agents : \A i \in bucket[a] : i \in Lines
        /\ \A i \in global : i \in Lines
        /\ \A k \in DOMAIN out : \A i \in out[k].events : i \in Lines
    <2>1. \A k \in DOMAIN out : out[k] \in Record
      BY DEF NarratorTypeOK
    <2> QED BY <2>1 DEF NarratorTypeOK, Record
  <1>5. Windows'
    BY <1>2, <1>3, <1>4 DEF Told, Windows
  <1>6. TierRuns'
    <2>1. CASE stage' = stage /\ todo' = todo
      BY <2>1 DEF Told, TierRuns
    <2>2. CASE stage' \in {Following, Closing}
      BY <2>2 DEF TierRuns, Following, Closing
    <2> QED BY <2>1, <2>2
  <1>7. Rounds'
    <2>1. CASE stage' = stage /\ todo' = todo
      BY <2>1 DEF Told, Rounds, Records
    <2>2. CASE stage = Following
      BY <2>2 DEF Told, Rounds, Records, Following, Closing, Closed
    <2> QED BY <2>1, <2>2
  <1>8. ToldOnce' /\ RoundsAreSpaced'
    BY DEF Told, ToldOnce, RoundsAreSpaced, Records
  <1>9. NothingSkipped'
    <2>1. \A a \in Agents : TakenIn(a)' \subseteq TakenIn(a)
      <3> SUFFICES ASSUME NEW a \in Agents, NEW i \in TakenIn(a)' PROVE i \in TakenIn(a)
        OBVIOUS
      <3>1. i \in 1..at' /\ i \notin missed' /\ ~ log'[i].skip /\ log'[i].actor = a
        BY DEF TakenIn
      <3>2. i \in 1..at /\ i \notin missed
        BY <1>0, <3>1
      <3> QED BY <1>2, <3>1, <3>2 DEF TakenIn
    <2>2. NothingSkipped /\ UNCHANGED <<bucket, out>>
      BY DEF Told
    <2>3. UNCHANGED Records(1)
      BY <2>2 DEF Records
    <2> SUFFICES ASSUME ~ failed, NEW a \in Agents, NEW i \in TakenIn(a)'
                 PROVE  \E w \in {bucket'[a]}
                                  \cup {out'[k].events : k \in {r \in Records(1)' : out'[r].scope = {a}}} :
                          i \in w \/ (Cardinality(w) = CapAgent /\ \A j \in w : i < j)
      BY DEF NothingSkipped
    <2> DEFINE W == {bucket[a]} \cup {out[k].events : k \in {r \in Records(1) : out[r].scope = {a}}}
    <2>4. {bucket'[a]} \cup {out'[k].events : k \in {r \in Records(1)' : out'[r].scope = {a}}} = W
      BY <2>2, <2>3
    <2>5. \E w \in W : i \in w \/ (Cardinality(w) = CapAgent /\ \A j \in w : i < j)
      BY <2>1, <2>2 DEF NothingSkipped
    <2> HIDE DEF W
    <2> QED BY <2>4, <2>5
  <1> QED BY <1>5, <1>6, <1>7, <1>8, <1>9 DEF Told

-----------------------------------------------------------------------------
(* An event is taken in.                                                   *)
LEMMA TakeKeeps == NarratorTypeOK /\ Told /\ Take => Told'
  <1> SUFFICES ASSUME NarratorTypeOK, Told, Take PROVE Told'
    OBVIOUS
  <1> DEFINE m == at + 1
             e == log[m]
  <1>0. /\ at \in Nat /\ Len(log) \in Nat /\ m <= Len(log) /\ m \in Lines /\ m \in 1..Len(log)
        /\ at' = m /\ log' = log /\ tick' = e.tick /\ MaxLines \in Nat
    <2>1. at \in 0..Len(log) /\ Len(log) \in Nat /\ Len(log) <= MaxLines
      BY DEF NarratorTypeOK
    <2>2. at < Finished /\ at' = m /\ log' = log /\ tick' = log[at'].tick
      BY DEF Take, file
    <2>3. m <= Len(log)
      BY <2>1, <2>2 DEF Finished
    <2> QED BY <2>1, <2>2, <2>3, NarratorNumbers DEF Lines
  <1>1. /\ bucket \in [Agents -> SUBSET Lines] /\ global \in SUBSET Lines
        /\ \A i \in Lines : i \in Nat /\ (i <= at => i < m /\ i <= m /\ i \in 1..at /\ i # m)
        /\ \A k \in DOMAIN out : out[k].events \in SUBSET Lines
    <2>1. \A k \in DOMAIN out : out[k] \in Record
      BY DEF NarratorTypeOK
    <2>2. \A k \in DOMAIN out : out[k].events \in SUBSET Lines
      BY <2>1 DEF Record
    <2>3. bucket \in [Agents -> SUBSET Lines] /\ global \in SUBSET Lines
      BY DEF NarratorTypeOK
    <2>4. \A i \in Lines : i \in Nat /\ (i <= at => i < m /\ i <= m /\ i \in 1..at /\ i # m)
      BY <1>0 DEF Lines
    <2> QED BY <2>2, <2>3, <2>4
  <1>2. e \in Event /\ e.actor \in Agents \cup {NoAgent} /\ e.tick \in Int
    <2>1. log \in Seq(Event)
      BY DEF NarratorTypeOK
    <2>2. e \in Event
      BY <1>0, <2>1
    <2> QED BY <2>2, NarratorNumbers DEF Event
  <1>3. /\ stage = Following /\ UNCHANGED <<next, out, failed, missed>>
        /\ Ingest(m) /\ stage' = Due(e.tick, 1) /\ todo' = Work(stage', bucket', global')
    BY <1>0 DEF Take
  <1> HIDE DEF m
  <1> DEFINE S(a) == bucket[a] \cup {m}
  <1>4. ASSUME NEW a \in Agents
        PROVE  \/ bucket'[a] = bucket[a] /\ (e.skip \/ e.actor # a)
               \/ bucket'[a] = Latest(S(a), CapAgent) /\ ~ e.skip /\ e.actor = a
    BY <1>1, <1>3, NarratorAssumption DEF Ingest, NarratorAssumption
  <1>5. global' = global \/ global' = Latest(global \cup {m}, CapGlobal)
    BY <1>3 DEF Ingest
  <1>6. \A a \in Agents : S(a) \in SUBSET Lines
    BY <1>0, <1>1
  <1>7. global \cup {m} \in SUBSET Lines
    BY <1>0, <1>1
  <1>8. /\ \A a \in Agents : bucket'[a] \subseteq S(a)
        /\ \A a \in Agents : m \in bucket'[a] => m \in bucket[a] \/ e.actor = a
        /\ global' \subseteq global \cup {m}
    <2>1. \A a \in Agents : Latest(S(a), CapAgent) \subseteq S(a)
      BY <1>6, LatestIs, NarratorNumbers
    <2>2. Latest(global \cup {m}, CapGlobal) \subseteq global \cup {m}
      BY <1>7, LatestIs, NarratorNumbers
    <2> HIDE DEF S
    <2>3. \A a \in Agents : bucket'[a] \subseteq S(a)
      BY <1>4, <2>1 DEF S
    <2> QED BY <1>4, <1>5, <2>2, <2>3
  <1>9. Windows'
    <2>1. ASSUME NEW a \in Agents, NEW i \in bucket'[a] PROVE i <= at' /\ log'[i].actor = a
      <3>1. CASE i \in bucket[a]
        BY <1>0, <1>1, <3>1 DEF Told, Windows
      <3>2. CASE i \notin bucket[a]
        BY <1>0, <1>1, <1>8, <3>2 DEF m
      <3> QED BY <3>1, <3>2
    <2>2. \A i \in global' : i <= at'
      BY <1>0, <1>1, <1>8 DEF Told, Windows, m
    <2>3. \A k \in DOMAIN out' : \A i \in out'[k].events : i <= at'
      BY <1>0, <1>1, <1>3 DEF Told, Windows
    <2> QED BY <2>1, <2>2, <2>3 DEF Windows
  <1>10. stage' \in 0..3 /\ (stage' # Following => e.tick >= next[stage'])
    BY <1>2, <1>3, DueIs DEF Following
  <1>11. TierRuns'
    <2>1. stage' \in 1..3 => tick' >= next'[stage']
      BY <1>0, <1>3, <1>10 DEF Following
    <2>2. stage' = 1 => \A c \in todo' : \E a \in Agents : c = {a}
      BY <1>3, <1>10, WorkIs
    <2> QED BY <2>1, <2>2 DEF TierRuns
  <1>12. Rounds'
    <2>1. \A k : Records(k)' = Records(k)
      BY <1>3 DEF Records
    <2> QED BY <1>3, <2>1 DEF Told, Rounds, Following, Closing, Closed
  <1>13. ToldOnce'
    <2>1. \A k : Records(k)' = Records(k) /\ Records(k) \subseteq DOMAIN out
      BY <1>3 DEF Records
    <2>2. \A k \in DOMAIN out : m \notin out[k].events
      BY <1>0, <1>1 DEF Told, Windows, m
    <2>3. \A a \in Agents : \A i \in Records(1) : bucket'[a] \cap out[i].events = {}
      <3> SUFFICES ASSUME NEW a \in Agents, NEW i \in Records(1) PROVE bucket'[a] \cap out[i].events = {}
        OBVIOUS
      <3>1. bucket[a] \cap out[i].events = {} /\ m \notin out[i].events
        BY <2>1, <2>2 DEF Told, ToldOnce
      <3> QED BY <1>8, <3>1
    <2>4. \A i \in Records(3) : global' \cap out[i].events = {}
      BY <1>8, <2>1, <2>2 DEF Told, ToldOnce
    <2>5. \A k \in {1, 3} : \A i, j \in Records(k) : i # j => out[i].events \cap out[j].events = {}
      BY DEF Told, ToldOnce
    <2> HIDE DEF S
    <2> QED BY <1>3, <2>1, <2>3, <2>4, <2>5 DEF ToldOnce
  <1>14. RoundsAreSpaced'
    BY <1>3 DEF Told, RoundsAreSpaced, Records
  <1>15. NothingSkipped'
    <2> SUFFICES ASSUME ~ failed, NEW a \in Agents, NEW i \in TakenIn(a)'
                 PROVE  \/ \E w \in {bucket'[a]} :
                             i \in w \/ (Cardinality(w) = CapAgent /\ \A j \in w : i < j)
                        \/ \E k \in Records(1) : out[k].scope = {a} /\
                             (i \in out[k].events \/ (Cardinality(out[k].events) = CapAgent
                                                      /\ \A j \in out[k].events : i < j))
      <3>1. Records(1)' = Records(1) /\ out' = out /\ failed' = failed
        BY <1>3 DEF Records
      <3> QED BY <3>1 DEF NothingSkipped
    <2>1. i \in 1..m /\ ~ log[i].skip /\ log[i].actor = a /\ i \notin missed
      BY <1>0, <1>3 DEF TakenIn
    <2>2. CASE i = m
      <3>1. bucket'[a] = Latest(S(a), CapAgent)
        BY <1>4, <2>1, <2>2
      <3>2. m \in S(a) /\ \A j \in S(a) : j <= m
        BY <1>0, <1>1 DEF Told, Windows, m
      <3>3. m \in Latest(S(a), CapAgent)
        BY <1>6, <3>2, LatestIs, NarratorNumbers
      <3> QED BY <2>2, <3>1, <3>3
    <2>3. CASE i # m
      <3>1. i \in TakenIn(a)
        <4>1. i \in 1..at
          BY <1>0, <2>1, <2>3 DEF m
        <4> QED BY <2>1, <4>1 DEF TakenIn
      <3>2. \/ i \in bucket[a] \/ (Cardinality(bucket[a]) = CapAgent /\ \A j \in bucket[a] : i < j)
            \/ \E k \in Records(1) : out[k].scope = {a} /\
                 (i \in out[k].events \/ (Cardinality(out[k].events) = CapAgent
                                          /\ \A j \in out[k].events : i < j))
        BY <3>1 DEF Told, NothingSkipped
      <3>3. CASE i \in bucket[a]
        <4>1. CASE bucket'[a] = bucket[a]
          BY <3>3, <4>1
        <4>2. CASE bucket'[a] = Latest(S(a), CapAgent)
          <5>1. i \in S(a) /\ S(a) \in SUBSET Lines
            BY <1>6, <3>3
          <5> HIDE DEF S
          <5>2. i \in bucket'[a] \/ (Cardinality(bucket'[a]) = CapAgent /\ \A j \in bucket'[a] : i < j)
            BY <4>2, <5>1, LatestIs, NarratorNumbers
          <5> QED BY <5>2
        <4> QED BY <1>4, <4>1, <4>2
      <3>4. CASE Cardinality(bucket[a]) = CapAgent /\ \A j \in bucket[a] : i < j
        <4>1. CASE bucket'[a] = bucket[a]
          BY <3>4, <4>1
        <4>2. CASE bucket'[a] = Latest(S(a), CapAgent)
          <5>1. \A j \in S(a) : i < j
            BY <1>0, <2>1, <2>3, <3>4 DEF m
          <5>2. bucket'[a] \subseteq S(a) /\ Cardinality(bucket'[a]) \in Nat
            BY <1>6, <4>2, LatestIs, NarratorNumbers
          <5>3. Cardinality(bucket'[a]) = CapAgent
            <6>1. CASE bucket'[a] = S(a)
              <7>1. IsFiniteSet(bucket[a]) /\ m \notin bucket[a]
                <8>1. IsFiniteSet(Lines)
                  BY <1>0, FS_Interval DEF Lines
                <8>2. bucket[a] \in SUBSET Lines
                  BY <1>1
                <8>3. m \notin bucket[a]
                  BY <1>1 DEF Told, Windows
                <8> QED BY <8>1, <8>2, <8>3, FS_Subset
              <7>2. Cardinality(S(a)) = CapAgent + 1
                BY <3>4, <7>1, FS_AddElement
              <7>3. Cardinality(S(a)) <= CapAgent
                BY <1>6, <4>2, <6>1, LatestIs, NarratorNumbers
              <7> QED BY <7>2, <7>3, NarratorNumbers
            <6>2. CASE bucket'[a] # S(a)
              <7>1. \E j \in S(a) : j \notin bucket'[a]
                BY <5>2, <6>2
              <7> QED BY <1>6, <4>2, <7>1, LatestIs, NarratorNumbers
            <6> QED BY <6>1, <6>2
          <5> HIDE DEF S
          <5>4. \A j \in bucket'[a] : i < j
            BY <5>1, <5>2
          <5> QED BY <5>3, <5>4
        <4> QED BY <1>4, <4>1, <4>2
      <3> QED BY <3>2, <3>3, <3>4
    <2> QED BY <2>2, <2>3
  <1> QED BY <1>9, <1>11, <1>12, <1>13, <1>14, <1>15 DEF Told

-----------------------------------------------------------------------------
(* The tiers tell. *)

Rec(level, scope, shown, a) ==
  [level |-> level, tick |-> tick, scope |-> scope, events |-> shown, by |-> a]

LEMMA EmitIs ==
  ASSUME NarratorTypeOK, NEW level \in 1..4, NEW scope \in SUBSET Agents, NEW shown \in SUBSET Lines,
         NEW m \in Models, NEW a \in Answers(m), Emit(level, scope, shown, a)
  PROVE  \/ out' = out /\ failed' = TRUE /\ a = "exception"
         \/ /\ Rec(level, scope, shown, a) \in Record /\ out' = Append(out, Rec(level, scope, shown, a))
            /\ failed' = failed /\ a # "exception"
  <1>1. tick \in 0..MaxTick /\ failed \in BOOLEAN
    BY DEF NarratorTypeOK
  <1>2. CASE a = "exception"
    <2>1. out' = out /\ failed' = TRUE
      BY <1>2, Zenon DEF Emit
    <2> QED BY <1>2, <2>1
  <1>3. CASE a # "exception"
    <2>1. a \in Models \cup {"stub", "skipped"}
      BY <1>3 DEF Answers, Models, Unavailable
    <2>2. Rec(level, scope, shown, a) \in Record
      BY <1>1, <2>1 DEF Rec, Record
    <2>3. out' = Append(out, Rec(level, scope, shown, a)) /\ failed' = failed
      BY <1>1, <1>3, Zenon DEF Emit, Rec
    <2> QED BY <1>3, <2>2, <2>3
  <1> QED BY <1>2, <1>3

(* Of a tier that tells agent by agent or cluster by cluster.              *)
LEMMA RoundGoesOn ==
  ASSUME NarratorTypeOK, Told, UNCHANGED <<next, tick>>, NEW k \in {1, 2}, stage = k,
         NEW c \in todo, c \notin todo', todo' \subseteq todo, stage' \in {stage, Closing},
         out' = out \/ \E r \in Record : /\ out' = Append(out, r) /\ r.level = k /\ r.scope = c
                                         /\ r.tick = tick
  PROVE  TierRuns' /\ Rounds' /\ RoundsAreSpaced'
  <1>1. TierRuns'
    BY DEF Told, TierRuns, Closing
  <1>2. CASE out' = out
    <2>1. \A n : Records(n)' = Records(n)
      BY <1>2 DEF Records
    <2>2. Rounds'
      <3>1. \A n \in 1..3 : next[n] >= Cadence[n]
        BY DEF Told, Rounds
      <3>2. ASSUME NEW n \in 1..3, NEW i \in Records(n)
            PROVE  \/ out[i].tick + Cadence[n] <= next[n]
                   \/ stage' = n /\ n # 3 /\ out[i].tick = tick /\ out[i].scope \notin todo'
                   \/ stage' \in {Closing, Closed}
        BY DEF Told, Rounds, Closing, Closed
      <3> QED BY <1>2, <2>1, <3>1, <3>2 DEF Rounds
    <2>3. RoundsAreSpaced'
      BY <1>2, <2>1 DEF Told, RoundsAreSpaced
    <2> QED BY <1>1, <2>2, <2>3
  <1>3. ASSUME NEW r \in Record, out' = Append(out, r), r.level = k, r.scope = c, r.tick = tick
        PROVE  Rounds' /\ RoundsAreSpaced'
    <2>1. RoundsAreSpaced'
      BY <1>3, TellingIsSpaced
    <2>2. /\ \A i \in DOMAIN out : out'[i] = out[i]
          /\ out'[Len(out)+1] = r
          /\ \A n : Records(n)' = Records(n) \cup (IF r.level = n THEN {Len(out)+1} ELSE {})
      BY <1>3, RecordAdded
    <2>3. \A n \in 1..3 : next[n] >= Cadence[n]
      BY DEF Told, Rounds
    <2>4. ASSUME NEW n \in 1..3, NEW i \in Records(n)'
          PROVE  \/ out'[i].tick + Cadence[n] <= next[n]
                 \/ stage' = n /\ n # 3 /\ out'[i].tick = tick /\ out'[i].scope \notin todo'
                 \/ stage' \in {Closing, Closed}
      <3>1. CASE i \in Records(n)
        <4>1. out'[i] = out[i]
          BY <2>2, <3>1 DEF Records
        <4> QED BY <3>1, <4>1 DEF Told, Rounds, Closing, Closed
      <3>2. CASE i \notin Records(n)
        <4>1. r.level = n /\ out'[i] = r
          BY <2>2, <3>2
        <4> QED BY <1>3, <4>1 DEF Closing, Closed
      <3> QED BY <3>1, <3>2
    <2>5. Rounds'
      BY <2>3, <2>4 DEF Rounds
    <2> QED BY <2>1, <2>5
  <1> QED BY <1>1, <1>2, <1>3

(* NothingSkipped, with the two kinds of windows apart.                    *)
Covers(w, i) == i \in w \/ (Cardinality(w) = CapAgent /\ \A j \in w : i < j)

LEMMA SkippedThen ==
  NothingSkipped' <=>
    failed' \/ \A a \in Agents : \A i \in TakenIn(a)' :
      \/ Covers(bucket'[a], i)
      \/ \E k \in Records(1)' : out'[k].scope = {a} /\ Covers(out'[k].events, i)
  <1>1. \A a, i :
          (\E w \in {bucket'[a]} \cup {out'[k].events : k \in {r \in Records(1)' : out'[r].scope = {a}}} :
             Covers(w, i)) <=>
          \/ Covers(bucket'[a], i)
          \/ \E k \in Records(1)' : out'[k].scope = {a} /\ Covers(out'[k].events, i)
    OBVIOUS
  <1> QED BY <1>1 DEF NothingSkipped, Covers

LEMMA L1Keeps == NarratorTypeOK /\ Told /\ L1 => Told'
  <1> SUFFICES ASSUME NarratorTypeOK, Told, L1 PROVE Told'
    OBVIOUS
  <1>1. PICK c \in todo, answer \in Answers("qwen") : \E a \in c :
          /\ Emit(1, c, bucket[a], answer)
          /\ bucket' = DrainAgent(a)
          /\ todo' = IF answer \in {"skipped", "exception"} THEN {} ELSE todo \ {c}
          /\ stage' = IF answer = "exception" THEN Closing ELSE stage
    BY DEF L1
  <1>2. stage = 1 /\ UNCHANGED <<log, at, global, tick, next, missed>>
    BY DEF L1, file
  <1>3. PICK a \in Agents : c = {a}
    BY <1>2 DEF Told, TierRuns
  <1>4. /\ Emit(1, {a}, bucket[a], answer)
        /\ bucket' = [bucket EXCEPT ![a] = {}]
        /\ c \notin todo' /\ todo' \subseteq todo /\ stage' \in {stage, Closing}
    BY <1>1, <1>3 DEF DrainAgent
  <1>5. /\ bucket \in [Agents -> SUBSET Lines] /\ bucket[a] \in SUBSET Lines
        /\ bucket'[a] = {} /\ \A b \in Agents : b # a => bucket'[b] = bucket[b]
    BY <1>4 DEF NarratorTypeOK
  <1> DEFINE r == Rec(1, {a}, bucket[a], answer)
  <1>6. \/ out' = out /\ failed' = TRUE
        \/ r \in Record /\ out' = Append(out, r) /\ failed' = failed
    <2>1. 1 \in 1..4 /\ {a} \in SUBSET Agents /\ "qwen" \in Models
      BY DEF Models
    <2>2. bucket[a] \in SUBSET Lines /\ Emit(1, {a}, bucket[a], answer) /\ NarratorTypeOK
      BY <1>4, <1>5
    <2>3. \/ out' = out /\ failed' = TRUE /\ answer = "exception"
          \/ r \in Record /\ out' = Append(out, r) /\ failed' = failed /\ answer # "exception"
      BY <2>1, <2>2, EmitIs, Zenon
    <2> QED BY <2>3
  <1>7. r.level = 1 /\ r.scope = {a} /\ r.tick = tick /\ r.events = bucket[a]
    BY DEF Rec
  <1> HIDE DEF r
  <1>8. TierRuns' /\ Rounds' /\ RoundsAreSpaced'
    <2>1. out' = out \/ \E q \in Record : /\ out' = Append(out, q) /\ q.level = 1 /\ q.scope = c
                                          /\ q.tick = tick
      BY <1>3, <1>6, <1>7
    <2> QED BY <1>2, <1>4, <2>1, RoundGoesOn
  <1>9. \A b \in Agents : bucket'[b] \subseteq bucket[b]
    BY <1>5
  <1>10. CASE out' = out /\ failed' = TRUE
    <2>1. \A n : Records(n)' = Records(n)
      BY <1>10 DEF Records
    <2>2. Windows'
      BY <1>2, <1>9, <1>10 DEF Told, Windows
    <2>3. ToldOnce'
      BY <1>2, <1>9, <1>10, <2>1 DEF Told, ToldOnce
    <2> QED BY <1>8, <1>10, <2>2, <2>3 DEF Told, NothingSkipped
  <1>11. CASE r \in Record /\ out' = Append(out, r) /\ failed' = failed
    <2> DEFINE m == Len(out) + 1
    <2>1. /\ Len(out) \in Nat /\ DOMAIN out = 1..Len(out) /\ DOMAIN out' = 1..m
          /\ \A i \in DOMAIN out : out'[i] = out[i]
          /\ out'[m] = r
          /\ \A n : Records(n)' = Records(n) \cup (IF r.level = n THEN {m} ELSE {})
      BY <1>11, RecordAdded
    <2>2. /\ Records(1)' = Records(1) \cup {m} /\ Records(3)' = Records(3)
          /\ Records(1) \subseteq DOMAIN out /\ Records(3) \subseteq DOMAIN out
      BY <1>7, <2>1 DEF Records
    <2>3. \A i \in DOMAIN out' : i \in DOMAIN out \/ i = m
      BY <2>1
    <2> HIDE DEF m
    <2>4. Windows'
      <3>1. \A i \in bucket[a] : i <= at
        BY DEF Told, Windows
      <3>2. \A k \in DOMAIN out' : \A i \in out'[k].events : i <= at
        BY <1>7, <2>1, <2>3, <3>1 DEF Told, Windows
      <3>3. \A b \in Agents : \A i \in bucket'[b] : i <= at /\ log[i].actor = b
        BY <1>9 DEF Told, Windows
      <3>4. \A i \in global : i <= at
        BY DEF Told, Windows
      <3> QED BY <1>2, <3>2, <3>3, <3>4 DEF Windows
    <2>5. ToldOnce'
      <3>1. \A b \in Agents : \A i \in Records(1) : bucket[b] \cap out[i].events = {}
        BY DEF Told, ToldOnce
      <3>2. \A b \in Agents : b # a => bucket[b] \cap bucket[a] = {}
        BY DEF Told, Windows
      <3>3. ASSUME NEW i \in Records(1)', NEW j \in Records(1)', i # j
            PROVE  out'[i].events \cap out'[j].events = {}
        <4>1. CASE i \in Records(1) /\ j \in Records(1)
          BY <2>1, <2>2, <3>3, <4>1 DEF Told, ToldOnce
        <4>2. CASE i \in Records(1) /\ j = m
          BY <1>7, <2>1, <2>2, <3>1, <4>2
        <4>3. CASE i = m /\ j \in Records(1)
          BY <1>7, <2>1, <2>2, <3>1, <4>3
        <4> QED BY <2>2, <3>3, <4>1, <4>2, <4>3
      <3>4. ASSUME NEW i \in Records(3)', NEW j \in Records(3)', i # j
            PROVE  out'[i].events \cap out'[j].events = {}
        BY <2>1, <2>2, <3>4 DEF Told, ToldOnce
      <3>5. ASSUME NEW b \in Agents, NEW i \in Records(1)' PROVE bucket'[b] \cap out'[i].events = {}
        <4>1. CASE i = m
          BY <1>5, <1>7, <2>1, <3>2, <4>1
        <4>2. CASE i \in Records(1)
          BY <1>9, <2>1, <2>2, <3>1, <4>2
        <4> QED BY <2>2, <4>1, <4>2
      <3>6. \A i \in Records(3)' : global' \cap out'[i].events = {}
        BY <1>2, <2>1, <2>2 DEF Told, ToldOnce
      <3> QED BY <3>3, <3>4, <3>5, <3>6 DEF ToldOnce
    <2>6. NothingSkipped'
      <3> SUFFICES ASSUME ~ failed, NEW b \in Agents, NEW i \in TakenIn(b)'
                   PROVE  \/ Covers(bucket'[b], i)
                          \/ \E k \in Records(1)' : out'[k].scope = {b} /\ Covers(out'[k].events, i)
        BY <1>11, SkippedThen
      <3>1. i \in TakenIn(b)
        BY <1>2 DEF TakenIn
      <3>2. \/ Covers(bucket[b], i)
            \/ \E k \in Records(1) : out[k].scope = {b} /\ Covers(out[k].events, i)
        BY <3>1 DEF Told, NothingSkipped, Covers
      <3>3. CASE Covers(bucket[b], i)
        <4>1. CASE b # a
          BY <1>5, <3>3, <4>1
        <4>2. CASE b = a
          <5>1. m \in Records(1)' /\ out'[m].scope = {b} /\ out'[m].events = bucket[b]
            BY <1>7, <2>1, <2>2, <4>2
          <5> QED BY <3>3, <5>1
        <4> QED BY <4>1, <4>2
      <3>4. ASSUME NEW k \in Records(1), out[k].scope = {b}, Covers(out[k].events, i)
            PROVE  \E l \in Records(1)' : out'[l].scope = {b} /\ Covers(out'[l].events, i)
        <4>1. k \in Records(1)' /\ out'[k] = out[k]
          BY <2>1, <2>2
        <4> QED BY <3>4, <4>1
      <3> QED BY <3>2, <3>3, <3>4
    <2> QED BY <1>8, <2>4, <2>5, <2>6 DEF Told
  <1> QED BY <1>6, <1>10, <1>11

(* Telling of a buffer that stays, or at the end: nothing of L1 or L3.     *)
LEMMA OthersTell ==
  ASSUME NarratorTypeOK, Told, UNCHANGED <<log, at, missed, bucket, global>>,
         \/ out' = out /\ failed' \in {failed, TRUE}
         \/ failed' = failed /\ \E r \in Record : /\ out' = Append(out, r) /\ r.level \in {2, 4}
                                                  /\ \A i \in r.events : i <= at
  PROVE  Windows' /\ ToldOnce' /\ NothingSkipped'
  <1>1. CASE out' = out /\ failed' \in {failed, TRUE}
    <2>1. \A n : Records(n)' = Records(n)
      BY <1>1 DEF Records
    <2>2. Windows' /\ ToldOnce'
      BY <1>1, <2>1 DEF Told, Windows, ToldOnce
    <2>3. NothingSkipped'
      <3>1. \A a \in Agents : TakenIn(a)' = TakenIn(a)
        BY DEF TakenIn
      <3>2. failed \/ \A a \in Agents : \A i \in TakenIn(a) :
               \/ Covers(bucket[a], i)
               \/ \E k \in Records(1) : out[k].scope = {a} /\ Covers(out[k].events, i)
        BY DEF Told, NothingSkipped, Covers
      <3>3. failed => failed'
        BY <1>1 DEF NarratorTypeOK
      <3> QED BY <1>1, <2>1, <3>1, <3>2, <3>3, SkippedThen
    <2> QED BY <2>2, <2>3
  <1>2. ASSUME NEW r \in Record, out' = Append(out, r), r.level \in {2, 4}, \A i \in r.events : i <= at,
               failed' = failed
        PROVE  Windows' /\ ToldOnce' /\ NothingSkipped'
    <2> DEFINE m == Len(out) + 1
    <2>1. /\ Len(out) \in Nat /\ DOMAIN out = 1..Len(out) /\ DOMAIN out' = 1..m
          /\ \A i \in DOMAIN out : out'[i] = out[i]
          /\ out'[m] = r
          /\ \A n : Records(n)' = Records(n) \cup (IF r.level = n THEN {m} ELSE {})
      BY <1>2, RecordAdded
    <2>2. /\ Records(1)' = Records(1) /\ Records(3)' = Records(3)
          /\ Records(1) \subseteq DOMAIN out /\ Records(3) \subseteq DOMAIN out
      <3>1. r.level # 1 /\ r.level # 3
        BY <1>2
      <3>2. Records(1)' = Records(1) /\ Records(3)' = Records(3)
        BY <1>2, <3>1, RecordAdded
      <3> QED BY <3>2 DEF Records
    <2>3. \A i \in DOMAIN out' : i \in DOMAIN out \/ i = m
      BY <2>1
    <2> HIDE DEF m
    <2>4. Windows'
      BY <1>2, <2>1, <2>3 DEF Told, Windows
    <2>5. ToldOnce'
      BY <2>1, <2>2 DEF Told, ToldOnce
    <2>6. NothingSkipped'
      <3>1. \A a \in Agents : TakenIn(a)' = TakenIn(a)
        BY DEF TakenIn
      <3>2. failed \/ \A a \in Agents : \A i \in TakenIn(a) :
               \/ Covers(bucket[a], i)
               \/ \E k \in Records(1) : out[k].scope = {a} /\ Covers(out[k].events, i)
        BY DEF Told, NothingSkipped, Covers
      <3>3. \A k \in Records(1) : k \in Records(1)' /\ out'[k] = out[k]
        BY <2>1, <2>2
      <3>4. failed' \/ \A a \in Agents : \A i \in TakenIn(a)' :
               \/ Covers(bucket'[a], i)
               \/ \E k \in Records(1)' : out'[k].scope = {a} /\ Covers(out'[k].events, i)
        BY <1>2, <3>1, <3>2, <3>3
      <3> QED BY <3>4, SkippedThen
    <2> QED BY <2>4, <2>5, <2>6
  <1> QED BY <1>1, <1>2

LEMMA L2Keeps == NarratorTypeOK /\ Told /\ L2 => Told'
  <1> SUFFICES ASSUME NarratorTypeOK, Told, L2 PROVE Told'
    OBVIOUS
  <1>1. PICK c \in todo, answer \in Answers("qwen") :
          /\ Emit(2, c, {i \in global : log[i].names \cap c # {}}, answer)
          /\ todo' = IF answer \in {"skipped", "exception"} THEN {} ELSE todo \ {c}
          /\ stage' = IF answer = "exception" THEN Closing ELSE stage
    BY DEF L2
  <1>2. stage = 2 /\ UNCHANGED <<log, at, bucket, global, tick, next, missed>>
    BY DEF L2, file
  <1>3. c \notin todo' /\ todo' \subseteq todo /\ stage' \in {stage, Closing}
    BY <1>1
  <1> DEFINE shown == {i \in global : log[i].names \cap c # {}}
             r == Rec(2, c, shown, answer)
  <1>4. shown \in SUBSET Lines /\ \A i \in shown : i <= at
    BY DEF NarratorTypeOK, Told, Windows
  <1>5. c \in SUBSET Agents /\ Emit(2, c, shown, answer)
    BY <1>1 DEF NarratorTypeOK
  <1> HIDE DEF shown
  <1>6. \/ out' = out /\ failed' = TRUE /\ answer = "exception"
        \/ r \in Record /\ out' = Append(out, r) /\ failed' = failed /\ answer # "exception"
    <2>1. 2 \in 1..4 /\ "qwen" \in Models
      BY DEF Models
    <2> QED BY <1>4, <1>5, <2>1, EmitIs, Zenon
  <1>7. r.level = 2 /\ r.scope = c /\ r.tick = tick /\ r.events = shown
    BY DEF Rec
  <1> HIDE DEF r
  <1>8. TierRuns' /\ Rounds' /\ RoundsAreSpaced'
    <2>1. out' = out \/ \E q \in Record : /\ out' = Append(out, q) /\ q.level = 2 /\ q.scope = c
                                          /\ q.tick = tick
      BY <1>6, <1>7
    <2> QED BY <1>2, <1>3, <2>1, RoundGoesOn
  <1>9. Windows' /\ ToldOnce' /\ NothingSkipped'
    <2>1. \/ out' = out /\ failed' \in {failed, TRUE}
          \/ failed' = failed /\ \E q \in Record : /\ out' = Append(out, q) /\ q.level \in {2, 4}
                                                   /\ \A i \in q.events : i <= at
      BY <1>4, <1>6, <1>7
    <2> QED BY <1>2, <2>1, OthersTell
  <1> QED BY <1>8, <1>9 DEF Told

LEMMA EndTierKeeps == NarratorTypeOK /\ Told /\ EndTier => Told'
  <1> SUFFICES ASSUME NarratorTypeOK, Told, EndTier PROVE Told'
    OBVIOUS
  <1>1. /\ stage \in {1, 2} /\ todo = {} /\ next' = [next EXCEPT ![stage] = tick + Cadence[stage]]
        /\ stage' = Due(tick, stage + 1) /\ todo' = Work(stage', bucket, global)
        /\ UNCHANGED <<log, at, bucket, global, tick, out, failed, missed>>
    BY DEF EndTier, NextAfter, file
  <1>2. Windows' /\ ToldOnce' /\ NothingSkipped'
    BY <1>1, OthersTell
  <1>3. next \in [1..3 -> Nat] /\ tick \in Nat /\ tick + Cadence[stage] \in Nat
    <2>1. next \in [1..3 -> Nat] /\ tick \in 0..MaxTick
      BY DEF NarratorTypeOK
    <2>2. stage \in 1..3
      BY <1>1
    <2>3. Cadence[stage] \in Nat /\ MaxTick \in Nat
      BY <2>2, NarratorNumbers
    <2> QED BY <2>1, <2>3
  <1>4. /\ next'[stage] = tick + Cadence[stage]
        /\ \A k \in 1..3 : k # stage => next'[k] = next[k]
    BY <1>1, <1>3
  <1>5. stage' = Following \/ (stage' \in stage+1..3 /\ tick >= next[stage'])
    BY <1>1, <1>3, DueIs
  <1>6. TierRuns'
    <2>1. stage' \in 1..3 => tick' >= next'[stage']
      <3>1. CASE stage' = Following
        BY <3>1 DEF Following
      <3>2. CASE stage' \in stage+1..3
        <4>1. stage' \in 1..3 /\ stage' # stage
          BY <1>1, <3>2
        <4> QED BY <1>1, <1>4, <1>5, <4>1 DEF Following
      <3> QED BY <1>5, <3>1, <3>2
    <2>2. stage' # 1
      BY <1>1, <1>5 DEF Following
    <2> QED BY <2>1, <2>2 DEF TierRuns
  <1>7. Rounds'
    <2>1. \A k : Records(k)' = Records(k)
      BY <1>1 DEF Records
    <2>2. \A k \in 1..3 : Cadence[k] \in Nat /\ next[k] \in Nat
      BY <1>3, NarratorNumbers
    <2>3. ASSUME NEW k \in 1..3
          PROVE  next'[k] >= Cadence[k] /\ \A i \in Records(k) : out[i].tick + Cadence[k] <= next'[k]
      <3>0. next[k] >= Cadence[k]
        BY DEF Told, Rounds
      <3>1. CASE k = stage
        <4>1. tick >= next[k]
          BY <1>1, <3>1 DEF Told, TierRuns
        <4>2. ASSUME NEW i \in Records(k) PROVE out[i].tick + Cadence[k] <= next'[k]
          <5>1. out[i].tick + Cadence[k] <= next[k] \/ out[i].tick = tick
            BY <1>1 DEF Told, Rounds, Closing, Closed
          <5>2. out[i].tick \in Nat
            BY RecordTypes
          <5> QED BY <1>3, <1>4, <2>2, <3>1, <4>1, <5>1, <5>2
        <4> QED BY <1>3, <1>4, <2>2, <3>1, <4>2
      <3>2. CASE k # stage
        <4>1. \A i \in Records(k) : out[i].tick + Cadence[k] <= next[k]
          BY <1>1, <3>2 DEF Told, Rounds, Closing, Closed
        <4> QED BY <1>4, <3>0, <3>2, <4>1
      <3> QED BY <3>1, <3>2
    <2> QED BY <1>1, <2>1, <2>3 DEF Rounds
  <1>8. RoundsAreSpaced'
    BY <1>1 DEF Told, RoundsAreSpaced, Records
  <1> QED BY <1>2, <1>6, <1>7, <1>8 DEF Told

LEMMA L3Keeps == NarratorTypeOK /\ Told /\ L3 => Told'
  <1> SUFFICES ASSUME NarratorTypeOK, Told, L3 PROVE Told'
    OBVIOUS
  <1>0. stage = 3 /\ global' = {} /\ UNCHANGED <<log, todo, at, bucket, tick, missed>>
    BY DEF L3, DrainGlobal, file
  <1>1. PICK answer \in (IF global = {} THEN {"nothing"} ELSE Answers("claude")) :
          /\ IF answer = "nothing" THEN UNCHANGED <<out, failed>> ELSE Emit(3, Agents, global, answer)
          /\ stage' = IF answer = "exception" THEN Closing ELSE Following
          /\ next' = IF answer = "exception" THEN next ELSE NextAfter(3)
    BY DEF L3
  <1> DEFINE r == Rec(3, Agents, global, answer)
  <1>2. \/ out' = out /\ failed' = TRUE /\ answer = "exception"
        \/ r \in Record /\ out' = Append(out, r) /\ failed' = failed /\ answer # "exception"
        \/ out' = out /\ failed' = failed /\ answer = "nothing"
    <2>1. CASE answer = "nothing"
      BY <1>1, <2>1
    <2>2. CASE answer # "nothing"
      <3>1. Emit(3, Agents, global, answer) /\ answer \in Answers("claude")
        BY <1>1, <2>2
      <3>2. 3 \in 1..4 /\ Agents \in SUBSET Agents /\ "claude" \in Models /\ global \in SUBSET Lines
        BY DEF Models, NarratorTypeOK
      <3>3. \/ out' = out /\ failed' = TRUE /\ answer = "exception"
            \/ r \in Record /\ out' = Append(out, r) /\ failed' = failed /\ answer # "exception"
        BY <3>1, <3>2, EmitIs, Zenon
      <3> QED BY <3>3
    <2> QED BY <2>1, <2>2
  <1>3. r.level = 3 /\ r.scope = Agents /\ r.tick = tick /\ r.events = global
    BY DEF Rec
  <1> HIDE DEF r
  <1>4. next \in [1..3 -> Nat] /\ tick \in Nat /\ tick + Cadence[3] \in Nat
    <2>1. Cadence[3] \in Nat
      BY NarratorNumbers
    <2>2. tick \in Nat /\ next \in [1..3 -> Nat]
      BY NarratorNumbers DEF NarratorTypeOK
    <2> QED BY <2>1, <2>2
  <1>5. TierRuns'
    BY <1>1 DEF TierRuns, Following, Closing
  <1>6. Records(3) \subseteq DOMAIN out /\ Records(1) \subseteq DOMAIN out /\ Records(2) \subseteq DOMAIN out
    BY DEF Records
  (* What there was already, with the new times.                           *)
  <1>7. ASSUME NEW k \in 1..3
        PROVE  next'[k] >= Cadence[k] /\ \A i \in Records(k) : out[i].tick + Cadence[k] <= next'[k]
    <2>1. /\ next[k] >= Cadence[k] /\ next[k] \in Nat /\ Cadence[k] \in Nat
          /\ \A i \in Records(k) : out[i].tick + Cadence[k] <= next[k] /\ out[i].tick \in Nat
      BY <1>0, <1>4, NarratorNumbers, RecordTypes DEF Told, Rounds, Closing, Closed
    <2>2. tick >= next[3]
      BY <1>0 DEF Told, TierRuns
    <2>3. next'[k] = next[k] \/ (k = 3 /\ next'[k] = tick + Cadence[3])
      BY <1>1, <1>4 DEF NextAfter
    <2>4. next'[k] >= next[k]
      BY <1>4, <2>1, <2>2, <2>3, NarratorNumbers
    <2>5. next'[k] \in Nat
      BY <1>4, <2>1, <2>3
    <2> QED BY <2>1, <2>4, <2>5
  <1>8. CASE out' = out
    <2>1. \A n : Records(n)' = Records(n)
      BY <1>8 DEF Records
    <2>2. Windows' /\ ToldOnce'
      BY <1>0, <1>8, <2>1 DEF Told, Windows, ToldOnce
    <2>3. Rounds'
      BY <1>7, <1>8, <2>1 DEF Rounds
    <2>4. RoundsAreSpaced'
      BY <1>8, <2>1 DEF Told, RoundsAreSpaced
    <2>5. NothingSkipped'
      <3>1. \A a \in Agents : TakenIn(a)' = TakenIn(a)
        BY <1>0 DEF TakenIn
      <3>2. failed \/ \A a \in Agents : \A i \in TakenIn(a) :
               \/ Covers(bucket[a], i)
               \/ \E k \in Records(1) : out[k].scope = {a} /\ Covers(out[k].events, i)
        BY DEF Told, NothingSkipped, Covers
      <3>3. failed => failed'
        BY <1>2
      <3> QED BY <1>0, <1>8, <2>1, <3>1, <3>2, <3>3, SkippedThen
    <2> QED BY <1>5, <2>2, <2>3, <2>4, <2>5 DEF Told
  <1>9. CASE r \in Record /\ out' = Append(out, r) /\ failed' = failed /\ answer # "exception"
    <2> DEFINE m == Len(out) + 1
    <2>1. /\ Len(out) \in Nat /\ DOMAIN out = 1..Len(out) /\ DOMAIN out' = 1..m
          /\ \A i \in DOMAIN out : out'[i] = out[i]
          /\ out'[m] = r
          /\ \A n : Records(n)' = Records(n) \cup (IF r.level = n THEN {m} ELSE {})
      BY <1>9, RecordAdded
    <2>2. Records(1)' = Records(1) /\ Records(2)' = Records(2) /\ Records(3)' = Records(3) \cup {m}
      <3>1. r.level # 1 /\ r.level # 2
        BY <1>3
      <3>2. Records(1)' = Records(1) /\ Records(2)' = Records(2)
        BY <1>9, <3>1, RecordAdded
      <3>3. Records(3)' = Records(3) \cup {m}
        BY <1>3, <2>1
      <3> QED BY <3>2, <3>3
    <2>3. \A i \in DOMAIN out' : i \in DOMAIN out \/ i = m
      BY <2>1
    <2>4. RoundsAreSpaced'
      BY <1>0, <1>3, <1>9, TellingIsSpaced
    <2> HIDE DEF m
    <2>5. Windows'
      <3>1. \A i \in global : i <= at
        BY DEF Told, Windows
      <3>2. \A k \in DOMAIN out' : \A i \in out'[k].events : i <= at
        BY <1>3, <2>1, <2>3, <3>1 DEF Told, Windows
      <3> QED BY <1>0, <3>2 DEF Told, Windows
    <2>6. Rounds'
      <3>1. next'[3] = tick + Cadence[3]
        BY <1>1, <1>4, <1>9 DEF NextAfter
      <3>2. ASSUME NEW k \in 1..3, NEW i \in Records(k)' PROVE out'[i].tick + Cadence[k] <= next'[k]
        <4>1. CASE i \in Records(k)
          BY <1>6, <1>7, <2>1, <4>1 DEF Records
        <4>2. CASE i \notin Records(k)
          <5>1. k = 3 /\ out'[i] = r
            BY <2>1, <2>2, <4>2
          <5> QED BY <1>3, <1>4, <3>1, <5>1
        <4> QED BY <4>1, <4>2
      <3> QED BY <1>7, <3>2 DEF Rounds
    <2>7. ToldOnce'
      <3>1. \A i \in Records(3) : global \cap out[i].events = {}
        BY DEF Told, ToldOnce
      <3>2. ASSUME NEW i \in Records(3)', NEW j \in Records(3)', i # j
            PROVE  out'[i].events \cap out'[j].events = {}
        <4>1. CASE i \in Records(3) /\ j \in Records(3)
          BY <1>6, <2>1, <3>2, <4>1 DEF Told, ToldOnce
        <4>2. CASE i \in Records(3) /\ j = m
          BY <1>3, <1>6, <2>1, <3>1, <4>2
        <4>3. CASE i = m /\ j \in Records(3)
          BY <1>3, <1>6, <2>1, <3>1, <4>3
        <4> QED BY <2>2, <3>2, <4>1, <4>2, <4>3
      <3>3. ASSUME NEW i \in Records(1)', NEW j \in Records(1)', i # j
            PROVE  out'[i].events \cap out'[j].events = {}
        BY <1>6, <2>1, <2>2, <3>3 DEF Told, ToldOnce
      <3>4. \A a \in Agents : \A i \in Records(1)' : bucket'[a] \cap out'[i].events = {}
        BY <1>0, <1>6, <2>1, <2>2 DEF Told, ToldOnce
      <3>5. \A i \in Records(3)' : global' \cap out'[i].events = {}
        BY <1>0
      <3> QED BY <3>2, <3>3, <3>4, <3>5 DEF ToldOnce
    <2>8. NothingSkipped'
      <3>1. \A a \in Agents : TakenIn(a)' = TakenIn(a)
        BY <1>0 DEF TakenIn
      <3>2. failed \/ \A a \in Agents : \A i \in TakenIn(a) :
               \/ Covers(bucket[a], i)
               \/ \E k \in Records(1) : out[k].scope = {a} /\ Covers(out[k].events, i)
        BY DEF Told, NothingSkipped, Covers
      <3>3. \A k \in Records(1) : k \in Records(1)' /\ out'[k] = out[k]
        BY <1>6, <2>1, <2>2
      <3>4. failed' \/ \A a \in Agents : \A i \in TakenIn(a)' :
               \/ Covers(bucket'[a], i)
               \/ \E k \in Records(1)' : out'[k].scope = {a} /\ Covers(out'[k].events, i)
        BY <1>0, <1>9, <3>1, <3>2, <3>3
      <3> QED BY <3>4, SkippedThen
    <2> QED BY <1>5, <2>4, <2>5, <2>6, <2>7, <2>8 DEF Told
  <1> QED BY <1>2, <1>8, <1>9

LEMMA L4Keeps == NarratorTypeOK /\ Told /\ L4 => Told'
  <1> SUFFICES ASSUME NarratorTypeOK, Told, L4 PROVE Told'
    OBVIOUS
  <1>0. stage = Closing /\ stage' = Closed /\ UNCHANGED <<log, todo, at, bucket, global, tick, next, failed, missed>>
    BY DEF L4, file
  <1> DEFINE shown == Quoted(3, 3) \cup Quoted(2, 6) \cup Quoted(1, 8)
  <1>1. PICK answer \in Answers("claude") :
          out' = IF answer = "exception" THEN out
                 ELSE Append(out, [level |-> 4, tick |-> tick, scope |-> Agents, by |-> answer,
                                   events |-> shown])
    BY DEF L4
  <1>2. shown \in SUBSET Lines /\ \A i \in shown : i <= at
    <2>1. \A k, n : Quoted(k, n) \subseteq UNION {out[i].events : i \in DOMAIN out}
      BY DEF Quoted, Latest
    <2>2. \A i \in DOMAIN out : out[i] \in Record
      BY DEF NarratorTypeOK
    <2>3. \A i \in DOMAIN out : out[i].events \subseteq Lines /\ \A e \in out[i].events : e <= at
      BY <2>2 DEF Record, Told, Windows
    <2> QED BY <2>1, <2>3
  <1> HIDE DEF shown
  <1>3. out' = out \/ \E r \in Record : /\ out' = Append(out, r) /\ r.level = 4
                                        /\ \A i \in r.events : i <= at
    <2>1. CASE answer = "exception"
      BY <1>1, <2>1
    <2>2. CASE answer # "exception"
      <3> DEFINE r == [level |-> 4, tick |-> tick, scope |-> Agents, by |-> answer, events |-> shown]
      <3>1. answer \in Models \cup {"stub", "skipped"} /\ tick \in 0..MaxTick
        BY <2>2 DEF Answers, Models, Unavailable, NarratorTypeOK
      <3>2. r \in Record /\ r.level = 4 /\ r.events = shown
        BY <1>2, <3>1 DEF Record
      <3>3. out' = Append(out, r)
        BY <1>1, <2>2
      <3> HIDE DEF r
      <3> QED BY <1>2, <3>2, <3>3
    <2> QED BY <2>1, <2>2
  <1>4. Windows' /\ ToldOnce' /\ NothingSkipped'
    BY <1>0, <1>3, OthersTell
  <1>5. TierRuns'
    BY <1>0 DEF TierRuns, Closed
  <1>6. Rounds'
    BY <1>0 DEF Told, Rounds, Closed
  <1>7. RoundsAreSpaced'
    <2>1. CASE out' = out
      BY <2>1 DEF Told, RoundsAreSpaced, Records
    <2>2. ASSUME NEW r \in Record, out' = Append(out, r), r.level = 4 PROVE RoundsAreSpaced'
      <3>1. ASSUME NEW k \in 1..3 PROVE Records(k)' = Records(k)
        <4>1. r.level # k
          BY <2>2
        <4> QED BY <2>2, <4>1, RecordAdded
      <3>2. \A k \in 1..3 : \A i \in Records(k) : out'[i] = out[i]
        BY <2>2, RecordAdded DEF Records
      <3> QED BY <3>1, <3>2 DEF Told, RoundsAreSpaced
    <2> QED BY <1>3, <2>1, <2>2
  <1> QED BY <1>4, <1>5, <1>6, <1>7 DEF Told

-----------------------------------------------------------------------------
(* Every step, and with it every state. *)

LEMMA EmptyWindow == Cardinality({}) = 0 /\ \A n \in Nat : Cardinality({}) <= n
  BY FS_EmptySet

LEMMA EmitTypes ==
  ASSUME NarratorTypeOK, NEW level \in 1..4, NEW scope \in SUBSET Agents, NEW shown \in SUBSET Lines,
         NEW m \in Models, NEW a \in Answers(m), Emit(level, scope, shown, a)
  PROVE  out' \in Seq(Record) /\ failed' \in BOOLEAN
  <1>1. out \in Seq(Record) /\ failed \in BOOLEAN
    BY DEF NarratorTypeOK
  <1>2. \/ out' = out /\ failed' = TRUE
        \/ /\ Rec(level, scope, shown, a) \in Record /\ out' = Append(out, Rec(level, scope, shown, a))
           /\ failed' = failed
    BY EmitIs, Zenon
  <1>3. \A r \in Record : Append(out, r) \in Seq(Record)
    BY <1>1
  <1> QED BY <1>1, <1>2, <1>3, Zenon

LEMMA TakeTypes == NarratorTypeOK /\ Take => NarratorTypeOK'
  <1> SUFFICES ASSUME NarratorTypeOK, Take PROVE NarratorTypeOK'
    OBVIOUS
  <1> DEFINE m == at + 1
             e == log[m]
  <1>0. /\ m \in Nat /\ Len(log) \in Nat /\ m <= Len(log) /\ m \in Lines /\ m \in 1..Len(log)
        /\ at' = m /\ log' = log /\ tick' = e.tick
    <2>1. at \in 0..Len(log) /\ Len(log) \in Nat /\ Len(log) <= MaxLines
      BY DEF NarratorTypeOK
    <2>2. at < Finished /\ at' = m /\ log' = log /\ tick' = log[at'].tick
      BY DEF Take, file
    <2>3. m <= Len(log)
      BY <2>1, <2>2 DEF Finished
    <2> QED BY <2>1, <2>2, <2>3, NarratorNumbers DEF Lines
  <1>1. e.actor \in Agents \cup {NoAgent} /\ e.tick \in 0..MaxTick
    <2>1. log \in Seq(Event)
      BY DEF NarratorTypeOK
    <2>2. e \in Event
      BY <1>0, <2>1
    <2> QED BY <2>2 DEF Event
  <1>2. /\ UNCHANGED <<log, half, signal, killed, torn, size, next, calls, out, failed, missed>>
        /\ Ingest(m) /\ stage' = Due(e.tick, 1) /\ todo' = Work(stage', bucket', global')
    BY <1>0 DEF Take, file
  <1>3. stage' \in Following..Closed
    <2>1. e.tick \in Int
      BY <1>1, NarratorNumbers
    <2> QED BY <1>2, <2>1, DueIs DEF Following, Closed
  <1>4. todo' \subseteq SUBSET Agents
    <2>1. stage' \in Int
      BY <1>3 DEF Following, Closed
    <2> QED BY <1>2, <2>1, WorkIs
  <1> HIDE DEF m
  <1>5. ASSUME NEW a \in Agents
        PROVE  bucket'[a] \in SUBSET Lines /\ Cardinality(bucket'[a]) <= CapAgent
    <2> DEFINE S == bucket[a] \cup {m}
    <2>0. bucket \in [Agents -> SUBSET Lines] /\ Cardinality(bucket[a]) <= CapAgent
      BY DEF NarratorTypeOK
    <2>1. bucket'[a] = bucket[a] \/ bucket'[a] = Latest(S, CapAgent)
      BY <1>1, <1>2, <2>0, NarratorAssumption DEF Ingest, NarratorAssumption
    <2>2. S \in SUBSET Lines
      BY <1>0, <2>0
    <2> HIDE DEF S
    <2>3. Latest(S, CapAgent) \subseteq S /\ Cardinality(Latest(S, CapAgent)) <= CapAgent
      BY <2>2, LatestIs, NarratorNumbers
    <2> QED BY <2>0, <2>1, <2>2, <2>3
  <1>6. bucket' \in [Agents -> SUBSET Lines]
    <2>1. bucket \in [Agents -> SUBSET Lines]
      BY DEF NarratorTypeOK
    <2>2. DOMAIN bucket' = Agents /\ bucket' = [a \in Agents |-> bucket'[a]]
      BY <1>1, <1>2, <2>1 DEF Ingest
    <2> QED BY <1>5, <2>2
  <1>7. known' \in Seq(Agents)
    <2>1. known \in Seq(Agents)
      BY DEF NarratorTypeOK
    <2>2. known' = known \/ (e.actor \in Agents /\ known' = Append(known, e.actor))
      BY <1>1, <1>2 DEF Ingest
    <2> QED BY <2>1, <2>2
  <1>8. global' \subseteq Lines /\ Cardinality(global') <= CapGlobal
    <2> DEFINE S == global \cup {m}
    <2>1. S \in SUBSET Lines /\ global \subseteq Lines /\ Cardinality(global) <= CapGlobal
      BY <1>0 DEF NarratorTypeOK
    <2>2. global' = global \/ global' = Latest(S, CapGlobal)
      BY <1>2 DEF Ingest
    <2> HIDE DEF S
    <2>3. Latest(S, CapGlobal) \subseteq S /\ Cardinality(Latest(S, CapGlobal)) <= CapGlobal
      BY <2>1, LatestIs, NarratorNumbers
    <2> QED BY <2>1, <2>2, <2>3
  <1>9. at' \in 0..Len(log')
    BY <1>0
  <1> QED BY <1>0, <1>1, <1>2, <1>3, <1>4, <1>5, <1>6, <1>7, <1>8, <1>9 DEF NarratorTypeOK

LEMMA L1Types == NarratorTypeOK /\ Told /\ L1 => NarratorTypeOK'
  <1> SUFFICES ASSUME NarratorTypeOK, Told, L1 PROVE NarratorTypeOK'
    OBVIOUS
  <1>1. PICK c \in todo, answer \in Answers("qwen") : \E a \in c :
          /\ Emit(1, c, bucket[a], answer) /\ Counted("qwen", answer)
          /\ bucket' = DrainAgent(a)
          /\ todo' = IF answer \in {"skipped", "exception"} THEN {} ELSE todo \ {c}
          /\ stage' = IF answer = "exception" THEN Closing ELSE stage
    BY DEF L1
  <1>2. PICK a \in Agents : c = {a}
    BY DEF Told, TierRuns, L1
  <1>3. /\ Emit(1, {a}, bucket[a], answer) /\ Counted("qwen", answer)
        /\ bucket' = [bucket EXCEPT ![a] = {}] /\ todo' \subseteq todo /\ stage' \in {stage, Closing}
    BY <1>1, <1>2 DEF DrainAgent
  <1>4. bucket' \in [Agents -> SUBSET Lines] /\ \A b \in Agents : Cardinality(bucket'[b]) <= CapAgent
    <2>1. bucket \in [Agents -> SUBSET Lines] /\ \A b \in Agents : Cardinality(bucket[b]) <= CapAgent
      BY DEF NarratorTypeOK
    <2>2. bucket'[a] = {} /\ \A b \in Agents : b # a => bucket'[b] = bucket[b]
      BY <1>3, <2>1
    <2>3. bucket' \in [Agents -> SUBSET Lines]
      BY <1>3, <2>1
    <2> QED BY <2>1, <2>2, <2>3, EmptyWindow, NarratorNumbers
  <1>5. out' \in Seq(Record) /\ failed' \in BOOLEAN
    <2>1. 1 \in 1..4 /\ {a} \in SUBSET Agents /\ "qwen" \in Models /\ bucket[a] \in SUBSET Lines
      BY DEF Models, NarratorTypeOK
    <2> QED BY <1>3, <2>1, EmitTypes, Zenon
  <1>6. calls' \in [Models -> Nat] /\ calls'["qwen"] <= MaxQwen /\ calls'["claude"] <= MaxClaude
    <2>1. "qwen" \in Models /\ answer \in Answers("qwen") \cup {"nothing"}
      BY DEF Models
    <2> QED BY <1>3, <2>1, CountedIs, Zenon
  <1>7. UNCHANGED <<log, half, signal, killed, at, torn, size, known, global, tick, next, missed>>
    BY DEF L1, file
  <1> QED BY <1>3, <1>4, <1>5, <1>6, <1>7 DEF NarratorTypeOK, Following, Closing, Closed

LEMMA L2Types == NarratorTypeOK /\ L2 => NarratorTypeOK'
  <1> SUFFICES ASSUME NarratorTypeOK, L2 PROVE NarratorTypeOK'
    OBVIOUS
  <1>1. PICK c \in todo, answer \in Answers("qwen") :
          /\ Emit(2, c, {i \in global : log[i].names \cap c # {}}, answer) /\ Counted("qwen", answer)
          /\ todo' = IF answer \in {"skipped", "exception"} THEN {} ELSE todo \ {c}
          /\ stage' = IF answer = "exception" THEN Closing ELSE stage
    BY DEF L2
  <1> DEFINE shown == {i \in global : log[i].names \cap c # {}}
  <1>2. out' \in Seq(Record) /\ failed' \in BOOLEAN
    <2>1. 2 \in 1..4 /\ c \in SUBSET Agents /\ "qwen" \in Models /\ shown \in SUBSET Lines
      BY DEF Models, NarratorTypeOK
    <2>2. Emit(2, c, shown, answer)
      BY <1>1
    <2> HIDE DEF shown
    <2> QED BY <2>1, <2>2, EmitTypes, Zenon
  <1>3. calls' \in [Models -> Nat] /\ calls'["qwen"] <= MaxQwen /\ calls'["claude"] <= MaxClaude
    <2>1. "qwen" \in Models /\ answer \in Answers("qwen") \cup {"nothing"}
      BY DEF Models
    <2> QED BY <1>1, <2>1, CountedIs, Zenon
  <1>4. UNCHANGED <<log, half, signal, killed, at, torn, size, bucket, known, global, tick, next, missed>>
    BY DEF L2, file
  <1>5. todo' \subseteq todo /\ stage' \in {stage, Closing}
    BY <1>1
  <1> HIDE DEF shown
  <1> QED BY <1>2, <1>3, <1>4, <1>5 DEF NarratorTypeOK, Following, Closing, Closed

LEMMA EndTierTypes == NarratorTypeOK /\ EndTier => NarratorTypeOK'
  <1> SUFFICES ASSUME NarratorTypeOK, EndTier PROVE NarratorTypeOK'
    OBVIOUS
  <1>1. /\ stage \in {1, 2} /\ next' = [next EXCEPT ![stage] = tick + Cadence[stage]]
        /\ stage' = Due(tick, stage + 1) /\ todo' = Work(stage', bucket, global)
        /\ UNCHANGED <<log, half, signal, killed, at, torn, size, bucket, known, global, tick, calls,
                       out, failed, missed>>
    BY DEF EndTier, NextAfter, file
  <1>2. next \in [1..3 -> Nat] /\ tick \in Nat /\ tick + Cadence[stage] \in Nat
    <2>1. stage \in 1..3 /\ tick \in Nat
      BY <1>1, NarratorNumbers DEF NarratorTypeOK
    <2>2. Cadence[stage] \in Nat
      BY <2>1, NarratorNumbers
    <2> QED BY <2>1, <2>2 DEF NarratorTypeOK
  <1>3. stage' \in Following..Closed
    BY <1>1, <1>2, DueIs DEF Following, Closed
  <1>4. todo' \subseteq SUBSET Agents
    <2>1. stage' \in Int
      BY <1>3 DEF Following, Closed
    <2> QED BY <1>1, <2>1, WorkIs
  <1> QED BY <1>1, <1>2, <1>3, <1>4 DEF NarratorTypeOK

LEMMA L3Types == NarratorTypeOK /\ L3 => NarratorTypeOK'
  <1> SUFFICES ASSUME NarratorTypeOK, L3 PROVE NarratorTypeOK'
    OBVIOUS
  <1>1. PICK answer \in (IF global = {} THEN {"nothing"} ELSE Answers("claude")) :
          /\ IF answer = "nothing" THEN UNCHANGED <<out, failed>> ELSE Emit(3, Agents, global, answer)
          /\ Counted("claude", answer)
          /\ stage' = IF answer = "exception" THEN Closing ELSE Following
          /\ next' = IF answer = "exception" THEN next ELSE NextAfter(3)
    BY DEF L3
  <1>2. out' \in Seq(Record) /\ failed' \in BOOLEAN
    <2>1. CASE answer = "nothing"
      BY <1>1, <2>1 DEF NarratorTypeOK
    <2>2. CASE answer # "nothing"
      <3>1. Emit(3, Agents, global, answer) /\ answer \in Answers("claude")
        BY <1>1, <2>2
      <3>2. 3 \in 1..4 /\ Agents \in SUBSET Agents /\ "claude" \in Models /\ global \in SUBSET Lines
        BY DEF Models, NarratorTypeOK
      <3> QED BY <3>1, <3>2, EmitTypes, Zenon
    <2> QED BY <2>1, <2>2
  <1>3. calls' \in [Models -> Nat] /\ calls'["qwen"] <= MaxQwen /\ calls'["claude"] <= MaxClaude
    <2>1. "claude" \in Models /\ answer \in Answers("claude") \cup {"nothing"}
      BY <1>1 DEF Models
    <2> QED BY <1>1, <2>1, CountedIs, Zenon
  <1>4. next' \in [1..3 -> Nat]
    <2>1. next \in [1..3 -> Nat] /\ tick \in Nat
      BY NarratorNumbers DEF NarratorTypeOK
    <2>2. Cadence[3] \in Nat
      BY NarratorNumbers
    <2>3. next' = next \/ next' = [next EXCEPT ![3] = tick + Cadence[3]]
      BY <1>1 DEF NextAfter
    <2> QED BY <2>1, <2>2, <2>3
  <1>5. /\ UNCHANGED <<log, half, signal, killed, todo, at, torn, size, bucket, known, tick, missed>>
        /\ global' = {}
    BY DEF L3, DrainGlobal, file
  <1>6. Cardinality(global') <= CapGlobal /\ global' \subseteq Lines
    BY <1>5, EmptyWindow, NarratorNumbers
  <1>7. stage' \in Following..Closed
    BY <1>1 DEF Following, Closing, Closed
  <1> QED BY <1>2, <1>3, <1>4, <1>5, <1>6, <1>7 DEF NarratorTypeOK

LEMMA L4Types == NarratorTypeOK /\ Told /\ L4 => NarratorTypeOK'
  <1> SUFFICES ASSUME NarratorTypeOK, Told, L4 PROVE NarratorTypeOK'
    OBVIOUS
  <1> DEFINE shown == Quoted(3, 3) \cup Quoted(2, 6) \cup Quoted(1, 8)
  <1>1. PICK answer \in Answers("claude") :
          /\ out' = IF answer = "exception" THEN out
                    ELSE Append(out, [level |-> 4, tick |-> tick, scope |-> Agents, by |-> answer,
                                      events |-> shown])
          /\ Counted("claude", answer)
    BY DEF L4
  <1>2. shown \in SUBSET Lines
    <2>1. \A k, n : Quoted(k, n) \subseteq UNION {out[i].events : i \in DOMAIN out}
      BY DEF Quoted, Latest
    <2>2. \A i \in DOMAIN out : out[i] \in Record
      BY DEF NarratorTypeOK
    <2>3. \A i \in DOMAIN out : out[i].events \subseteq Lines
      BY <2>2 DEF Record
    <2> QED BY <2>1, <2>3
  <1> HIDE DEF shown
  <1>3. out' \in Seq(Record)
    <2>0. out \in Seq(Record) /\ tick \in 0..MaxTick
      BY DEF NarratorTypeOK
    <2>1. CASE answer = "exception"
      BY <1>1, <2>0, <2>1
    <2>2. CASE answer # "exception"
      <3> DEFINE r == [level |-> 4, tick |-> tick, scope |-> Agents, by |-> answer, events |-> shown]
      <3>1. answer \in Models \cup {"stub", "skipped"}
        BY <2>2 DEF Answers, Models, Unavailable
      <3>2. r \in Record
        BY <1>2, <2>0, <3>1 DEF Record
      <3>3. out' = Append(out, r)
        BY <1>1, <2>2
      <3> HIDE DEF r
      <3> QED BY <2>0, <3>2, <3>3
    <2> QED BY <2>1, <2>2
  <1>4. calls' \in [Models -> Nat] /\ calls'["qwen"] <= MaxQwen /\ calls'["claude"] <= MaxClaude
    <2>1. "claude" \in Models /\ answer \in Answers("claude") \cup {"nothing"}
      BY DEF Models
    <2> QED BY <1>1, <2>1, CountedIs, Zenon
  <1>5. /\ UNCHANGED <<log, half, signal, killed, todo, at, torn, size, bucket, known, global, tick,
                       next, failed, missed>>
        /\ stage' = Closed
    BY DEF L4, file
  <1>6. stage' \in Following..Closed
    BY <1>5 DEF Following, Closed
  <1>7. /\ log' \in Seq(Event) /\ Len(log') <= MaxLines /\ at' \in 0..Len(log')
        /\ bucket' \in [Agents -> SUBSET Lines] /\ known' \in Seq(Agents)
        /\ \A a \in Agents : Cardinality(bucket'[a]) <= CapAgent
    BY <1>5 DEF NarratorTypeOK
  <1> QED BY <1>3, <1>4, <1>5, <1>6, <1>7 DEF NarratorTypeOK

(* Reading past a line, waiting, stopping.                                 *)
LEMMA ReadingKeeps ==
  NInv /\ (LeaveOnSignal \/ TakeFirstHalf \/ TakeSecondHalf \/ LookAtSize \/ LeaveIdle) => NInv'
  <1> SUFFICES ASSUME NInv, LeaveOnSignal \/ TakeFirstHalf \/ TakeSecondHalf \/ LookAtSize \/ LeaveIdle
               PROVE  NInv'
    OBVIOUS
  <1>0. NarratorTypeOK /\ Told
    BY DEF NInv
  <1>1. /\ UNCHANGED <<log, half, signal, killed, bucket, known, global, out, failed, next, tick, todo, calls>>
        /\ stage = Following /\ stage' \in {Following, Closing}
        /\ torn' \in BOOLEAN
        /\ \/ at' = at /\ missed' = missed
           \/ at < Finished /\ at' = at + 1 /\ missed' = missed \cup {at'}
        /\ size' \in {size, Size}
    <2>1. torn \in BOOLEAN
      BY <1>0 DEF NarratorTypeOK
    <2>2. CASE LeaveOnSignal
      BY <2>1, <2>2 DEF LeaveOnSignal, file
    <2>3. CASE TakeFirstHalf
      BY <2>3 DEF TakeFirstHalf, file
    <2>4. CASE TakeSecondHalf
      BY <2>4 DEF TakeSecondHalf, file
    <2>5. CASE LookAtSize
      BY <2>1, <2>5 DEF LookAtSize, Drained, file
    <2>6. CASE LeaveIdle
      BY <2>1, <2>6 DEF LeaveIdle, Drained, process, file
    <2> QED BY <2>2, <2>3, <2>4, <2>5, <2>6
  <1>2. /\ at \in 0..Len(log) /\ Len(log) \in Nat /\ Len(log) <= MaxLines /\ missed \subseteq Lines
        /\ half \in BOOLEAN /\ (half => Len(log) # 0) /\ size \in 0..2 * MaxLines
    <2>1. log \in Seq(Event)
      BY <1>0 DEF NarratorTypeOK
    <2> QED BY <1>0, <2>1 DEF NarratorTypeOK
  <1>3. size' \in 0..2 * MaxLines
    <2>1. Size \in 0..2 * MaxLines
      BY <1>2, NarratorNumbers DEF Size
    <2> QED BY <1>1, <1>2, <2>1
  <1>4. at' \in 0..Len(log) /\ missed' \subseteq Lines
    <2>1. CASE at' = at
      BY <1>1, <1>2, <2>1
    <2>2. CASE at < Finished /\ at' = at + 1 /\ missed' = missed \cup {at'}
      BY <1>2, <2>2, NarratorNumbers DEF Finished, Lines
    <2> QED BY <1>1, <2>1, <2>2
  <1>5. NarratorTypeOK'
    BY <1>0, <1>1, <1>3, <1>4 DEF NarratorTypeOK, Following, Closing, Closed
  <1>6. Told'
    BY <1>0, <1>1, <1>2, QuietKeeps
  <1> QED BY <1>5, <1>6 DEF NInv

(* The file grows, and the process is sent signals.                        *)
LEMMA OutsideKeeps == NInv /\ (FileGrows \/ SignalComes \/ UNCHANGED narratorVars) => NInv'
  <1> SUFFICES ASSUME NInv, FileGrows \/ SignalComes \/ UNCHANGED narratorVars PROVE NInv'
    OBVIOUS
  <1>0. NarratorTypeOK /\ Told
    BY DEF NInv
  <1>1. UNCHANGED <<bucket, known, global, out, failed, next, tick, stage, todo, at, missed, calls, torn, size>>
    BY DEF FileGrows, SignalComes, narratorVars, process
  <1>2. signal' \in BOOLEAN /\ killed' \in BOOLEAN
    BY <1>0 DEF FileGrows, SignalComes, narratorVars, NarratorTypeOK
  <1>3. log \in Seq(Event) /\ Len(log) \in Nat /\ Len(log) <= MaxLines /\ at \in 0..Len(log)
        /\ half \in BOOLEAN /\ (half => log # << >>)
    BY <1>0 DEF NarratorTypeOK
  <1>4. /\ log' \in Seq(Event) /\ Len(log') <= MaxLines /\ Len(log) <= Len(log') /\ at \in 0..Len(log')
        /\ half' \in BOOLEAN /\ (half' => log' # << >>)
        /\ \A i \in 1..Len(log) : log'[i] = log[i]
    <2>1. CASE log' = log /\ half' \in {half, FALSE}
      <3>1. half' \in BOOLEAN /\ (half' => log' # << >>)
        <4>1. half' = half \/ half' = FALSE
          BY <2>1
        <4>2. CASE half' = half
          BY <1>3, <2>1, <4>2, Zenon
        <4>3. CASE half' = FALSE
          BY <4>3, Zenon
        <4> QED BY <4>1, <4>2, <4>3
      <3> QED BY <1>3, <2>1, <3>1
    <2>2. ASSUME NEW e \in Event, log' = Append(log, e), half' \in BOOLEAN, Len(log) < MaxLines
          PROVE  /\ log' \in Seq(Event) /\ Len(log') <= MaxLines /\ Len(log) <= Len(log')
                 /\ at \in 0..Len(log') /\ half' \in BOOLEAN /\ (half' => log' # << >>)
                 /\ \A i \in 1..Len(log) : log'[i] = log[i]
      BY <1>3, <2>2, NarratorNumbers
    <2>3. \/ log' = log /\ half' \in {half, FALSE}
          \/ \E e \in Event : log' = Append(log, e) /\ half' \in BOOLEAN /\ Len(log) < MaxLines
      BY DEF FileGrows, SignalComes, narratorVars, file, FinishLine, WriteLine, BeginLine, Ready
    <2> QED BY <2>1, <2>2, <2>3
  <1>5. NarratorTypeOK'
    BY <1>0, <1>1, <1>2, <1>4 DEF NarratorTypeOK
  <1>6. Told'
    BY <1>0, <1>1, <1>4, QuietKeeps
  <1> QED BY <1>5, <1>6 DEF NInv

LEMMA NarratorStarts == NarratorInit => NInv
  <1> SUFFICES ASSUME NarratorInit PROVE NInv
    OBVIOUS
  <1>1. /\ log = << >> /\ half = FALSE /\ signal = FALSE /\ killed = FALSE
        /\ stage = 0 /\ at = 0 /\ torn = FALSE /\ size = 0
        /\ bucket = [a \in Agents |-> {}] /\ known = << >> /\ global = {}
        /\ tick = 0 /\ next = Cadence /\ todo = {}
        /\ calls = [m \in Models |-> 0] /\ out = << >> /\ failed = FALSE /\ missed = {}
    BY DEF NarratorInit, EmptyBuckets, Following
  <1>2. /\ log \in Seq(Event) /\ known \in Seq(Agents) /\ out \in Seq(Record) /\ Len(log) = 0
        /\ DOMAIN out = {}
    BY <1>1, EmptySeq
  <1>3. next \in [1..3 -> Nat]
    BY <1>1, NarratorAssumption DEF NarratorAssumption
  <1>4. \A a \in Agents : bucket[a] = {}
    BY <1>1
  <1>5. NarratorTypeOK
    <2>1. calls \in [Models -> Nat] /\ calls["qwen"] = 0 /\ calls["claude"] = 0
      BY <1>1 DEF Models
    <2>2. bucket \in [Agents -> SUBSET Lines] /\ \A a \in Agents : Cardinality(bucket[a]) <= CapAgent
      BY <1>1, <1>4, EmptyWindow, NarratorNumbers
    <2>3. Cardinality(global) <= CapGlobal
      BY <1>1, EmptyWindow, NarratorNumbers
    <2>4. /\ Len(log) <= MaxLines /\ stage \in Following..Closed /\ at \in 0..Len(log)
          /\ size \in 0..2 * MaxLines /\ tick \in 0..MaxTick
      BY <1>1, <1>2, NarratorNumbers DEF Following, Closed
    <2>5. global \subseteq Lines /\ missed \subseteq Lines /\ todo \subseteq SUBSET Agents
      BY <1>1
    <2>6. calls["qwen"] <= MaxQwen /\ calls["claude"] <= MaxClaude
      BY <2>1, NarratorNumbers
    <2>7. /\ half \in BOOLEAN /\ (half => log # << >>)
          /\ signal \in BOOLEAN /\ killed \in BOOLEAN /\ failed \in BOOLEAN /\ torn \in BOOLEAN
      BY <1>1
    <2> QED BY <1>2, <1>3, <2>1, <2>2, <2>3, <2>4, <2>5, <2>6, <2>7, Zenon DEF NarratorTypeOK
  <1>6. \A k : Records(k) = {}
    BY <1>2 DEF Records
  <1>7. Windows /\ TierRuns /\ ToldOnce /\ RoundsAreSpaced
    BY <1>1, <1>2, <1>4, <1>6 DEF Windows, TierRuns, ToldOnce, RoundsAreSpaced
  <1>8. Rounds
    <2>1. \A k \in 1..3 : Cadence[k] >= Cadence[k]
      BY NarratorNumbers
    <2> QED BY <1>1, <1>6, <2>1 DEF Rounds
  <1>9. NothingSkipped
    <2>1. \A a : TakenIn(a) = {}
      BY <1>1 DEF TakenIn
    <2> QED BY <2>1 DEF NothingSkipped
  <1> QED BY <1>5, <1>7, <1>8, <1>9 DEF NInv, Told

LEMMA NarratorKeeps == NInv /\ [NarratorNext]_narratorVars => NInv'
  <1> SUFFICES ASSUME NInv, [NarratorNext]_narratorVars PROVE NInv'
    OBVIOUS
  <1>0. NarratorTypeOK /\ Told
    BY DEF NInv
  <1>1. CASE Take
    BY <1>0, <1>1, TakeKeeps, TakeTypes DEF NInv
  <1>2. CASE LeaveOnSignal \/ TakeFirstHalf \/ TakeSecondHalf \/ LookAtSize \/ LeaveIdle
    BY <1>2, ReadingKeeps
  <1>3. CASE L1
    BY <1>0, <1>3, L1Keeps, L1Types DEF NInv
  <1>4. CASE L2
    BY <1>0, <1>4, L2Keeps, L2Types DEF NInv
  <1>5. CASE EndTier
    BY <1>0, <1>5, EndTierKeeps, EndTierTypes DEF NInv
  <1>6. CASE L3
    BY <1>0, <1>6, L3Keeps, L3Types DEF NInv
  <1>7. CASE L4
    BY <1>0, <1>7, L4Keeps, L4Types DEF NInv
  <1>8. CASE FileGrows \/ SignalComes \/ UNCHANGED narratorVars
    BY <1>8, OutsideKeeps
  <1> QED BY <1>1, <1>2, <1>3, <1>4, <1>5, <1>6, <1>7, <1>8 DEF NarratorNext, NarratorStep

(* The clusters are right in every state, whatever the path that the       *)
(* union-find has been brought into.                                       *)
LEMMA NarratorIsSafe == NInv => NarratorSafe
  <1> SUFFICES ASSUME NInv PROVE NarratorSafe
    OBVIOUS
  <1>0. NarratorTypeOK /\ Told
    BY DEF NInv
  <1>1. \A i \in global : log[i].pair \in Pairs
    <2> SUFFICES ASSUME NEW i \in global PROVE log[i].pair \in Pairs
      OBVIOUS
    <2>1. i \in 1..MaxLines /\ i <= at /\ at \in 0..Len(log) /\ Len(log) \in Nat /\ log \in Seq(Event)
      BY <1>0 DEF NarratorTypeOK, Told, Windows, Lines
    <2>2. i \in 1..Len(log)
      BY <2>1, NarratorNumbers
    <2>3. log[i] \in Event
      BY <2>1, <2>2
    <2> QED BY <2>3 DEF Event
  <1>2. ClustersAreComponents
    BY <1>0, <1>1, ClustersTrue DEF NarratorTypeOK
  <1> QED BY <1>0, <1>2 DEF NarratorSafe, Told

(* For any agents, caps, cadences and budgets, and whatever is written to  *)
(* the event file, in whole lines or halves, and whenever it is signalled: *)
(* the narrator tells every event of an agent in at most one summary of    *)
(* that agent, and one that it took in and has not told is still in the    *)
(* bucket or older than a full window; its clusters are the agents tied by *)
(* deals, directly or over others; and no tier tells of the same agents    *)
(* twice within its cadence.                                               *)
THEOREM EventsAreToldOnce == NarratorInit /\ [][NarratorNext]_narratorVars => []NarratorSafe
  <1>1. NInv /\ [NarratorNext]_narratorVars => NInv'
    BY NarratorKeeps
  <1> QED BY NarratorStarts, <1>1, NarratorIsSafe, PTL

-----------------------------------------------------------------------------
(* The processes beside the engine, one at a time, as in the module that   *)
(* is checked: what the engine writes there is what the narrator is open   *)
(* to.                                                                     *)
LEMMA WritersAreOutside ==
  ASSUME Three \subseteq Agents
  PROVE  /\ EngineWrites /\ UNCHANGED <<signal, killed, stage, todo, process>> => FileGrows
         /\ NInv /\ Signal /\ UNCHANGED <<killed, stage, todo, process>> => SignalComes
  <1>1. ASSUME NEW t \in 0..MaxTick
        PROVE  {Speech(t, 1), Deal(t, 1, 2), Deal(t, 1, 3), Death(t, 2), Noise(t)} \subseteq Event
    <2>1. {1, 2, 3} \subseteq Agents
      BY DEF Three
    <2>2. ASSUME NEW a \in Agents, NEW b \in Agents, a # b PROVE {a, b} \in Pairs
      <3>1. {a, b} = {a} \cup {b} /\ b \notin {a}
        BY <2>2
      <3>2. IsFiniteSet({a}) /\ Cardinality({a}) = 1
        BY FS_Singleton
      <3>3. Cardinality({a, b}) = 2
        BY <3>1, <3>2, FS_AddElement
      <3> QED BY <3>3 DEF Pairs
    <2>3. {1, 2} \in Pairs /\ {1, 3} \in Pairs /\ {} \in Pairs
      BY <2>1, <2>2 DEF Pairs
    <2> QED BY <2>1, <2>3 DEF Speech, Deal, Death, Noise, Event
  <1>2. ASSUME EngineWrites PROVE FinishLine \/ \E e \in Event : WriteLine(e) \/ BeginLine(e)
    BY <1>1, <1>2 DEF EngineWrites
  <1>3. NInv /\ Signal /\ UNCHANGED killed => signal' \in BOOLEAN /\ killed' \in BOOLEAN /\ UNCHANGED file
    BY DEF NInv, NarratorTypeOK, Signal
  <1> QED BY <1>2, <1>3 DEF FileGrows, SignalComes

RecordsKept  == ResearchInv /\ Paged
ProcessesInv == EInv /\ NInv /\ RecordsKept /\ StudyInv /\ SpendInv

LEMMA ProcessesStart == Init => ProcessesInv
  BY LauncherStart, NarratorStarts, ResearchStart, PagesStart, StudyInitOK, SpendStart
  DEF Init, ProcessesInv, RecordsKept

(* Each step is one of one process, and leaves the others as they are.     *)
LEMMA OneProcessAtATime ==
  ASSUME Three \subseteq Agents, NInv, [Next]_all
  PROVE  /\ [ExperimentNext]_vars /\ [NarratorNext]_narratorVars /\ [ResearchNext]_researchVars
         /\ [StudyNext]_studyVars /\ [SpendNext]_spendVars
  <1>1. CASE UNCHANGED all
    BY <1>1 DEF all
  <1>2. CASE Launching /\ ExperimentNext
    BY <1>2 DEF Launching, Only
  <1>3. CASE Narrating /\ (NarratorStep \/ FileGrows \/ SignalComes)
    BY <1>3 DEF Narrating, Only, NarratorNext
  <1>4. CASE Researching /\ ResearchNext
    BY <1>4 DEF Researching, Only
  <1>5. CASE Studying /\ StudyNext
    BY <1>5 DEF Studying, Only
  <1>6. CASE Spending /\ SpendNext
    BY <1>6 DEF Spending, Only
  <1> QED BY <1>1, <1>2, <1>3, <1>4, <1>5, <1>6, WritersAreOutside DEF Next

LEMMA ProcessesKeep ==
  ASSUME Three \subseteq Agents
  PROVE  ProcessesInv /\ [Next]_all => ProcessesInv' /\ [NothingUnlisted /\ VerdictIsTrue]_researchVars
  <1> SUFFICES ASSUME ProcessesInv, [Next]_all
               PROVE  ProcessesInv' /\ [NothingUnlisted /\ VerdictIsTrue]_researchVars
    OBVIOUS
  <1>1. EInv /\ NInv /\ RecordsKept /\ StudyInv /\ SpendInv
    BY DEF ProcessesInv
  <1>2. /\ [ExperimentNext]_vars /\ [NarratorNext]_narratorVars /\ [ResearchNext]_researchVars
        /\ [StudyNext]_studyVars /\ [SpendNext]_spendVars
    BY <1>1, OneProcessAtATime
  <1>3. EInv'
    BY <1>1, <1>2, LauncherStep
  <1>4. NInv'
    BY <1>1, <1>2, NarratorKeeps
  <1>5. RecordsKept' /\ NothingUnlisted /\ VerdictIsTrue
    BY <1>1, <1>2, PagesKeep DEF RecordsKept
  <1>6. StudyInv' /\ SpendInv'
    BY <1>1, <1>2, StudyStep, SpendStep
  <1> QED BY <1>3, <1>4, <1>5, <1>6 DEF ProcessesInv

(* Whichever of them runs, with whatever the engine writes and the user    *)
(* signals, and with the fairness that their ends need: launchers clean    *)
(* up, the narrator tells each event once, runs are built alone and listed *)
(* once and no row is lost, each run of a study has its row, and each      *)
(* tripwire is told once (run_p7_real.py, narrator/main.py, exp/cli.py,    *)
(* run_brain_study.py and budget_log.py). The lines that the engine writes *)
(* there name agents 1 to 3.                                               *)
THEOREM ProcessesAreSafe ==
  ASSUME Three \subseteq Agents
  PROVE  Spec => /\ [](LauncherSafe /\ NarratorSafe /\ ResearchSafe /\ StudySafe /\ SpendSafe)
                 /\ RecordsAreTrue
  <1>1. ProcessesInv => LauncherSafe /\ NarratorSafe /\ ResearchSafe /\ StudySafe /\ SpendSafe
    BY LauncherIsSafe, NarratorIsSafe, ResearchIsSafe
    DEF ProcessesInv, RecordsKept, StudyInv, StudySafe, SpendInv, SpendSafe
  <1>2. ProcessesInv /\ [Next]_all => ProcessesInv' /\ [NothingUnlisted /\ VerdictIsTrue]_researchVars
    BY ProcessesKeep
  <1> QED BY <1>1, <1>2, ProcessesStart, PTL DEF Spec, RecordsAreTrue
=============================================================================
