------------------------------ MODULE MCMinds ------------------------------
(* The loop of an LLM agent, on replies that move, act, do neither, or are *)
(* no decision; or an agent with a four-layer brain.                       *)
EXTENDS FocalLoop, FourLayerHarness

MCReplies == {[kind |-> "decision", moves |-> TRUE, direct |-> 0],
              [kind |-> "decision", moves |-> FALSE, direct |-> 2], Odd}

MCViews == {<< >>, <<1>>, <<2, 1>>, <<1, 3>>, <<3, 2, 1>>}
MCPlanned == {<<"move">>, <<"speak", "pay">>, <<"speak", "exit", "speak">>, <<"speak", "speak", "pay", "exit">>}
MCScenes == {Calm, [Calm EXCEPT !.weak = TRUE], [Calm EXCEPT !.inside = TRUE, !.door = "adjacent"]}
   \cup {[Calm EXCEPT !.door = d, !.gold = TRUE, !.beside = b] :
            d \in {"adjacent", "near", "in sight"}, b \in BOOLEAN}

VARIABLE half  \* which of the two runs; the other is over
all == <<half, vars, harnessVars>>

FocalIsOver ==
  /\ run = "ended" /\ limited = FALSE /\ stopped = TRUE /\ motor = FALSE /\ goal = FALSE /\ sent = {}
  /\ vis = {} /\ audible = << >> /\ born = 0 /\ task = None /\ since = Every
  /\ prevVis = {} /\ seen = {} /\ cycles = 0 /\ apart = Every /\ spacing = Every
  /\ alarms = [e \in Violent |-> 0]
HarnessIsOver ==
  /\ agent = "qwen" /\ at = "exited"
  /\ around = Calm /\ view = << >> /\ register = << >> /\ theory = {}
  /\ goals = [active |-> 0, done |-> 0] /\ count = 0 /\ note = FALSE
  /\ plan = << >> /\ batch = << >> /\ waited = 0 /\ gap = 0

MindsInit ==
  \/ half = "focal" /\ Init /\ HarnessIsOver
  \/ half = "harness" /\ HarnessInit /\ FocalIsOver

FocalRuns == half = "focal" /\ UNCHANGED <<half, harnessVars>>
HarnessRuns == half = "harness" /\ UNCHANGED <<half, vars>>

(* The engine keeps observing, the HTTP client of the focal agents times   *)
(* out, and so does the wait for acks.  The stub answers, timers fire, and *)
(* the event loop serves one that is due; a local model need not answer.   *)
MindsSpec ==
  /\ MindsInit /\ [][(FocalRuns /\ Next) \/ (HarnessRuns /\ HarnessNext)]_all
  /\ WF_all(FocalRuns /\ Observe) /\ WF_all(FocalRuns /\ ModelAnswers) /\ WF_all(FocalRuns /\ BatchDone)
  /\ WF_all(HarnessRuns /\ Alarm) /\ WF_all(HarnessRuns /\ Stubbed) /\ WF_all(HarnessRuns /\ Starting)
  /\ WF_all(HarnessRuns /\ Close) /\ SF_all(HarnessRuns /\ RuntimeEnds)

(* Decisions are taken, the loop goes on thinking, and the program ends.   *)
MindsGoOn == DecisionsTaken /\ KeepsThinking /\ ProgramEnds
=============================================================================
