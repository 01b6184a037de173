---------------------------- MODULE MCConnection ----------------------------
(* The two ends of the connection of an agent: the sessions of the engine, *)
(* or the client of the SDK.                                               *)
EXTENDS AgentSession, SdkClient

VARIABLE end  \* which of the two runs; the other stays as it starts
all == <<end, vars, clientVars>>

Start == end \in {"engine", "client"} /\ Init /\ ClientInit

SessionsRun == end = "engine" /\ UNCHANGED <<end, clientVars>>
ClientRuns  == end = "client" /\ UNCHANGED <<end, vars>>

(* A task that can go on is run by the event loop some time; a send that   *)
(* the socket holds up fails when it closes, and wait_for gives up in the  *)
(* end.  The brain is taken to return or raise: its own calls have         *)
(* timeouts.  Nothing is assumed of the engine.                            *)
ConnectionSpec ==
  /\ Start
  /\ [][(SessionsRun /\ Next) \/ (ClientRuns /\ ClientNext)]_all
  /\ WF_all(ClientRuns /\ StartReader) /\ WF_all(ClientRuns /\ ReadFrame)
  /\ WF_all(ClientRuns /\ ReaderEnds) /\ WF_all(ClientRuns /\ Observations)
  /\ WF_all(ClientRuns /\ SkipObs)
  /\ \A c \in Callers :
       WF_all(ClientRuns /\ (SendNext(c) \/ SendLast(c) \/ SendFails(c) \/ GatherDone(c) \/ Timeout(c)))
=============================================================================
