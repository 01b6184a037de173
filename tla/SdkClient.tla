----------------------------- MODULE SdkClient -----------------------------
(***************************************************************************)
(* The Python client of an agent (sdk/python/agent_sim_sdk/client.py): one *)
(* socket, a reader task that sorts its frames, a brain loop that takes    *)
(* observations from a bounded inbox, and calls that post actions and may  *)
(* wait for their acks.  All of them are tasks of one asyncio loop: what   *)
(* the code does between two awaits is one action here.                    *)
(*                                                                         *)
(* The engine's end of the socket is external: it observes, answers an     *)
(* action at most once and in any order, refuses a bad secret, and hangs   *)
(* up when it likes.                                                       *)
(***************************************************************************)
EXTENDS Naturals, Sequences

CONSTANTS
  Callers,    \* the tasks that post actions
  Loop,       \* the one of them that runs the brain over observations()
  InboxSize,  \* maxsize of the inbox, 64 in the code
  MaxBatch,   \* the actions of a batch, 3
  Defects,    \* what may be wrong with an observation frame
  MaxObs,     \* bound on the observations the engine sends
  MaxActions  \* bound on the actions posted

ASSUME SdkAssumption ==
  /\ Loop \in Callers
  /\ InboxSize \in Nat \ {0} /\ MaxBatch \in Nat \ {0}
  /\ MaxObs \in Nat /\ MaxActions \in Nat

ObsIds    == 1..MaxObs
ActionIds == 1..MaxActions
End       == 0      \* _STREAM_END

(* A call of act_batch: the actions it has sent and those to follow, and   *)
(* whether it waits for the acks.                                          *)
Call   == [pc : {"idle", "sending", "waiting"},
           ids : SUBSET ActionIds, todo : SUBSET ActionIds, wait : BOOLEAN]
NoCall == [pc |-> "idle", ids |-> {}, todo |-> {}, wait |-> FALSE]

Frame ==
  [type : {"observation"}, n : ObsIds, defect : Defects \cup {"none"}]
    \cup [type : {"action_ack"}, n : ActionIds] \cup [type : {"error"}, n : {0}]

VARIABLES
  link,      \* the socket, before and after
  wire,      \* frames on their way to the client
  observed,  \* the number of the engine's last observation
  received,  \* the actions that reached the engine and are not answered
  reader,    \* _reader_task
  inbox,     \* _inbox
  fatal,     \* _fatal_error is set
  loop,      \* where the brain loop is
  cur,       \* the observation it holds
  call,      \* the call each task is in
  nextId,    \* the next action_id no batch has
  pending,   \* keys of _pending_acks
  answered,  \* the actions whose future has a result
  newest,    \* history: the newest sound observation the reader has read
  acked      \* history: the actions whose ack the reader has read

engine == <<observed, received>>
stream == <<reader, inbox, fatal, newest>>
acks   == <<pending, answered, acked>>
clientVars   == <<link, wire, engine, stream, loop, cur, call, nextId, acks>>

ClientTypeOK ==
  /\ link \in {"none", "registered", "open", "closed"}
  /\ wire \in Seq(Frame)
  /\ observed \in 0..MaxObs /\ received \subseteq ActionIds
  /\ reader \in {"unstarted", "running", "ended", "cancelled"}
  /\ inbox \in Seq(ObsIds \cup {End}) /\ Len(inbox) <= InboxSize
  /\ fatal \in BOOLEAN
  /\ loop \in {"getting", "thinking", "acting", "returned", "raised"}
  /\ cur \in 0..MaxObs /\ newest \in 0..MaxObs
  /\ call \in [Callers -> Call]
  /\ nextId \in 1..(MaxActions + 1)
  /\ pending \subseteq ActionIds /\ answered \subseteq ActionIds /\ acked \subseteq ActionIds

ClientInit ==
  /\ link = "none" /\ wire = <<>> /\ observed = 0 /\ received = {}
  /\ reader = "unstarted" /\ inbox = <<>> /\ fatal = FALSE
  /\ loop = "getting" /\ cur = 0 /\ newest = 0
  /\ call = [c \in Callers |-> NoCall] /\ nextId = 1
  /\ pending = {} /\ answered = {} /\ acked = {}

-----------------------------------------------------------------------------
(* register_agent and connect.  Either may raise, and then nothing is      *)
(* changed; a secret the engine does not know is answered by one frame.    *)
RegisterAgent ==
  /\ link = "none" /\ link' = "registered"
  /\ UNCHANGED <<wire, engine, stream, loop, cur, call, nextId, acks>>

ConnectClient ==
  /\ link = "registered" /\ link' = "open"
  /\ \/ UNCHANGED wire
     \/ wire' = <<[type |-> "error", n |-> 0]>>
  /\ UNCHANGED <<engine, stream, loop, cur, call, nextId, acks>>

(* The engine. *)
EngineObserves ==
  /\ link = "open" /\ observed < MaxObs /\ observed' = observed + 1
  /\ \E d \in Defects \cup {"none"} :
       wire' = Append(wire, [type |-> "observation", n |-> observed', defect |-> d])
  /\ UNCHANGED <<link, received, stream, loop, cur, call, nextId, acks>>

EngineAnswers ==
  /\ link = "open"
  /\ \E id \in received :
       /\ received' = received \ {id}
       /\ wire' = Append(wire, [type |-> "action_ack", n |-> id])
  /\ UNCHANGED <<link, observed, stream, loop, cur, call, nextId, acks>>

(* The connection ends, at either end; the frames behind some point of the *)
(* wire are lost with it.                                                  *)
Disconnect ==
  /\ link = "open" /\ link' = "closed"
  /\ \E k \in 0..Len(wire) : wire' = SubSeq(wire, 1, k)
  /\ UNCHANGED <<engine, stream, loop, cur, call, nextId, acks>>

-----------------------------------------------------------------------------

(* The reader.  put_nowait drops the oldest entry of a full inbox.         *)
PutNowait(x) ==
  inbox' = Append(IF Len(inbox) = InboxSize THEN Tail(inbox) ELSE inbox, x)

StartReader ==
  /\ link \in {"open", "closed"} /\ reader = "unstarted" /\ reader' = "running"
  /\ UNCHANGED <<link, wire, engine, inbox, fatal, newest, loop, cur, call, nextId, acks>>

(* _dispatch_ack: an ack nobody waits for is dropped.                      *)
DispatchAck(id) ==
  /\ pending' = pending \ {id}
  /\ answered' = answered \cup ({id} \cap pending)
  /\ acked' = acked \cup {id}

(* Mutant: an unknown sound is not repaired.                               *)
CoercedButSounds == {"null_list", "no_facing"}

(* The defects the reader repairs before the models validate a frame; a    *)
(* frame with any other is dropped.                                        *)
Coerced == {"null_list", "no_facing", "unknown_sound"}

Valid(f) == f.defect \in Coerced \cup {"none"}

(* What the reader owes the brain, whatever it does about defects.         *)
Sound(f) == f.defect \in {"none", "null_list", "no_facing", "unknown_sound"}

TakeObservation(f) ==
  /\ IF Valid(f) THEN PutNowait(f.n) ELSE UNCHANGED inbox
  /\ newest' = IF Sound(f) THEN f.n ELSE newest

(* The finally of _read_loop.                                              *)
EndStream == reader' = "ended" /\ PutNowait(End)

ReadFrame ==
  /\ reader = "running" /\ wire # <<>> /\ wire' = Tail(wire)
  /\ LET f == Head(wire) IN
       \/ /\ f.type = "action_ack" /\ DispatchAck(f.n)
          /\ UNCHANGED stream
       \/ /\ f.type = "error" /\ fatal' = TRUE /\ EndStream
          /\ UNCHANGED <<newest, acks>>
       \/ /\ f.type = "observation" /\ TakeObservation(f)
          /\ UNCHANGED <<reader, fatal, acks>>
  /\ UNCHANGED <<link, engine, loop, cur, call, nextId>>

ReaderEnds ==
  /\ reader = "running" /\ link = "closed" /\ wire = <<>> /\ EndStream
  /\ UNCHANGED <<link, wire, engine, fatal, newest, loop, cur, call, nextId, acks>>

(* close cancels the reader and hangs up.  A task that is cancelled before *)
(* it first ran never enters its try.                                      *)
Close ==
  /\ link \in {"open", "closed"}
  /\ \/ reader = "running" /\ EndStream
     \/ reader = "unstarted" /\ reader' = "cancelled" /\ UNCHANGED inbox
  /\ link' = "closed"
  /\ UNCHANGED <<wire, engine, fatal, newest, loop, cur, call, nextId, acks>>

-----------------------------------------------------------------------------

(* The brain loop: block for one entry of the inbox, then drain it and     *)
(* keep the last.                                                          *)
Observations ==
  /\ loop = "getting" /\ inbox # <<>> /\ inbox' = <<>>
  /\ IF \E i \in 1..Len(inbox) : inbox[i] = End
     THEN loop' = (IF fatal THEN "raised" ELSE "returned") /\ UNCHANGED cur
     ELSE loop' = "thinking" /\ cur' = inbox[Len(inbox)]
  /\ UNCHANGED <<link, wire, engine, reader, fatal, newest, call, nextId, acks>>

(* The brain returns None, or raises and the observation is skipped.       *)
SkipObs ==
  /\ loop = "thinking" /\ loop' = "getting"
  /\ UNCHANGED <<link, wire, engine, stream, cur, call, nextId, acks>>

-----------------------------------------------------------------------------
(* Mutant: a future is registered only after its send.                     *)
PostUnregistered(c, todo, w) ==
  LET id == CHOOSE i \in todo : \A j \in todo : i <= j IN
  /\ call' = [call EXCEPT ![c] =
                [pc |-> "sending", ids |-> @.ids \cup {id}, todo |-> todo \ {id}, wait |-> w]]
  /\ pending' = pending \cup call[c].ids
  /\ received' = IF link = "open" THEN received \cup {id} ELSE received
  /\ UNCHANGED <<link, wire, observed, stream, cur, answered, acked>>

(* act_batch registers the future of an action and awaits its send; the    *)
(* frame may be with the engine, and even answered, before send returns.   *)
Post(c, todo, w) ==
  LET id == CHOOSE i \in todo : \A j \in todo : i <= j IN
  /\ call' = [call EXCEPT ![c] =
                [pc |-> "sending", ids |-> @.ids \cup {id}, todo |-> todo \ {id}, wait |-> w]]
  /\ pending' = pending \cup {id}
  /\ received' = IF link = "open" THEN received \cup {id} ELSE received
  /\ UNCHANGED <<link, wire, observed, stream, cur, answered, acked>>

(* act, which the brain loop calls, is a batch of one that waits.          *)
ActBatch(c) ==
  /\ link \in {"open", "closed"} /\ call[c].pc = "idle"
  /\ IF c = Loop
     THEN /\ loop = "thinking" /\ loop' = "acting"
          /\ nextId' = nextId + 1 /\ Post(c, {nextId}, TRUE)
     ELSE /\ \E n \in 1..MaxBatch, w \in BOOLEAN :
               nextId' = nextId + n /\ Post(c, nextId..(nextId + n - 1), w)
          /\ UNCHANGED loop
  /\ nextId' <= MaxActions + 1

(* Mutant: the brain loop does not survive its call.                       *)
FinishDying(c) == call' = [call EXCEPT ![c] = NoCall] /\ UNCHANGED loop

(* The call is over: it returns, or raises to a caller that goes on.       *)
Finish(c) ==
  /\ call' = [call EXCEPT ![c] = NoCall]
  /\ loop' = IF c = Loop THEN "getting" ELSE loop

Forget(c) == pending' = pending \ call[c].ids

SendNext(c) ==
  /\ call[c].pc = "sending" /\ call[c].todo # {}
  /\ Post(c, call[c].todo, call[c].wait)
  /\ UNCHANGED <<loop, nextId>>

SendLast(c) ==
  /\ call[c].pc = "sending" /\ call[c].todo = {}
  /\ IF call[c].wait
     THEN call' = [call EXCEPT ![c].pc = "waiting"] /\ UNCHANGED <<loop, pending>>
     ELSE Finish(c) /\ Forget(c)
  /\ UNCHANGED <<link, wire, engine, stream, cur, nextId, answered, acked>>

SendFails(c) ==
  /\ call[c].pc = "sending" /\ link = "closed"
  /\ Finish(c) /\ Forget(c)
  /\ UNCHANGED <<link, wire, engine, stream, cur, nextId, answered, acked>>

GatherDone(c) ==
  /\ call[c].pc = "waiting" /\ call[c].ids \subseteq answered /\ Finish(c)
  /\ UNCHANGED <<link, wire, engine, stream, cur, nextId, acks>>

Timeout(c) ==
  /\ call[c].pc = "waiting" /\ Finish(c) /\ Forget(c)
  /\ UNCHANGED <<link, wire, engine, stream, cur, nextId, answered, acked>>

-----------------------------------------------------------------------------
Acts(c) ==
  ActBatch(c) \/ SendNext(c) \/ SendLast(c) \/ SendFails(c) \/ GatherDone(c) \/ Timeout(c)

ClientNext ==
  \/ RegisterAgent \/ ConnectClient \/ EngineObserves \/ EngineAnswers \/ Disconnect
  \/ StartReader \/ ReadFrame \/ ReaderEnds \/ Close
  \/ Observations \/ SkipObs
  \/ \E c \in Callers : Acts(c)

ClientSpec == ClientInit /\ [][ClientNext]_clientVars

-----------------------------------------------------------------------------
(* The end of the stream is never dropped to make room and never overtaken *)
(* by an observation: once the reader is over its mark is the last entry,  *)
(* until the brain loop has seen it (client.py _read_loop, MAJ-6).         *)
EndIsKept ==
  reader = "ended" =>
    \/ loop \in {"returned", "raised"}
    \/ inbox # <<>> /\ inbox[Len(inbox)] = End

(* A refusal is never taken for a clean end of the stream: the error is    *)
(* known before the mark can be (client.py "a bad secret produced an empty *)
(* observation stream with no clue").                                      *)
FatalSurfaces == loop = "returned" => ~ fatal

(* A future is pending only for a call that is in progress: a send that    *)
(* fails half way through a batch, a timeout and a call that does not wait *)
(* leave none behind (client.py act_batch "they'd just leak").             *)
NoLeak == \A id \in pending : \E c \in Callers : id \in call[c].ids

(* An ack that comes while its call is in progress is not lost, even when  *)
(* it comes before the send of its action has returned: such a call never  *)
(* times out once all acks are in (client.py act_batch, _dispatch_ack).    *)
NoAckLost == \A c \in Callers : call[c].ids \cap acked \subseteq answered

(* The brain gets the newest observation the reader has read, and never    *)
(* the same or an older one again: also when the inbox overflowed while it *)
(* was thinking, and when the newest had to be repaired (client.py         *)
(* observations "acting on them is worse than useless").                   *)
FreshOnYield ==
  [][loop = "getting" /\ loop' = "thinking" => cur' = newest /\ cur' > cur]_clientVars

(* Once the connection or the reader is over, whichever of server, network *)
(* and close() ended it, the brain loop ends too (client.py "so            *)
(* observations() returns instead of hanging forever on inbox.get()").     *)
(* The one exception is a reader that close() cancelled before it first    *)
(* ran: it leaves no mark, and a loop that waits for one waits for ever.   *)
StreamEnds ==
  link = "closed" \/ reader = "ended" ~> loop \in {"returned", "raised"} \/ reader = "cancelled"

(* And no caller is stuck in act_batch for good, whatever the engine does. *)
CallsEnd == \A c \in Callers : call[c].pc # "idle" ~> call[c].pc = "idle"

(* The client loses neither the end of its stream nor an ack, and keeps no *)
(* future that nobody waits for (client.py _read_loop, act_batch).         *)
ClientSafe == ClientTypeOK /\ EndIsKept /\ FatalSurfaces /\ NoLeak /\ NoAckLost

(* Neither the brain loop, but for the exception that StreamEnds names,    *)
(* nor a caller waits for ever.                                            *)
NobodyHangs == StreamEnds /\ CallsEnd
=============================================================================
