---------------------------- MODULE AgentSession ----------------------------
(***************************************************************************)
(* The agent hub: how an agent registers for a body, connects, reconnects  *)
(* and leaves, and how the reaper clears registrations nobody came for     *)
(* (engine/internal/wire/agent.go).                                        *)
(*                                                                         *)
(* Each registration is an HTTP handler of its own and each connection a   *)
(* goroutine that runs HandleWS, then readPump, then readPump's deferred   *)
(* teardown; the reaper is one more goroutine.  They share h.live and      *)
(* h.registry under h.mu, the bodies under the world's lock, and each      *)
(* connection's `closedAt' and `done' under no lock at all.  A step is     *)
(* what a goroutine does under one lock, or one operation on the latter.   *)
(* All bodies are on the overworld: MapHub has the rest.                   *)
(***************************************************************************)
EXTENDS Integers, FiniteSets

CONSTANTS
  Agents,       \* the registrations: each makes at most one agentRecord
  Conns,        \* the connections
  Loaded,       \* agent bodies present when the world was loaded
  Fresh,        \* ids SpawnAgentEntity may hand out
  Nobody        \* no agent, no connection, no body

ASSUME SessionConstants ==
  /\ Loaded \cap Fresh = {}
  /\ Nobody \notin Agents \cup Conns \cup Loaded \cup Fresh

Bodies == Loaded \cup Fresh

VARIABLES
  bodies,     \* the entities of the overworld
  died,       \* history: bodies the systems removed
  used,       \* ids SpawnAgentEntity has handed out
  ctl,        \* the bodies that are PlayerControlled
  reg,        \* h.registry
  live,       \* h.live, Nobody where the map has no entry
  mu,         \* the connection that holds h.mu between two steps
  agent,      \* the registrations: where the handler is, and its record
  conn,       \* the connections: where the goroutine is, and its fields
  victims     \* the registrations whose bodies the reaper has yet to remove

vars == <<bodies, died, used, ctl, reg, live, mu, agent, conn, victims>>

Agent == [pc : {"new", "scan", "verify", "insert", "done", "refused"},
          left : SUBSET Bodies, body : Bodies \cup {Nobody},
          explicit : BOOLEAN, spawned : BOOLEAN, connected : BOOLEAN]

Conn == [pc : {"new", "auth", "stomp", "mark", "run", "signal", "drop",
               "unmark", "remove", "ended", "panicked"},
         who : Agents \cup {Nobody}, open : BOOLEAN, closedAt : BOOLEAN,
         closes : 0..2]

TypeOK ==
  /\ bodies \subseteq Bodies /\ died \subseteq Bodies /\ used \subseteq Fresh
  /\ ctl \subseteq bodies
  /\ reg \subseteq Agents /\ live \in [Agents -> Conns \cup {Nobody}]
  /\ mu \in Conns \cup {Nobody}
  /\ agent \in [Agents -> Agent] /\ conn \in [Conns -> Conn]
  /\ victims \subseteq Agents

Init ==
  /\ bodies = Loaded /\ died = {} /\ used = {} /\ ctl = {}
  /\ reg = {} /\ live = [a \in Agents |-> Nobody] /\ mu = Nobody
  /\ agent = [a \in Agents |-> [pc |-> "new", left |-> {}, body |-> Nobody,
                explicit |-> FALSE, spawned |-> FALSE, connected |-> FALSE]]
  /\ conn = [c \in Conns |-> [pc |-> "new", who |-> Nobody, open |-> FALSE,
                closedAt |-> FALSE, closes |-> 0]]
  /\ victims = {}

Unlocked == mu = Nobody

-----------------------------------------------------------------------------
(* HandleRegister.  A bind_entity is taken as it is; otherwise the handler *)
(* goes through the bodies it found on the map and takes the first that no *)
(* connected and no registered agent has, or else spawns one.              *)

Bind(a, b) ==
  /\ agent[a].pc = "new" /\ b \in Bodies
  /\ agent' = [agent EXCEPT ![a] =
                 [@ EXCEPT !.pc = "verify", !.body = b, !.explicit = TRUE]]
  /\ UNCHANGED <<bodies, died, used, ctl, reg, live, mu, conn, victims>>

Scan(a) ==
  /\ agent[a].pc = "new"
  /\ agent' = [agent EXCEPT ![a] = [@ EXCEPT !.pc = "scan", !.left = bodies]]
  /\ UNCHANGED <<bodies, died, used, ctl, reg, live, mu, conn, victims>>

Taken(b) ==
  \E a \in Agents : (live[a] # Nobody \/ a \in reg) /\ agent[a].body = b

(* The body is looked up before the lock is taken: it may be chosen, and   *)
(* be gone.                                                                *)
Consider(a, b) ==
  /\ agent[a].pc = "scan" /\ b \in agent[a].left /\ Unlocked
  /\ \/ /\ b \notin bodies \/ Taken(b)
        /\ agent' = [agent EXCEPT ![a].left = @ \ {b}]
     \/ /\ ~ Taken(b)
        /\ agent' = [agent EXCEPT ![a] =
                       [@ EXCEPT !.pc = "verify", !.body = b, !.left = {}]]
  /\ UNCHANGED <<bodies, died, used, ctl, reg, live, mu, conn, victims>>

SpawnAgentEntity(a, b) ==
  /\ agent[a].pc = "scan" /\ agent[a].left = {}
  /\ b \in Fresh \ used /\ used' = used \cup {b}
  /\ bodies' = bodies \cup {b}
  /\ agent' = [agent EXCEPT ![a] =
                 [@ EXCEPT !.pc = "verify", !.body = b, !.spawned = TRUE]]
  /\ UNCHANGED <<died, ctl, reg, live, mu, conn, victims>>

(* The body is looked up once more; then the record enters the registry.   *)
Verify(a) ==
  /\ agent[a].pc = "verify"
  /\ agent' = [agent EXCEPT ![a] =
                 [@ EXCEPT !.pc = IF agent[a].body \in bodies THEN "insert" ELSE "refused"]]
  /\ UNCHANGED <<bodies, died, used, ctl, reg, live, mu, conn, victims>>

Insert(a) ==
  /\ agent[a].pc = "insert" /\ Unlocked
  /\ agent' = [agent EXCEPT ![a] = [@ EXCEPT !.pc = "done"]]
  /\ reg' = reg \cup {a}
  /\ UNCHANGED <<bodies, died, used, ctl, live, mu, conn, victims>>

-----------------------------------------------------------------------------
(* HandleWS.                                                               *)

(* A client that was given a secret connects with it.                      *)
Dial(c, a) ==
  /\ conn[c].pc = "new" /\ agent[a].pc = "done"
  /\ conn' = [conn EXCEPT ![c] = [@ EXCEPT !.pc = "auth", !.who = a, !.open = TRUE]]
  /\ UNCHANGED <<bodies, died, used, ctl, reg, live, mu, agent, victims>>

(* The new connection takes its agent's place in h.live.                   *)
Takes(c) ==
  LET a == conn[c].who
  IN  /\ live' = [live EXCEPT ![a] = c]
      /\ agent' = [agent EXCEPT ![a] = [@ EXCEPT !.connected = TRUE]]

AuthInvalid(c) ==
  /\ conn[c].pc = "auth" /\ Unlocked /\ conn[c].who \notin reg
  /\ conn' = [conn EXCEPT ![c] = [@ EXCEPT !.pc = "ended", !.open = FALSE]]
  /\ UNCHANGED <<bodies, died, used, ctl, reg, live, mu, agent, victims>>

Connect(c) ==
  /\ conn[c].pc = "auth" /\ Unlocked
  /\ conn[c].who \in reg /\ live[conn[c].who] = Nobody
  /\ conn' = [conn EXCEPT ![c] = [@ EXCEPT !.pc = "mark"]]
  /\ Takes(c)
  /\ UNCHANGED <<bodies, died, used, ctl, reg, mu, victims>>

(* A connection of the same agent is there: it is told to stop.  If its    *)
(* `done' is seen open, closing it is a step of its own, under h.mu.       *)
Stomp(c) ==
  LET prev == live[conn[c].who]
  IN  /\ conn[c].pc = "auth" /\ Unlocked
      /\ conn[c].who \in reg /\ prev # Nobody
      /\ IF conn[prev].closes = 0
           THEN /\ conn' = [conn EXCEPT ![prev] = [@ EXCEPT !.closedAt = TRUE],
                                        ![c] = [@ EXCEPT !.pc = "stomp"]]
                /\ mu' = c /\ UNCHANGED <<live, agent>>
           ELSE /\ conn' = [conn EXCEPT ![prev] = [@ EXCEPT !.closedAt = TRUE, !.open = FALSE],
                                        ![c] = [@ EXCEPT !.pc = "mark"]]
                /\ Takes(c) /\ UNCHANGED mu
      /\ UNCHANGED <<bodies, died, used, ctl, reg, victims>>

(* Closing a closed channel panics; the server recovers the goroutine's    *)
(* panic, and h.mu stays locked.                                           *)
CloseDone(c) ==
  LET prev == live[conn[c].who]
  IN  /\ conn[c].pc = "stomp"
      /\ IF conn[prev].closes = 0
           THEN /\ conn' = [conn EXCEPT ![prev] = [@ EXCEPT !.closes = 1, !.open = FALSE],
                                        ![c] = [@ EXCEPT !.pc = "mark"]]
                /\ Takes(c) /\ mu' = Nobody
           ELSE /\ conn' = [conn EXCEPT ![prev] = [@ EXCEPT !.closes = 2],
                                        ![c] = [@ EXCEPT !.pc = "panicked"]]
                /\ UNCHANGED <<live, agent, mu>>
      /\ UNCHANGED <<bodies, died, used, ctl, reg, victims>>

(* SetPlayerControlled(true), after h.mu was given back.                   *)
Mark(c) ==
  /\ conn[c].pc = "mark"
  /\ conn' = [conn EXCEPT ![c] = [@ EXCEPT !.pc = "run"]]
  /\ ctl' = ctl \cup ({agent[conn[c].who].body} \cap bodies)
  /\ UNCHANGED <<bodies, died, used, reg, live, mu, agent, victims>>

(* The client hangs up, or the observation loop closes the socket.         *)
HangUp(c) ==
  /\ conn[c].pc = "run" /\ conn[c].open
  /\ conn' = [conn EXCEPT ![c] = [@ EXCEPT !.open = FALSE]]
  /\ UNCHANGED <<bodies, died, used, ctl, reg, live, mu, agent, victims>>

-----------------------------------------------------------------------------
(* readPump's deferred teardown.                                           *)

(* closedAt.Swap(true) says whether this teardown is to close `done'.      *)
Leave(c) ==
  /\ conn[c].pc = "run" /\ ~ conn[c].open
  /\ conn' = [conn EXCEPT ![c] =
                [@ EXCEPT !.pc = IF conn[c].closedAt THEN "drop" ELSE "signal",
                          !.closedAt = TRUE]]
  /\ UNCHANGED <<bodies, died, used, ctl, reg, live, mu, agent, victims>>

Signal(c) ==
  /\ conn[c].pc = "signal"
  /\ conn' = [conn EXCEPT ![c] =
                IF conn[c].closes = 0
                THEN [@ EXCEPT !.pc = "drop", !.closes = 1]
                ELSE [@ EXCEPT !.pc = "panicked", !.closes = 2]]
  /\ UNCHANGED <<bodies, died, used, ctl, reg, live, mu, agent, victims>>

(* Mutant: a stomped connection forgets the secret of its replacement.     *)
DropUnguarded(c) ==
  LET a == conn[c].who
      owner == live[a] = c
  IN  /\ conn[c].pc = "drop" /\ Unlocked
      /\ conn' = [conn EXCEPT ![c] = [@ EXCEPT !.pc = IF owner THEN "unmark" ELSE "ended"]]
      /\ live' = IF owner THEN [live EXCEPT ![a] = Nobody] ELSE live
      /\ reg' = reg \ {a}
      /\ UNCHANGED <<bodies, died, used, ctl, mu, agent, victims>>

(* Only the connection that still has its agent's place gives it up, with  *)
(* the secret; the rest of the teardown is for that one.                   *)
Drop(c) ==
  LET a == conn[c].who
      owner == live[a] = c
  IN  /\ conn[c].pc = "drop" /\ Unlocked
      /\ conn' = [conn EXCEPT ![c] = [@ EXCEPT !.pc = IF owner THEN "unmark" ELSE "ended"]]
      /\ live' = IF owner THEN [live EXCEPT ![a] = Nobody] ELSE live
      /\ reg' = IF owner THEN reg \ {a} ELSE reg
      /\ UNCHANGED <<bodies, died, used, ctl, mu, agent, victims>>

(* SetPlayerControlled(false).                                             *)
Unmark(c) ==
  /\ conn[c].pc = "unmark"
  /\ conn' = [conn EXCEPT ![c] =
                [@ EXCEPT !.pc = IF agent[conn[c].who].explicit THEN "ended" ELSE "remove"]]
  /\ ctl' = ctl \ {agent[conn[c].who].body}
  /\ UNCHANGED <<bodies, died, used, reg, live, mu, agent, victims>>

(* RemoveEntity takes the flags of the body with it.                       *)
Without(b) == bodies' = bodies \ {b} /\ ctl' = ctl \ {b}

Remove(c) ==
  /\ conn[c].pc = "remove"
  /\ conn' = [conn EXCEPT ![c] = [@ EXCEPT !.pc = "ended"]]
  /\ Without(agent[conn[c].who].body)
  /\ UNCHANGED <<died, used, reg, live, mu, agent, victims>>

-----------------------------------------------------------------------------
(* A registration nobody came for within the grace period.  The model has  *)
(* no clock: the period may be over at any time.                           *)
Stale(a) == a \in reg /\ ~ agent[a].connected /\ live[a] = Nobody

(* reapStaleRegistrations, under h.mu ...                                  *)
Sweep(S) ==
  /\ victims = {} /\ Unlocked
  /\ S # {} /\ \A a \in S : Stale(a)
  /\ reg' = reg \ S /\ victims' = S
  /\ UNCHANGED <<bodies, died, used, ctl, live, mu, agent, conn>>

(* ... and then, without it, the bodies that were spawned for them.        *)
Reap(a) ==
  /\ a \in victims /\ victims' = victims \ {a}
  /\ IF agent[a].spawned /\ ~ agent[a].explicit
       THEN Without(agent[a].body) ELSE UNCHANGED <<bodies, ctl>>
  /\ UNCHANGED <<died, used, reg, live, mu, agent, conn>>

(* The systems remove a dead body.                                         *)
Die(b) ==
  /\ b \in bodies /\ died' = died \cup {b} /\ Without(b)
  /\ UNCHANGED <<used, reg, live, mu, agent, conn, victims>>

-----------------------------------------------------------------------------
Register(a) ==
  \/ \E b \in Bodies : Consider(a, b) \/ SpawnAgentEntity(a, b)
  \/ Verify(a) \/ Insert(a)

HandleWS(c) ==
  \/ AuthInvalid(c) \/ Connect(c) \/ Stomp(c) \/ CloseDone(c) \/ Mark(c)

Teardown(c) == Leave(c) \/ Signal(c) \/ Drop(c) \/ Unmark(c) \/ Remove(c)

Next ==
  \/ \E a \in Agents :
       \/ Scan(a) \/ Register(a) \/ Reap(a)
       \/ \E b \in Bodies : Bind(a, b)
  \/ \E c \in Conns :
       \/ HandleWS(c) \/ HangUp(c) \/ Teardown(c)
       \/ \E a \in Agents : Dial(c, a)
  \/ \E S \in SUBSET Agents : Sweep(S)
  \/ \E b \in Bodies : Die(b)

Spec == Init /\ [][Next]_vars

-----------------------------------------------------------------------------
(* Properties *)

(* A registration whose body no other registration is for.                 *)
Sole(a) ==
  /\ agent[a].pc = "done"
  /\ \A u \in Agents \ {a} : agent[u].body # agent[a].body

(* However connections of one agent replace each other while their         *)
(* teardowns run, the one in place can be replaced in its turn: its secret *)
(* is still registered (agent.go: the stillOwner guard of readPump).       *)
LiveIsRegistered == \A a \in Agents : live[a] # Nobody => a \in reg

(* A registered agent keeps the body it was given, unless it dies: no late *)
(* teardown of an older connection and no reaper takes it away (agent.go:  *)
(* readPump's stillOwner guard, reapStaleRegistrations).                   *)
RegisteredKeepsBody ==
  \A a \in reg : Sole(a) => agent[a].body \in bodies \cup died

(* A connected agent controls its body: a connection that was replaced     *)
(* never clears the flag its replacement has set ("audit HIGH: agent left  *)
(* wandering uncontrolled").                                               *)
ConnectedControlsBody ==
  \A a \in Agents, c \in Conns :
    live[a] = c /\ conn[c].pc = "run" /\ Sole(a) /\ agent[a].body \in bodies
      => agent[a].body \in ctl

(* Nothing is left of an agent that is gone: neither the body it was given *)
(* nor, without one of its own, a body that was spawned for it and that it *)
(* never came for (agent.go: "so it doesn't ghost"; the reaper's comment). *)
Gone(a) ==
  /\ agent[a].pc = "done" /\ a \notin reg \cup victims
  /\ \A c \in Conns : conn[c].who = a => conn[c].pc \in {"auth", "ended"}

NoBodyLeftBehind ==
  \A a \in Agents :
    Gone(a) /\ ~ agent[a].explicit /\ (agent[a].connected \/ agent[a].spawned)
      => agent[a].body \notin bodies

(* agent.go says of `done' that it is closed exactly once.                 *)
DoneClosedOnce == \A c \in Conns : conn[c].closes <= 1

(* However connections replace each other, tear down and are reaped, an    *)
(* agent, its record and its body stay together (agent.go readPump,        *)
(* reapStaleRegistrations).                                                *)
SessionSafe ==
  TypeOK /\ LiveIsRegistered /\ RegisteredKeepsBody /\ ConnectedControlsBody /\ NoBodyLeftBehind
=============================================================================
