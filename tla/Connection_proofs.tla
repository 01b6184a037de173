------------------------- MODULE Connection_proofs --------------------------
(***************************************************************************)
(* For any agents, connections and bodies: an agent, its record and its    *)
(* body stay together, however connections replace each other, tear down   *)
(* and are reaped.                                                         *)
(*                                                                         *)
(* For any number of callers, any inbox and any batches, and whatever the  *)
(* engine sends: the client loses neither the end of its stream nor an     *)
(* ack, keeps no future nobody waits for, and shows its brain each time    *)
(* the newest observation.                                                 *)
(***************************************************************************)
EXTENDS MCConnection, Integers, WellFoundedInduction, TLAPS

-----------------------------------------------------------------------------
(* The sessions of the engine. *)

(* Where a handler is says what it has chosen, and what was found on the   *)
(* map was put there by the map file or by a spawn.                        *)
Chosen ==
  /\ bodies \subseteq Loaded \cup used
  /\ \A a \in Agents :
       /\ agent[a].pc \in {"new", "scan"} => agent[a].body = Nobody
       /\ agent[a].pc \in {"insert", "done"} => agent[a].body \in Loaded \cup used

(* Only a record that was made is in the registry, is reaped or has        *)
(* connections.                                                            *)
Recorded ==
  /\ \A a \in reg \cup victims : agent[a].pc = "done"
  /\ \A c \in Conns : conn[c].pc # "new" => conn[c].who \in Agents /\ agent[conn[c].who].pc = "done"

(* Who has its agent's place, is taking it or has given it up.             *)
Placed ==
  /\ \A a \in Agents : live[a] # Nobody => a \in reg /\ conn[live[a]].who = a
                                            /\ conn[live[a]].pc \notin {"new", "auth", "stomp"}
  /\ \A c \in Conns :
       /\ conn[c].pc = "stomp" => mu = c /\ conn[c].who \in reg /\ live[conn[c].who] # Nobody
       /\ conn[c].pc \in {"unmark", "remove"} => conn[c].who \notin reg
  /\ \A a \in victims : a \notin reg /\ ~ agent[a].connected

(* No other registration is for the body of a.                             *)
Alone(a) == \A u \in Agents \ {a} : agent[u].body # agent[a].body

Kept ==
  \A a \in Agents : (a \in reg \/ agent[a].pc = "insert") /\ Alone(a)
                      => agent[a].body \in bodies \cup died

Controlled ==
  \A a \in Agents : live[a] # Nobody /\ conn[live[a]].pc = "run" /\ Alone(a)
                      /\ agent[a].body \in bodies
                      => agent[a].body \in ctl

(* The body of an agent that is gone is removed, or about to be.           *)
Leaving(a) == \E c \in Conns : conn[c].who = a /\ conn[c].pc \in {"unmark", "remove"}
Removed ==
  \A a \in Agents :
    agent[a].pc = "done" /\ a \notin reg /\ ~ agent[a].explicit
      /\ (agent[a].connected \/ agent[a].spawned)
      => a \in victims \/ Leaving(a) \/ agent[a].body \notin bodies

SInv == TypeOK /\ Chosen /\ Recorded /\ Placed /\ Kept /\ Controlled /\ Removed

LEMMA SessionStart == Init => SInv
  <1> SUFFICES ASSUME Init PROVE SInv
    OBVIOUS
  <1> USE SessionConstants DEF SessionConstants, Init
  <1>1. \A a \in Agents : agent[a].pc = "new" /\ agent[a].body = Nobody /\ live[a] = Nobody
    OBVIOUS
  <1>2. \A c \in Conns : conn[c].pc = "new"
    OBVIOUS
  <1>3. TypeOK
    BY DEF TypeOK, Agent, Conn, Bodies
  <1>4. Chosen /\ Recorded /\ Placed
    BY <1>1, <1>2 DEF Chosen, Recorded, Placed
  <1>5. Kept /\ Controlled /\ Removed
    BY <1>1 DEF Kept, Controlled, Removed
  <1> QED BY <1>3, <1>4, <1>5 DEF SInv

-----------------------------------------------------------------------------
(* The steps of a registration.                                            *)
RegisterStep(a, b) ==
  \/ b \in Bodies /\ (Bind(a, b) \/ Consider(a, b) \/ SpawnAgentEntity(a, b))
  \/ Scan(a) \/ Verify(a) \/ Insert(a)

(* What a step of a registration makes of its record.                      *)
LEMMA RegisterMoves ==
  ASSUME SInv, NEW a \in Agents, NEW b, RegisterStep(a, b)
  PROVE  /\ agent' \in [Agents -> Agent]
         /\ \A u \in Agents \ {a} : agent'[u] = agent[u]
         /\ agent[a].pc \in {"new", "scan", "verify", "insert"}
         /\ agent[a].pc \notin {"new", "scan"} => agent'[a].body = agent[a].body
         /\ agent'[a].pc \in {"insert", "done"} =>
              agent[a].pc \in {"verify", "insert"}
              /\ (agent'[a].pc = "insert" => agent[a].body \in bodies)
              /\ (agent'[a].pc = "done" => agent[a].pc = "insert" /\ reg' = reg \cup {a})
         /\ agent'[a].pc \in {"new", "scan"} => agent[a].pc \in {"new", "scan"} /\ agent'[a].body = agent[a].body
         /\ agent'[a].pc # "done" => reg' = reg
  <1> USE DEF SInv, TypeOK, Chosen, Bodies
  <1>1. CASE b \in Bodies /\ Bind(a, b)
    <2> DEFINE r == [agent[a] EXCEPT !.pc = "verify", !.body = b, !.explicit = TRUE]
    <2>1. r \in Agent /\ r.pc = "verify"
      BY <1>1 DEF Agent
    <2>2. agent' = [agent EXCEPT ![a] = r] /\ agent[a].pc = "new" /\ reg' = reg
      BY <1>1 DEF Bind
    <2> HIDE DEF r
    <2> QED BY <2>1, <2>2
  <1>2. CASE Scan(a)
    <2> DEFINE r == [agent[a] EXCEPT !.pc = "scan", !.left = bodies]
    <2>1. r \in Agent /\ r.pc = "scan" /\ r.body = agent[a].body
      BY DEF Agent
    <2>2. agent' = [agent EXCEPT ![a] = r] /\ agent[a].pc = "new" /\ reg' = reg
      BY <1>2 DEF Scan
    <2> HIDE DEF r
    <2> QED BY <2>1, <2>2
  <1>3. CASE b \in Bodies /\ Consider(a, b)
    <2> DEFINE r == [agent[a] EXCEPT !.left = agent[a].left \ {b}]
               q == [agent[a] EXCEPT !.pc = "verify", !.body = b, !.left = {}]
    <2>1. agent[a].pc = "scan" /\ reg' = reg
      BY <1>3 DEF Consider
    <2>2. agent' = [agent EXCEPT ![a] = r] \/ agent' = [agent EXCEPT ![a] = q]
      BY <1>3 DEF Consider
    <2>3. r \in Agent /\ r.pc = "scan" /\ r.body = agent[a].body
      BY <2>1 DEF Agent
    <2>4. q \in Agent /\ q.pc = "verify"
      BY <1>3 DEF Agent
    <2> HIDE DEF r, q
    <2> QED BY <2>1, <2>2, <2>3, <2>4
  <1>4. CASE b \in Bodies /\ SpawnAgentEntity(a, b)
    <2> DEFINE r == [agent[a] EXCEPT !.pc = "verify", !.body = b, !.spawned = TRUE]
    <2>1. r \in Agent /\ r.pc = "verify"
      BY <1>4 DEF Agent
    <2>2. agent' = [agent EXCEPT ![a] = r] /\ agent[a].pc = "scan" /\ reg' = reg
      BY <1>4 DEF SpawnAgentEntity
    <2> HIDE DEF r
    <2> QED BY <2>1, <2>2
  <1>5. CASE Verify(a)
    <2> DEFINE r == [agent[a] EXCEPT !.pc = IF agent[a].body \in bodies THEN "insert" ELSE "refused"]
    <2>1. r \in Agent /\ r.pc = (IF agent[a].body \in bodies THEN "insert" ELSE "refused") /\ r.body = agent[a].body
      BY DEF Agent
    <2>2. agent' = [agent EXCEPT ![a] = r] /\ agent[a].pc = "verify" /\ reg' = reg
      BY <1>5 DEF Verify
    <2> HIDE DEF r
    <2> QED BY <2>1, <2>2
  <1>6. CASE Insert(a)
    <2> DEFINE r == [agent[a] EXCEPT !.pc = "done"]
    <2>1. r \in Agent /\ r.pc = "done" /\ r.body = agent[a].body
      BY DEF Agent
    <2>2. agent' = [agent EXCEPT ![a] = r] /\ agent[a].pc = "insert" /\ reg' = reg \cup {a}
      BY <1>6 DEF Insert
    <2> HIDE DEF r
    <2> QED BY <2>1, <2>2
  <1> QED BY <1>1, <1>2, <1>3, <1>4, <1>5, <1>6 DEF RegisterStep

LEMMA RegisterKeeps ==
  ASSUME SInv, NEW a \in Agents, NEW b, RegisterStep(a, b)
  PROVE  SInv'
  <1> USE DEF SInv, TypeOK
  <1>0. UNCHANGED <<died, ctl, live, mu, conn, victims>>
    BY DEF RegisterStep, Bind, Scan, Consider, SpawnAgentEntity, Verify, Insert
  <1>1. /\ \A u \in Agents \ {a} : agent'[u] = agent[u]
        /\ agent' \in [Agents -> Agent]
        /\ agent[a].pc # "done" /\ agent[a].pc # "refused"
    BY RegisterMoves
  <1>2. bodies \subseteq bodies' /\ used \subseteq used' /\ bodies' \subseteq Loaded \cup used'
        /\ used' \subseteq Fresh /\ bodies' \ bodies \subseteq Fresh \ used
    BY SessionConstants
    DEF SessionConstants, Chosen, RegisterStep, Bind, Scan, Consider, SpawnAgentEntity, Verify, Insert
  <1>3. reg \subseteq reg' /\ reg' \subseteq reg \cup {a}
        /\ (reg' # reg => agent[a].pc = "insert" /\ agent'[a].pc = "done")
        /\ (agent'[a].pc = "done" => a \in reg')
    BY RegisterMoves
  <1>4. TypeOK'
    BY <1>0, <1>1, <1>2, <1>3 DEF Bodies
  <1>5. Chosen'
    BY <1>1, <1>2, RegisterMoves DEF Chosen
  <1>6. Recorded'
    BY <1>0, <1>1, <1>3 DEF Recorded
  <1>7. Placed'
    BY <1>0, <1>1, <1>3 DEF Placed, Recorded
  <1>8. \A u \in Agents : agent[u].pc \in {"insert", "done"} /\ Alone(u)' => Alone(u)
    <2> SUFFICES ASSUME NEW u \in Agents, agent[u].pc \in {"insert", "done"}, Alone(u)',
                        NEW v \in Agents \ {u}
                 PROVE  agent[v].body # agent[u].body
      BY DEF Alone
    <2>1. agent[u].body # Nobody
      BY SessionConstants DEF SessionConstants, Chosen
    <2>2. agent'[u].body = agent[u].body
      BY <1>1, RegisterMoves
    <2>3. agent'[v].body = agent[v].body \/ agent[v].body = Nobody
      BY <1>1, RegisterMoves DEF Chosen
    <2> QED BY <2>1, <2>2, <2>3 DEF Alone
  <1>9. Kept'
    <2> SUFFICES ASSUME NEW u \in Agents, u \in reg' \/ agent'[u].pc = "insert", Alone(u)'
                 PROVE  agent'[u].body \in bodies' \cup died'
      BY DEF Kept
    <2>1. CASE u \in reg \/ agent[u].pc = "insert"
      <3>1. agent[u].pc \in {"insert", "done"} /\ agent'[u].body = agent[u].body
        BY <1>1, <2>1, RegisterMoves DEF Recorded
      <3> QED BY <1>0, <1>2, <1>8, <2>1, <3>1 DEF Kept
    <2>2. CASE ~ (u \in reg \/ agent[u].pc = "insert")
      <3>1. u = a /\ agent'[a].pc = "insert"
        BY <1>1, <1>3, <2>2
      <3> QED BY <1>2, <3>1, <2>2, RegisterMoves
    <2> QED BY <2>1, <2>2
  <1>10. Controlled'
    <2> SUFFICES ASSUME NEW u \in Agents, live[u] # Nobody, conn[live[u]].pc = "run", Alone(u)',
                        agent'[u].body \in bodies'
                 PROVE  agent'[u].body \in ctl
      BY <1>0 DEF Controlled
    <2>1. agent[u].pc = "done" /\ agent'[u] = agent[u]
      BY <1>1 DEF Placed, Recorded
    <2>2. agent[u].body \in bodies
      BY <1>2, <2>1, SessionConstants DEF SessionConstants, Chosen
    <2> QED BY <1>8, <2>1, <2>2 DEF Controlled
  <1>11. Removed'
    <2> SUFFICES ASSUME NEW u \in Agents, agent'[u].pc = "done", u \notin reg', ~ agent'[u].explicit,
                        agent'[u].connected \/ agent'[u].spawned
                 PROVE  u \in victims \/ Leaving(u) \/ agent'[u].body \notin bodies'
      BY <1>0 DEF Removed, Leaving
    <2>1. u # a /\ agent'[u] = agent[u] /\ u \notin reg
      BY <1>1, <1>3
    <2>2. agent[u].body \notin bodies => agent[u].body \notin bodies'
      BY <1>2, <2>1, SessionConstants DEF SessionConstants, Chosen
    <2> QED BY <2>1, <2>2 DEF Removed
  <1> QED BY <1>4, <1>5, <1>6, <1>7, <1>9, <1>10, <1>11

-----------------------------------------------------------------------------
(* The steps of a connection.                                              *)
ConnStep(c) ==
  \/ \E a \in Agents : Dial(c, a)
  \/ HandleWS(c) \/ HangUp(c) \/ Teardown(c)

(* No other connection goes on.                                            *)
LEMMA ConnMoves ==
  ASSUME SInv, NEW c \in Conns, ConnStep(c)
  PROVE  /\ conn' \in [Conns -> Conn]
         /\ \A d \in Conns \ {c} : conn'[d].pc = conn[d].pc /\ conn'[d].who = conn[d].who
         /\ conn'[c].pc # "new"
         /\ conn'[c].who = conn[c].who \/ (\E a \in Agents : Dial(c, a))
         /\ conn[c].pc # "new" \/ (\E a \in Agents : Dial(c, a))
  <1> USE DEF SInv, TypeOK
  <1>1. ASSUME NEW r \in Conn, conn' = [conn EXCEPT ![c] = r]
        PROVE  /\ conn' \in [Conns -> Conn] /\ conn'[c] = r
               /\ \A d \in Conns \ {c} : conn'[d] = conn[d]
    BY <1>1
  <1>2. ASSUME NEW d \in Conns, NEW r \in Conn, NEW q \in Conn, q.pc = conn[d].pc, q.who = conn[d].who,
               conn' = [conn EXCEPT ![d] = q, ![c] = r]
        PROVE  /\ conn' \in [Conns -> Conn] /\ conn'[c] = r
               /\ \A e \in Conns \ {c} : conn'[e].pc = conn[e].pc /\ conn'[e].who = conn[e].who
    BY <1>2
  <1>3. CASE \E a \in Agents : Dial(c, a)
    <2> PICK a \in Agents : Dial(c, a)
      BY <1>3
    <2> DEFINE r == [conn[c] EXCEPT !.pc = "auth", !.who = a, !.open = TRUE]
    <2>1. r \in Conn /\ r.pc = "auth"
      BY DEF Conn
    <2>2. conn' = [conn EXCEPT ![c] = r]
      BY DEF Dial
    <2> HIDE DEF r
    <2> QED BY <1>1, <1>3, <2>1, <2>2
  <1>4. CASE AuthInvalid(c)
    <2> DEFINE r == [conn[c] EXCEPT !.pc = "ended", !.open = FALSE]
    <2>1. r \in Conn /\ r.pc = "ended" /\ r.who = conn[c].who
      BY DEF Conn
    <2>2. conn' = [conn EXCEPT ![c] = r] /\ conn[c].pc # "new"
      BY <1>4 DEF AuthInvalid
    <2> HIDE DEF r
    <2> QED BY <1>1, <2>1, <2>2
  <1>5. CASE Connect(c)
    <2> DEFINE r == [conn[c] EXCEPT !.pc = "mark"]
    <2>1. r \in Conn /\ r.pc = "mark" /\ r.who = conn[c].who
      BY DEF Conn
    <2>2. conn' = [conn EXCEPT ![c] = r] /\ conn[c].pc # "new"
      BY <1>5 DEF Connect
    <2> HIDE DEF r
    <2> QED BY <1>1, <2>1, <2>2
  <1>6. CASE Stomp(c)
    <2> DEFINE d == live[conn[c].who]
               q == [conn[d] EXCEPT !.closedAt = TRUE]
               p == [conn[d] EXCEPT !.closedAt = TRUE, !.open = FALSE]
               r == [conn[c] EXCEPT !.pc = "stomp"]
               s == [conn[c] EXCEPT !.pc = "mark"]
    <2>1. conn[c].pc # "new" /\ d \in Conns \ {c}
      BY <1>6 DEF Stomp, Placed, Recorded
    <2>2. conn' = [conn EXCEPT ![d] = q, ![c] = r] \/ conn' = [conn EXCEPT ![d] = p, ![c] = s]
      BY <1>6, <2>1 DEF Stomp
    <2>3. q \in Conn /\ p \in Conn /\ q.pc = conn[d].pc /\ p.pc = conn[d].pc
          /\ q.who = conn[d].who /\ p.who = conn[d].who
      <3> HIDE DEF d
      <3> QED BY <2>1 DEF Conn
    <2>4. r \in Conn /\ s \in Conn /\ r.pc = "stomp" /\ s.pc = "mark"
          /\ r.who = conn[c].who /\ s.who = conn[c].who
      BY DEF Conn
    <2> HIDE DEF d, p, q, r, s
    <2> QED BY <1>2, <2>1, <2>2, <2>3, <2>4
  <1>7. CASE CloseDone(c)
    <2> DEFINE d == live[conn[c].who]
               q == [conn[d] EXCEPT !.closes = 1, !.open = FALSE]
               p == [conn[d] EXCEPT !.closes = 2]
               r == [conn[c] EXCEPT !.pc = "mark"]
               s == [conn[c] EXCEPT !.pc = "panicked"]
    <2>1. conn[c].pc # "new" /\ d \in Conns \ {c}
      BY <1>7 DEF CloseDone, Placed, Recorded
    <2>2. conn' = [conn EXCEPT ![d] = q, ![c] = r] \/ conn' = [conn EXCEPT ![d] = p, ![c] = s]
      BY <1>7, <2>1 DEF CloseDone
    <2>3. q \in Conn /\ p \in Conn /\ q.pc = conn[d].pc /\ p.pc = conn[d].pc
          /\ q.who = conn[d].who /\ p.who = conn[d].who
      <3> HIDE DEF d
      <3>1. \A n \in 0..2 : [conn[d] EXCEPT !.closes = n] \in Conn
                           /\ [conn[d] EXCEPT !.closes = n, !.open = FALSE] \in Conn
        BY <2>1 DEF Conn
      <3>2. 1 \in 0..2 /\ 2 \in 0..2
        OBVIOUS
      <3>3. q \in Conn /\ p \in Conn
        BY <3>1, <3>2
      <3> QED BY <2>1, <3>3 DEF Conn
    <2>4. r \in Conn /\ s \in Conn /\ r.pc = "mark" /\ s.pc = "panicked"
          /\ r.who = conn[c].who /\ s.who = conn[c].who
      BY DEF Conn
    <2> HIDE DEF d, p, q, r, s
    <2> QED BY <1>2, <2>1, <2>2, <2>3, <2>4
  <1>8. CASE Mark(c) \/ HangUp(c)
    <2> DEFINE r == [conn[c] EXCEPT !.pc = "run"]
               s == [conn[c] EXCEPT !.open = FALSE]
    <2>1. /\ conn[c].pc \in {"mark", "run"}
          /\ conn' = [conn EXCEPT ![c] = r] \/ conn' = [conn EXCEPT ![c] = s]
      BY <1>8 DEF Mark, HangUp
    <2>2. r \in Conn /\ r.pc = "run" /\ r.who = conn[c].who
      BY DEF Conn
    <2>3. s \in Conn /\ s.pc = conn[c].pc /\ s.who = conn[c].who
      BY DEF Conn
    <2> HIDE DEF r, s
    <2> QED BY <1>1, <2>1, <2>2, <2>3
  <1>9. CASE Teardown(c)
    <2> DEFINE Left(to) == [conn[c] EXCEPT !.pc = to, !.closedAt = TRUE]
               Closed(to, n) == [conn[c] EXCEPT !.pc = to, !.closes = n]
               At(to) == [conn[c] EXCEPT !.pc = to]
    <2>1. conn[c].pc # "new"
      BY <1>9 DEF Teardown, Leave, Signal, Drop, Unmark, Remove
    <2>2. CASE Leave(c)
      <3>1. conn' = [conn EXCEPT ![c] = Left("drop")] \/ conn' = [conn EXCEPT ![c] = Left("signal")]
        BY <2>2 DEF Leave
      <3>2. \A to \in {"drop", "signal"} :
              Left(to) \in Conn /\ Left(to).pc = to /\ Left(to).who = conn[c].who
        BY DEF Conn
      <3> HIDE DEF Left
      <3> QED BY <1>1, <2>1, <3>1, <3>2
    <2>3. CASE Signal(c)
      <3>1. conn' = [conn EXCEPT ![c] = Closed("drop", 1)] \/ conn' = [conn EXCEPT ![c] = Closed("panicked", 2)]
        BY <2>3 DEF Signal
      <3>2. \A to \in {"drop", "panicked"}, n \in 0..2 :
              Closed(to, n) \in Conn /\ Closed(to, n).pc = to /\ Closed(to, n).who = conn[c].who
        BY DEF Conn
      <3>3. 1 \in 0..2 /\ 2 \in 0..2
        OBVIOUS
      <3> HIDE DEF Closed
      <3> QED BY <1>1, <2>1, <3>1, <3>2, <3>3
    <2>4. CASE Drop(c) \/ Unmark(c) \/ Remove(c)
      <3>1. \/ conn' = [conn EXCEPT ![c] = At("unmark")] \/ conn' = [conn EXCEPT ![c] = At("ended")]
            \/ conn' = [conn EXCEPT ![c] = At("remove")]
        BY <2>4 DEF Drop, Unmark, Remove
      <3>2. \A to \in {"unmark", "ended", "remove"} :
              At(to) \in Conn /\ At(to).pc = to /\ At(to).who = conn[c].who
        BY DEF Conn
      <3> HIDE DEF At
      <3> QED BY <1>1, <2>1, <3>1, <3>2
    <2> QED BY <1>9, <2>2, <2>3, <2>4 DEF Teardown
  <1> QED BY <1>3, <1>4, <1>5, <1>6, <1>7, <1>8, <1>9 DEF ConnStep, HandleWS

(* Steps of which no one but the connection is to know.                    *)
LEMMA AloneKeeps ==
  ASSUME SInv, NEW c \in Conns, ConnStep(c),
         UNCHANGED <<bodies, died, used, ctl, reg, live, agent, victims>>,
         conn[c].pc \notin {"unmark", "remove"}, conn'[c].pc \notin {"unmark", "remove"},
         conn'[c].pc = "run" => conn[c].pc = "run",
         conn'[c].pc \in {"auth", "stomp"} => conn[c].pc \in {"new", "auth"},
         \/ mu' = mu /\ conn'[c].pc # "stomp"
         \/ mu = Nobody /\ mu' = c /\ conn[c].who \in reg /\ live[conn[c].who] # Nobody
              /\ conn'[c].who = conn[c].who
  PROVE  SInv'
  <1> USE DEF SInv
  <1>1. TypeOK'
    BY ConnMoves DEF TypeOK
  <1>2. \A d \in Conns : conn[d].pc # "new" => conn'[d].who = conn[d].who /\ conn'[d].pc # "new"
    BY ConnMoves DEF Dial
  <1>3. Recorded'
    <2>1. CASE \E a \in Agents : Dial(c, a)
      <3> PICK a \in Agents : Dial(c, a)
        BY <2>1
      <3>1. conn'[c].who = a /\ agent[a].pc = "done"
        BY DEF Dial, TypeOK, Conn
      <3> QED BY <3>1, ConnMoves DEF Recorded
    <2>2. CASE ~ (\E a \in Agents : Dial(c, a))
      BY <2>2, ConnMoves DEF Recorded
    <2> QED BY <2>1, <2>2
  <1>4. \A a \in Agents : live[a] # Nobody => live[a] \in Conns
    BY DEF TypeOK
  <1>5. Placed'
    <2>1. \A a \in Agents : live[a] # Nobody =>
            conn'[live[a]].who = a /\ conn'[live[a]].pc \notin {"new", "auth", "stomp"}
      BY <1>2, <1>4, ConnMoves DEF Placed
    <2>2. \A d \in Conns : conn'[d].pc = "stomp" =>
            mu' = d /\ conn'[d].who \in reg /\ live[conn'[d].who] # Nobody
      BY SessionConstants, ConnMoves DEF SessionConstants, Placed
    <2>3. \A d \in Conns : conn'[d].pc \in {"unmark", "remove"} => conn'[d].who \notin reg
      BY ConnMoves DEF Placed
    <2> QED BY <2>1, <2>2, <2>3 DEF Placed
  <1>6. Chosen' /\ Kept'
    BY DEF Chosen, Kept, Alone
  <1>7. Controlled'
    BY <1>4, ConnMoves DEF Controlled, Alone
  <1>8. \A a \in Agents : Leaving(a) => Leaving(a)'
    <2> SUFFICES ASSUME NEW a \in Agents, NEW d \in Conns, conn[d].who = a, conn[d].pc \in {"unmark", "remove"}
                 PROVE  conn'[d].who = a /\ conn'[d].pc \in {"unmark", "remove"}
      BY DEF Leaving
    <2> QED BY ConnMoves
  <1>9. Removed'
    BY <1>8 DEF Removed
  <1> QED BY <1>1, <1>3, <1>5, <1>6, <1>7, <1>9

(* Steps by which a connection takes the place of its agent.               *)
LEMMA TakesKeeps ==
  ASSUME SInv, NEW c \in Conns, ConnStep(c), Takes(c),
         conn[c].who \in reg, conn[c].pc \in {"auth", "stomp"}, conn'[c].pc = "mark",
         conn'[c].who = conn[c].who,
         mu' = mu \/ (mu = c /\ mu' = Nobody),
         UNCHANGED <<bodies, died, used, ctl, reg, victims>>
  PROVE  SInv'
  <1> USE DEF SInv
  <1> DEFINE a == conn[c].who
             r == [agent[a] EXCEPT !.connected = TRUE]
  <1>1. a \in Agents /\ agent[a] \in Agent /\ live' = [live EXCEPT ![a] = c] /\ live \in [Agents -> Conns \cup {Nobody}]
        /\ agent' = [agent EXCEPT ![a] = r] /\ agent \in [Agents -> Agent]
    BY DEF Takes, TypeOK
  <1>2. /\ r \in Agent /\ r.pc = agent[a].pc /\ r.body = agent[a].body
        /\ r.explicit = agent[a].explicit /\ r.spawned = agent[a].spawned
    BY <1>1 DEF Agent
  <1>3. \A d \in Conns : conn'[d].who = conn[d].who /\ (d # c => conn'[d].pc = conn[d].pc)
    BY ConnMoves
  <1>4. conn' \in [Conns -> Conn]
    BY ConnMoves
  <1> HIDE DEF a, r
  <1>5. /\ agent' \in [Agents -> Agent] /\ agent'[a].pc = agent[a].pc
        /\ \A u \in Agents : agent'[u].pc = agent[u].pc /\ agent'[u].body = agent[u].body
                             /\ agent'[u].explicit = agent[u].explicit
                             /\ agent'[u].spawned = agent[u].spawned
        /\ \A u \in Agents \ {a} : agent'[u] = agent[u]
    BY <1>1, <1>2
  <1>6. live' \in [Agents -> Conns \cup {Nobody}] /\ live'[a] = c
        /\ \A u \in Agents \ {a} : live'[u] = live[u]
    BY <1>1
  <1>7. a \in reg /\ a = conn[c].who
    BY DEF a
  <1>8. TypeOK'
    BY <1>4, <1>5, <1>6 DEF TypeOK
  <1>9. Chosen'
    BY <1>5 DEF Chosen
  <1>10. Recorded'
    BY <1>3, <1>5 DEF Recorded, TypeOK
  <1>11. Placed'
    <2>1. \A u \in Agents : live'[u] # Nobody =>
            u \in reg /\ conn'[live'[u]].who = u /\ conn'[live'[u]].pc \notin {"new", "auth", "stomp"}
      <3> SUFFICES ASSUME NEW u \in Agents \ {a}, live[u] # Nobody
                   PROVE  u \in reg /\ conn'[live[u]].who = u /\ conn'[live[u]].pc \notin {"new", "auth", "stomp"}
        BY <1>3, <1>6, <1>7
      <3>1. live[u] \in Conns \ {c} /\ conn[live[u]].who = u
        BY <1>7 DEF Placed, TypeOK
      <3> QED BY <1>3, <3>1 DEF Placed
    <2>2. \A d \in Conns : conn'[d].pc = "stomp" =>
            mu' = d /\ conn'[d].who \in reg /\ live'[conn'[d].who] # Nobody
      BY <1>1, <1>3, <1>6, SessionConstants DEF SessionConstants, Placed, TypeOK
    <2>3. \A d \in Conns : conn'[d].pc \in {"unmark", "remove"} => conn'[d].who \notin reg
      BY <1>3 DEF Placed
    <2>4. \A u \in victims : u \notin reg /\ ~ agent'[u].connected
      BY <1>5, <1>7 DEF Placed, TypeOK
    <2> QED BY <2>1, <2>2, <2>3, <2>4 DEF Placed
  <1>12. \A u \in Agents : Alone(u)' = Alone(u)
    BY <1>5 DEF Alone
  <1>13. Kept'
    BY <1>5, <1>12 DEF Kept
  <1>14. Controlled'
    <2> SUFFICES ASSUME NEW u \in Agents, live'[u] # Nobody, conn'[live'[u]].pc = "run", Alone(u),
                        agent[u].body \in bodies
                 PROVE  agent[u].body \in ctl
      BY <1>5, <1>12 DEF Controlled
    <2>1. u # a
      BY <1>6
    <2>2. live[u] # Nobody /\ live[u] \in Conns \ {c} /\ live'[u] = live[u]
      BY <1>6, <1>7, <2>1 DEF Placed, TypeOK
    <2>3. conn[live[u]].pc = "run"
      BY <1>3, <2>2
    <2> QED BY <2>2, <2>3 DEF Controlled
  <1>15. Removed'
    <2> SUFFICES ASSUME NEW u \in Agents, agent'[u].pc = "done", u \notin reg, ~ agent'[u].explicit,
                        agent'[u].connected \/ agent'[u].spawned
                 PROVE  u \in victims \/ Leaving(u)' \/ agent'[u].body \notin bodies
      BY DEF Removed
    <2>1. agent'[u] = agent[u]
      BY <1>5, <1>7
    <2>2. u \in victims \/ Leaving(u) \/ agent[u].body \notin bodies
      BY <2>1 DEF Removed
    <2>3. Leaving(u) => Leaving(u)'
      BY <1>3 DEF Leaving
    <2> QED BY <2>1, <2>2, <2>3
  <1> QED BY <1>8, <1>9, <1>10, <1>11, <1>13, <1>14, <1>15

LEMMA MarkKeeps ==
  ASSUME SInv, NEW c \in Conns, Mark(c)
  PROVE  SInv'
  <1> USE DEF SInv
  <1>1. ConnStep(c)
    BY DEF ConnStep, HandleWS
  <1>2. conn[c].pc = "mark" /\ conn'[c].pc = "run" /\ conn'[c].who = conn[c].who
        /\ UNCHANGED <<bodies, died, used, reg, live, mu, agent, victims>>
        /\ ctl' = ctl \cup ({agent[conn[c].who].body} \cap bodies)
    BY DEF Mark, TypeOK, Conn
  <1>3. \A d \in Conns \ {c} : conn'[d].pc = conn[d].pc /\ conn'[d].who = conn[d].who
    BY <1>1, ConnMoves
  <1>4. TypeOK'
    BY <1>1, <1>2, ConnMoves DEF TypeOK
  <1>5. Chosen' /\ Kept'
    BY <1>2 DEF Chosen, Kept, Alone
  <1>6. Recorded'
    BY <1>2, <1>3 DEF Recorded
  <1>7. \A a \in Agents : live[a] # Nobody => live[a] \in Conns
    BY DEF TypeOK
  <1>8. Placed'
    BY <1>2, <1>3, <1>7 DEF Placed
  <1>9. Controlled'
    <2> SUFFICES ASSUME NEW a \in Agents, live[a] # Nobody, conn'[live[a]].pc = "run", Alone(a),
                        agent[a].body \in bodies
                 PROVE  agent[a].body \in ctl'
      BY <1>2 DEF Controlled, Alone
    <2>1. CASE live[a] = c
      BY <1>2, <2>1 DEF Placed
    <2>2. CASE live[a] # c
      BY <1>2, <1>3, <1>7, <2>2 DEF Controlled
    <2> QED BY <2>1, <2>2
  <1>10. Removed'
    <2>1. \A a \in Agents : Leaving(a) => Leaving(a)'
      BY <1>2, <1>3 DEF Leaving
    <2> QED BY <1>2, <2>1 DEF Removed
  <1> QED BY <1>4, <1>5, <1>6, <1>8, <1>9, <1>10

(* The owner gives up its place and its secret, and is leaving.            *)
LEMMA DropKeeps ==
  ASSUME SInv, NEW c \in Conns, Drop(c)
  PROVE  SInv'
  <1> USE DEF SInv
  <1> DEFINE a == conn[c].who
  <1>1. ConnStep(c)
    BY DEF ConnStep, Teardown
  <1>2. /\ conn[c].pc = "drop" /\ mu = Nobody /\ a \in Agents /\ conn'[c].who = a
        /\ UNCHANGED <<bodies, died, used, ctl, mu, agent, victims>>
    BY DEF Drop, Unlocked, TypeOK, Conn, Recorded
  <1>3. \A d \in Conns \ {c} : conn'[d].pc = conn[d].pc /\ conn'[d].who = conn[d].who
    BY <1>1, ConnMoves
  <1>4. \/ /\ live[a] = c /\ live' = [live EXCEPT ![a] = Nobody] /\ reg' = reg \ {a}
           /\ conn'[c].pc = "unmark"
        \/ /\ live[a] # c /\ live' = live /\ reg' = reg /\ conn'[c].pc = "ended"
    BY <1>2 DEF Drop, TypeOK, Conn
  <1> HIDE DEF a
  <1>5. \A d \in Conns : conn[d].pc # "stomp"
    BY <1>2, SessionConstants DEF SessionConstants, Placed
  <1>6. TypeOK'
    BY <1>1, <1>2, <1>4, ConnMoves DEF TypeOK
  <1>7. reg' \subseteq reg
    BY <1>4
  <1>8. Chosen' /\ Kept'
    BY <1>2, <1>7 DEF Chosen, Kept, Alone
  <1>9. Recorded'
    <2>1. conn[c].who = a
      BY DEF a
    <2> QED BY <1>2, <1>3, <1>7, <2>1 DEF Recorded
  <1>10. \A u \in Agents : live'[u] # Nobody =>
           /\ (live'[u] = live[u] /\ live[u] \in Conns \ {c}) \/ (live[u] = c /\ u # a)
           /\ u \in reg'
    BY <1>2, <1>4 DEF TypeOK, Placed
  <1>11. \A u \in Agents : live[u] = c => u = a
    BY SessionConstants DEF SessionConstants, Placed, a
  <1>12. \A u \in Agents : live'[u] # Nobody => live'[u] = live[u] /\ live[u] \in Conns \ {c}
    BY <1>10, <1>11
  <1>13. Placed'
    <2>1. \A u \in Agents : live'[u] # Nobody =>
            u \in reg' /\ conn'[live'[u]].who = u /\ conn'[live'[u]].pc \notin {"new", "auth", "stomp"}
      BY <1>3, <1>10, <1>12 DEF Placed
    <2>2. \A d \in Conns : conn'[d].pc # "stomp"
      BY <1>3, <1>4, <1>5
    <2>3. \A d \in Conns : conn'[d].pc \in {"unmark", "remove"} => conn'[d].who \notin reg'
      BY <1>2, <1>3, <1>4 DEF Placed
    <2> QED BY <1>2, <1>7, <2>1, <2>2, <2>3 DEF Placed
  <1>14. Controlled'
    BY <1>2, <1>3, <1>12 DEF Controlled, Alone
  <1>15. Removed'
    <2> SUFFICES ASSUME NEW u \in Agents, agent[u].pc = "done", u \notin reg', ~ agent[u].explicit,
                        agent[u].connected \/ agent[u].spawned
                 PROVE  u \in victims \/ Leaving(u)' \/ agent[u].body \notin bodies
      BY <1>2 DEF Removed
    <2>1. CASE u \in reg
      BY <1>2, <1>4, <2>1 DEF Leaving
    <2>2. CASE u \notin reg
      <3>1. Leaving(u) => Leaving(u)'
        BY <1>2, <1>3 DEF Leaving
      <3> QED BY <2>2, <3>1 DEF Removed
    <2> QED BY <2>1, <2>2
  <1> QED BY <1>6, <1>8, <1>9, <1>13, <1>14, <1>15

(* The body of an agent that is out of the registry loses its flag, and is *)
(* removed: to no one who is alone with another body does it matter.       *)
LEMMA OtherBodies ==
  ASSUME SInv, NEW a \in Agents, agent[a].pc = "done", a \notin reg,
         NEW u \in Agents, u \in reg \/ agent[u].pc = "insert", Alone(u)
  PROVE  agent[u].body # agent[a].body
  BY DEF Alone

LEMMA UnmarkKeeps ==
  ASSUME SInv, NEW c \in Conns, Unmark(c) \/ Remove(c)
  PROVE  SInv'
  <1> USE DEF SInv
  <1> DEFINE a == conn[c].who
  <1>1. ConnStep(c)
    BY DEF ConnStep, Teardown
  <1>2. /\ a \in Agents /\ agent[a].pc = "done" /\ a \notin reg
        /\ conn[c].pc \in {"unmark", "remove"} /\ conn'[c].who = a
        /\ UNCHANGED <<died, used, reg, live, mu, agent, victims>>
    BY DEF Unmark, Remove, TypeOK, Conn, Recorded, Placed
  <1>3. \A d \in Conns \ {c} : conn'[d].pc = conn[d].pc /\ conn'[d].who = conn[d].who
    BY <1>1, ConnMoves
  <1>4. /\ bodies' \subseteq bodies /\ bodies \ {agent[a].body} \subseteq bodies'
        /\ ctl' \subseteq bodies' /\ ctl \ {agent[a].body} \subseteq ctl'
    BY DEF Unmark, Remove, Without, TypeOK
  <1>5. \/ conn'[c].pc = "ended" /\ (agent[a].explicit \/ agent[a].body \notin bodies')
        \/ conn'[c].pc = "remove"
    BY DEF Unmark, Remove, Without, TypeOK, Conn
  <1> HIDE DEF a
  <1>6. TypeOK'
    BY <1>1, <1>2, <1>4, ConnMoves DEF TypeOK
  <1>7. Chosen'
    BY <1>2, <1>4 DEF Chosen
  <1>8. Recorded'
    BY <1>2, <1>3 DEF Recorded
  <1>9. \A u \in Agents : live[u] # Nobody => live[u] \in Conns \ {c} /\ u \in reg
    BY <1>2 DEF TypeOK, Placed, a
  <1>10. Placed'
    BY <1>2, <1>3, <1>5, <1>9 DEF Placed
  <1>11. Kept'
    BY <1>2, <1>4, OtherBodies DEF Kept, Alone
  <1>12. Controlled'
    <2> SUFFICES ASSUME NEW u \in Agents, live[u] # Nobody, conn'[live[u]].pc = "run", Alone(u),
                        agent[u].body \in bodies'
                 PROVE  agent[u].body \in ctl'
      BY <1>2 DEF Controlled, Alone
    <2>1. agent[u].body \in ctl
      BY <1>3, <1>4, <1>9 DEF Controlled
    <2>2. agent[u].body # agent[a].body
      BY <1>2, <1>9, OtherBodies
    <2> QED BY <1>4, <2>1, <2>2
  <1>13. Removed'
    <2> SUFFICES ASSUME NEW u \in Agents, agent[u].pc = "done", u \notin reg, ~ agent[u].explicit,
                        agent[u].connected \/ agent[u].spawned
                 PROVE  u \in victims \/ Leaving(u)' \/ agent[u].body \notin bodies'
      BY <1>2 DEF Removed
    <2>1. CASE u = a
      BY <1>2, <1>5, <2>1 DEF Leaving
    <2>2. CASE u # a
      <3>1. Leaving(u) => Leaving(u)'
        BY <1>3, <2>2 DEF Leaving, a
      <3> QED BY <1>4, <3>1 DEF Removed
    <2> QED BY <2>1, <2>2
  <1> QED BY <1>6, <1>7, <1>8, <1>10, <1>11, <1>12, <1>13

(* The reaper, and the systems that remove who is dead.                    *)
LEMMA SweepKeeps ==
  ASSUME SInv, NEW S \in SUBSET Agents, Sweep(S)
  PROVE  SInv'
  <1> USE DEF SInv, Sweep, Stale
  <1>1. \A c \in Conns : conn[c].pc # "stomp"
    BY SessionConstants DEF SessionConstants, Placed, Unlocked
  <1>2. TypeOK' /\ Chosen' /\ Recorded'
    BY DEF TypeOK, Chosen, Recorded
  <1>3. Placed'
    BY <1>1 DEF Placed
  <1>4. Kept' /\ Controlled'
    BY DEF Kept, Controlled, Alone
  <1>5. Removed'
    BY DEF Removed, Leaving
  <1> QED BY <1>2, <1>3, <1>4, <1>5

LEMMA ReapKeeps ==
  ASSUME SInv, NEW a \in Agents, Reap(a)
  PROVE  SInv'
  <1> USE DEF SInv
  <1>1. /\ agent[a].pc = "done" /\ a \notin reg /\ ~ agent[a].connected
        /\ victims' = victims \ {a}
        /\ UNCHANGED <<died, used, reg, live, mu, agent, conn>>
    BY DEF Reap, Recorded, Placed
  <1>2. /\ bodies' \subseteq bodies /\ bodies \ {agent[a].body} \subseteq bodies'
        /\ ctl' \subseteq bodies' /\ ctl \ {agent[a].body} \subseteq ctl'
        /\ agent[a].spawned /\ ~ agent[a].explicit => agent[a].body \notin bodies'
    BY DEF Reap, Without, TypeOK
  <1>3. TypeOK' /\ Chosen' /\ Recorded' /\ Placed'
    BY <1>1, <1>2 DEF TypeOK, Chosen, Recorded, Placed
  <1>4. Kept'
    BY <1>1, <1>2, OtherBodies DEF Kept, Alone
  <1>5. Controlled'
    <2> SUFFICES ASSUME NEW u \in Agents, live[u] # Nobody, conn[live[u]].pc = "run", Alone(u),
                        agent[u].body \in bodies'
                 PROVE  agent[u].body \in ctl'
      BY <1>1 DEF Controlled, Alone
    <2>1. agent[u].body # agent[a].body
      BY <1>1, OtherBodies DEF Placed
    <2> QED BY <1>2, <2>1 DEF Controlled
  <1>6. Removed'
    BY <1>1, <1>2 DEF Removed, Leaving
  <1> QED BY <1>3, <1>4, <1>5, <1>6

LEMMA DieKeeps ==
  ASSUME SInv, NEW b \in Bodies, Die(b)
  PROVE  SInv'
  <1> USE DEF SInv, Die, Without
  <1>1. TypeOK' /\ Chosen' /\ Recorded' /\ Placed'
    BY DEF TypeOK, Chosen, Recorded, Placed
  <1>2. Kept' /\ Controlled' /\ Removed'
    BY DEF Kept, Controlled, Removed, Alone, Leaving
  <1> QED BY <1>1, <1>2

LEMMA ConnKeeps ==
  ASSUME SInv, NEW c \in Conns, ConnStep(c)
  PROVE  SInv'
  <1>0. conn \in [Conns -> Conn] /\ conn[c] \in Conn
    BY DEF SInv, TypeOK
  <1>1. CASE \E a \in Agents : Dial(c, a)
    <2> PICK a \in Agents : Dial(c, a)
      BY <1>1
    <2>1. conn[c].pc = "new" /\ conn'[c].pc = "auth"
      BY <1>0 DEF Dial, Conn
    <2> QED BY <2>1, AloneKeeps DEF Dial
  <1>2. CASE AuthInvalid(c)
    <2>1. conn[c].pc = "auth" /\ conn'[c].pc = "ended"
      BY <1>0, <1>2 DEF AuthInvalid, Conn
    <2> QED BY <1>2, <2>1, AloneKeeps DEF AuthInvalid
  <1>3. CASE Connect(c)
    <2>1. conn'[c].pc = "mark" /\ conn'[c].who = conn[c].who
      BY <1>0, <1>3 DEF Connect, Conn
    <2> QED BY <1>3, <2>1, TakesKeeps DEF Connect
  <1>4. CASE Stomp(c)
    <2> DEFINE d == live[conn[c].who]
    <2>1. d \in Conns \ {c} /\ conn[c].pc = "auth" /\ conn[c].who \in reg /\ mu = Nobody
          /\ UNCHANGED <<bodies, died, used, ctl, reg, victims>>
      BY <1>4 DEF Stomp, SInv, TypeOK, Placed, Recorded, Unlocked
    <2>2. CASE conn[d].closes = 0
      <3>1. conn'[c].pc = "stomp" /\ conn'[c].who = conn[c].who
            /\ mu' = c /\ UNCHANGED <<live, agent>>
        BY <1>0, <1>4, <2>1, <2>2 DEF Stomp, Conn
      <3> QED BY <2>1, <3>1, AloneKeeps, SessionConstants DEF SessionConstants
    <2>3. CASE conn[d].closes # 0
      <3>1. conn'[c].pc = "mark" /\ conn'[c].who = conn[c].who /\ Takes(c) /\ mu' = mu
        BY <1>0, <1>4, <2>1, <2>3 DEF Stomp, Conn
      <3> QED BY <2>1, <3>1, TakesKeeps
    <2> QED BY <2>2, <2>3
  <1>5. CASE CloseDone(c)
    <2> DEFINE d == live[conn[c].who]
    <2>1. d \in Conns \ {c} /\ conn[c].pc = "stomp" /\ conn[c].who \in reg /\ mu = c
          /\ UNCHANGED <<bodies, died, used, ctl, reg, victims>>
      BY <1>5 DEF CloseDone, SInv, TypeOK, Placed, Recorded
    <2>2. CASE conn[d].closes = 0
      <3>1. conn'[c].pc = "mark" /\ conn'[c].who = conn[c].who /\ Takes(c) /\ mu' = Nobody
        BY <1>0, <1>5, <2>1, <2>2 DEF CloseDone, Conn
      <3> QED BY <2>1, <3>1, TakesKeeps
    <2>3. CASE conn[d].closes # 0
      <3>1. conn'[c].pc = "panicked" /\ UNCHANGED <<live, agent, mu>>
        BY <1>0, <1>5, <2>1, <2>3 DEF CloseDone, Conn
      <3> QED BY <2>1, <3>1, AloneKeeps
    <2> QED BY <2>2, <2>3
  <1>6. CASE HangUp(c)
    <2>1. conn[c].pc = "run" /\ conn'[c].pc = "run"
      BY <1>0, <1>6 DEF HangUp, Conn
    <2> QED BY <1>6, <2>1, AloneKeeps DEF HangUp
  <1>7. CASE Leave(c)
    <2>1. conn[c].pc = "run" /\ conn'[c].pc \in {"drop", "signal"}
      BY <1>0, <1>7 DEF Leave, Conn
    <2> QED BY <1>7, <2>1, AloneKeeps DEF Leave
  <1>8. CASE Signal(c)
    <2>1. conn[c].pc = "signal" /\ conn'[c].pc \in {"drop", "panicked"}
      BY <1>0, <1>8 DEF Signal, Conn
    <2> QED BY <1>8, <2>1, AloneKeeps DEF Signal
  <1> QED
    BY <1>1, <1>2, <1>3, <1>4, <1>5, <1>6, <1>7, <1>8, MarkKeeps, DropKeeps, UnmarkKeeps
    DEF ConnStep, HandleWS, Teardown

LEMMA SessionKeeps == SInv /\ [Next]_vars => SInv'
  <1> SUFFICES ASSUME SInv, [Next]_vars PROVE SInv'
    OBVIOUS
  <1>1. ASSUME NEW a \in Agents, Scan(a) \/ Register(a) \/ (\E b \in Bodies : Bind(a, b)) PROVE SInv'
    <2> PICK b : RegisterStep(a, b)
      BY <1>1 DEF Register, RegisterStep
    <2> QED BY RegisterKeeps
  <1>2. ASSUME NEW a \in Agents, Reap(a) PROVE SInv'
    BY <1>2, ReapKeeps
  <1>3. ASSUME NEW c \in Conns, HandleWS(c) \/ HangUp(c) \/ Teardown(c) \/ (\E a \in Agents : Dial(c, a))
        PROVE  SInv'
    BY <1>3, ConnKeeps DEF ConnStep
  <1>4. ASSUME NEW S \in SUBSET Agents, Sweep(S) PROVE SInv'
    BY <1>4, SweepKeeps
  <1>5. ASSUME NEW b \in Bodies, Die(b) PROVE SInv'
    BY <1>5, DieKeeps
  <1>6. CASE UNCHANGED vars
    BY <1>6 DEF vars, SInv, TypeOK, Chosen, Recorded, Placed, Kept, Controlled, Removed, Alone, Leaving
  <1> QED BY <1>1, <1>2, <1>3, <1>4, <1>5, <1>6 DEF Next

LEMMA SInvIsSafe ==
  ASSUME SInv PROVE SessionSafe
  <1> USE DEF SInv
  <1>1. LiveIsRegistered
    BY DEF Placed, LiveIsRegistered
  <1>2. RegisteredKeepsBody
    BY DEF RegisteredKeepsBody, Kept, Sole, Alone, TypeOK
  <1>3. ConnectedControlsBody
    BY SessionConstants DEF SessionConstants, ConnectedControlsBody, Controlled, Sole, Alone
  <1>4. NoBodyLeftBehind
    BY DEF NoBodyLeftBehind, Gone, Removed, Leaving
  <1> QED BY <1>1, <1>2, <1>3, <1>4 DEF SessionSafe

(* For any agents, connections and bodies, in any order of connections,    *)
(* replacements, teardowns, reaping and deaths: the connection in place    *)
(* has its secret and the control of its body, who is registered has its   *)
(* body, and nothing is left of who is gone (agent.go, HandleWS, readPump, *)
(* reapStaleRegistrations).                                                *)
THEOREM AgentsKeepTheirBodies == Spec => []SessionSafe
  <1>1. SInv => SessionSafe
    BY SInvIsSafe
  <1> QED BY <1>1, SessionStart, SessionKeeps, PTL DEF Spec

-----------------------------------------------------------------------------
(* The client of the SDK. *)

(* What the engine knows of an action was posted: its id is used up, and   *)
(* it is not one that a batch still has to send.                           *)
Posted(id) == id < nextId /\ \A c \in Callers : id \notin call[c].todo

IsAck(f) == f.type = "action_ack"
IsObs(f) == f.type = "observation"

Held(c) == call[c].ids \cup call[c].todo

(* Ids are spent once.                                                     *)
Ids ==
  /\ \A c \in Callers : \A id \in call[c].todo : id < nextId
  /\ \A id \in pending \cup acked \cup received : Posted(id)
  /\ \A i \in 1..Len(wire) : IsAck(wire[i]) => Posted(wire[i].n)
  /\ \A c, d \in Callers : c # d => Held(c) \cap Held(d) = {}

(* A future is pending until its ack is read; a call knows its own.        *)
Futures ==
  /\ answered \subseteq acked /\ pending \cap acked = {}
  /\ \A c \in Callers : call[c].ids \subseteq pending \cup answered
  /\ NoLeak

(* The mark of the end is put by a reader that is over, and the brain loop *)
(* is over after it has seen the mark.                                     *)
Stream ==
  /\ (\E i \in 1..Len(inbox) : inbox[i] = End) => reader = "ended"
  /\ loop \in {"returned", "raised"} => reader = "ended"
  /\ call[Loop].pc # "idle" => loop = "acting"
  /\ EndIsKept /\ FatalSurfaces

(* The last entry of the inbox is the newest observation, which the brain  *)
(* loop has not had.                                                       *)
Newest ==
  /\ cur <= newest /\ newest <= observed
  /\ inbox # <<>> /\ inbox[Len(inbox)] # End
       => inbox[Len(inbox)] = newest /\ cur < newest
  /\ \A i \in 1..Len(wire) : IsObs(wire[i]) => newest < wire[i].n /\ wire[i].n <= observed
  /\ \A i, j \in 1..Len(wire) :
       i < j /\ IsObs(wire[i]) /\ IsObs(wire[j]) => wire[i].n < wire[j].n

CInv == ClientTypeOK /\ Ids /\ Futures /\ Stream /\ Newest

-----------------------------------------------------------------------------
(* A set of ids has a least one.                                           *)
LEMMA LeastId ==
  ASSUME NEW S \in SUBSET Nat, S # {}
  PROVE  \E m \in S : \A k \in S : m <= k
  <1>1. IsWellFoundedOn(OpToRel(<, Nat), Nat)
    BY NatLessThanWellFounded
  <1>2. PICK m \in S : \A k \in S : <<k, m>> \notin OpToRel(<, Nat)
    BY <1>1, WFMin
  <1>3. \A k \in S : ~ k < m
    BY <1>2, Zenon DEF OpToRel
  <1> QED BY <1>3

(* What a queue is after an entry is taken or put.                         *)
LEMMA TailIs ==
  ASSUME NEW S, NEW s \in Seq(S), s # <<>>
  PROVE  /\ Head(s) \in S /\ Head(s) = s[1] /\ Tail(s) \in Seq(S)
         /\ Len(s) \in Nat \ {0} /\ Len(Tail(s)) = Len(s) - 1
         /\ \A i \in 1..Len(Tail(s)) : Tail(s)[i] = s[i + 1] /\ i + 1 \in 1..Len(s)
  OBVIOUS

LEMMA AppendIs ==
  ASSUME NEW S, NEW s \in Seq(S), NEW x \in S
  PROVE  /\ Append(s, x) \in Seq(S) /\ Append(s, x) # <<>>
         /\ Len(s) \in Nat /\ Len(Append(s, x)) = Len(s) + 1
         /\ Append(s, x)[Len(s) + 1] = x
         /\ \A i \in 1..Len(s) : Append(s, x)[i] = s[i]
  OBVIOUS

LEMMA SubSeqIs ==
  ASSUME NEW S, NEW s \in Seq(S), NEW k \in 0..Len(s)
  PROVE  /\ SubSeq(s, 1, k) \in Seq(S) /\ Len(SubSeq(s, 1, k)) = k
         /\ \A i \in 1..k : SubSeq(s, 1, k)[i] = s[i] /\ i \in 1..Len(s)
  OBVIOUS

(* put_nowait: what is put is the last entry, and nothing else is new.     *)
LEMMA PutIs ==
  ASSUME inbox \in Seq(ObsIds \cup {End}), Len(inbox) <= InboxSize,
         NEW x \in ObsIds \cup {End}, PutNowait(x)
  PROVE  /\ inbox' \in Seq(ObsIds \cup {End}) /\ Len(inbox') <= InboxSize
         /\ inbox' # <<>> /\ inbox'[Len(inbox')] = x
         /\ \A i \in 1..Len(inbox') :
              inbox'[i] = x \/ \E j \in 1..Len(inbox) : inbox'[i] = inbox[j]
  <1> DEFINE S == ObsIds \cup {End}
             kept == IF Len(inbox) = InboxSize THEN Tail(inbox) ELSE inbox
  <1>1. /\ kept \in Seq(S) /\ Len(kept) \in Nat /\ Len(kept) < InboxSize
        /\ \A i \in 1..Len(kept) : \E j \in 1..Len(inbox) : kept[i] = inbox[j]
    <2>1. CASE Len(inbox) = InboxSize
      <3>1. inbox # <<>>
        BY <2>1, SdkAssumption DEF SdkAssumption
      <3>2. /\ Tail(inbox) \in Seq(S) /\ Len(inbox) \in Nat \ {0}
            /\ Len(Tail(inbox)) = Len(inbox) - 1
            /\ \A i \in 1..Len(Tail(inbox)) :
                 Tail(inbox)[i] = inbox[i + 1] /\ i + 1 \in 1..Len(inbox)
        <4> HIDE DEF S
        <4>1. inbox \in Seq(S)
          BY DEF S
        <4> QED BY <3>1, <4>1, TailIs
      <3> HIDE DEF S
      <3> QED BY <2>1, <3>2
    <2>2. CASE Len(inbox) # InboxSize
      BY <2>2, SdkAssumption DEF SdkAssumption
    <2> QED BY <2>1, <2>2
  <1>2. inbox' = Append(kept, x)
    BY DEF PutNowait
  <1>3. x \in S
    OBVIOUS
  <1> HIDE DEF S, kept
  <1>4. /\ inbox' \in Seq(S) /\ inbox' # <<>> /\ Len(inbox') = Len(kept) + 1
        /\ inbox'[Len(kept) + 1] = x /\ \A i \in 1..Len(kept) : inbox'[i] = kept[i]
    BY <1>1, <1>2, <1>3, AppendIs
  <1>5. Len(inbox') <= InboxSize
    BY <1>1, <1>4, SdkAssumption DEF SdkAssumption
  <1>6. \A i \in 1..Len(inbox') : i \in 1..Len(kept) \/ i = Len(kept) + 1
    BY <1>1, <1>4
  <1>7. \A i \in 1..Len(inbox') :
          inbox'[i] = x \/ \E j \in 1..Len(inbox) : inbox'[i] = inbox[j]
    BY <1>1, <1>4, <1>6
  <1> QED BY <1>4, <1>5, <1>7 DEF S

(* What a frame carries.                                                   *)
LEMMA FrameIs ==
  ASSUME NEW f \in Frame
  PROVE  /\ f.type \in {"observation", "action_ack", "error"}
         /\ f.type = "observation" => f.n \in ObsIds
         /\ f.type = "action_ack" => f.n \in ActionIds
  BY DEF Frame

(* A post takes one id of those that are to follow.                        *)
Posts(c, todo, w, id) ==
  /\ call'[c] = [pc |-> "sending", ids |-> call[c].ids \cup {id},
                 todo |-> todo \ {id}, wait |-> w]
  /\ \A d \in Callers \ {c} : call'[d] = call[d]
  /\ call' \in [Callers -> Call]
  /\ pending' = pending \cup {id} /\ received' \subseteq received \cup {id}
  /\ UNCHANGED <<link, wire, observed, stream, cur, answered, acked>>

LEMMA PostIs ==
  ASSUME NEW c \in Callers, NEW todo \in SUBSET ActionIds, todo # {}, NEW w \in BOOLEAN,
         call \in [Callers -> Call], Post(c, todo, w)
  PROVE  \E id \in todo : Posts(c, todo, w, id)
  <1> DEFINE id == CHOOSE i \in todo : \A j \in todo : i <= j
  <1>1. todo \in SUBSET Nat
    BY DEF ActionIds
  <1>2. id \in todo
    <2>1. \E i \in todo : \A j \in todo : i <= j
      BY <1>1, LeastId
    <2> QED BY <2>1
  <1>3. call' = [call EXCEPT ![c] = [pc |-> "sending", ids |-> call[c].ids \cup {id},
                                     todo |-> todo \ {id}, wait |-> w]]
    BY DEF Post
  <1>4. /\ pending' = pending \cup {id} /\ received' \subseteq received \cup {id}
        /\ UNCHANGED <<link, wire, observed, stream, cur, answered, acked>>
    BY DEF Post
  <1> HIDE DEF id
  <1>5. call[c].ids \cup {id} \subseteq ActionIds /\ todo \ {id} \subseteq ActionIds
    BY <1>2 DEF Call
  <1>6. [pc |-> "sending", ids |-> call[c].ids \cup {id}, todo |-> todo \ {id}, wait |-> w] \in Call
    BY <1>5 DEF Call
  <1> QED BY <1>2, <1>3, <1>4, <1>6 DEF Posts

LEMMA FinishIs ==
  ASSUME NEW c \in Callers, call \in [Callers -> Call], Finish(c)
  PROVE  /\ call'[c] = NoCall /\ \A d \in Callers \ {c} : call'[d] = call[d]
         /\ call' \in [Callers -> Call]
         /\ NoCall.ids = {} /\ NoCall.todo = {} /\ NoCall.pc = "idle"
         /\ c # Loop => loop' = loop
         /\ c = Loop => loop' = "getting"
  <1>1. NoCall \in Call
    BY DEF NoCall, Call
  <1> QED BY <1>1 DEF Finish, NoCall

-----------------------------------------------------------------------------
LEMMA ClientStart == ClientInit => CInv
  <1> SUFFICES ASSUME ClientInit PROVE CInv
    OBVIOUS
  <1> USE SdkAssumption DEF SdkAssumption, ClientInit
  <1>1. ClientTypeOK
    <2>1. NoCall \in Call
      BY DEF Call, NoCall
    <2>2. /\ wire \in Seq(Frame) /\ inbox \in Seq(ObsIds \cup {End}) /\ Len(inbox) = 0
          /\ nextId \in 1..(MaxActions + 1)
      OBVIOUS
    <2>3. call \in [Callers -> Call]
      BY <2>1
    <2>4. observed \in 0..MaxObs /\ cur \in 0..MaxObs /\ newest \in 0..MaxObs /\ Len(inbox) <= InboxSize
      BY <2>2
    <2> QED BY <2>2, <2>3, <2>4 DEF ClientTypeOK
  <1>2. Ids /\ Futures
    BY DEF Ids, Futures, Held, NoLeak, NoCall
  <1>3. Stream /\ Newest
    BY DEF Stream, Newest, EndIsKept, FatalSurfaces, NoCall
  <1> QED BY <1>1, <1>2, <1>3 DEF CInv

(* A post of an id that is next in its batch, or that no batch had before. *)
LEMMA PostKeeps ==
  ASSUME CInv, NEW c \in Callers, NEW todo \in SUBSET ActionIds, todo # {}, NEW w \in BOOLEAN,
         Post(c, todo, w), nextId' \in Int, nextId <= nextId',
         \A id \in todo : id < nextId',
         todo \subseteq call[c].todo \/ \A id \in todo : id >= nextId
  PROVE  Ids' /\ Futures'
  <1> USE DEF CInv
  <1>1. call \in [Callers -> Call] /\ nextId \in Int
    BY SdkAssumption DEF ClientTypeOK, SdkAssumption
  <1>2. PICK id \in todo : Posts(c, todo, w, id)
    BY <1>1, PostIs
  <1> USE DEF Posts
  <1>3. call'[c].ids = call[c].ids \cup {id} /\ call'[c].todo = todo \ {id}
    BY <1>2
  <1>4. todo \subseteq Int /\ \A d \in Callers : call[d].todo \subseteq Int /\ call[d].ids \subseteq Int
    BY <1>1 DEF Call, ActionIds
  <1>5. ASSUME NEW i \in Int, Posted(i) PROVE Posted(i)' /\ i # id
    BY <1>1, <1>2, <1>3, <1>4, <1>5 DEF Posted
  <1>6. id < nextId' /\ \A d \in Callers : id \notin call'[d].todo
    <2>1. ASSUME NEW d \in Callers \ {c} PROVE id \notin call[d].todo
      BY <1>1, <1>4 DEF Ids, Held
    <2> QED BY <1>2, <1>3, <2>1
  <1>7. Posted(id)'
    BY <1>6 DEF Posted
  <1>8. /\ pending \cup acked \cup received \subseteq Int
        /\ \A i \in 1..Len(wire) : IsAck(wire[i]) => wire[i].n \in Int
    <2>1. ASSUME NEW i \in 1..Len(wire), IsAck(wire[i]) PROVE wire[i].n \in Int
      <3>1. wire[i] \in Frame
        BY DEF ClientTypeOK
      <3> QED BY <2>1, <3>1, FrameIs DEF IsAck, ActionIds
    <2> QED BY <2>1 DEF ClientTypeOK, ActionIds
  <1>9. Ids'
    <2>1. \A d \in Callers : \A i \in call'[d].todo : i < nextId'
      <3>1. \A d \in Callers \ {c} : \A i \in call[d].todo : i < nextId'
        BY <1>1, <1>4 DEF Ids
      <3> QED BY <1>2, <1>3, <3>1
    <2>2. \A i \in pending' \cup acked' \cup received' : Posted(i)'
      BY <1>2, <1>5, <1>7, <1>8 DEF Ids
    <2>3. (\A i \in 1..Len(wire) : IsAck(wire[i]) => Posted(wire[i].n))'
      BY <1>2, <1>5, <1>8 DEF Ids
    <2>4. \A d \in Callers \ {c} :
             (call'[c].ids \cup call'[c].todo) \cap (call[d].ids \cup call[d].todo) = {}
      <3> TAKE d \in Callers \ {c}
      <3>1. (call[c].ids \cup call[c].todo) \cap (call[d].ids \cup call[d].todo) = {}
        BY DEF Ids, Held
      <3>2. \A i \in call[d].ids \cup call[d].todo : i \in Int /\ i < nextId
        BY <1>4 DEF Ids, Futures, Posted
      <3>3. todo \cap (call[d].ids \cup call[d].todo) = {}
        BY <1>1, <1>4, <3>1, <3>2
      <3> QED BY <1>3, <3>1, <3>3
    <2>5. \A d, e \in Callers : d # e => (Held(d) \cap Held(e) = {})'
      BY <1>2, <2>4 DEF Ids, Held
    <2> QED BY <2>1, <2>2, <2>3, <2>5 DEF Ids
  <1>10. Futures'
    <2>1. id \notin acked
      BY <1>5, <1>8 DEF Ids
    <2>2. \A d \in Callers : call'[d].ids \subseteq pending' \cup answered'
      BY <1>2, <1>3 DEF Futures
    <2>3. NoLeak'
      <3> SUFFICES ASSUME NEW i \in pending' PROVE \E d \in Callers : i \in call'[d].ids
        BY DEF NoLeak
      <3>1. CASE i = id
        BY <1>3, <3>1
      <3>2. CASE i # id
        <4>1. PICK d \in Callers : i \in call[d].ids
          BY <1>2, <3>2 DEF Futures, NoLeak
        <4> QED BY <1>2, <1>3, <4>1
      <3> QED BY <3>1, <3>2
    <2> QED BY <1>2, <2>1, <2>2, <2>3 DEF Futures
  <1> QED BY <1>9, <1>10

(* A call that is over takes its futures with it, unless they have all     *)
(* their results.                                                          *)
LEMMA FinishKeeps ==
  ASSUME CInv, NEW c \in Callers, Finish(c),
         Forget(c) \/ (call[c].ids \subseteq answered /\ UNCHANGED pending),
         UNCHANGED <<wire, received, nextId, answered, acked>>
  PROVE  Ids' /\ Futures'
  <1> USE DEF CInv
  <1>1. call \in [Callers -> Call]
    BY DEF ClientTypeOK
  <1>2. /\ call'[c].ids = {} /\ call'[c].todo = {}
        /\ \A d \in Callers \ {c} : call'[d] = call[d]
    BY <1>1, FinishIs
  <1>3. \A i : Posted(i) => Posted(i)'
    BY <1>2 DEF Posted
  <1>4. pending' \subseteq pending /\ pending' \cap call[c].ids = {}
    BY DEF Forget, Futures
  <1>5. \A d \in Callers \ {c} : pending \cap call[d].ids \subseteq pending'
    BY DEF Forget, Ids, Held
  <1>6. Ids'
    <2>1. \A d, e \in Callers : d # e => (Held(d) \cap Held(e) = {})'
      BY <1>2 DEF Ids, Held
    <2>2. \A d \in Callers : \A id \in call'[d].todo : id < nextId'
      BY <1>2 DEF Ids
    <2>3. \A id \in pending' \cup acked' \cup received' : Posted(id)'
      BY <1>3, <1>4 DEF Ids
    <2>4. (\A i \in 1..Len(wire) : IsAck(wire[i]) => Posted(wire[i].n))'
      BY <1>3, <1>4 DEF Ids
    <2> QED BY <2>1, <2>2, <2>3, <2>4 DEF Ids
  <1>7. \A d \in Callers : call'[d].ids \subseteq pending' \cup answered'
    BY <1>2, <1>5 DEF Futures
  <1>8. NoLeak'
    BY <1>2, <1>4 DEF NoLeak, Futures
  <1>9. Futures'
    BY <1>4, <1>7, <1>8 DEF Futures
  <1> QED BY <1>6, <1>9

(* A step of the wire and of the engine that spends no new id.             *)
LEMMA IdsRest ==
  ASSUME CInv, UNCHANGED <<call, nextId, acks>>, received' \subseteq received,
         \A i \in 1..Len(wire') : IsAck(wire'[i]) =>
           \/ \E j \in 1..Len(wire) : wire'[i] = wire[j]
           \/ wire'[i].n \in received
  PROVE  Ids' /\ Futures'
  <1>1. \A i : Posted(i) => Posted(i)'
    BY DEF Posted
  <1>2. \A i \in 1..Len(wire') : IsAck(wire'[i]) => Posted(wire'[i].n)
    BY DEF CInv, Ids, IsAck
  <1>3. \A c, d \in Callers : c # d => (Held(c) \cap Held(d) = {})'
    BY DEF CInv, Ids, Held
  <1>4. Ids'
    BY <1>1, <1>2, <1>3 DEF CInv, Ids, acks
  <1>5. Futures'
    BY DEF CInv, Futures, NoLeak, acks
  <1> QED BY <1>4, <1>5

(* The futures and ids are in order after each step.                       *)
LEMMA CallsKept == CInv /\ [ClientNext]_clientVars => Ids' /\ Futures'
  <1> SUFFICES ASSUME CInv, [ClientNext]_clientVars PROVE Ids' /\ Futures'
    OBVIOUS
  <1>0. /\ call \in [Callers -> Call] /\ wire \in Seq(Frame) /\ nextId \in 1..(MaxActions + 1)
        /\ received \subseteq ActionIds /\ MaxActions \in Nat /\ MaxBatch \in Nat
    BY SdkAssumption DEF SdkAssumption, CInv, ClientTypeOK
  <1>same. ASSUME UNCHANGED <<wire, received, call, nextId, acks>> PROVE Ids' /\ Futures'
    BY <1>same, IdsRest
  <1>1. CASE RegisterAgent \/ StartReader \/ ReaderEnds \/ Close \/ Observations \/ SkipObs
               \/ UNCHANGED clientVars
    BY <1>1, <1>same DEF RegisterAgent, StartReader, ReaderEnds, Close, Observations, SkipObs,
                         clientVars, engine, acks
  <1>2. CASE ConnectClient
    <2>1. /\ UNCHANGED <<call, nextId, acks, received>>
          /\ wire' = wire \/ wire' = <<[type |-> "error", n |-> 0]>>
      BY <1>2 DEF ConnectClient, engine
    <2>2. \A i \in 1..Len(wire') : IsAck(wire'[i]) => \E j \in 1..Len(wire) : wire'[i] = wire[j]
      BY <2>1 DEF IsAck
    <2> QED BY <2>1, <2>2, IdsRest
  <1>3. CASE EngineObserves
    <2>1. PICK d \in Defects \cup {"none"} :
            wire' = Append(wire, [type |-> "observation", n |-> observed', defect |-> d])
      BY <1>3 DEF EngineObserves
    <2> DEFINE f == [type |-> "observation", n |-> observed', defect |-> d]
    <2>2. ~ IsAck(f)
      BY DEF IsAck
    <2>3. UNCHANGED <<call, nextId, acks, received>>
      BY <1>3 DEF EngineObserves
    <2>4. /\ Len(wire) \in Nat /\ Len(wire') = Len(wire) + 1 /\ wire'[Len(wire) + 1] = f
          /\ \A i \in 1..Len(wire) : wire'[i] = wire[i]
      BY <1>0, <2>1
    <2> HIDE DEF f
    <2>5. \A i \in 1..Len(wire') : i \in 1..Len(wire) \/ i = Len(wire) + 1
      BY <2>4
    <2> QED BY <2>2, <2>3, <2>4, <2>5, IdsRest
  <1>4. CASE EngineAnswers
    <2>1. PICK id \in received :
            /\ received' = received \ {id}
            /\ wire' = Append(wire, [type |-> "action_ack", n |-> id])
      BY <1>4 DEF EngineAnswers
    <2> DEFINE f == [type |-> "action_ack", n |-> id]
    <2>2. f.n \in received
      OBVIOUS
    <2>3. UNCHANGED <<call, nextId, acks>>
      BY <1>4 DEF EngineAnswers
    <2>4. /\ Len(wire) \in Nat /\ Len(wire') = Len(wire) + 1 /\ wire'[Len(wire) + 1] = f
          /\ \A i \in 1..Len(wire) : wire'[i] = wire[i]
      BY <1>0, <2>1
    <2> HIDE DEF f
    <2>5. \A i \in 1..Len(wire') : i \in 1..Len(wire) \/ i = Len(wire) + 1
      BY <2>4
    <2> QED BY <2>1, <2>2, <2>3, <2>4, <2>5, IdsRest
  <1>5. CASE Disconnect
    <2>1. PICK k \in 0..Len(wire) : wire' = SubSeq(wire, 1, k)
      BY <1>5 DEF Disconnect
    <2>2. UNCHANGED <<call, nextId, acks, received>>
      BY <1>5 DEF Disconnect, engine
    <2>3. \A i \in 1..Len(wire') : wire'[i] = wire[i] /\ i \in 1..Len(wire)
      BY <1>0, <2>1, SubSeqIs
    <2> QED BY <2>2, <2>3, IdsRest
  <1>6. CASE ReadFrame
    <2>1. /\ wire # <<>> /\ wire' = Tail(wire) /\ UNCHANGED <<received, call, nextId>>
      BY <1>6 DEF ReadFrame, engine
    <2>2. /\ wire' \in Seq(Frame) /\ Head(wire) = wire[1] /\ Len(wire) \in Nat \ {0}
          /\ Head(wire) \in Frame
          /\ \A i \in 1..Len(wire') : wire'[i] = wire[i + 1] /\ i + 1 \in 1..Len(wire)
      BY <1>0, <2>1, TailIs
    <2>3. CASE UNCHANGED acks
      BY <2>1, <2>2, <2>3, IdsRest
    <2>4. CASE Head(wire).type = "action_ack" /\ DispatchAck(Head(wire).n)
      <3> DEFINE id == Head(wire).n
      <3>1. /\ pending' = pending \ {id} /\ answered' = answered \cup ({id} \cap pending)
            /\ acked' = acked \cup {id}
        BY <2>4 DEF DispatchAck
      <3>2. Posted(id)
        BY <2>2, <2>4 DEF CInv, Ids, IsAck
      <3> HIDE DEF id
      <3>3. \A i : Posted(i) => Posted(i)'
        BY <2>1 DEF Posted
      <3>4. (\A i \in 1..Len(wire) : IsAck(wire[i]) => Posted(wire[i].n))'
        BY <2>2, <3>3 DEF CInv, Ids
      <3>5. \A i \in pending' \cup acked' \cup received' : Posted(i)'
        BY <2>1, <3>1, <3>2, <3>3 DEF CInv, Ids
      <3>6. /\ \A c, d \in Callers : c # d => (Held(c) \cap Held(d) = {})'
            /\ \A c \in Callers : \A i \in call'[c].todo : i < nextId'
        BY <2>1 DEF CInv, Ids, Held
      <3>7. Ids'
        BY <3>4, <3>5, <3>6 DEF Ids
      <3>8. NoLeak'
        BY <2>1, <3>1 DEF CInv, Futures, NoLeak
      <3>9. Futures'
        BY <2>1, <3>1, <3>8 DEF CInv, Futures
      <3> QED BY <3>7, <3>9
    <2> QED BY <1>6, <2>3, <2>4 DEF ReadFrame
  <1>7. ASSUME NEW c \in Callers, ActBatch(c) PROVE Ids' /\ Futures'
    <2>1. nextId' <= MaxActions + 1
      BY <1>7 DEF ActBatch
    <2>2. CASE c = Loop
      <3>1. nextId' = nextId + 1 /\ Post(c, {nextId}, TRUE)
        BY <1>7, <2>2 DEF ActBatch
      <3>2. {nextId} \in SUBSET ActionIds /\ nextId' \in Int /\ nextId <= nextId'
            /\ \A id \in {nextId} : id < nextId' /\ id >= nextId
        BY <1>0, <2>1, <3>1 DEF ActionIds
      <3> QED BY <3>1, <3>2, PostKeeps
    <2>3. CASE c # Loop
      <3>1. PICK n \in 1..MaxBatch, w \in BOOLEAN :
              nextId' = nextId + n /\ Post(c, nextId..(nextId + n - 1), w)
        BY <1>7, <2>3 DEF ActBatch
      <3> DEFINE T == nextId..(nextId + n - 1)
      <3>2. T \in SUBSET ActionIds /\ nextId \in T /\ nextId' \in Int /\ nextId <= nextId'
            /\ \A id \in T : id < nextId' /\ id >= nextId
        BY <1>0, <2>1, <3>1 DEF ActionIds
      <3>3. Post(c, T, w) /\ T # {}
        BY <3>1, <3>2
      <3> HIDE DEF T
      <3> QED BY <3>2, <3>3, PostKeeps
    <2> QED BY <2>2, <2>3
  <1>8. ASSUME NEW c \in Callers, SendNext(c) PROVE Ids' /\ Futures'
    <2> DEFINE T == call[c].todo
               w == call[c].wait
    <2>1. T \in SUBSET ActionIds /\ w \in BOOLEAN
      BY <1>0 DEF Call
    <2>2. T # {} /\ Post(c, T, w) /\ nextId' = nextId
      BY <1>8 DEF SendNext
    <2>3. \A id \in T : id < nextId'
      BY <2>2 DEF CInv, Ids
    <2>4. nextId' \in Int /\ nextId <= nextId' /\ T \subseteq call[c].todo
      BY <1>0, <2>2
    <2> HIDE DEF T, w
    <2> QED BY <2>1, <2>2, <2>3, <2>4, PostKeeps
  <1>9. ASSUME NEW c \in Callers, SendLast(c) PROVE Ids' /\ Futures'
    <2>1. CASE call[c].wait
      <3>1. /\ call' = [call EXCEPT ![c].pc = "waiting"]
            /\ UNCHANGED <<wire, received, nextId, pending, answered, acked>>
        BY <1>9, <2>1 DEF SendLast, engine
      <3>2. \A d \in Callers : call'[d].ids = call[d].ids /\ call'[d].todo = call[d].todo
        BY <1>0, <3>1 DEF Call
      <3>3. \A i : Posted(i) => Posted(i)'
        BY <3>1, <3>2 DEF Posted
      <3>4. \A d, e \in Callers : d # e => (Held(d) \cap Held(e) = {})'
        BY <3>2 DEF CInv, Ids, Held
      <3>5. \A d \in Callers : \A i \in call'[d].todo : i < nextId'
        BY <3>1, <3>2 DEF CInv, Ids
      <3>6. (\A i \in 1..Len(wire) : IsAck(wire[i]) => Posted(wire[i].n))'
        BY <3>1, <3>3 DEF CInv, Ids
      <3>7. \A i \in pending' \cup acked' \cup received' : Posted(i)'
        BY <3>1, <3>3 DEF CInv, Ids
      <3>8. Ids'
        BY <3>4, <3>5, <3>6, <3>7 DEF Ids
      <3>9. Futures'
        BY <3>1, <3>2 DEF CInv, Futures, NoLeak
      <3> QED BY <3>8, <3>9
    <2>2. CASE ~ call[c].wait
      BY <1>9, <2>2, FinishKeeps DEF SendLast, engine
    <2> QED BY <2>1, <2>2
  <1>10. ASSUME NEW c \in Callers, SendFails(c) \/ Timeout(c) \/ GatherDone(c) PROVE Ids' /\ Futures'
    BY <1>10, FinishKeeps DEF SendFails, Timeout, GatherDone, engine, acks
  <1> QED
    BY <1>1, <1>2, <1>3, <1>4, <1>5, <1>6, <1>7, <1>8, <1>9, <1>10 DEF ClientNext, Acts

(* The types.                                                              *)
LEMMA TypesKept == CInv /\ [ClientNext]_clientVars => ClientTypeOK'
  <1> SUFFICES ASSUME CInv, [ClientNext]_clientVars PROVE ClientTypeOK'
    OBVIOUS
  <1>0. ClientTypeOK
    BY DEF CInv
  <1> DEFINE Q == ObsIds \cup {End}
  <1>t. /\ link \in {"none", "registered", "open", "closed"} /\ wire \in Seq(Frame)
        /\ observed \in 0..MaxObs /\ received \subseteq ActionIds
        /\ reader \in {"unstarted", "running", "ended", "cancelled"}
        /\ inbox \in Seq(Q) /\ Len(inbox) <= InboxSize /\ fatal \in BOOLEAN
        /\ loop \in {"getting", "thinking", "acting", "returned", "raised"}
        /\ cur \in 0..MaxObs /\ newest \in 0..MaxObs /\ call \in [Callers -> Call]
        /\ nextId \in 1..(MaxActions + 1)
        /\ pending \subseteq ActionIds /\ answered \subseteq ActionIds /\ acked \subseteq ActionIds
        /\ MaxObs \in Nat /\ MaxActions \in Nat /\ MaxBatch \in Nat /\ InboxSize \in Nat
        /\ <<>> \in Seq(Q) /\ Len(<<>>) = 0
    BY <1>0, SdkAssumption DEF SdkAssumption, ClientTypeOK
  <1> DEFINE WireT   == wire' \in Seq(Frame) /\ link' \in {"none", "registered", "open", "closed"}
             EngineT == observed' \in 0..MaxObs /\ received' \subseteq ActionIds
             StreamT == /\ reader' \in {"unstarted", "running", "ended", "cancelled"}
                        /\ inbox' \in Seq(Q) /\ Len(inbox') <= InboxSize
                        /\ fatal' \in BOOLEAN /\ newest' \in 0..MaxObs
             LoopT   == /\ loop' \in {"getting", "thinking", "acting", "returned", "raised"}
                        /\ cur' \in 0..MaxObs
             CallT   == /\ call' \in [Callers -> Call] /\ nextId' \in 1..(MaxActions + 1)
                        /\ pending' \subseteq ActionIds /\ answered' \subseteq ActionIds
                        /\ acked' \subseteq ActionIds
  <1>all. ASSUME WireT, EngineT, StreamT, LoopT, CallT PROVE ClientTypeOK'
    BY <1>all DEF ClientTypeOK
  <1>w. ASSUME UNCHANGED <<link, wire>> PROVE WireT
    BY <1>t, <1>w
  <1>e. ASSUME UNCHANGED engine PROVE EngineT
    BY <1>t, <1>e DEF engine
  <1>s. ASSUME UNCHANGED stream PROVE StreamT
    BY <1>t, <1>s DEF stream
  <1>l. ASSUME UNCHANGED <<loop, cur>> PROVE LoopT
    BY <1>t, <1>l
  <1>c. ASSUME UNCHANGED <<call, nextId, acks>> PROVE CallT
    BY <1>t, <1>c DEF acks
  <1>put. ASSUME NEW x \in Q, PutNowait(x) PROVE inbox' \in Seq(Q) /\ Len(inbox') <= InboxSize
    BY <1>t, <1>put, PutIs
  <1>end. ASSUME EndStream, UNCHANGED fatal, UNCHANGED newest PROVE StreamT
    BY <1>t, <1>put, <1>end DEF EndStream
  <1> HIDE DEF WireT, EngineT, StreamT, LoopT, CallT
  <1>1. CASE RegisterAgent \/ ConnectClient
    <2>1. WireT
      <3>1. [type |-> "error", n |-> 0] \in Frame
        BY DEF Frame
      <3>2. <<[type |-> "error", n |-> 0]>> \in Seq(Frame)
        BY <3>1
      <3> QED BY <1>1, <1>t, <3>2 DEF RegisterAgent, ConnectClient, WireT
    <2>2. UNCHANGED <<engine, stream, loop, cur, call, nextId, acks>>
      BY <1>1 DEF RegisterAgent, ConnectClient
    <2> QED BY <2>1, <2>2, <1>e, <1>s, <1>l, <1>c, <1>all
  <1>2. CASE EngineObserves
    <2>1. PICK d \in Defects \cup {"none"} :
            wire' = Append(wire, [type |-> "observation", n |-> observed', defect |-> d])
      BY <1>2 DEF EngineObserves
    <2>2. observed' = observed + 1 /\ observed < MaxObs /\ UNCHANGED <<link, received>>
      BY <1>2 DEF EngineObserves
    <2>3. observed' \in ObsIds /\ observed' \in 0..MaxObs
      BY <1>t, <2>2 DEF ObsIds
    <2>4. [type |-> "observation", n |-> observed', defect |-> d] \in Frame
      BY <2>3 DEF Frame
    <2>5. wire' \in Seq(Frame)
      BY <1>t, <2>1, <2>4, AppendIs
    <2>6. WireT /\ EngineT
      BY <1>t, <2>2, <2>3, <2>5 DEF WireT, EngineT
    <2>7. UNCHANGED <<stream, loop, cur, call, nextId, acks>>
      BY <1>2 DEF EngineObserves
    <2> QED BY <2>6, <2>7, <1>s, <1>l, <1>c, <1>all
  <1>3. CASE EngineAnswers
    <2>1. PICK id \in received :
            /\ received' = received \ {id}
            /\ wire' = Append(wire, [type |-> "action_ack", n |-> id])
      BY <1>3 DEF EngineAnswers
    <2>2. UNCHANGED <<link, observed, stream, loop, cur, call, nextId, acks>>
      BY <1>3 DEF EngineAnswers
    <2>3. [type |-> "action_ack", n |-> id] \in Frame
      BY <1>t DEF Frame
    <2>4. wire' \in Seq(Frame)
      BY <1>t, <2>1, <2>3, AppendIs
    <2>5. WireT /\ EngineT
      BY <1>t, <2>1, <2>2, <2>4 DEF WireT, EngineT
    <2> QED BY <2>2, <2>5, <1>s, <1>l, <1>c, <1>all
  <1>4. CASE Disconnect
    <2>1. PICK k \in 0..Len(wire) : wire' = SubSeq(wire, 1, k)
      BY <1>4 DEF Disconnect
    <2>2. link' = "closed" /\ UNCHANGED <<engine, stream, loop, cur, call, nextId, acks>>
      BY <1>4 DEF Disconnect
    <2>3. WireT
      BY <1>t, <2>1, <2>2, SubSeqIs DEF WireT
    <2> QED BY <2>2, <2>3, <1>e, <1>s, <1>l, <1>c, <1>all
  <1>5. CASE StartReader \/ ReaderEnds
    <2>1. StreamT
      BY <1>5, <1>t, <1>end DEF StartReader, ReaderEnds, StreamT
    <2>2. UNCHANGED <<link, wire, engine, loop, cur, call, nextId, acks>>
      BY <1>5 DEF StartReader, ReaderEnds
    <2> QED BY <2>1, <2>2, <1>w, <1>e, <1>l, <1>c, <1>all
  <1>6. CASE Close
    <2>1. StreamT
      BY <1>6, <1>t, <1>end DEF Close, StreamT
    <2>2. link' = "closed" /\ UNCHANGED <<wire, engine, loop, cur, call, nextId, acks>>
      BY <1>6 DEF Close
    <2>3. WireT
      BY <1>t, <2>2 DEF WireT
    <2> QED BY <2>1, <2>2, <2>3, <1>e, <1>l, <1>c, <1>all
  <1>7. CASE ReadFrame
    <2> DEFINE f == Head(wire)
    <2>1. wire # <<>> /\ wire' = Tail(wire) /\ UNCHANGED <<link, engine, loop, cur, call, nextId>>
      BY <1>7 DEF ReadFrame
    <2>2. f \in Frame /\ wire' \in Seq(Frame)
      BY <1>t, <2>1, TailIs
    <2>3. WireT
      BY <1>t, <2>1, <2>2 DEF WireT
    <2>4. CASE f.type = "action_ack" /\ DispatchAck(f.n) /\ UNCHANGED stream
      <3>1. f.n \in ActionIds
        BY <2>2, <2>4, FrameIs
      <3>2. CallT
        BY <1>t, <2>1, <2>4, <3>1 DEF DispatchAck, CallT
      <3> QED BY <2>1, <2>3, <2>4, <3>2, <1>e, <1>s, <1>l, <1>all
    <2>5. CASE fatal' = TRUE /\ EndStream /\ UNCHANGED <<newest, acks>>
      <3>1. StreamT
        BY <1>t, <1>put, <2>5 DEF EndStream, StreamT
      <3>2. UNCHANGED <<call, nextId, acks>>
        BY <2>1, <2>5
      <3> QED BY <2>1, <2>3, <3>1, <3>2, <1>e, <1>l, <1>c, <1>all
    <2>6. CASE f.type = "observation" /\ TakeObservation(f) /\ UNCHANGED <<reader, fatal, acks>>
      <3>1. f.n \in ObsIds /\ f.n \in Q /\ f.n \in 0..MaxObs
        BY <1>t, <2>2, <2>6, FrameIs DEF ObsIds
      <3> HIDE DEF f, Q
      <3>2. inbox' \in Seq(Q) /\ Len(inbox') <= InboxSize
        BY <1>t, <1>put, <2>6, <3>1 DEF TakeObservation
      <3>3. newest' \in 0..MaxObs
        BY <1>t, <2>6, <3>1 DEF TakeObservation
      <3>4. StreamT
        BY <1>t, <2>6, <3>2, <3>3 DEF StreamT
      <3>5. UNCHANGED <<call, nextId, acks>>
        BY <2>1, <2>6
      <3> QED BY <2>1, <2>3, <3>4, <3>5, <1>e, <1>l, <1>c, <1>all
    <2> QED BY <1>7, <2>4, <2>5, <2>6 DEF ReadFrame
  <1>8. CASE Observations
    <2>1. /\ inbox # <<>> /\ inbox' = <<>>
          /\ UNCHANGED <<link, wire, engine, reader, fatal, newest, call, nextId, acks>>
      BY <1>8 DEF Observations
    <2>2. StreamT
      BY <1>t, <2>1 DEF StreamT
    <2>3. CASE \E i \in 1..Len(inbox) : inbox[i] = End
      <3>1. LoopT
        BY <1>8, <1>t, <2>3 DEF Observations, LoopT
      <3> QED BY <2>1, <2>2, <3>1, <1>w, <1>e, <1>c, <1>all
    <2>4. CASE ~ \E i \in 1..Len(inbox) : inbox[i] = End
      <3>1. loop' = "thinking" /\ cur' = inbox[Len(inbox)]
        BY <1>8, <2>4 DEF Observations
      <3>2. Len(inbox) \in 1..Len(inbox) /\ inbox[Len(inbox)] \in Q
        BY <1>t, <2>1
      <3>3. inbox[Len(inbox)] \in ObsIds
        BY <2>4, <3>2
      <3>4. LoopT
        BY <1>t, <3>1, <3>3 DEF LoopT, ObsIds
      <3> QED BY <2>1, <2>2, <3>4, <1>w, <1>e, <1>c, <1>all
    <2> QED BY <2>3, <2>4
  <1>9. CASE SkipObs
    <2>1. LoopT /\ UNCHANGED <<link, wire, engine, stream, call, nextId, acks>>
      BY <1>9, <1>t DEF SkipObs, LoopT
    <2> QED BY <2>1, <1>w, <1>e, <1>s, <1>c, <1>all
  <1>post. ASSUME NEW c \in Callers, NEW todo \in SUBSET ActionIds, todo # {}, NEW w \in BOOLEAN,
                  Post(c, todo, w), nextId' \in 1..(MaxActions + 1), LoopT
           PROVE  ClientTypeOK'
    <2>1. PICK id \in todo : Posts(c, todo, w, id)
      BY <1>post, <1>t, PostIs
    <2>2. WireT /\ EngineT /\ StreamT /\ CallT
      BY <1>t, <1>post, <2>1, <1>w, <1>s DEF Posts, EngineT, CallT
    <2> QED BY <1>post, <2>2, <1>all
  <1>10. ASSUME NEW c \in Callers, ActBatch(c) PROVE ClientTypeOK'
    <2>1. nextId' <= MaxActions + 1
      BY <1>10 DEF ActBatch
    <2>2. CASE c = Loop
      <3>1. nextId' = nextId + 1 /\ Post(c, {nextId}, TRUE) /\ loop' = "acting"
        BY <1>10, <2>2 DEF ActBatch
      <3>2. {nextId} \in SUBSET ActionIds /\ nextId' \in 1..(MaxActions + 1)
        BY <1>t, <2>1, <3>1 DEF ActionIds
      <3>3. LoopT
        BY <1>t, <3>1 DEF LoopT, Post
      <3> QED BY <3>1, <3>2, <3>3, <1>post
    <2>3. CASE c # Loop
      <3>1. PICK n \in 1..MaxBatch, w \in BOOLEAN :
              nextId' = nextId + n /\ Post(c, nextId..(nextId + n - 1), w)
        BY <1>10, <2>3 DEF ActBatch
      <3> DEFINE T == nextId..(nextId + n - 1)
      <3>2. T \in SUBSET ActionIds /\ nextId \in T /\ nextId' \in 1..(MaxActions + 1)
        BY <1>t, <2>1, <3>1 DEF ActionIds
      <3>3. Post(c, T, w) /\ T # {}
        BY <3>1, <3>2
      <3>4. LoopT
        BY <1>10, <2>3, <1>t, <3>1 DEF LoopT, ActBatch, Post
      <3> HIDE DEF T
      <3> QED BY <3>2, <3>3, <3>4, <1>post
    <2> QED BY <2>2, <2>3
  <1>11. ASSUME NEW c \in Callers, SendNext(c) PROVE ClientTypeOK'
    <2> DEFINE T == call[c].todo
               w == call[c].wait
    <2>1. T \in SUBSET ActionIds /\ w \in BOOLEAN
      BY <1>t DEF Call
    <2>2. T # {} /\ Post(c, T, w) /\ nextId' = nextId /\ loop' = loop
      BY <1>11 DEF SendNext
    <2>3. LoopT /\ nextId' \in 1..(MaxActions + 1)
      BY <1>t, <2>2 DEF LoopT, Post
    <2> HIDE DEF T, w
    <2> QED BY <2>1, <2>2, <2>3, <1>post
  <1>fin. ASSUME NEW c \in Callers, Finish(c), pending' \subseteq pending,
                 UNCHANGED <<link, wire, engine, stream, cur, nextId, answered, acked>>
          PROVE  ClientTypeOK'
    <2>1. CallT /\ LoopT
      BY <1>t, <1>fin, FinishIs DEF CallT, LoopT
    <2> QED BY <2>1, <1>fin, <1>w, <1>e, <1>s, <1>all
  <1>12. ASSUME NEW c \in Callers, SendLast(c) PROVE ClientTypeOK'
    <2>1. CASE call[c].wait
      <3>1. /\ call' = [call EXCEPT ![c].pc = "waiting"] /\ UNCHANGED <<loop, pending>>
            /\ UNCHANGED <<link, wire, engine, stream, cur, nextId, answered, acked>>
        BY <1>12, <2>1 DEF SendLast
      <3>2. call' \in [Callers -> Call]
        BY <1>t, <3>1 DEF Call
      <3>3. CallT /\ LoopT
        BY <1>t, <3>1, <3>2 DEF CallT, LoopT
      <3> QED BY <3>1, <3>3, <1>w, <1>e, <1>s, <1>all
    <2>2. CASE ~ call[c].wait
      BY <1>12, <1>fin, <2>2 DEF SendLast, Forget
    <2> QED BY <2>1, <2>2
  <1>13. ASSUME NEW c \in Callers, SendFails(c) \/ Timeout(c) \/ GatherDone(c) PROVE ClientTypeOK'
    BY <1>13, <1>fin DEF SendFails, Timeout, GatherDone, Forget, acks
  <1>14. CASE UNCHANGED clientVars
    BY <1>14, <1>w, <1>e, <1>s, <1>l, <1>c, <1>all DEF clientVars
  <1> QED
    BY <1>1, <1>2, <1>3, <1>4, <1>5, <1>6, <1>7, <1>8, <1>9, <1>10, <1>11, <1>12, <1>13, <1>14
    DEF ClientNext, Acts

(* The mark of the end.                                                    *)
LEMMA StreamKept == CInv /\ [ClientNext]_clientVars => Stream'
  <1> SUFFICES ASSUME CInv, [ClientNext]_clientVars PROVE Stream'
    OBVIOUS
  <1> USE DEF EndIsKept, FatalSurfaces
  <1>0. /\ call \in [Callers -> Call] /\ Loop \in Callers /\ wire \in Seq(Frame)
        /\ inbox \in Seq(ObsIds \cup {End}) /\ Len(inbox) <= InboxSize
    BY SdkAssumption DEF SdkAssumption, CInv, ClientTypeOK
  <1>s. Stream
    BY DEF CInv
  <1>put. ASSUME NEW x \in ObsIds \cup {End}, PutNowait(x)
          PROVE  /\ inbox' # <<>> /\ inbox'[Len(inbox')] = x
                 /\ (\E i \in 1..Len(inbox') : inbox'[i] = End) =>
                      x = End \/ \E i \in 1..Len(inbox) : inbox[i] = End
    BY <1>0, <1>put, PutIs
  <1>end. ASSUME EndStream, reader # "ended", UNCHANGED <<loop, call>> PROVE Stream'
    <2>1. reader' = "ended" /\ PutNowait(End)
      BY <1>end DEF EndStream
    <2>2. inbox' # <<>> /\ inbox'[Len(inbox')] = End
      BY <1>put, <2>1
    <2>3. loop \notin {"returned", "raised"}
      BY <1>s, <1>end DEF Stream
    <2> QED BY <1>s, <1>end, <2>1, <2>2, <2>3 DEF Stream
  <1>1. CASE UNCHANGED <<reader, inbox, fatal, loop, call>>
    BY <1>s, <1>1 DEF Stream
  <1>2. CASE StartReader \/ ReaderEnds \/ Close
    <2>1. UNCHANGED <<loop, call, fatal>>
      BY <1>2 DEF StartReader, ReaderEnds, Close
    <2>2. CASE EndStream /\ reader = "running"
      BY <2>1, <2>2, <1>end
    <2>3. CASE reader = "unstarted" /\ reader' \in {"running", "cancelled"} /\ UNCHANGED inbox
      BY <1>s, <2>1, <2>3 DEF Stream
    <2> QED BY <1>2, <2>2, <2>3 DEF StartReader, ReaderEnds, Close
  <1>3. CASE ReadFrame
    <2>1. reader = "running" /\ wire # <<>> /\ UNCHANGED <<loop, call>>
      BY <1>3 DEF ReadFrame
    <2>2. CASE UNCHANGED stream
      BY <1>s, <2>1, <2>2 DEF Stream, stream
    <2>3. CASE EndStream
      BY <2>1, <2>3, <1>end
    <2>4. CASE Head(wire).type = "observation" /\ TakeObservation(Head(wire)) /\ UNCHANGED <<reader, fatal>>
      <3>1. Head(wire).n \in ObsIds /\ Head(wire).n # End
        BY <1>0, <2>1, <2>4, TailIs, FrameIs DEF ObsIds, End
      <3>2. \A i \in 1..Len(inbox) : inbox[i] # End
        BY <1>s, <2>1 DEF Stream
      <3>3. CASE Valid(Head(wire))
        <4>1. PutNowait(Head(wire).n)
          BY <2>4, <3>3 DEF TakeObservation
        <4>2. ~ \E i \in 1..Len(inbox') : inbox'[i] = End
          BY <1>put, <3>1, <3>2, <4>1
        <4> QED BY <1>s, <2>1, <2>4, <4>2 DEF Stream
      <3>4. CASE ~ Valid(Head(wire))
        BY <1>s, <2>1, <2>4, <3>4 DEF Stream, TakeObservation
      <3> QED BY <3>3, <3>4
    <2> QED BY <1>3, <2>2, <2>3, <2>4 DEF ReadFrame
  <1>4. CASE Observations
    <2>1. /\ loop = "getting" /\ inbox # <<>> /\ inbox' = <<>>
          /\ UNCHANGED <<reader, fatal, call>>
      BY <1>4 DEF Observations
    <2>2. Len(inbox) \in 1..Len(inbox)
      BY <1>0, <2>1
    <2>3. CASE \E i \in 1..Len(inbox) : inbox[i] = End
      <3>1. reader = "ended" /\ loop' = IF fatal THEN "raised" ELSE "returned"
        BY <1>4, <1>s, <2>3 DEF Observations, Stream
      <3>2. call[Loop].pc = "idle"
        BY <1>s, <2>1 DEF Stream
      <3> QED BY <2>1, <3>1, <3>2 DEF Stream
    <2>4. CASE ~ \E i \in 1..Len(inbox) : inbox[i] = End
      <3>1. loop' = "thinking" /\ inbox[Len(inbox)] # End
        BY <1>4, <2>2, <2>4 DEF Observations
      <3>2. reader # "ended" /\ call[Loop].pc = "idle"
        BY <1>s, <2>1, <3>1 DEF Stream
      <3> QED BY <2>1, <3>1, <3>2 DEF Stream
    <2> QED BY <2>3, <2>4
  <1>5. CASE SkipObs
    BY <1>5, <1>s DEF SkipObs, Stream, stream
  <1>6. ASSUME NEW c \in Callers, ActBatch(c) PROVE Stream'
    <2>1. UNCHANGED <<reader, inbox, fatal>>
      BY <1>6 DEF ActBatch, Post, stream
    <2>2. CASE c = Loop
      BY <1>6, <1>s, <2>1, <2>2 DEF ActBatch, Stream
    <2>3. CASE c # Loop
      <3>1. loop' = loop
        BY <1>6, <2>3 DEF ActBatch
      <3>2. call'[Loop] = call[Loop]
        BY <1>0, <1>6, <2>3 DEF ActBatch, Post
      <3> QED BY <1>s, <2>1, <3>1, <3>2 DEF Stream
    <2> QED BY <2>2, <2>3
  <1>7. ASSUME NEW c \in Callers, SendNext(c) PROVE Stream'
    <2>1. UNCHANGED <<reader, inbox, fatal, loop>> /\ call[c].pc = "sending"
      BY <1>7 DEF SendNext, Post, stream
    <2>2. c # Loop => call'[Loop] = call[Loop]
      BY <1>0, <1>7 DEF SendNext, Post
    <2> QED BY <1>s, <2>1, <2>2 DEF Stream
  <1>fin. ASSUME NEW c \in Callers, Finish(c), call[c].pc # "idle", UNCHANGED stream PROVE Stream'
    <2>1. /\ c # Loop => loop' = loop /\ call'[Loop] = call[Loop]
          /\ c = Loop => loop' = "getting" /\ call'[Loop].pc = "idle" /\ loop = "acting"
      BY <1>0, <1>fin, <1>s, FinishIs DEF Stream
    <2> QED BY <1>fin, <1>s, <2>1 DEF Stream, stream
  <1>8. ASSUME NEW c \in Callers, SendLast(c) PROVE Stream'
    <2>1. CASE call[c].wait
      <3>1. /\ call' = [call EXCEPT ![c].pc = "waiting"] /\ call[c].pc = "sending"
            /\ UNCHANGED <<loop, reader, inbox, fatal>>
        BY <1>8, <2>1 DEF SendLast, stream
      <3>2. c # Loop => call'[Loop] = call[Loop]
        BY <1>0, <3>1
      <3> QED BY <1>s, <3>1, <3>2 DEF Stream
    <2>2. CASE ~ call[c].wait
      BY <1>8, <1>fin, <2>2 DEF SendLast
    <2> QED BY <2>1, <2>2
  <1>9. ASSUME NEW c \in Callers, SendFails(c) \/ Timeout(c) \/ GatherDone(c) PROVE Stream'
    BY <1>9, <1>fin DEF SendFails, Timeout, GatherDone
  <1>10. CASE RegisterAgent \/ ConnectClient \/ EngineObserves \/ EngineAnswers \/ Disconnect
                \/ UNCHANGED clientVars
    BY <1>1, <1>10 DEF RegisterAgent, ConnectClient, EngineObserves, EngineAnswers, Disconnect,
                       clientVars, stream
  <1> QED
    BY <1>2, <1>3, <1>4, <1>5, <1>6, <1>7, <1>8, <1>9, <1>10 DEF ClientNext, Acts

(* The numbers of the observations, from the engine to the brain.          *)
LEMMA NewestKept == CInv /\ [ClientNext]_clientVars => Newest'
  <1> SUFFICES ASSUME CInv, [ClientNext]_clientVars PROVE Newest'
    OBVIOUS
  <1>0. /\ wire \in Seq(Frame) /\ inbox \in Seq(ObsIds \cup {End}) /\ Len(inbox) <= InboxSize
        /\ observed \in Nat /\ cur \in Nat /\ newest \in Nat
        /\ \A i \in 1..Len(wire) : IsObs(wire[i]) => wire[i].n \in Nat
    <2>1. \A i \in 1..Len(wire) : IsObs(wire[i]) => wire[i].n \in Nat
      <3>1. \A i \in 1..Len(wire) : wire[i] \in Frame
        BY DEF CInv, ClientTypeOK
      <3> QED BY <3>1, FrameIs DEF IsObs, ObsIds
    <2> QED BY <2>1, SdkAssumption DEF SdkAssumption, CInv, ClientTypeOK
  <1>n. Newest
    BY DEF CInv
  <1>same. ASSUME UNCHANGED <<wire, observed, newest, cur, inbox>> PROVE Newest'
    BY <1>same, <1>n DEF Newest
  <1>1. CASE RegisterAgent \/ StartReader \/ SkipObs \/ UNCHANGED clientVars
               \/ \E c \in Callers : Acts(c)
    <2>1. UNCHANGED <<wire, observed, newest, cur, inbox>>
      BY <1>1 DEF RegisterAgent, StartReader, SkipObs, clientVars, engine, stream, Acts, ActBatch,
                  SendNext, SendLast, SendFails, GatherDone, Timeout, Post
    <2> QED BY <2>1, <1>same
  <1>2. CASE ConnectClient
    <2>1. UNCHANGED <<observed, newest, cur, inbox>>
      BY <1>2 DEF ConnectClient, engine, stream
    <2>2. CASE UNCHANGED wire
      BY <2>1, <2>2, <1>same
    <2>3. CASE wire' = <<[type |-> "error", n |-> 0]>>
      <3>1. \A i \in 1..Len(wire') : ~ IsObs(wire'[i])
        BY <2>3 DEF IsObs
      <3> QED BY <2>1, <3>1, <1>n DEF Newest
    <2> QED BY <1>2, <2>2, <2>3 DEF ConnectClient
  <1>app. ASSUME NEW f, wire' = Append(wire, f), UNCHANGED <<newest, cur, inbox>>,
                 observed' \in Nat, observed <= observed',
                 IsObs(f) => f.n = observed' /\ observed < observed'
          PROVE  Newest'
    <2>1. /\ Len(wire) \in Nat /\ Len(wire') = Len(wire) + 1 /\ wire'[Len(wire) + 1] = f
          /\ \A i \in 1..Len(wire) : wire'[i] = wire[i]
      BY <1>0, <1>app
    <2>2. \A i \in 1..Len(wire') : i \in 1..Len(wire) \/ i = Len(wire) + 1
      BY <2>1
    <2>3. \A i \in 1..Len(wire) : IsObs(wire[i]) => newest < wire[i].n /\ wire[i].n <= observed
      BY <1>n DEF Newest
    <2>4. \A i \in 1..Len(wire') : IsObs(wire'[i]) => newest' < wire'[i].n /\ wire'[i].n <= observed'
      <3> TAKE i \in 1..Len(wire')
      <3>1. CASE i \in 1..Len(wire)
        BY <1>0, <1>app, <2>1, <2>3, <3>1
      <3>2. CASE i = Len(wire) + 1
        BY <1>0, <1>n, <1>app, <2>1, <3>2 DEF Newest
      <3> QED BY <2>2, <3>1, <3>2
    <2>5. \A i, j \in 1..Len(wire') :
             i < j /\ IsObs(wire'[i]) /\ IsObs(wire'[j]) => wire'[i].n < wire'[j].n
      <3> TAKE i, j \in 1..Len(wire')
      <3> HAVE i < j /\ IsObs(wire'[i]) /\ IsObs(wire'[j])
      <3>1. i \in 1..Len(wire)
        BY <2>1, <2>2
      <3>2. CASE j \in 1..Len(wire)
        BY <1>n, <2>1, <3>1, <3>2 DEF Newest
      <3>3. CASE j = Len(wire) + 1
        BY <1>0, <1>app, <2>1, <2>3, <3>1, <3>3
      <3> QED BY <2>2, <3>2, <3>3
    <2>6. cur' <= newest' /\ newest' <= observed'
      BY <1>0, <1>n, <1>app DEF Newest
    <2> QED BY <1>n, <1>app, <2>4, <2>5, <2>6 DEF Newest
  <1>3. CASE EngineObserves
    <2>1. PICK d \in Defects \cup {"none"} :
            wire' = Append(wire, [type |-> "observation", n |-> observed', defect |-> d])
      BY <1>3 DEF EngineObserves
    <2>2. observed' = observed + 1 /\ UNCHANGED <<newest, cur, inbox>>
      BY <1>3 DEF EngineObserves, stream
    <2> DEFINE f == [type |-> "observation", n |-> observed', defect |-> d]
    <2>3. f.n = observed'
      OBVIOUS
    <2> HIDE DEF f
    <2> QED BY <1>0, <1>app, <2>1, <2>2, <2>3 DEF f
  <1>4. CASE EngineAnswers
    <2>1. PICK id \in received : wire' = Append(wire, [type |-> "action_ack", n |-> id])
      BY <1>4 DEF EngineAnswers
    <2>2. UNCHANGED <<observed, newest, cur, inbox>>
      BY <1>4 DEF EngineAnswers, stream
    <2>3. ~ IsObs([type |-> "action_ack", n |-> id])
      BY DEF IsObs
    <2> QED BY <1>0, <1>app, <2>1, <2>2, <2>3
  <1>5. CASE Disconnect
    <2>1. PICK k \in 0..Len(wire) : wire' = SubSeq(wire, 1, k)
      BY <1>5 DEF Disconnect
    <2>2. UNCHANGED <<observed, newest, cur, inbox>>
      BY <1>5 DEF Disconnect, engine, stream
    <2>3. \A i \in 1..Len(wire') : wire'[i] = wire[i] /\ i \in 1..Len(wire)
      BY <1>0, <2>1, SubSeqIs
    <2> QED BY <1>n, <2>2, <2>3 DEF Newest
  <1>end. ASSUME EndStream, UNCHANGED <<observed, newest, cur>>,
                 wire' = wire \/ (wire' = Tail(wire) /\ wire # <<>>)
          PROVE  Newest'
    <2>1. inbox' # <<>> /\ inbox'[Len(inbox')] = End
      BY <1>0, <1>end, PutIs DEF EndStream
    <2>2. CASE wire' = wire
      BY <1>n, <1>end, <2>1, <2>2 DEF Newest
    <2>3. CASE wire' = Tail(wire) /\ wire # <<>>
      <3>1. \A i \in 1..Len(wire') : wire'[i] = wire[i + 1] /\ i + 1 \in 1..Len(wire)
        BY <1>0, <2>3, TailIs
      <3>2. \A i, j \in 1..Len(wire') : i < j => i + 1 < j + 1
        OBVIOUS
      <3> QED BY <1>n, <1>end, <2>1, <3>1, <3>2 DEF Newest
    <2> QED BY <1>end, <2>2, <2>3
  <1>6. CASE ReaderEnds
    BY <1>6, <1>end DEF ReaderEnds, engine
  <1>7. CASE Close
    <2>1. UNCHANGED <<wire, observed, newest, cur>>
      BY <1>7 DEF Close, engine
    <2> QED BY <1>7, <1>same, <1>end, <2>1 DEF Close
  <1>8. CASE ReadFrame
    <2> DEFINE f == Head(wire)
    <2>1. wire # <<>> /\ wire' = Tail(wire) /\ UNCHANGED <<observed, cur>>
      BY <1>8 DEF ReadFrame, engine
    <2>2. /\ f \in Frame /\ f = wire[1] /\ Len(wire) \in Nat \ {0}
          /\ \A i \in 1..Len(wire') : wire'[i] = wire[i + 1] /\ i + 1 \in 1..Len(wire)
      BY <1>0, <2>1, TailIs
    <2>3. \A i, j \in 1..Len(wire') :
             i < j /\ IsObs(wire'[i]) /\ IsObs(wire'[j]) => wire'[i].n < wire'[j].n
      <3>1. \A i, j \in 1..Len(wire') : i < j => i + 1 < j + 1
        OBVIOUS
      <3> QED BY <1>n, <2>2, <3>1 DEF Newest
    <2>4. CASE UNCHANGED stream
      BY <1>n, <2>1, <2>2, <2>3, <2>4 DEF Newest, stream
    <2>5. CASE EndStream /\ UNCHANGED newest
      BY <2>1, <2>5, <1>end
    <2>6. CASE f.type = "observation" /\ TakeObservation(f)
      <3>1. IsObs(wire[1]) /\ 1 \in 1..Len(wire) /\ f.n \in Nat /\ f.n \in ObsIds /\ f.n # End
        BY <1>0, <2>2, <2>6, FrameIs DEF IsObs, ObsIds, End
      <3>2. newest < f.n /\ f.n <= observed
        BY <1>n, <2>2, <3>1 DEF Newest
      <3>3. \A i \in 1..Len(wire') : IsObs(wire'[i]) => f.n < wire'[i].n /\ newest < wire'[i].n
                                                        /\ wire'[i].n <= observed
        <4>1. \A i \in 1..Len(wire') : 1 < i + 1
          OBVIOUS
        <4> QED BY <1>n, <2>2, <3>1, <4>1 DEF Newest
      <3>4. Valid(f) <=> Sound(f)
        BY DEF Valid, Sound, Coerced
      <3> HIDE DEF f
      <3>5. CASE Valid(f)
        <4>1. PutNowait(f.n) /\ newest' = f.n
          BY <2>6, <3>4, <3>5 DEF TakeObservation
        <4>2. inbox' # <<>> /\ inbox'[Len(inbox')] = f.n
          BY <1>0, <3>1, <4>1, PutIs
        <4>3. cur' < newest' /\ cur' <= newest' /\ newest' <= observed'
          BY <1>0, <1>n, <2>1, <3>1, <3>2, <4>1 DEF Newest
        <4> QED BY <2>1, <2>3, <3>3, <4>1, <4>2, <4>3 DEF Newest
      <3>6. CASE ~ Valid(f)
        <4>1. UNCHANGED <<inbox, newest>>
          BY <2>6, <3>4, <3>6 DEF TakeObservation
        <4> QED BY <1>n, <2>1, <2>3, <3>3, <4>1 DEF Newest
      <3> QED BY <3>5, <3>6
    <2> QED BY <1>8, <2>4, <2>5, <2>6 DEF ReadFrame
  <1>9. CASE Observations
    <2>1. inbox # <<>> /\ inbox' = <<>> /\ UNCHANGED <<wire, observed, newest>>
      BY <1>9 DEF Observations, engine
    <2>2. Len(inbox) \in 1..Len(inbox)
      BY <1>0, <2>1
    <2>3. cur' = cur \/ (inbox[Len(inbox)] # End /\ cur' = inbox[Len(inbox)])
      BY <1>9, <2>2 DEF Observations
    <2>4. cur' <= newest'
      BY <1>0, <1>n, <2>1, <2>3 DEF Newest
    <2> QED BY <1>n, <2>1, <2>4 DEF Newest
  <1> QED
    BY <1>1, <1>2, <1>3, <1>4, <1>5, <1>6, <1>7, <1>8, <1>9 DEF ClientNext

LEMMA ClientKeeps == CInv /\ [ClientNext]_clientVars => CInv'
  BY TypesKept, CallsKept, StreamKept, NewestKept DEF CInv

-----------------------------------------------------------------------------
LEMMA CInvIsSafe == CInv => ClientSafe
  <1>1. CInv => NoAckLost
    BY DEF CInv, Futures, NoAckLost
  <1> QED BY <1>1 DEF CInv, Stream, Futures, ClientSafe

(* However frames, acks, timeouts, failing sends, the closing of the       *)
(* socket and the brain loop follow one another: the end of the stream is  *)
(* neither dropped nor overtaken, a refusal is not taken for a clean end,  *)
(* no future is left that nobody waits for and no ack in time is lost      *)
(* (client.py _read_loop, act_batch, _dispatch_ack).                       *)
THEOREM ClientIsSafe == ClientSpec => []ClientSafe
  BY ClientStart, ClientKeeps, CInvIsSafe, PTL DEF ClientSpec

LEMMA NewestIsTaken ==
  CInv /\ [ClientNext]_clientVars
    => [loop = "getting" /\ loop' = "thinking" => cur' = newest /\ cur' > cur]_clientVars
  <1> SUFFICES ASSUME CInv, ClientNext, loop = "getting", loop' = "thinking"
               PROVE  cur' = newest /\ cur' > cur
    OBVIOUS
  <1>1. inbox \in Seq(ObsIds \cup {End}) /\ cur \in Nat /\ newest \in Nat
    BY SdkAssumption DEF SdkAssumption, CInv, ClientTypeOK
  <1>2. Observations
    <2>1. ASSUME NEW c \in Callers, Acts(c) PROVE FALSE
      BY <2>1 DEF Acts, ActBatch, SendNext, SendLast, SendFails, GatherDone, Timeout, Post, Finish
    <2> QED BY <2>1 DEF ClientNext, RegisterAgent, ConnectClient, EngineObserves, EngineAnswers,
                        Disconnect, StartReader, ReadFrame, ReaderEnds, Close, SkipObs
  <1>3. /\ inbox # <<>> /\ cur' = inbox[Len(inbox)]
        /\ ~ \E i \in 1..Len(inbox) : inbox[i] = End
    BY <1>2 DEF Observations
  <1>4. inbox[Len(inbox)] # End
    BY <1>1, <1>3
  <1> QED BY <1>1, <1>3, <1>4 DEF CInv, Newest

(* For any size of the inbox: what the brain loop takes is the newest      *)
(* observation the reader has read, and newer than the one before          *)
(* (client.py observations "acting on them is worse than useless").        *)
THEOREM BrainSeesTheNewest == ClientSpec => FreshOnYield
  BY ClientStart, ClientKeeps, NewestIsTaken, PTL DEF ClientSpec, FreshOnYield

-----------------------------------------------------------------------------
(* Either end, as in the module that is checked.                           *)
EndsInv == end \in {"engine", "client"} /\ SInv /\ CInv

LEMMA EndsStep ==
  EndsInv /\ [(SessionsRun /\ Next) \/ (ClientRuns /\ ClientNext)]_all
    => EndsInv' /\ [ClientNext]_clientVars
  <1> SUFFICES ASSUME EndsInv, [(SessionsRun /\ Next) \/ (ClientRuns /\ ClientNext)]_all
               PROVE  EndsInv' /\ [ClientNext]_clientVars
    OBVIOUS
  <1>1. UNCHANGED end /\ [Next]_vars /\ [ClientNext]_clientVars
    BY DEF SessionsRun, ClientRuns, all
  <1> QED BY <1>1, SessionKeeps, ClientKeeps DEF EndsInv

(* Of both ends of a connection, with the fairness of the event loop:      *)
(* agents keep their bodies, calls their acks and the brain its newest     *)
(* observation (agent.go HandleWS, client.py _read_loop).                  *)
THEOREM ConnectionsAreSafe == ConnectionSpec => [](SessionSafe /\ ClientSafe) /\ FreshOnYield
  <1>1. Start => EndsInv
    BY SessionStart, ClientStart DEF Start, EndsInv
  <1>2. EndsInv => SessionSafe /\ ClientSafe
    BY SInvIsSafe, CInvIsSafe DEF EndsInv
  <1>3. EndsInv /\ [(SessionsRun /\ Next) \/ (ClientRuns /\ ClientNext)]_all
          => [loop = "getting" /\ loop' = "thinking" => cur' = newest /\ cur' > cur]_clientVars
    BY EndsStep, NewestIsTaken DEF EndsInv
  <1> QED BY <1>1, <1>2, <1>3, EndsStep, PTL DEF ConnectionSpec, FreshOnYield
=============================================================================
