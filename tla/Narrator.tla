------------------------------ MODULE Narrator ------------------------------
(***************************************************************************)
(* The narrator (tools/narrator): a process that tails the event file of   *)
(* the engine, keeps the events in buckets and has them summarised, by     *)
(* agent (L1), by cluster (L2) and as a whole (L3), when the ticks of the  *)
(* events cross a cadence, and once more at its end (L4).                  *)
(*                                                                         *)
(* An event is its line in the file.  Of its kind the model keeps who is   *)
(* taken for the actor and which two it ties together; of a summary, the   *)
(* events it was made from and who wrote it.  The writer of the file, the  *)
(* sender of the signal and the language models are external.              *)
(***************************************************************************)
EXTENDS Integers, FiniteSets, SequencesExt

CONSTANTS
  Agents,
  NoAgent,
  MaxLines,             \* bound on the lines of the file
  MaxTick,
  Cadence,              \* l1_, l2_ and l3_cadence_ticks
  CapAgent, CapGlobal,  \* 256 and 4096
  MaxQwen, MaxClaude,   \* the budgets
  IdleExit              \* --idle-exit is given

ASSUME NarratorAssumption ==
  /\ NoAgent \notin Agents /\ IsFiniteSet(Agents)
  /\ {MaxLines, MaxTick, MaxQwen, MaxClaude} \subseteq Nat
  /\ {CapAgent, CapGlobal} \subseteq Nat \ {0}
  /\ Cadence \in [1..3 -> Nat \ {0}] /\ IdleExit \in BOOLEAN

Lines == 1..MaxLines
Pairs == {p \in SUBSET Agents : Cardinality(p) = 2} \cup {{}}

(* A line: actor_of, the pair of cluster_agents, the names that l2_prompt  *)
(* looks for, and whether ingest skips it.  A death has neither actor nor  *)
(* pair: the engine writes EntityID and Killer, and the narrator looks for *)
(* VictimID and KillerID.                                                  *)
Event == [tick : 0..MaxTick, actor : Agents \cup {NoAgent}, pair : Pairs, names : SUBSET Agents,
          skip : BOOLEAN]

Speech(t, a)  == [tick |-> t, actor |-> a, pair |-> {}, names |-> {a}, skip |-> FALSE]
Deal(t, a, b) == [tick |-> t, actor |-> a, pair |-> {a, b}, names |-> {a, b}, skip |-> FALSE]
Death(t, b)   == [tick |-> t, actor |-> NoAgent, pair |-> {}, names |-> {b}, skip |-> FALSE]
Noise(t)      == [tick |-> t, actor |-> NoAgent, pair |-> {}, names |-> {}, skip |-> TRUE]

VARIABLES
  log,      \* the lines the engine has begun
  half,     \* the last of them is not finished
  signal,   \* SIGINT has been sent: stopping is set
  killed,   \* SIGKILL has been sent
  stage,    \* where the process is: see below
  at,       \* lines read
  torn,     \* the first half of line at + 1 has been read and dropped
  size,     \* last_size: lines and halves
  bucket,   \* per_agent, as sets of lines
  known,    \* its keys, in the order in which they came
  global,   \* global_buf
  tick,     \* of the event in hand
  next,     \* next_l1, next_l2, next_l3
  todo,     \* what the tier that runs has still to summarise
  calls,    \* calls of each model that were answered
  out,      \* the records of the output file
  failed,   \* an exception ended the loop
  missed    \* history: the lines that were read and not taken in

file    == <<log, half>>
process == <<at, torn, size, bucket, known, global, tick, next, calls, out, failed, missed>>
narratorVars == <<file, signal, killed, stage, todo, process>>

(* stage: between events, in one of the three tiers, before the last       *)
(* summary, after it.                                                      *)
Following    == 0
Closing == 4
Closed  == 5

Models == {"qwen", "claude"}
Budget == [qwen |-> MaxQwen, claude |-> MaxClaude]

Record == [level : 1..4, tick : 0..MaxTick, scope : SUBSET Agents, events : SUBSET Lines,
           by : Models \cup {"stub", "skipped"}]

(* Every variable has its type, the buckets are within their caps and the  *)
(* models within their budgets.                                            *)
NarratorTypeOK ==
  /\ log \in Seq(Event) /\ Len(log) <= MaxLines /\ half \in BOOLEAN /\ (half => log # << >>)
  /\ signal \in BOOLEAN /\ killed \in BOOLEAN /\ failed \in BOOLEAN /\ torn \in BOOLEAN
  /\ stage \in Following..Closed /\ at \in 0..Len(log) /\ size \in 0..2 * MaxLines
  /\ bucket \in [Agents -> SUBSET Lines] /\ known \in Seq(Agents)
  /\ \A a \in Agents : Cardinality(bucket[a]) <= CapAgent
  /\ global \subseteq Lines /\ Cardinality(global) <= CapGlobal /\ missed \subseteq Lines
  /\ tick \in 0..MaxTick /\ next \in [1..3 -> Nat]
  /\ todo \subseteq SUBSET Agents
  /\ calls \in [Models -> Nat] /\ calls["qwen"] <= MaxQwen /\ calls["claude"] <= MaxClaude
  /\ out \in Seq(Record)

EmptyBuckets == bucket = [a \in Agents |-> {}] /\ known = << >> /\ global = {}

NarratorInit ==
  /\ log = << >> /\ half = FALSE /\ signal = FALSE /\ killed = FALSE
  /\ stage = Following /\ at = 0 /\ torn = FALSE /\ size = 0
  /\ EmptyBuckets
  /\ tick = 0 /\ next = Cadence /\ todo = {}
  /\ calls = [m \in Models |-> 0] /\ out = << >> /\ failed = FALSE /\ missed = {}

-----------------------------------------------------------------------------
(* The engine appends a line, in one write or so that a reader may see the *)
(* first part of it.                                                       *)
Ready(e) == ~ half /\ Len(log) < MaxLines /\ (log # << >> => log[Len(log)].tick <= e.tick)
WriteLine(e)  == Ready(e) /\ log' = Append(log, e) /\ half' = FALSE
BeginLine(e)  == Ready(e) /\ log' = Append(log, e) /\ half' = TRUE
FinishLine    == half /\ half' = FALSE /\ log' = log

-----------------------------------------------------------------------------

(* The n latest lines of a set: what deque and cap leave, and what the     *)
(* prompts show.                                                           *)
Latest(s, n) == {i \in s : Cardinality({j \in s : i <= j}) <= n}

(* cluster_agents: a union-find over the pairs, oldest first.  Find walks  *)
(* to the root and halves the path; n steps are enough for n agents.       *)
Halve(f) ==
  IF f.parent[f.x] = f.x THEN f
  ELSE LET g == f.parent[f.parent[f.x]] IN [parent |-> [f.parent EXCEPT ![f.x] = g], x |-> g]
Find(parent, x) ==
  LET walk[n \in 0..Cardinality(Agents)] ==
        IF n = 0 THEN [parent |-> parent, x |-> x] ELSE Halve(walk[n-1])
  IN walk[Cardinality(Agents)]
(* A slip: one of the two is hung below the other as it stands.            *)
UniteUnrooted(parent, a, b) == [parent EXCEPT ![a] = b]
Unite(parent, a, b) ==
  LET fa == Find(parent, a)
      fb == Find(fa.parent, b)
  IN IF fa.x = fb.x THEN fb.parent ELSE [fb.parent EXCEPT ![fa.x] = fb.x]
Tie(parent, pair) ==
  IF pair = {} THEN parent
  ELSE LET a == CHOOSE x \in pair : TRUE
           b == CHOOSE x \in pair : x # a
       IN Unite(parent, a, b)
Forest(s) ==
  LET grown[n \in 0..MaxLines] ==
        IF n = 0 THEN [a \in Agents |-> a]
        ELSE IF n \in s THEN Tie(grown[n-1], log[n].pair) ELSE grown[n-1]
  IN grown[MaxLines]
ClusterAgents(s) ==
  LET root == [a \in Agents |-> Find(Forest(s), a).x]
  IN {c \in {{b \in Agents : root[b] = root[a]} : a \in Agents} : Cardinality(c) >= 2}

-----------------------------------------------------------------------------
(* The first of the tiers k, k + 1, ... that is due: it has its work set   *)
(* out, of what the buckets hold after l1 and so on.                       *)
Due(t, k) == IF \E n \in k..3 : t >= next[n] THEN CHOOSE n \in k..3 :
               t >= next[n] /\ \A j \in k..n-1 : t < next[j] ELSE Following
Work(k, b, g) ==
  CASE k = 1 -> {{a} : a \in {x \in Agents : b[x] # {}}}
    [] k = 2 -> ClusterAgents(g)
    [] OTHER -> {}

(* Bucketizer.ingest.                                                      *)
Ingest(i) ==
  LET e == log[i] IN
  /\ bucket' = IF e.skip \/ e.actor = NoAgent THEN bucket
               ELSE [bucket EXCEPT ![e.actor] = Latest(@ \cup {i}, CapAgent)]
  /\ known' = IF e.skip \/ e.actor = NoAgent \/ e.actor \in ToSet(known) THEN known
              ELSE Append(known, e.actor)
  /\ global' = IF e.skip THEN global ELSE Latest(global \cup {i}, CapGlobal)

Finished == IF half THEN Len(log) - 1 ELSE Len(log)
Alive == ~ killed /\ stage # Closed

(* A whole line is there: it is taken in, unless the process is stopping.  *)
Take ==
  /\ Alive /\ stage = Following /\ ~ torn /\ at < Finished /\ ~ signal
  /\ at' = at + 1 /\ tick' = log[at'].tick
  /\ Ingest(at')
  /\ stage' = Due(tick', 1) /\ todo' = Work(stage', bucket', global')
  /\ UNCHANGED <<file, signal, killed, torn, size, next, calls, out, failed, missed>>

(* The loop ends on the first event after the signal, which is dropped.    *)
LeaveOnSignal ==
  /\ Alive /\ stage = Following /\ ~ torn /\ at < Finished /\ signal
  /\ at' = at + 1 /\ missed' = missed \cup {at'} /\ stage' = Closing
  /\ UNCHANGED <<file, signal, killed, todo, torn, size, bucket, known, global, tick, next, calls,
                 out, failed>>

(* Half a line is no JSON and dropped, and so is the other half later.     *)
TakeFirstHalf ==
  /\ Alive /\ stage = Following /\ ~ torn /\ half /\ at = Finished
  /\ torn' = TRUE
  /\ UNCHANGED <<file, signal, killed, stage, todo, at, size, bucket, known, global, tick, next,
                 calls, out, failed, missed>>
TakeSecondHalf ==
  /\ Alive /\ stage = Following /\ torn /\ at < Finished
  /\ torn' = FALSE /\ at' = at + 1 /\ missed' = missed \cup {at'}
  /\ UNCHANGED <<file, signal, killed, stage, todo, size, bucket, known, global, tick, next, calls,
                 out, failed>>

(* Nothing more to read: the size of the file is looked at, and with the   *)
(* option --idle-exit a file that stays as it is ends the loop.  The time  *)
(* that takes passes when the file has the size of the last look.          *)
Size    == 2 * Len(log) - (IF half THEN 1 ELSE 0)
Drained == Alive /\ stage = Following /\ at = Finished /\ (half => torn)
LookAtSize ==
  /\ Drained /\ size # Size /\ size' = Size
  /\ UNCHANGED <<file, signal, killed, stage, todo, at, torn, bucket, known, global, tick, next,
                 calls, out, failed, missed>>
LeaveIdle ==
  /\ Drained /\ size = Size /\ IdleExit
  /\ stage' = Closing
  /\ UNCHANGED <<file, signal, killed, todo, process>>

-----------------------------------------------------------------------------

(* What a call of a model comes to: refused for want of budget (skipped),  *)
(* its text, a stub where the model cannot be reached (no package, no key, *)
(* no connection), or an exception.                                        *)
Refused(m)  == calls[m] >= Budget[m]
Unavailable == "stub"
Answers(m) == IF Refused(m) THEN {"skipped"} ELSE {m, Unavailable, "exception"}
(* What counts is an answer, one of Qwen even if it cannot be parsed.      *)
Counted(m, a) ==
  \/ a # m /\ calls' = calls
  \/ (a = m \/ (a = "exception" /\ m = "qwen")) /\ calls' = [calls EXCEPT ![m] = @ + 1]

(* The record of a summary.  An exception leaves none; the loop ends and   *)
(* the last summary is still tried.                                        *)
Emit(level, scope, events, a) ==
  /\ out' = IF a = "exception" THEN out
            ELSE Append(out, [level |-> level, tick |-> tick, scope |-> scope,
                              events |-> events, by |-> a])
  /\ failed' = (failed \/ a = "exception")

(* The first of todo in the order of the buckets.                          *)
FirstKnown(c) == c \in todo /\ \A i \in DOMAIN known :
  {known[i]} \in todo => \E j \in 1..i : {known[j]} = c

(* drain_agent and drain_global: what is summarised leaves its buffer.     *)
DrainAgent(a) == [bucket EXCEPT ![a] = {}]
DrainGlobal == {}

(* run_l1, one agent: its bucket is emptied before the call.  A refusal    *)
(* ends the tier and leaves the others their buckets.                      *)
L1 ==
  /\ Alive /\ stage = 1
  /\ \E c \in todo, answer \in Answers("qwen") : \E a \in c :
       /\ FirstKnown(c)
       /\ Emit(1, c, bucket[a], answer) /\ Counted("qwen", answer)
       /\ bucket' = DrainAgent(a)
       /\ todo' = IF answer \in {"skipped", "exception"} THEN {} ELSE todo \ {c}
       /\ stage' = IF answer = "exception" THEN Closing ELSE stage
  /\ UNCHANGED <<file, signal, killed, at, torn, size, known, global, tick, next, missed>>

(* run_l2, one cluster: the buffer is only looked at.                      *)
L2 ==
  /\ Alive /\ stage = 2
  /\ \E c \in todo, answer \in Answers("qwen") :
       /\ Emit(2, c, {i \in global : log[i].names \cap c # {}}, answer)
       /\ Counted("qwen", answer)
       /\ todo' = IF answer \in {"skipped", "exception"} THEN {} ELSE todo \ {c}
       /\ stage' = IF answer = "exception" THEN Closing ELSE stage
  /\ UNCHANGED <<file, signal, killed, at, torn, size, bucket, known, global, tick, next, missed>>

NextAfter(k) == [next EXCEPT ![k] = tick + Cadence[k]]

(* A tier that has done its work is due again a cadence after this event.  *)
EndTier ==
  /\ Alive /\ stage \in {1, 2} /\ todo = {}
  /\ next' = NextAfter(stage)
  /\ stage' = Due(tick, stage + 1) /\ todo' = Work(stage', bucket, global)
  /\ UNCHANGED <<file, signal, killed, at, torn, size, bucket, known, global, tick, calls, out,
                 failed, missed>>

(* run_l3: the buffer is emptied before the call.                          *)
L3 ==
  /\ Alive /\ stage = 3
  /\ \E answer \in IF global = {} THEN {"nothing"} ELSE Answers("claude") :
       /\ IF answer = "nothing" THEN UNCHANGED <<out, failed>> ELSE Emit(3, Agents, global, answer)
       /\ Counted("claude", answer)
       /\ stage' = IF answer = "exception" THEN Closing ELSE Following
       /\ next' = IF answer = "exception" THEN next ELSE NextAfter(3)
  /\ global' = DrainGlobal
  /\ UNCHANGED <<file, signal, killed, todo, at, torn, size, bucket, known, tick, missed>>

(* The last n summaries of a tier, which l4_prompt quotes.                 *)
Quoted(level, n) ==
  LET told == {i \in DOMAIN out : out[i].level = level /\ out[i].by # "skipped"}
  IN UNION {out[i].events : i \in Latest(told, n)}

(* run_l4: its own exceptions are caught, and the file is closed.          *)
L4 ==
  /\ Alive /\ stage = Closing
  /\ \E answer \in Answers("claude") :
       /\ out' = IF answer = "exception" THEN out
                 ELSE Append(out, [level |-> 4, tick |-> tick, scope |-> Agents, by |-> answer,
                                   events |-> Quoted(3, 3) \cup Quoted(2, 6) \cup Quoted(1, 8)])
       /\ Counted("claude", answer)
  /\ stage' = Closed
  /\ UNCHANGED <<file, signal, killed, todo, at, torn, size, bucket, known, global, tick, next,
                 failed, missed>>

NarratorStep ==
  \/ Take \/ LeaveOnSignal \/ TakeFirstHalf \/ TakeSecondHalf \/ LookAtSize \/ LeaveIdle
  \/ L1 \/ L2 \/ EndTier \/ L3 \/ L4

-----------------------------------------------------------------------------
(* Properties *)

Records(level) == {i \in DOMAIN out : out[i].level = level}
TakenIn(a) == {i \in 1..at : i \notin missed /\ ~ log[i].skip /\ log[i].actor = a}

(* An event is told of its agent once: no two L1 records share one, and    *)
(* none that was told is still in the bucket.  Windows of L3 do not        *)
(* overlap either, while L2 tells the same events again.                   *)
ToldOnce ==
  /\ \A k \in {1, 3} : \A i, j \in Records(k) : i # j => out[i].events \cap out[j].events = {}
  /\ \A a \in Agents : \A i \in Records(1) : bucket[a] \cap out[i].events = {}
  /\ \A i \in Records(3) : global \cap out[i].events = {}

(* An event of an agent is lost only from a full bucket: it waits in the   *)
(* bucket, is in the record of its agent, or is older than a whole         *)
(* window's worth of them.  An exception loses the window in hand.         *)
NothingSkipped ==
  failed \/ \A a \in Agents : \A i \in TakenIn(a) :
    LET windows == {bucket[a]} \cup {out[k].events : k \in {r \in Records(1) : out[r].scope = {a}}}
    IN \E w \in windows : i \in w \/ (Cardinality(w) = CapAgent /\ \A j \in w : i < j)

(* Agents are in one cluster exactly if a chain of deals ties them.        *)
ClustersAreComponents ==
  LET tied(s) == s \cup UNION {log[i].pair : i \in {j \in global : log[j].pair \cap s # {}}}
      reach[n \in 0..Cardinality(Agents)] ==
        [a \in Agents |-> IF n = 0 THEN {a} ELSE tied(reach[n-1][a])]
      component == reach[Cardinality(Agents)]
  IN ClusterAgents(global) = {component[a] : a \in {b \in Agents : component[b] # {b}}}

(* Nobody is told about twice within a cadence, by any tier, and the first *)
(* round comes no earlier than a cadence after the start: a jump of the    *)
(* ticks is not made up for by a round on every event that follows.        *)
RoundsAreSpaced ==
  \A k \in 1..3 : \A i, j \in Records(k) :
    /\ out[i].tick >= Cadence[k]
    /\ i < j /\ out[i].scope = out[j].scope => out[j].tick >= out[i].tick + Cadence[k]

(* The narrator tells each event once, loses none but from a full bucket,  *)
(* groups agents by their deals and keeps its cadences and budgets.        *)
NarratorSafe == NarratorTypeOK /\ ToldOnce /\ NothingSkipped /\ ClustersAreComponents /\ RoundsAreSpaced
=============================================================================
