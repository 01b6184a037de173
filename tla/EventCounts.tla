---------------------------- MODULE EventCounts ----------------------------
(***************************************************************************)
(* The counters over the event file of a run: score_events with its gini   *)
(* (tools/metrics/score_run.py), summarize_events                          *)
(* (tools/experiments/run_demo.py) and compute_all over the database that  *)
(* jsonl2sqlite makes of the file (tools/metrics/catalog.py).              *)
(*                                                                         *)
(* The engine is external: an accepted verb queues its own events and then *)
(* ActionAccepted, the bus is drained in order, and what an agent writes   *)
(* of its mind goes to the file at once.  A counter may read the file at   *)
(* any moment; a line that is written by half is skipped by each of them.  *)
(* Contracts are left to RunScore; texts, items and ticks are left out.    *)
(***************************************************************************)
EXTENDS Integers, Sequences, FiniteSets, Functions

CONSTANTS
  Actors,     \* the agents
  Endowment,  \* the gold each has at first
  Health,     \* the hit points each has at first
  MaxDeeds    \* bound on what is done

None == "none"  \* an empty field of an event
ASSUME CountsConstants ==
  /\ IsFiniteSet(Actors) /\ None \notin Actors
  /\ Endowment \in [Actors -> Nat] /\ Health \in Nat \ {0} /\ MaxDeeds \in Nat

VARIABLES
  bus,    \* events queued and not drained
  file,   \* the events of the file
  purse,  \* gold, per agent
  hp,     \* hit points, per agent; the dead have none and are gone
  did     \* history: how often each deed was done

countVars == <<bus, file, purse, hp, did>>

Deeds == {"speak", "shout", "whisper", "pay", "trade", "give", "attack", "murder", "starve",
          "hush", "note", "reason"}
Event(kind, who, whom, word, amount) ==
  [kind |-> kind, who |-> who, whom |-> whom, word |-> word, amount |-> amount]
Accepted(a, verb) == Event("ActionAccepted", a, None, verb, 0)
Done  == SumFunctionOnSet(did, Deeds)
Alive == {a \in Actors : hp[a] > 0}

CountsInit ==
  /\ bus = << >> /\ file = << >> /\ purse = Endowment
  /\ hp = [a \in Actors |-> Health] /\ did = [d \in Deeds |-> 0]

----------------------------------------------------------------------------
(* The engine.  A verb waits for the bus to be empty: the file is the same *)
(* if several are queued and then drained.                                 *)
Does(deeds, events) ==
  /\ bus = << >> /\ Done < MaxDeeds
  /\ did' = [d \in Deeds |-> IF d \in deeds THEN did[d] + 1 ELSE did[d]]
  /\ bus' = events /\ UNCHANGED file

(* Words; what is said may be nothing, and then only the verb is recorded. *)
Talks(a, b) ==
  /\ \/ \E mode \in {"speak", "shout"} :
          Does({mode}, <<Accepted(a, mode), Event("Speech", a, None, mode, 0)>>)
     \/ Does({"whisper"}, <<Accepted(a, "whisper"), Event("Whisper", a, b, None, 0)>>)
     \/ Does({"hush"}, <<Accepted(a, "speak")>>)
  /\ UNCHANGED <<purse, hp>>

Pays(a, b, verb, events) ==
  /\ purse[a] > 0
  /\ purse' = [purse EXCEPT ![a] = @ - 1, ![b] = @ + 1]
  /\ Does({verb}, <<Event("GoldTransferred", a, b, verb, 1)>> \o events)
  /\ UNCHANGED hp
Pay(a, b)    == Pays(a, b, "pay", <<Accepted(a, "pay")>>)
Trade(a, b)  == Pays(b, a, "trade", <<Event("ItemTransferred", a, b, None, 0), Accepted(a, "trade")>>)
GiveItem(a, b) ==
  /\ Does({"give"}, <<Event("ItemTransferred", a, b, None, 0), Accepted(a, "give")>>)
  /\ UNCHANGED <<purse, hp>>

(* DealDamage: the dead drop their gold and leave the world.               *)
Hurt(a, b, n, word) ==
  IF n < hp[b] THEN <<Event("DamageDealt", a, b, word, n)>>
  ELSE <<Event("DamageDealt", a, b, word, n), Event("EntityDied", a, b, word, 0)>>
Injured(b, n) ==
  /\ hp' = [hp EXCEPT ![b] = IF n < @ THEN @ - n ELSE 0]
  /\ purse' = IF n < hp[b] THEN purse ELSE [purse EXCEPT ![b] = 0]
AttackOn(a, b) ==
  \E n \in 1..Health :
    /\ Injured(b, n)
    /\ Does({"attack"} \cup IF n < hp[b] THEN {} ELSE {"murder"},
            Hurt(a, b, n, "attack") \o <<Accepted(a, "attack")>>)
Starve(b) == Injured(b, hp[b]) /\ Does({"starve"}, Hurt(None, b, hp[b], "starvation"))

(* Drained by the bus; an agent's thoughts do not take that way.           *)
Drain ==
  /\ bus # << >> /\ file' = Append(file, bus[1]) /\ bus' = Tail(bus)
  /\ UNCHANGED <<purse, hp, did>>
Thinks(a) ==
  \E d \in {"note", "reason"} :
    /\ Done < MaxDeeds /\ did' = [did EXCEPT ![d] = @ + 1]
    /\ file' = Append(file, Event(IF d = "note" THEN "MentalNote" ELSE "ReasoningTrace", a, None, None, 0))
    /\ UNCHANGED <<bus, purse, hp>>

CountsNext ==
  \/ Drain
  \/ \E a \in Alive : Thinks(a) \/ Starve(a)
  \/ \E a \in Alive : \E b \in Alive \ {a} :
       Talks(a, b) \/ Pay(a, b) \/ Trade(a, b) \/ GiveItem(a, b) \/ AttackOn(a, b)

----------------------------------------------------------------------------
(* compute_all.                                                            *)
Rows(evs, kind)    == {i \in DOMAIN evs : evs[i].kind = kind}
Scalar(rows)       == Cardinality(rows)
Amounts(evs, rows) == SumFunctionOnSet([i \in rows |-> evs[i].amount], rows)
Grouped(key)       == [k \in {key[i] : i \in DOMAIN key} |-> Scalar({i \in DOMAIN key : key[i] = k})]
Ask(counts, key) == IF key \in DOMAIN counts THEN counts[key] ELSE 0

Metrics ==
  [total_events : Nat, deaths : Nat, damage_dealt_count : Nat, damage_dealt_total : Nat,
   transactions : Nat, gold_transferred_total : Nat, speech_count : Nat, whisper_count : Nat,
   shout_count : Nat, reasoning_traces : Nat, unique_reasoning_agents : 0..Cardinality(Actors)]

(* Of the GROUP BYs of the catalog: events per kind, and transactions per  *)
(* cause.                                                                  *)
PerKind(evs)  == Grouped([i \in DOMAIN evs |-> evs[i].kind])
PerCause(evs) == Grouped([i \in Rows(evs, "GoldTransferred") |-> evs[i].word])

(* A slip, which the catalog once had: shouts are asked for by a kind that *)
(* the engine does not have, and speech takes them in.                     *)
ShoutsByKind(evs) == Rows(evs, "Shout")
ShoutsByMode(evs) == {i \in Rows(evs, "Speech") : evs[i].word = "shout"}

(* jsonl2sqlite makes a reasoning trace of every record of the category    *)
(* agent_reasoning, and a mental note is one.                              *)
Traces(evs) == Rows(evs, "ReasoningTrace") \cup Rows(evs, "MentalNote")

Catalog(evs) ==
  LET damage == Rows(evs, "DamageDealt")
      gold   == Rows(evs, "GoldTransferred")
  IN [total_events            |-> Len(evs),
      deaths                  |-> Scalar(Rows(evs, "EntityDied")),
      damage_dealt_count      |-> Scalar(damage),
      damage_dealt_total      |-> Amounts(evs, damage),
      transactions            |-> Scalar(gold),
      gold_transferred_total  |-> Amounts(evs, gold),
      speech_count            |-> Scalar(Rows(evs, "Speech") \ ShoutsByMode(evs)),
      shout_count             |-> Scalar(ShoutsByMode(evs)),
      whisper_count           |-> Scalar(Rows(evs, "Whisper")),
      reasoning_traces        |-> Scalar(Traces(evs)),
      unique_reasoning_agents |-> Cardinality({evs[i].who : i \in Traces(evs)})]

(* score_events: a death without a killer is no kill, and a damage without *)
(* one is no attack.                                                       *)
KillPairs(evs) == {i \in Rows(evs, "EntityDied") : evs[i].who # None}
AttackPairs(evs) == {<<evs[i].who, evs[i].whom>> : i \in {j \in Rows(evs, "DamageDealt") : evs[j].who # None}}
PayTransfers(evs) == {i \in Rows(evs, "ActionAccepted") : evs[i].word = "pay"}
RunScored(evs) ==
  [kills          |-> Scalar(KillPairs(evs)),
   damage_events  |-> Scalar(Rows(evs, "DamageDealt")),
   item_transfers |-> Scalar(Rows(evs, "ItemTransferred")),
   pay_transfers  |-> Scalar(PayTransfers(evs)),
   speech_count   |-> Scalar({i \in Rows(evs, "Speech") : evs[i].word \notin {"shout", "whisper"}}),
   shout_count    |-> Scalar({i \in Rows(evs, "Speech") : evs[i].word = "shout"}),
   whisper_count  |-> Scalar({i \in Rows(evs, "Speech") : evs[i].word = "whisper"} \cup Rows(evs, "Whisper")),
   mental_notes   |-> Scalar(Rows(evs, "MentalNote"))]

(* summarize_events.                                                       *)
Summary(evs) ==
  [counts         |-> PerKind(evs),
   kills          |-> Scalar(Rows(evs, "EntityDied")),
   item_transfers |-> Scalar(Rows(evs, "ItemTransferred")),
   mental_notes   |-> Scalar(Rows(evs, "MentalNote")),
   speakers       |-> Grouped([i \in Rows(evs, "Speech") |-> evs[i].who])]

(* gini: the values in ascending order, each weighted with its place.  The *)
(* result is a fraction <<numerator, denominator>>.                        *)
Gini(gold, whose) ==
  LET n     == Cardinality(whose)
      total == SumFunctionOnSet(gold, whose)
      Place(order, a) == CHOOSE i \in 1..n : order[i] = a
      order == CHOOSE s \in [1..n -> whose] :
                 \A i, j \in 1..n : i < j => s[i] # s[j] /\ gold[s[i]] <= gold[s[j]]
      cum   == SumFunctionOnSet([a \in whose |-> Place(order, a) * gold[a]], whose)
  IN IF total = 0 THEN <<0, 1>> ELSE <<2 * cum - (n + 1) * total, n * total>>

----------------------------------------------------------------------------
(* Properties *)

CountsTypeOK ==
  /\ purse \in [Actors -> Nat] /\ hp \in [Actors -> 0..Health] /\ did \in [Deeds -> 0..MaxDeeds]
  /\ \A i \in DOMAIN file : file[i].who \in Actors \cup {None}
  /\ Catalog(file) \in Metrics

(* Whenever they read, the three count the same under the same name; only  *)
(* a kill is not the same to the score, which wants a killer.              *)
CountersAgree ==
  LET s == RunScored(file)  c == Catalog(file)  d == Summary(file) IN
  /\ s.damage_events = c.damage_dealt_count
  /\ s.speech_count = c.speech_count /\ s.shout_count = c.shout_count
  /\ s.whisper_count = c.whisper_count
  /\ SumFunction(d.speakers) = s.speech_count + s.shout_count
  /\ s.item_transfers = d.item_transfers /\ s.mental_notes = d.mental_notes
  /\ d.kills = c.deaths /\ s.kills <= d.kills

(* When the bus is drained, what is counted is what was done.  Deaths are  *)
(* murders and starvations, and traces are thoughts of both kinds.         *)
CountsAreComplete ==
  LET s == RunScored(file)  c == Catalog(file) IN
  bus = << >> =>
    /\ s.kills = did["murder"] /\ c.deaths = did["murder"] + did["starve"]
    /\ s.damage_events = did["attack"] + did["starve"]
    /\ s.pay_transfers = did["pay"] /\ s.item_transfers = did["give"] + did["trade"]
    /\ c.transactions = did["pay"] + did["trade"] /\ Ask(PerCause(file), "pay") = did["pay"]
    /\ s.speech_count = did["speak"] /\ s.shout_count = did["shout"]
    /\ s.whisper_count = did["whisper"] /\ s.mental_notes = did["note"]
    /\ c.reasoning_traces = did["note"] + did["reason"]

(* A file cut off between the events of one verb never shows a kill        *)
(* without its attack, and the proxy for payments (accepted pay verbs) is  *)
(* at most one behind the payments.                                        *)
NoHalfVerb ==
  /\ \A i \in KillPairs(file) : <<file[i].who, file[i].whom>> \in AttackPairs(file)
  /\ Ask(PerCause(file), "pay") - RunScored(file).pay_transfers \in {0, 1}

(* The sum over ranks is the mean difference of all pairs, which is what a *)
(* Gini coefficient is, and lies in [0, 1 - 1/n].                          *)
GiniIsMeanDifference ==
  LET n == Cardinality(Alive)
      g == Gini(purse, Alive)
      apart == [p \in Alive \X Alive |->
                  IF purse[p[1]] < purse[p[2]] THEN purse[p[2]] - purse[p[1]] ELSE purse[p[1]] - purse[p[2]]]
  IN SumFunctionOnSet(purse, Alive) > 0 =>
       /\ g[1] * 2 = SumFunction(apart)
       /\ 0 <= g[1] /\ g[1] * n <= (n - 1) * g[2]

(* What is counted of a run is what its events say, and they say what was  *)
(* done.                                                                   *)
CountsAreTrue == CountsTypeOK /\ CountersAgree /\ CountsAreComplete /\ NoHalfVerb /\ GiniIsMeanDifference
=============================================================================
