# Formal model of agent_sim

agent_sim is a tick-driven world server (Go, `src/engine`) that autonomous
agents drive over WebSockets.  Around it stands a body of Python: the SDK, the
rule-based and language-model agents, the narrator, and the tools that launch,
score and record experiments.  This directory holds TLA+ modules of both, the
TLC configurations that check them on small instances, and TLAPS proofs about
them.  `PROJECT.json` lists every component, run, mutant, mapped definition,
finding, hazard and theorem; this file explains them.

## 1. The system

The engine:

| Component | State it keeps | Operations | What makes it correct |
|---|---|---|---|
| world (`world/world.go`, `action.go`, `queue.go`) | entities, `occupants`, tick | `Tick`, dispatch of the native verbs, spawn, removal | a body owns its tile; none overlap, jump or outpace the busy floor |
| multi-map hub (`multimap.go`, `interiors.go`) | loaded maps, pending warps of each | `Add`, `Unload`, `Warp`, `ProcessWarps`, `TickAll`, `WorldOf` | a body is on one map, never on an unloaded one; moves are carried out |
| action queue (`queue.go`) | bounded channel of actions with reply channels | `QueueAction`, drain | an action is answered exactly once |
| agent hub (`wire/agent.go`) | registry, live connections, control of bodies | register, connect, replace, tear down, reap, push observations | the connection in place keeps its secret, body and control; nothing is left behind |
| combat, vitals, respawn | hp, hunger, defending, kills | attack, heal, defend, starve, die and drop | a body is in the world as long as it has hp; deaths lose nothing |
| money, trade, inventory, resources | gold, inventory, equipment, ground items | pay, work, buy, trade, give, pick up, drop, equip, eat, chop, mine, forage | gold and things are conserved; inventories stay within their slots |
| verbalquests, persist | a ledger of contracts in each party's extras, id counter, snapshot files | propose, accept, reject, complete, prune; write, restore | the two copies agree; open contracts stay |

The Python side:

| Component | State it keeps | Operations | What makes it correct |
|---|---|---|---|
| SDK client (`sdk/python`) | socket, reader task, bounded inbox, futures of acks | connect, act, act_batch, observations, close | the brain gets the newest observation and the end of the stream; no call hangs or leaks a future |
| rule-based bots (`agents/baselines`, `examples/heuristic_bot.py`) | a state machine, counters, targets, a standing goal | `decide`, motor step | they leave every waiting state; they strike only whom their rules name |
| path search and motor (`agents/common`) | heap, paths, goal | A*, goto, pursue, flee | a path is a way, and a shortest one; a search within its bound fails only where there is none; a goto arrives |
| focal agents (`agents/llm`) | one call in flight, tick of the last one, what was seen | reflex, start and collect calls, act | calls keep their spacing; an event wakes the model once; decisions are taken |
| four-layer agents (`examples/claude_agent`, `qwen_agent`) | register of agents, theories, goals, action buffer | tactical, theory, strategic and reflective layers | the plan is sent whole or cut where it says; reflections keep their period |
| narrator (`tools/narrator`) | file offset, buckets, rounds, budgets | tail, ingest, three tiers, stop | every event is told once or fell out of a full bucket |
| launchers (`tools/experiments`, `tools/demo`) | cast, supervisors, narrator process | probe, register, supervise, poll, stop, write | a run ends and leaves no bot connected, and no body but those the engine will remove or cannot find; outputs come last |
| scorer, catalog (`tools/metrics`) | counters | fold over events | they agree with each other and with what was done |
| research loop (`tools/loop`, `exp`, `journal`, `engine/cmd/jsonl2sqlite`) | run directories, shared pages | make, run, finalize, list | a run is built by one process and listed once, with its files |
| brain study (`run_brain_study.py`) | engine process, rows | boot, run, stop, archive | a row is about its own engine and events |
| spend log (`tools/budget_log.py`) | file of spending | record, reset | each tripwire is told when it is crossed |

How they interact.  One goroutine of the main program ticks every map through
the hub.  A tick holds its map's write lock: it drains the action queue, runs
the systems' callbacks and the event bus, visits every entity, and publishes a
snapshot.  After the ticks the hub carries out the warps they asked for.  Each
connected agent has a reader goroutine that looks for the map of its body,
queues an action there and blocks for the reply; the observer goroutine pushes
observations and closes the sockets of agents whose body is gone; HTTP handlers
register agents; a reaper removes registrations nobody came for.  They share the
maps (one lock each), the hub's map table (another) and the agent hub's tables
(another).

An agent is a Python process: the client's reader task puts observations into
the inbox, the brain takes the newest and sends actions, whose acks come back
over the same socket.  A focal agent keeps one model call in a thread beside
this loop.  A launcher registers a cast over HTTP and runs its bots as tasks of
one event loop; the narrator and the scorers read the event file that the
historian of the engine writes, while it is being written.  The research loop
and the study start launchers, and share directories and pages with whoever
works in them.

What is hard.  In the engine: a tick visits entities in the arbitrary order of
a Go map, so walks, swaps and doors interleave within it; the hub moves a body
in two steps with other goroutines between them; a reader acts on a map it
looked up earlier; teardowns of replaced connections run after their
replacement is in place; a registration scans under one lock and inserts under
another; rooms are unloaded while something may still be queued on them; ledgers
outlive the process and counters do not.  In the Python side: acks that come
before the send returns, time out or never come; an inbox that overflows; a
model that fails, answers oddly or not at all; a file that is read while it is
written; bots that die and are replaced while a deadline passes or the user
interrupts; pages that are rewritten with no lock, by processes that may be
killed.  `PROJECT.json` lists each of these under `hazards` at its line.

## 2. Modules

| Module | Models | State | Actions and the code they stand for |
|---|---|---|---|
| `TileOccupancy` | one map's movement | `live`, `pos` (LogicalTile), `from` (WalkFromTile), `occ` (occupants), `body`, `pending` (bodies the running tick has to visit) | `StepClaim`, `StepSwap` = the two successful outcomes of `stepOneTile`; `Wait`, `InteractEnter`, `InteractExit` = `Dispatch`; `SpawnAgentEntity`, `RemoveEntity`, `SetPlayerControlled`; `TickBegin` and, per body, `Visit` = the entity loop of `Tick` |
| `PortalOccupancy` | doors as portals, over `TileOccupancy` | `asked`, `away`, `ret`, `warping` | `AskToEnter`, `WarpAway`, `WarpBack` = `tryEnterDecorationBuilding` and the tile side of `Warp` |
| `MapHub` | hub, queues, readers and observer | `loaded`, `gen`, `ents`, `warps`, `queue`, the loop's `phase`, readers, observer | `Tick`, `Answer`, `Enter`, `Exit`, `FinishTick`, `Collect`, `WarpOut`, `WarpIn`, `AfterWarp`; `Submit`, `Search`, `QueueAction`; `Teardown`; `Look`, `Confirm` |
| `BodyPlace` | what the hub promises | `place` | in, out and gone; implemented by `MapHub` (`BodiesMoveThroughDoors`) |
| `AgentSession` | registration and connections | registry, live table, records, connections, the holder of `h.mu` | `Scan`, `Consider`, `SpawnAgentEntity`, `Verify`, `Insert` = `HandleRegister`; `Dial`, `Connect`, `Stomp`, `CloseDone`, `Mark` = `HandleWS`; `Leave`, `Signal`, `Drop`, `Unmark`, `Remove` = the teardown of `readPump`; `Sweep`, `Reap` |
| `Economy` | gold, things, lives | `gold`, `hp`, `inv`, `eq`, `ground`, `piles` | one action per verb and per effect of the tick; `DealDamage` and `Die` |
| `ContractLedger` | contracts and restarts | `led`, `idCounter`, `saved` | `Propose`, `Accept`, `Reject`, `Complete`, `Save`, `Restart` |
| `RunScore` | what scorers make of contracts, over `ContractLedger` | `open`, `score` | each verb with the counters its event moves; `StartWindow` |
| `EventCounts` | the counters of all other events | `bus`, `file`, `purse`, `hp` | an accepted verb queues its events, `Drain` writes them; `RunScored`, `Summary`, `Catalog` are the three readers, `Gini` their formula |
| `SdkClient` | one client, its brain loop and a second caller | `link`, `wire`, `reader`, `inbox`, `call`, `pending` | what the code does between two awaits is one action: `ReadFrame`, `ReaderEnds`, `Observations`, `SendNext`, `GatherDone`, `Timeout`, close |
| `ArchetypeBots` | five archetypes and the heuristic bot | `kind`, `state`, `memo`, `goal`, `sent` | one `DoTick` per observation: `decide` of the archetype, else the motor's step |
| `NavWalk` | A* and the walk it drives | `walls`, `heap`, `path`, `expand`, `bound` (`max_expand`), `here` | one action per expansion of the search, and per step; `NoRoute` = an empty heap or the bound reached |
| `FocalLoop` | the loop of a focal agent | `task`, `since`, `prevVis`, `seen`, `goal`, `cycles` | `Observe` = one turn of `run` (collect, start, direct verbs, reflex); `ModelAnswers`, `BatchDone`, `stop` |
| `FourLayerHarness` | both four-layer programs | `at`, `register`, `theory`, `goals`, `plan`, `batch`, timers | the layers of a cycle in order, start-up, timers, exit |
| `Narrator` | the narrator and the file it reads | `log`, `half`, `at`, `torn`, `bucket`, `global`, `next`, `out` | read a line or half of one, ingest, each tier's summary, final summary, signal |
| `Experiment` | the three launchers, and what the engine does with the bodies of their cast | `phase`, `place`, `body`, `narr`, `written`; `alive`, `indoors`, `link` | probe, register, each step of a supervisor, poll, stop, cancel, wait for the narrator, each output; `Connects`, `HangUp` = the ends of a connection; `Warps`, `Dies`, `TearsDown` (`readPump`), `Reaps` (`reapStaleRegistrations`) |
| `ResearchLoop` | batches and users on shared directories | `made`, `files`, `owner` (of the database), `page`, `text`, `doing` | every file operation of `run_batch`, `new`, `finalize`, `jsonl2sqlite`, `update` and the journals is a step, a rewrite two of them (`open` empties, `write` starts at the first byte); a process may be killed at each |
| `BrainStudy` | a study and its engines | `studyAt`, `up`, `serving`, `rows` | start, probe, run, time out, stop, archive, row; engines take the port or end by themselves |
| `SpendLog` | spending threads on one file | `total`, `lock`, what each thread has read, `announced` | lock, read, append, tell, fail, reset |

`MC*` modules give TLC its instances; `*_proofs` modules hold theorems.  Four MC
modules (`MCConnection`, `MCBots`, `MCMinds`, `MCRunScore`, and `MCExperiment`
for five processes) are sums: a run picks one of several independent components
at the start and leaves the others in a fixed state, so that one run asks one
kind of question of related parts.  Each handler that runs under one lock, or
between two awaits, is one action; where code gives a lock back and takes it
again, the action ends.  History variables record what properties need and no
guard reads.

## 3. Abstractions

* Tiles are pairs; only terrain, doors and occupancy matter.  `WalkProgress` is
  a count of ticks: the sum of 24 doubles 1/24 is below 1, so a walk takes 25
  ticks and is half way at the 12th; `HalfWalk` and `FullWalk` stand for them.
* `MapHub` keeps of an entity only the map it is on, `PortalOccupancy` of the
  rooms only who is in one.  Deaths in `MapHub` are any set of bodies of the
  overworld at the end of its tick.
* `Economy` leaves out where bodies stand and how long trees, hunger and
  cooldowns take: a verb out of range does nothing, and a verb in range may be
  refused by them.  `Damages` covers weapons and guards.  A thing keeps one
  name, while the code gives it a new id at a pickup, drop or death; gems and
  coins are piles with a value.
* `ContractLedger` keeps parties, ids and status of a contract.
* Memory of the Go side is sequentially consistent: where the code reads without
  a lock (`closedAt`, `done`) the fields are atomics and channels.
* The bots' distances are near, far and away, their observations any of the
  sets in `MCBots`, which vary what an archetype reads.  The rendering of
  observations, prompts, notes and speech is text and left out.
* A model's reply is a decision (does it move the goal, how many verbs), a
  failure, or JSON of the wrong shape; models and their threads are external.
* In `NavWalk` others stand still, and `max_expand` is a constant to vary.
  `Narrator` keeps of an event its tick, the agent it is about, the pair it ties
  and whether it is ingested.
* `Experiment` takes the narrator as a process that ends some time after it is
  asked; `Narrator` shows what it does until then.  Of what `run_p7_real` polls
  it keeps whether anything has happened yet, which is all the stall check asks;
  the gold of each agent and how it is merged into the summary are left out.
  Every body is one that the launcher had made: bodies of the map file that a
  registration may be given are left out, and so is what befalls a body after its
  bot has hung up, but for the teardown.
* `ResearchLoop` and `BrainStudy` take a launcher as a step that returns or
  raises.  In `ResearchLoop` the lines of a page have one width, so a text that
  is written over another covers whole lines and leaves the rest; a line torn in
  the middle, and what is inside the files of a run, are left out.  A run number
  stands for an id of one world, day and slug.

## 4. Runs

| Run | Instance | Shows |
|---|---|---|
| `occupancy_safety` | corridor of 5, two agents, a tree, walk of 3 ticks, every verb but wait | a body keeps its tile, no overlap, no jump, pace |
| `portal_safety` | corridor of 3 with a door, two bodies | ticks take no tile from a body, swaps carry none away, even after portals left stale entries or bodies overlap |
| `hub_safety` | two agents, two rooms, two World objects per room, two actions each, queue of one | one map per body, none stranded, one request, refinement of `BodyPlace` |
| `engine_live` | two tiles, one a door, and two bodies; or one agent, one room, three actions | a busy walk ends, warps settle, actions are answered unless their room is unloaded, the gone are cut |
| `economy_safety` | three bodies, three things, two slots, coins of 2 and 1, wealth up to 6 | conservation, cap, deaths |
| `contract_safety` | three spawned agents, ledgers of two, three proposals, restarts; or three actors, three deeds | copies agree, status advances, scores and counters say what happened |
| `connection` | two agents, two connections, one loaded body, two fresh; or a client with inbox of two, two callers, two actions, three observations | sessions keep secret, body and control; the client's stream and calls |
| `bots` | six bots; or a walker in every 3 by 3 room of at most two walls, with a bound of 3 or of 36 expansions | bots keep their rules and go on; paths are right, and goto arrives if the bound is ample |
| `minds` | focal loop with 4 ticks of cadence, 3 of gap, ring of 2; or both harnesses, three others, register of two | spacing, alarms, plans, reflections; decisions are taken and programs end |
| `experiment` | two slots and three bodies; three lines, three agents; a batch with two runs and a user with one command; a study of three; two threads | launchers, narrator, research loop, study, spend log |
| `session_double_close` (violation) | one agent, two connections | `done` closed twice |
| `verb_dropped` (violation) | as `minds` | a verb that grammar and prompt offer is dropped |

Properties are named in the cfg files as conjunctions, so that each run checks
a few: `HubSafe` is the types, `OneMap` and `NeverStranded`; `SessionSafe` is
`LiveIsRegistered`, `RegisteredKeepsBody`, `ConnectedControlsBody` and
`NoBodyLeftBehind`; `MoneyAddsUp` is `GoldConserved` and `BooksBalance`;
`LedgerSafe` is `LedgersAgree` and `IdsAreUnique`; `ScoreIsTrue` is
`ScoreAgreesWithLedgers`, `ScorersAgree` and `NoBetrayalMissed`, and for the
counters `CountersAgree`, `CountsAreComplete`, `NoHalfVerb` and
`GiniIsMeanDifference`; `ClientSafe` is `EndIsKept`, `FatalSurfaces`, `NoLeak`
and `NoAckLost`; and so on, each with its parts commented where they are
defined.

Two instances leave out the actions their constants disable: `CorridorSpec`
(`occupancy_safety`: no waiting, no doors) and `UnwatchedSpec` (`hub_safety`: no
observer).  `engine_live` runs the whole of `Next` and `HubNext`.

Bounds and why they are enough.  Two moving bodies and one that does not move
give every kind of meeting on a corridor (claim, swap, refusal, stale entry),
and five tiles let a body be two tiles away from an entry it left.  Two rooms
and two World objects per room are what an unload followed by a reload needs;
two agents and a queue of one make both the full queue and the simultaneous
door moves happen.  Two connections let one replace the other while it is torn
down.  Three bodies let a thing be bought, taken back by a death and picked up
by a third; two slots and an inventory of two make both limits bite.  Ledgers of
two with three proposals prune.  An inbox of two with three observations
overflows; two actions make a batch that fails or times out half way.  A
3 by 3 room with two walls has every shape that a step can meet: dead ends,
corners, detours around a bystander, no route; a bound of 3 ends a search before
it has looked everywhere, one of 36 never.  A register of two overflows on
three others.  Caps of one event per agent and two in all overflow on three
lines.  Two run numbers, two turns of a batch and one of a user let both pick the
same number, finalize the same run at once or again, and list a run by hand
while it is being built.  `MaxGen`, `Actions`, `MaxWealth`,
`MaxDeals`, `MaxTimer`, `MaxObs`, `MaxActions`, `MaxDeeds`, `MaxViolent`,
`MaxCycles`, `MaxGoals`, `MaxGold`, `MaxLines`, `MaxTick`, `MaxTurns`,
`MaxTotal` and `MaxResets` bound what is unbounded in the code, or larger.
Symmetry is used in safety runs only.

Deadlock.  It is checked where something can always happen (`portal_safety`,
`hub_safety`).  In the others bodies may all be gone with their names used up,
connections, deals, lines and deeds are finitely many, programs exit, and the
model stops there.

Fairness.  In `engine_live`, ticks begin and visit every body (the ticker and
Go's mutex, which does not starve a waiter); the hub's loop is weakly fair, as
it never blocks; searches and the observer are strongly fair, as the locks they
wait for are given back again and again; no verb and no arrival of an agent is
assumed.  In `connection`, tasks of the event loop that can go on do, a send on
a closed socket fails, and `wait_for` gives up; nothing is assumed of the
engine.  In `bots`, observations go on and a search runs to its end.  In
`minds`, observations, the timers and the HTTP client's timeout go on; a local
model need not answer, and then the runtime's end is what ends the program.  In
`experiment`, the launcher's main task and its deadline, a batch whose runner
and tools return or raise, and the driver of a study go on; users, bots,
engines and the narrator owe nothing.

Mutants.  Every property of a passing run has a mutant, a copy of one
definition with a plausible slip (a dropped guard, an off-by-one, a missing
reset), under which its run fails.

## 5. Proofs

`TileOccupancy_proofs`, for any map, bodies and walk length.

* `TypeCorrect`: `TypeOK` is inductive by itself.
* `BodiesOwnTheirTiles`: with no doors, `OwnTile` is inductive relative to
  `TypeOK`.  Every write to `occ` is at a tile that is free, the body's own, or
  held by a body that has left it, so the entry of another body's tile is never
  overwritten.  Doors are excluded because a body that goes inside releases its
  tile, which `OwnTile` then does not describe.
* `BodiesNeverOverlap` follows: two bodies on a tile would both own it.
* `BodiesNeverTeleport`: a swap takes the other body's tile from `occ`; by
  `OwnTile` and the test that the occupant stands there, it is adjacent.
* `BodiesArePaced` needs `PaceInv`, which ties the age of a move to the progress
  of the walk; it is assumed that no bot submits `wait` (see section 6).

For maps with doors and rooms behind them (`PortalSpec`):

* `PortalTypeCorrect`: `PortalTypeOK` together with "the warps run between two
  tick loops" is `PortalInv`, which is inductive.
* `LoopTakesNoTile`: of `OwnTile`, which doors break, this is what is left: a
  loop never takes the entry of its tile from a body.
* `NoTeleportThroughDoors`: the test that the occupant stands on the tile it
  holds is enough for swaps, also when entries are left behind.

`MapHub_proofs`, for any agents, rooms, queue length and number of actions.

* The invariant `HInv` adds to `OneMap` and `NeverStranded` what they rest on.
  `RoomsAreMade`: a loaded room has an object.  `MovesAreThroughDoors`: every
  request on the overworld is for a room, by a body that has a way back, and
  every request in a room is for the overworld, wherever it waits.  `MoveInHand`:
  while a body is between maps its target stays loaded.  The second is why a room
  that is unloaded after a move was not the target of it, and why the body that
  arrives in a room can leave it; readers and the observer change none of it
  (`AskingTouchesNothing`).
* `BodiesAreOnOneLivingMap`: `HubSafe` always holds.
* `HubMovesBodiesThroughDoors`: the hub implements `BodyPlace`.  `PlaceIsSo`
  computes where the abstract hub has a body from what `OneMap` says of its maps;
  every step then moves one body through a door (`OutKeeps`, `InKeeps`), takes
  some off the overworld (`BodiesVanish`), or stutters.

* `EachAgentIsOwedOneReply`: `OneRequestInFlight` follows from
  `QueuedOnceAndWaiting`, which says the same place by place: who stands in a
  queue waits for that world, stands there once, and who waits stands somewhere.
  It needs `HInv` where a room with a waiting action would be unloaded.

`Connection_proofs`, the two ends of a connection: for any agents, bodies and
connections, and for any calls, size of the inbox and length of the wire.

* `AgentsKeepTheirBodies`: `SessionSafe` always holds, through registrations,
  replacements, teardowns, the reaper and deaths in any order.
* `ClientIsSafe` and `BrainSeesTheNewest`.  `CInv` is the types and four parts:
  `Ids` (each id has been given out once, and is of one call), `Futures` (pending
  until its ack is read), `Stream` (the mark of the end comes from a reader that
  is over), `Newest` (observations on the wire are in order, the last one in the
  inbox is the newest).  They are about `ClientSpec`, the client with any server.
* `ConnectionsAreSafe`: all of it for `ConnectionSpec`, the two ends as the run
  `connection` has them (`EndsStep`: a step of one leaves the other alone).

`Economy_proofs`, for any bodies, things, slots, prices and weapons.

* The invariant `IInv` is `Shape` (the types of five variables), and the two
  properties, which need each other: a body that is not in the world has nothing
  (`ThingsInOnePlace`), so a spawn brings nothing; damage is dealt only to bodies
  with hp (`NoWalkingDead`).  Steps are grouped by what they move: nothing,
  inventories and ground, a whole body, a slot; each group has a lemma.
* `ThingsHaveOnePlace` and `BodiesAreAlive` follow.
* `NoThingIsLost`: only a meal and a departure take a thing out of the world.
* `GoldIsConserved`: `MoneyInv` adds to `BooksBalance` the types of purses and
  piles; all gold, owned or lying, is what has come in.  A sum over bodies is a
  fold, so `TotalChange` (a function changed at one place) is proved first, and
  `DropsAll`: the piles of a death are worth the purse.  That rests on the
  assumption that the coin values end with one, as `goldDropDenoms` does.
* `InventoriesAreCapped`: `WithinBounds`; at each place where a thing is gained
  there is room, or another is given up (`OneMore`, `OneForOne`).

`Score_proofs`, for any parties, bounds, deals, purses and numbers of deeds.

* `BothSidesSeeTheSame` and `ContractsOnlyAdvance`.  `LInv` adds to
  `LedgersAgree` that a ledger has a contract once, that every copy was proposed
  by bodies that were there (`Dealt`), that numbers name contracts (`Identified`),
  and that who is not there has no ledger, so a new body starts with none.
  Pruning is counted with `Rank`: the contracts that stay are numbered in order.
* The condition `Loaded = {}` (no body in the map file) is the code's, not the
  prover's: section 6 tells how a restart makes two copies differ.
  `LedgersOfOneEngine` has any bodies in the map file, and no restart.
* `ScoresOfTheWindow` and `ScoresOfOneEngine`: `ContractsScored` under the same
  two conditions, of which one is needed here too, as ids start again with the
  engine.  `SInv` adds to `LInv` that the ids of the score were given out
  (`ScoredIds`), and that the score agrees with every copy, also of who has left
  (`ScoreOfCopies`).  An acceptance is counted once because a flip changes a
  proposed contract, and a proposed one is not among the accepted.
* `EveryCountIsTrue`: `CountsAreTrue` always holds.  `CInv` is the types and
  `Tallied` (of each kind of event, those in the file and those still in the bus
  are as many as the deeds that cause it), `BusInOrder` (a payment stands right
  before its verb, a kill right after its damage) and `KillsHurt`.  From these
  the three readers agree, whatever they read.
* `gini`: `OrderExists` gives an ascending order, `PlacesWeigh` shows by
  induction over its places that the sum weighted with ranks is the mean
  difference of all pairs, and at most n times the total.
* `ScoresAreTrue`: `ScoreIsTrue` of the run that is checked, from both.

`Bots_proofs`, for any other bodies, deadlines and observations, and any room.

* `BotsKeepToTheirRules`: `BotsSafe` always holds.  `BInv` ties what a bot
  remembers to the history: `Wariness` (a survivor's streak is the number of calm
  observations, and it flees until that is enough), `Guilt` (what is left of a
  grudge is at most what is left of its time since the target was named) and
  `Offer` (a manipulator's offer was to its mark, and it turns on the mark after
  the wait).  Archetypes that no rule names keep the types.
* `SearchIsRight`: `WalkSafe` always holds.  `WInv` is that ways are simple
  (`Simple`), that an entry of the heap is a way once known, maybe stale
  (`Entries`), and `Frontier`: each tile with a way is in the heap with it, or has
  handed it on.  The estimate never goes down along a way by more than a step
  (`Manhattan`), so what is found first is as short as any (`WaysAreShort`); if
  the heap is empty, all in reach is known (`BallIsWithinReach`).  It holds for
  any `max_expand`, and says nothing of a search that ends because it has
  expanded so many: that one may have missed a way.
* `BotsAreSafe`: both for `BotsSpec`.  While a bot runs the walker stands in an
  empty room from (0, 0) to (2, 2); the theorem asks for such a room, no more.

`Experiment_proofs`, for any cast, processes, runs, turns, threads and prices.

* `LauncherCleansUp`: `LauncherSafe` always holds.  After the clean-up no bot is
  connected; a body that is still on the engine waits for its teardown
  (`closed`) or for the reaper (`fresh`), or stays (`left`), since the teardown
  looks on the overworld only.  `EInv` adds that a body that a bot has had is an
  old one (so a replacement is nobody else's), `Linked` (an open connection is
  that of a bot that runs, and who is gone is gone), and by phase which tasks
  there are, what the narrator does and what is written.
* `RunsAreBuiltAloneAndListedOnce`: `ResearchSafe` always holds, though no lock
  protects pages or directories.  What makes it so is `mkdir`, which raises for
  the second, and the order of finalize.  A page has two rows of a run only
  after two processes had it open for writing at once (`overlaid`): until then a
  page that is being written is empty (`WrittenByOne`), so what is written is
  what was read and one row more, if there was none.  A run that has a row has
  its files, or a process is making them anew, unless one stopped in that or the
  run was listed as it was (`spoilt`): `FilesInPlace` says of each file that once
  a finalize is past it, it is there or in the hands of one that can still make
  it (`Remakes`).
* `EachRunHasItsRow`: `StudySafe` always holds.  `StudyInv` adds to it
  `EngineOfTheRun`: the event file and the run have to do with the engine of the
  run in hand, or with one that was there before the study.
* `RowsAreNeverLost`: `RecordsAreTrue`.  `AloneAtPages` says that a process that
  is alone at the pages finds them as it has read them, and has listed its run on
  those before; the history `clashed` is true from the first time that two were
  there, or one was killed in a rewrite.
* `TripwiresAreToldOnce`: `SpendSafe` always holds; the lock is held from the
  reading of the total to the line that is appended.
* `EventsAreToldOnce`: `NarratorSafe` always holds, for a file that grows by
  lines and halves of any events and signals at any time (`NarratorNext` adds
  both to `NarratorStep`).  `NInv` is the types, `Windows` (what is kept or told
  was read), `TierRuns` and `Rounds` (a tier has told nothing younger than a
  cadence before its next round, but in the round at hand).  The clusters: path
  halving climbs (`HalveClimbs`), so `Find` is at the root in time
  (`FindsRoot`), `Unite` merges two trees (`UniteMerges`), and the trees of
  `Forest` are the least groups that no deal leaves (`ForestGroups`), which
  chains of ties reach (`ChainsEnd`).
* `ProcessesAreSafe`: all of these for `Spec` of the run `experiment`.
  `WritersAreOutside` shows that `EngineWrites` and `Signal` are what the narrator
  is open to, if agents 1 to 3, of which the engine writes there, are agents;
  `OneProcessAtATime` that a step of a process leaves the others alone.

`Minds_proofs`, for any clocks, views, plans and answers of a model.

* `ModelIsCalledWithRestraint`: `FocalSafe` always holds.  `FInv` adds that the
  clock of the scheduler is not ahead of the last call (so the distance of two
  calls is at least what the scheduler has looked at), that what is heard has
  happened, and that an event that has raised an alarm is remembered once the
  decision is taken, or has left the ring, where nothing comes back from.
* `LayersKeepWhatTheyAreGiven`: `HarnessSafe` always holds.  `HInv` adds that the
  count to the next reflection is the number of cycles waited, and that the batch
  of the local model is its nudged plan in every state that ships it.  A stack
  of goals is assumed to have room for the two that the stub starts with.
* `NewcomersAreRemembered`: the register after an observation is a fold of
  `RememberOther` over the view.  `Kept` says of the register after each place of
  the view that its last are newcomers and no newcomer is missing; `OneByOne`
  that the fold goes place by place.
* `MindsAreSafe`: all of these for `MindsSpec`, where one mind runs and the other
  is over.

Assumptions.  Constants satisfy the `ASSUME`s of their modules, which TLC
evaluates in the runs, and theorems have no other premise than those named
above: `Doors = {}` for `OwnTile` and what follows from it, no `wait` for the pace
of walks, `Loaded = {}` for ledgers and scores across a restart, and, for the
specifications of two runs, the agents and the room that these name.

Induction.  The library's induction theorems take an operator, which these
provers cannot instantiate.  Where data are of any size (sums over bodies, coins
of a death, ids of calls, a view of people, chains of deals) the proofs take the
least number, or a smallest set, at which a statement would be wrong
(`LeastNumber`, `LeastOf`, `LeastId`, `SmallestSet`, from `WFMin` and the
well-founded orders of the library) and show that it holds there, or say that a
set of those that have the property contains all (`NatInduct`, `SetInduct`).  A
function that is chosen, as a fold or a recursive function is, is shown to exist
and to be unique the same way (`SumsExist`, `IteratesExist`, `BallExists`).

Only model-checked: liveness, since fairness and `ENABLED` are out of the
prover's reach (`MovesEnd`, `AnsweredUnlessUnloaded`, `TheGoneAreCut`,
`NobodyHangs`, `BotsGoOn`, `MindsGoOn`, `EndsForGood`).  Every invariant and
every action property of a passing run is a theorem.

## 6. Disagreements between code and documentation

Two runs show one each (`findings` in `PROJECT.json`).

1. `session_double_close`: a teardown and a reconnect may both close `done`,
   against the comment on the field; the second close panics with `h.mu` held.
2. `verb_dropped`: the grammar and the prompt of the local model offer `move`,
   the table of the harness lacks it, and the body is told to wait.

The others were met while modelling and are stated here, not checked.

Engine:

* An agent that submits an action while its exit from a room is pending may
  queue it on a room that is unloaded before it ticks again; the reader waits
  for ever, against `queue.go:26`.  `AnsweredUnlessUnloaded` excepts it.
* Two registrations may get the same body, against `agent.go:330`: the check and
  the claim are under two locks.
* Contract ids repeat after a restart, since the counter does not outlive it.
* `wait` in mid walk changes `CurrentAction`, which freezes the walk and bypasses
  the busy floor; `PacedWalk` is therefore checked without it.
* `Warp` puts a body on its return tile without looking at who is there, so two
  bodies can overlap.  `NoOverlap` is stated of a map without portals.
* A step in the second half of a walk leaves the older from-tile claimed.
* The teardown removes a body from the overworld only: one that is in a room
  outlives its agent, and its room stays loaded.
* A tick that walks a body into a building fires no enter event and its timed
  exit fires an exit event, so the two are not paired.
* After a restart the two copies of a contract may disagree, when one party is a
  body of the map file and the other is not.  `LedgersAgree` is checked for
  agents that are gone after a restart.
* The package comment of `verbalquests` lets the proposer cancel; `reject` is for
  the target only.  The verb `loot` asks for a target without hp; `NoWalkingDead`
  shows there is none.

Counters:

* `jsonl2sqlite` and the catalog count mental notes among `reasoning_traces`.
* The catalog's `unique_entities_in_events` counts an empty killer as an entity
  and leaves out `Speaker` and `EntityID`, against "ALL entity_ids".
* `score_run` counts acceptances of contracts older than the window, and attacks
  that came before their contract (`score_run.py:20`, `:188`); its kills want a
  killer, while the summary and the catalog count every death.
* The narrator's buckets read `VictimID` and `KillerID` (`buckets.py:34`, `:189`);
  the engine writes `EntityID` and `Killer`, so deaths reach no agent's bucket.
* `source.py:52` says a partial write is read again; its two halves are dropped.
  The narrator's docstring speaks of the whole buffer where it sends excerpts.

Bots and motor:

* `docs/ARCHETYPE_FSMS.md:53` and `:60` let a desperate survivor ignore threats;
  `survivor.py:69` looks for them first and flees in every state.
* killer: `_pick_target`, `_find_target` and `_pick_loot_target` are never
  called; the hysteresis below 18 hp is forgotten on the way through PROWL; hp 0
  reads as 100 (`hp or 100`).
* avenger: the grudge ticks down while the killer is in view, and RETREATING
  forgets it.  manipulator: `_betrayal_spoken` is never reset, so the second mark
  is attacked without a word.  scavenger: its guard against threats does not hold
  in `forage_or_roam`.
* `_flee_step` in a dead end steps towards the threat.  A pursuit may enter an
  occupied tile next to its quarry, and a bystander there stops it for ever,
  against `nav.py:44`.  A search gives up after `max_expand` tiles, 40000 of the
  1000 by 1000 of the soak map, and returns the same None as where there is no
  way (`nav.py:43`, `:64`); the walker stands still then.
  `FailsOnlyWithoutRoute` is stated of a heap that ran empty, `GotoArrives` of a
  bound that lets every tile be expanded once per neighbour.  With a range of
  vision of one a detour does not arrive: who steps out of view is no obstacle
  any more.

Client:

* `client.py:297-299` says that whatever ends the reader, a cancellation included,
  signals the end of the stream, so that `observations()` returns instead of
  hanging.  A task that is cancelled before it has first run never enters the
  `try`: `register_and_connect(brain=...)` and `close()` before the reader's turn
  leave no mark, and the brain loop waits for ever.  `StreamEnds` excepts that
  state (`reader = "cancelled"`), and nothing else.

Agents with models:

* A reply of the wrong shape ends `run`, against `actions.py:13`.  `max_cycles`
  leaves before the last decision is taken.  A failed batch is followed by the
  reflex of the same observation; `_last_results` is then stale.
* The harness: the grammar allows more than three actions, of which three are
  sent; its goal stack is never pruned; the reflective prompt quotes 12 of 20
  notes; evictions are first in, first out, against `state.py:61`, and who is
  dropped and met again in one view comes back without a theory; the count
  restarts before the reflection is tried; `build_llm` with `enable_claude`
  always raises; the EXIT rule of the local model's nudge never fires.

Launchers and tools:

* The launchers cancel their bots, and the engine removes the bodies later: on
  the overworld when it tears the connection down; one that is indoors or
  between two maps stays, with nobody to remove it (`agent.go:624`), against
  `agent.go:616`.  A bot that cannot connect, a replacement that is registered
  at the deadline and never run, and a registration that is cancelled leave a
  body to the reaper, a minute later (`agent.go:201`), which leaves those it was
  given from the map file.  `NoBodyLeftBehind` names all of these.  `run_demo`
  starts the narrator before it registers, outside its `try`.  The narrator's
  stdout is a pipe nobody reads.  While idle it notices a signal only with
  `--idle-exit`.
* The stall check of `run_p7_real` ignores speech, which its comment lists; "LLM
  agents have produced zero accepted actions" counts the current bots only; a
  gold of zero overwrites the last reading, against "last NON-ZERO"; unknown
  archetypes are dropped, end the launcher, or raise, in the three launchers.
* The study counts whoever answers on its port as its engine; an old score in a
  reused directory counts as the run's.
* The research loop appends tunings to the world's bundle and not to the
  parent's; a runner that leaves no log counts as succeeded; a second finalize
  leaves the old row.  `write_text` empties a page and writes from its first
  byte (`update.py:83`, `:109`): two finalizers at once lose rows or list a run
  twice, and a kill in a rewrite loses rows.  `NothingUnlisted` is stated of the
  times when no two are at the pages and none is killed in a rewrite,
  `NoRowTwice` of pages that no two had open for writing.
* A second finalize removes `derived.sqlite` and empties the texts of a run that
  is listed (`jsonl2sqlite/main.go:87`, `cli.py:140`); if it is killed or raises
  there, the row points to files that are not there.  The command
  `journal.update` lists any directory with metadata, finalized or not.
  `RowsAreReported` excepts both (`spoilt`).
* `INDEX.md` is shared by the worlds and run ids are numbered per world, so of
  two worlds' runs with one id the second gets no row (`update.py:50`, `:81`).
  The journal looks for a run by a prefix (`update.py:107`): a run whose id
  begins another's is not entered after it.  `ResearchLoop` has one world.
* The spend log is safe among threads and not among processes; a reset during a
  record tells a tripwire twice; the cap is only printed.

## 7. Not modelled

Perception and observations (a function of the snapshot), loading, bundles,
rulebook and manifest (parsing at boot), security (counters of one client),
metrics, rasterizer, viewer (readers), commands, frontend, the TypeScript SDK,
worlds and documents (clients and data).  Construction, property, quests,
reputation, event bus and historian, the editor, the supervisor and the rest of
persistence hold state of their own that changes under the world's lock; they
are the part of the engine that a further step would take up first.

Of the Python side: the SDK's data models and renderings and every prompt (pure
conversions to text), the judge (one call of a model), and the audits, dev
scripts and map tools, which drive a live engine by hand in straight lines or
generate files, and keep nothing.

## 8. How the project is ordered

`TileOccupancy` came first, as every other component moves bodies through it,
then `MapHub` with `BodyPlace`, `AgentSession`, `PortalOccupancy` (the
composition of the first two at the doors), `Economy`, and `ContractLedger` with
the scores over it; then the other end of the connection (`SdkClient`), the
minds behind it (bots, walker, focal loop, harness), and the processes that run
and record them.

What a next step would add, in order: construction, property and quest rewards
in `Economy`; a `Restart` of the whole world over it; the snapshot against
pushed observations; the event bus and the historian's ring, which `EventCounts`
takes as a queue; the NPC supervisor, with `TheGoneAreCut` as its assumption.
Theorems left are those that want fairness.
