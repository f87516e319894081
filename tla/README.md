# Formal verification of the society simulation prototype

TLA+ specifications of `stage0_sim`, model-checked with TLC, with theorems
whose proofs are checked by TLAPS. Paths below are relative to
`src/src/stage0_sim/` unless they start with `docs/` or `tests/`.

## 1. The system

The program simulates a small society tick by tick. A *run* is a registry of
entities with components, a list of *systems* executed in a fixed order on
every tick, and two *work coordinators* that ask language models for decisions
and for compiled engagements on worker threads, while the simulated clock is
frozen (the *cognition barrier*). A manager starts, pauses, steps, stops,
saves and restores runs for an HTTP API; everything a run does is recorded in
a SQLite dataset.

### Concurrency

Everything but the model calls runs on one asyncio event loop. The code between
two `await`s is atomic; the only `await`s inside a tick are the sleeps of the
two drains. So the interleavings that matter are: worker threads finishing in
any order, the wall clock passing a request deadline, and other coroutines (the
operator's pause, resume, step, stop, checkpoint) running while a tick sleeps
in a drain.

### Inventory

| Component | State | Operations | Hard behaviour | Correct when |
|---|---|---|---|---|
| Cognition scheduler (`application/agents/scheduler.py`) | controller of each agent | evaluate the gates, number and submit a request, switch off an agent without budget | stale gates, budget at its limit | an agent waits only for a decision somebody works on |
| Agent work coordinator (`application/agents/coordinator.py`) | queue, pending futures, counters | submit, drain, collect, apply, commit, reject, cancel_all | late answers, deadlines, worker errors, a stop during the drain, two drains at once | every decision has one fate; nothing commits before the batch settled; stale results never commit |
| Engagement work coordinator (`application/engagements/coordinator.py`) | queue, futures, engagement components of the agents | submit, drain, install, fail, cancel_all | result for a plan that is gone | components agree with plans; one outcome per compilation |
| Runner (`application/runner.py`) | status, phase, `_advancing`, `_stop_requested` | advance_one_tick, pause, resume, stop, checkpoint boundary | overlapping ticks, stop at any point | flags describe the ticks; a stop is final and leaves nothing behind |
| Memory work queue (`application/memory_recording.py`) | queued memories | enqueue, drain, drain_all | work held back by System 1 across ticks | nothing queued is lost at a checkpoint or a stop |
| Plan execution (`domain/systems/plans.py`) | plan of each agent, waiting flags | start, advance, complete, fail, interrupt | waits for another system's component that may vanish | exactly one terminal event per action |
| System 1 (`domain/systems/system1.py`, `homeostasis.py`) | drive of each agent | detect, preempt, correct, resolve | preemption of every other system's work | nothing of the preempted work survives |
| Affordances (`domain/systems/affordances.py`) | executions, stations | start, advance, complete, cancel | contention for a station | a station is never overbooked nor leaked |
| Transactions (`domain/systems/transactions.py`, `domain/economy.py`) | requests, executions, holdings | request, authorise, start, complete, time out | operator and customer interrupted at any step | resources are conserved, points never leak |
| Interactions (`domain/systems/interactions.py`, `domain/world/physical.py`) | relations, poses, spatial index, hands, custody, posture, slots | pick up, put down, place, wear, open, sit, lie, use, consume | a target changed between start and commit; five accounts written one after the other | an object is in one place and every account says so |
| Engagement execution (`domain/systems/engagements.py`) | program, group index, timer | validate, start, commit, fail group, cancel | partial groups, preemption | required groups are atomic |
| Text content (`domain/content`, `domain/systems/text_actions.py`) | artifacts with their revisions, collections, mailboxes, receipts | create, append, revise, erase, read, send | concurrent writers, interrupted writes, rights that changed | a write is based on the revisions that were read; a message is in two mailboxes |
| Navigation and travel (`domain/systems/travel.py`, `navigation.py`, `application/navigation`) | legs, transitions, travel | plan, move, cross, travel, arrive, interrupt | an interruption on the way | an agent is in one place |
| Dataset store and checkpoints (`adapters/persistence`, `application/checkpoints.py`, `application/manager.py`) | runs, leases, checkpoints | flush, save, suspend, reclaim, branch | crash between two writes | a run is owned by one process and resumes from its head |
| Data management (`application/data_management.py`) | inspection tokens | inspect, plan, delete | the data changed after the inspection | nothing is deleted that was not shown |
| Research recorder and collectors (`application/data_capture`, `application/collection.py`) | open episodes, keys, samples, the traces of threads | collect an event, drain the traces, sample the state, finalise, rebuild | traces after the fact, reused keys, the end of a run, a branch | rows, records and run tell the same; nothing refused, nothing open at the end |
| Telemetry (`application/telemetry.py`) | history of messages, last snapshot | publish, snapshot of engagements, rooms, characters | two views of one state, what may be shown to whom | operator and public are shown what is so, the public nothing that is concealed |
| Perception (`application/perception`, `domain/perception`) | inboxes, what was last seen of whom and what | sweep, deliver, expire, drop | full inboxes, stale sights | what a character knows is what it could perceive |
| Goals (`application/goals.py`) | status, counts, evidence of each goal | activate, evaluate, close | verdicts in one tick, a reader that starts anew in a branch or a continued run | a goal counts what took place and closes once |
| Content libraries and migrations (`adapters/*/filesystem.py`, `application/migrations`) | files, revisions, journal | save, delete, migrate, recover | concurrent editors, crash during a migration | no lost update, all or nothing |
| Scenario schema (`application/scenario.py`) | none of its own | validate, materialise | the order in which things are put into the room | a scenario that is accepted gives a consistent room |
| Documents, environment, NPC staffing | documents, weather, clerks | retrieval and updates | mostly data | see "Not modelled" |
| Geometry, model adapters, API and pages | none of their own | | pure functions, rendering, I/O | see "Not modelled" |

### Within a tick

The systems of a tick run in a fixed order and call no one back, but they
write the components of each other: a plan waits for a component that another
system settles, System 1 removes the work of every other system, four systems
save and restore the activity of a character. Here the interleaving is that of
the loops over the characters, and what can go wrong is that two of these
components no longer describe the same action.

## 2. The modules

| Module | What it models |
|---|---|
| `FuturePool` | The bounded thread pool both coordinators are built on, as a value with one operator per operation: queue, futures, running threads, answers, deadlines. |
| `DecisionProtocol` | Abstract: what the barrier promises, without threads, ticks or agents. |
| `AgentWork` | Scheduler, controllers and agent coordinator, driven by the ticks of one run. |
| `EngagementWork` | `EXTENDS AgentWork`: the compile half of the barrier, plans and engagement components. |
| `SimulationRun` | `EXTENDS EngagementWork`: the runner's flags, the memory queue, the realtime loop and the operator. |
| `ActionLifecycle` | A plan and the events of its actions, as values: the helpers of `lineage.py` and the end of an action in `plans.py`. |
| `CharacterTick` | Navigation, plan execution, movement, physiology, System 1, affordances and the recorder of learnt routes, loop iteration by loop iteration. |
| `ExchangeLedger` | Abstract: goods change hands only as a whole offer both sides can pay. |
| `Transactions` | Transactions, the staffing of transaction points and their preemption; implements `ExchangeLedger`. |
| `Belongings` | Abstract: a thing is in one place and changes it only through hands, within room, never through what is shut. |
| `PhysicalWorld` | Things and bodies as a value, and what one physical interaction does to it. |
| `TextContent` | Artifacts, collections, mailboxes as a value, and what one text operation does to it. |
| `Observation` | `EXTENDS PhysicalWorld`: what a character perceives of a room, is told before it decides, and which interactions it is offered. |
| `Household` | The systems of a tick that serve interactions and text actions, with System 1 and walking; implements `Belongings`. |
| `HouseholdScenario` | How a scenario's things, relations, texts and people are checked and become the room a run starts in. |
| `HouseholdTelemetry` | The pages of the room and of its characters, for the operator and for the public. |
| `StateCapture` | Samples, deltas, transitions and rows that the collector writes of the household at the phases of a tick. |
| `RunHistory` | Abstract: the history of every run in a shared dataset. |
| `RunArchive` | Processes sharing one database: ownership, leases, transactions, suspension, reclaim, branches, checkpoints, deletion; implements `RunHistory`. |
| `DatasetRecords` | What the collectors share: the record log, tables as functions. |
| `InteractionCapture`, `EngagementCapture`, `DecisionCapture` | From event or trace to record to row, one module per kind of episode, with the rebuild of its rows. |
| `EngagementTelemetry` | The operator's view of engagements, folded from the events. |
| `Recording`, `InteractionScenes`, `EngagementScenes`, `DecisionScenes`, `RunRecording` | A run that emits and its collector; the orders in which speech, trade, handling, engagements and decisions are told; the whole, with its branches and its properties. |
| `Goals` | A goal and its evaluation, as values. |
| `EventReaders` | Perception, goals and memories reading the bus with cursors of their own, the memory queue, checkpoints, branches and continued runs. |
| `ReaderCapture` | What the collector and the dataset make of inboxes, goals, memories, retrievals and activities, beside `EventReaders`. |
| `MC*` | Small instances for TLC. |
| `*Proofs` | Theorems and proofs about `AgentWork` (with `FuturePool`), `SimulationRun` (with `EngagementWork`), `CharacterTick`, `Transactions`, `Household` (with `PhysicalWorld` and `TextContent`), `RunArchive`, `EventReaders` and `RunRecording` (with its capture modules and scenes). |
| `FoldFacts` | Lemmas only: induction over a fold, what every step keeps, the fold keeps. |

### The barrier (`AgentWork`, `EngagementWork`, `SimulationRun`)

`loop` is the task that holds the event
loop (or `Free`), `stage[t]` says where the coroutine `t` is inside
`advance_one_tick`; `controller[a]` is `ControllerComponent`; `pool` is
`_queued`, `_pending` and the executor; `collected[t]` is the *local* list
`completed` of the drain task `t` runs, which is what two overlapping drains
do not share; `occupied[a]` is what the commit looks at (a plan, a pending
speech). `settled`, `abandoned`, `outcomes`, `mislaid` are history variables:
terminal events, and works dropped when a drain raised. `abandoned` and
`mislaid` appear in the properties because a drain that raises does lose what
it had collected, and its agents go on waiting; the task of the realtime loop
ends with the error, and the operator's resume starts another. `overlapped`
is one too: a tick has begun while another had not ended, which `manager.step`
lets happen whenever the run is not RUNNING. Ticks may overlap in every run.
An action is a piece of code between two awaits, or one iteration of a loop
that no await interrupts.

### The characters (`CharacterTick`)

`character[a]` holds the components of one character: `plan`, `nav`, `goal`
and `walking` (`MovementComponent`), `activity`, `drive`, `request` and
`execution` of an affordance. `story` is the sequence of `action.*` events of
each action and `raised` says that a system would have raised. `turn` is the
iteration that is due next; iterations that pass over a character without a
change are skipped. The systems of order 85 to 165 touch one character at a
time, and so do 200 and 310; they are one step each (`Live`, `Settle`).
Arbitration and the three loops of the affordance system look at all
characters, and each of their iterations is a step.

Abstractions. A position is a *place*, a path exists or not, a movement step
ends anywhere in the room, at the goal, or is blocked; a door is open or not
at each attempt; a meter is below, between or above its two thresholds
(integration crosses one in a tick, which the rates in `physiology.py` and a
tick of a minute respect; affordances may cross both); a drive is selected
among the critical ones without its severity; decisions arrive only where
`AgentWork` lets them commit.

Exemptions in its properties. `ActivityHasCause` allows `WALKING`, which an
affordance started while a character still walks saves and restores.
`NoActionVanishes` allows for the NAVIGATE of System 1 that a later one
replaces, which gets no terminal event (`system1.py:740`).

### The economy (`ExchangeLedger`, `Transactions`)

`purse` and `shelf` are the holdings of characters and points, `person[a]` the
plan, place, request and execution of a customer or a clerk, `present` the
clerks spawned so far, `paid` the actions whose goods were exchanged. A step
is an iteration of a loop again. Times are counted in ticks; a request carries
the ticks left until `timeout_at`. System 1 is reduced to what it does to a
transaction; what it does otherwise is in `CharacterTick`. Customers are
brought to a point by a navigation, here a free move between actions.

### The household (`PhysicalWorld`, `TextContent`, `Observation`, `Household`)

`world` is a record with the components of the things and bodies of one room:
relation, anchor, spatial index, what is open, hands, custody, posture, what is
left of a consumable, the anchors of an interaction target. Its field `lent` is a
history: the custody of what a scenario puts in other hands than those that hold it. `texts` is the
registry of artifacts and collections. `person[p]` holds the plan, the
requests and executions, the drive, the gear (what is worn, load, senses), what
is in sight and what the inbox makes of it. `system` is the system that runs
and `queue` the characters it has still to visit, so that a step is one
iteration of one system. A decision is taken between two ticks, on what the
character observes, among the actions of its `menu`; what is not offered is
refused as `tools.py` refuses it.

`Abstract` in `Household` maps this state to `Belongings`: the place of an
entity is the floor, a pair of hands, a slot or a body, computed from its relation.

Abstractions. The room is a line of ten cells and a body covers two of them,
whatever its posture (in the code a pose has a footprint on a grid). An
interaction lasts two ticks. A character walks to any free approach of its
target in one step. Policies list the people who hold a right, groups and
addresses resolved. A decision is made when the character has nothing to do,
without latency: what a late decision may do is the subject of `AgentWork`.
Of the inbox, what it makes of sights and scents is kept; hearing is in
`EventReaders`. Doors, stations and transaction points are no targets here.

`HouseholdScenario` gives the first state: every run of the household starts
from a scenario that the schema accepts (`Accepted`), put into the room thing
by thing (`Materialized`). `HouseholdTelemetry` adds no state.
`StateCapture` adds one variable, `recorded`: the last sample of each subject,
what first sample and deltas make, and the outcomes that are told or pending.
One level of components is compared; the coverage manifest, resource samples
and the context of an action are left out; TICK_POST_COGNITION and the next
TICK_PRE_SYSTEMS, between which nothing happens, are one step.

### Runs and processes (`RunHistory`, `RunArchive`)

`db` is the committed database, `draft` the database inside the open
transaction of `writer`: all runs of a process share a connection, and so a
commit of one run commits what another has written so far. `loaded[p][r]` is
the managed run of a process, `doing[p]` the rest of a handler that has
committed, `preview[p]` the last deletion token. A step is what one process
does between two awaits or up to a commit. A process is one instance of the
dataset store; a restart is another instance.

Abstractions. The handful of records that an operation appends is one; the last
sequence number of a bounded run is kept for its end; a lease that runs out
while its owner lives is `Stalls`, which the run leaves out because the code
then lets another process close the run under its owner, and says so.
`RunArchive`'s contents of a checkpoint are the head it was taken at.

### What is written down (`DatasetRecords` and what extends it)

`c` is the collector of a run: `c.number`, `c.log`, `c.db` and the
dictionaries of open episodes and keys. Systems emit events, the collector takes each
within the emission; threads leave traces in a queue that it drains later, in
the order `recorder.py` sorts them. Why a system emits is modelled elsewhere;
the scenes let it emit whatever its handlers can emit next. `ended` is the
finalised run. `Branch` is what a branch makes of a settled checkpoint: an empty
dataset, and the open episodes, keys, engagements, decisions and actions of its
parent. `inherited` is a history variable: the interactions that were open when
the run branched, whose start records the new dataset does not have.

Abstractions. Payloads and times are left out, identifiers are tuples. There
is one round per decision; read tools and plan rows are left out; a program of
an engagement has up to two groups. The operator's view is without lineage,
references, participants, ticks, the order of groups and the limit of five on
what is past.

### The readers of the bus (`Goals`, `EventReaders`, `ReaderCapture`)

`bus` is the event list of this run, `cursor` where each reader is, `minds` the
inboxes and what is visible, `goals` the goals, `work` the memory queue,
`memories` the store, `saved` the last checkpoint. `history` is a history
variable: the interactions that took place and when, beyond a branch. One thing
happens per tick. Two characters see and hear each other when they are in the
same place. Comparisons of state are represented by two of their kinds, place
and time. All requests of one drain are answered or none; evidence is without
identifiers. `Branch` restores a checkpoint with an empty bus, `Continue` one at
the head of a suspended run with its events; in both the cursors start at 0.
`continued` is a history variable that `Continue` sets.

## 3. The runs

| Run | Question |
|---|---|
| `run_barrier` | Two agents that ask for engagements, the realtime loop and a step whose ticks overlap, workers that raise, a stop in either drain: is every decision settled once, behind the barrier, never stale? Does the coordinator implement `DecisionProtocol`? Do engagements, plans and compilations agree, does a stop install nothing and leave nothing? |
| `run_stop` | One agent, three ticks that may overlap, every operator call at every suspension point, workers and compilers that raise or hang: whom does a checkpoint save waiting? Under fairness: is a stop finalised? |
| `characters_room` | Two characters and two stations for one: do plans, requests, executions, activities and reservations agree, whoever comes first and whatever System 1 preempts? |
| `characters_house` | Two rooms and two drives: does every action end once and leave with an event? |
| `shop` | Two customers, a machine, a counter with a clerk: is every exchange whole, authorized and told to the plan, and does every request end? |
| `archive` | Two processes, a run and a shorter one or its branch, crashes, refused locks and systems that raise: does a run have one writer, can a suspended run be continued, who may fall behind its numbers, is what is committed a history? |
| `capture` | Characters alone and in pairs that speak, trade, handle, engage and decide, threads that are late, the end of the run at any point, branches: is nothing refused but over what was open when the run branched, do rows and records agree, does what has ended stay? |
| `readers` | Two characters speak, walk, work and are alarmed for three ticks, with one branch or one continuation: is each event remembered once and counted once unless the run was continued with its events, are verdicts real, do sightings alternate, do the rows tell the same? |
| `objects` | Two characters before the same cup, box, bench, spectacles, tray, page, diary or mailbox: do bodies and texts stay consistent, do requests serve their plans, is what is recorded, seen, offered and shown what is so? |
| `run_checkpoint` | Counterexample: a checkpoint taken when the first of two overlapping ticks ends saves an agent that waits for an answer the other tick holds. |
| `characters_arrival` | Counterexample: an arrival and a correction in one tick make the recorder of routes raise. |
| `text_preempted` | Counterexample: a text action that System 1 interrupts leaves a request behind, and every later one fails. |

Bounds of the barrier runs. Two agents are enough for the order of a batch,
for one agent's answer to race another's and for the budget to run out for one
of them. Two tasks are the realtime loop and one `/step` request; a third adds
no new kind of interference. Two or three ticks cover a decision asked for in
one tick that is answered, preempted or cancelled in a later one, and a plan
that ends before the agent is asked again. `Calls` names the calls of an operator
that a run explores besides step and stop, `Remembering` whose memories are
queued; what `run_barrier` leaves out of both `run_stop` explores, with one agent.

Bounds of the character runs. Two characters are enough to contend for a
station of capacity one and for one to reserve what the other wants; a third
would only wait behind them. Five and six ticks suffice for a plan to start,
its request to be served for the two ticks an affordance lasts, and a
preemption, an outage or the choice of another station to come at each of these
points. `MaxDrifts` and `MaxOutages` bound how often the environment interferes,
`MaxActions` the length of the stories. Two rooms and one door make a route of
three primitives, the shortest that a preemption can cut at each kind.

Bounds of `shop`. Only the number of actions is bounded, not the ticks, so
that liveness means something. Prices, purses and shelves are chosen so that
both customers can pay and there is one item at each point; the counter takes
longer than a clerk needs to authorize the next request, so that a second
customer finds it busy.

Bounds of `archive`. Two processes are the writer of a run and whoever
reconciles, restores or deletes it; with one checkpoint and four records a run can be
begun, ticked, saved, suspended, reclaimed and continued, and its branch begun.

Bounds of `capture`. The casts give each kind of episode two turns alone, so
that keys are used twice, and pairs of kinds that share a table one turn each.

Bounds of `readers`. Three ticks let a fact be delivered, expire and be dropped
from an inbox of two, a goal become active after events it must not count, and a branch or a continuation fall between
any two of the readers' effects. `SavedLately`: a checkpoint is used before the next
tick or not at all, since what comes of it does not depend on when it is used. Only a character whose inbox holds something is asked.

Bounds of `objects`. Each cast is a room with the things of one conflict; a
character decides three times, which is the shortest story in which it takes,
uses and gives back while the other does something in each tick between. `moved` starts from
the scenarios, out of thirty, that are accepted with things held, worn, stacked
and contained. In `Calm` casts no need becomes critical; in the others one may,
once, at any tick.

Fairness. The event loop serves ready coroutines first in, first out, so a
tick step that keeps being possible is taken; because a second drain may hold
the loop in between, it is strong fairness per task. The wall clock advances,
so deadlines pass (weak fairness). Nothing is assumed of providers, workers
and operators. In `Transactions` the run keeps ticking (weak fairness of
`Next`); nothing is assumed of clerks, customers and the environment. The
other specifications are safety only: their processes, threads and characters
owe no progress.

Deadlock is not checked: every model stops when its bounds are reached.

Type invariants: those of `AgentWork`, `RunArchive`, `CharacterTick` and
`Transactions` are theorems; those of `EngagementWork` and `SimulationRun` are
parts of the invariant `RunIsSound` proves.

## 4. Proofs

Everything below is proved for any value of the constants that satisfies the
assumptions the modules state about them: any number of agents, coroutines,
workers, characters, stations, customers, processes, runs, ticks. TLC checks
the same invariants, the strengthenings included, on the instances above.

**Barrier.** The first half of `SimulationRunProofs` proves that `SafetySpec` keeps `TypeOK`,
`BarrierComplete`, `NothingLostOrDuplicated` and `NoOrphanedRequest`. The
barrier is not inductive alone: that no request is queued while another drain
applies needs to know that only the holder of the event loop can be between two
awaits (`LoopDiscipline`); that a new id is new needs `NumberedByAgent`; that a
collection takes each work once needs the pool to be `Consistent`. Their
conjunction `InductiveInvariant` is preserved by every action, one lemma per
action; the module opens with the facts about the pool these lemmas cite.
`PreemptionWins` needs `RevisionsPast` (no decision was asked at a revision its
controller has not reached) and `AskedOncePerTick`: a stale decision stays
stale because revisions only grow, and it is settled by the drain that finds it
so. `ImplementsProtocol` maps each action to a step of the abstract barrier.

**The whole run.** The second half adds engagements, compilations, the
memory queue, the stop and the second sleep. `RunInvariant` holds with
overlapping ticks: `PlansAreOwn` (a plan of an engagement is that of its
component), `CompileStage` and `CompilerAnswers` (a compilation that is queued,
running or answered belongs to a drain that waits for it), `StoppedForGood` (no
step of a tick follows the stop). From it follow `EngagementFollowsAction` and
`NoInstallAfterStop`, and the invariants of the barrier again, since every step
of the run is one of `AgentWork` or leaves its variables alone. `StopInvariant`
adds what a stop has emptied (`StoppedIsEmpty`), and, for the runs in which no
tick has overlapped another so far, `OneTickAtATime` and `CompilationsAgree`.
`FinalIsClean` follows for every run; only its clause about plans needs that no
tick overlapped and no compile drain raised (§5). A checkpoint is settled where no tick
overlapped (`CheckpointsAreSettled`); where ticks did, `OnlyOverlaps` says for whom it
is not: an agent whose answer a sleeping tick holds. `run_checkpoint` shows that one.

**Characters.** `CharacterTickProofs`. `BodiesInvariant` says that each
character is `Sound` and that no station is overbooked. `Sound` relates what
different systems write: `LifeSound` (live actions are distinct, in the story,
and unended), `PlanSound`, `RequestSound`, `DriveSound`, `MoveSound` (in the
normal state, where a body walks to is what its route says) and
`ActivitySound` (what is shown and what is to be restored has a cause). Each
helper of the four systems is shown to turn a sound character into a sound one;
an iteration is the composition of such lemmas. `Lives` is the second half of
each: a live action stays alive, or ends, or is the NAVIGATE of System 1, which
makes `NoActionVanishes` an action property of the same proof. The stations are
the shared state. An iteration books or aims at one only after it has counted
the others (`Taken`, `Room`), and every other iteration keeps or gives up what
its character has; the cardinalities do the rest. `TicksNeverRaise` is not
proved because it is false (`characters_arrival`); it holds in
`characters_room` only because there is no portal.

**Economy.** `TransactionsProofs`. The invariant has four parts: `People` (the
plan, request and execution of a character are those of one action, and every
action is paid at most once), `Ledger`, `StaffedIsAuthorized` and `Scheduled`.
The last is the least obvious: a completed request waits for the plan, which
is the first system of the next tick, and nobody may see the request before;
so the schedule, which iteration is due and which are behind, is part of the
invariant. From it follow that nothing raises, that every exchange was due, and
that each step implements `ExchangeLedger`.

**Runs and processes.** `RunArchiveProofs` proves `TypeOK`, `OneWriter` and
`SuspendedResumes` from `Inv`. `DataInv`: the draft equals the database when
nobody writes, the two never differ in the status of a run (a status is written
and committed in one step), and both satisfy `Resumes`, since a draft may be
committed by anyone who holds it. `ProcessInv`: a handler that waits for its
second half still holds its run, and so does a tick under way. `WriterInv`: who
holds a run holds one that is neither unborn nor suspended. From the last, a
reclaim, which needs the run suspended, finds no holder, and `OneWriter`
follows. The second half adds `Growth`: the draft only adds to the database,
to runs of its writer; a run that goes on is owned by the process that holds
it; a run being reclaimed still has its checkpoint. With it every commit is a
step of `RunHistory`, and a process that may write a run knows its last number
unless it reclaimed it late (§5).

**Household.** `HouseholdProofs`. A room is `Sound` when its components have
their types and the five accounts of `BodiesAgree` hold: hands and relations,
custody, spatial index, postures, slots. They are not independent (who lets go of
a thing must find it in a hand, and what is taken leaves a slot), so each
interaction has one lemma that keeps all five. A person is
`Serving` when its requests and executions are those its plan waits for, with
their status; one lemma per helper of the plan, interaction, text and System 1
systems. `Offering` (menus ask for what a tool can ask for) types what a request
names. Their conjunction `HouseholdInvariant` gives `BodiesAgree` and
`RequestsServePlans`. For `TextIsWhole`, `RegistrySound` adds the types of a
registry and what a count of an address is worth when the mailbox is its own, and
`IdsSpent` that an id names the decision it comes from: what a
decision may still write is not there yet, because each decision writes at most
once, also when its action is preempted and its request stays behind. That a
select of a slot returns a free one needs that a nonempty set of numbers has a
least one (`MinIsOne`, by well-foundedness).

These theorems are about every household that starts from a `Scenario`: things,
people and texts that have the form of a scenario file (`Described`,
`TextsDescribed`), that `build_registry` accepts (`Accepted`: the checks the code
makes of them, and no other) and the room it makes of them (`Materialized`). That such a room
is `Sound` is a lemma (`RoomIsSound`). It is so although a scenario may put a thing in
the custody of who does not have it, hold what is not portable, or hold a two-handed
thing in one hand: the accounts are stated so that they say of these what the code keeps
(`KeepersAgree` lets custody stay where the scenario put it until somebody takes
the thing). Likewise two addresses may share a mailbox, and
anybody may be allowed to create in it; `MailAgrees` then speaks of the messages
a run sends, and counts only for addresses with a mailbox of their own. What is assumed
beyond that: an id of a scenario's text is not one a run makes (`TextsDescribed`;
the code refuses a colliding id, `content/__init__.py:1240`), a menu asks for verbs that
some tool has (`ToolCall`), and `None` is not a record (`NoneIsNoRecord`).

**Readers of the bus.** `EventReadersProofs`. What a reader does in a tick is a
fold over the events it has not read, of folds over the characters, of folds
over an inbox, so each step needs an induction. `FoldFacts` does it once: it is
parameterised by the step and the invariant of a fold, shows that the function
behind `FoldLeft` exists and that what each step keeps the fold keeps, and is
instantiated for each of the eighteen kinds of fold; that every set of numbers has a
least one is a premise of it, proved where it is instantiated. `ReadersInvariant` has
two halves, `MemoryInvariant`, which holds until a run is continued with its events,
and `BusInvariant`, which holds always: a continued run reads its past again, and what
it read is then requested, remembered and counted again (§5). So
`RememberedOnce` and `GoalsCountReal` are about runs with any number of branches that
were not continued, `SightingsTakeTurns` about all.
`MemoryInvariant` says, in `Requested`, that of the pairs of an event read and a
character it concerns each is queued once, remembered or given up, and that
none is both queued and remembered. That a new request is not for what is
already remembered is the delicate part, since after a branch the events are
numbered from 1 again: `MemoriesPlaced` tells memories of this bus (`Current`)
from older ones (`Old`), whose ticks lie before every event; an old memory of
the present tick is possible only between two ticks, when nothing is read.
`SightInvariant` says that the last sighting of each pair on the bus agrees with
what the mind has in sight (`Agrees`); as each sighting changes that, they
alternate. It holds whatever the inbox drops: that what is dropped exists needs
that a faintest fact does (`FaintestIsOne`).

`GoalInvariant` is the invariant of the goals. It has two cases, since the
speech of a tick is told before the goals of this tick read it. Between two evaluations
everything is read, and every goal is `GoalSound` for all that was spoken: its
parts and counts are those of its criteria (`Measures`), its count of a
criterion that is not yet met is the number of interactions of its owner since it
began (`Counts`), and its status is what its criteria, its policy and its
deadline give. In a tick whose goals are still to be evaluated, it is so for
what was spoken before this tick (`history \ Fresh`), and what the reader has not
read is exactly the speech of this tick, if there is one (`ToBeRead`). A
checkpoint is taken between two ticks, so its goals are sound for the history it
holds; this is why nothing is counted twice in a branch although the events
are numbered from 1 again. That a count is right up to its minimum needs that the
minimum divides the scale (`ScaleAssumption`, `PlansAssumption`; the code compares
fractions), and that a criterion counts interactions only
(`_INTERACTION_EVENTS`). `NoneAssumption` says that `None` is not an event.

**Recording.** `RunRecordingProofs`, on the same `FoldFacts`: the collector folds
over events and traces, each of these over interactions, groups or options, and a
rebuild folds over the records. `Kept` is what every one of these steps keeps of a
collector. `Shape` gives it its tables and says that nothing has been refused;
`OpenSound` says that an open interaction has its row and that whom and what it
has gathered is in the tables, from which every insert finds what its foreign key
names. `Rebuildable` is `RebuildAgrees` made inductive: for *any* contents of the
tables a rebuild deletes, what it makes of the log `Matches` the tables, but for
the row of an interaction that is still open and for whom has joined it since it
began, both of which only its closing record tells; and it leaves the other
tables alone. So one lemma suffices for a write and its record (`Logged`: one more
record does to the rebuilt tables what the collector did to its own) and one for a
write without a record (`Aside`, `Unlogged`). The delicate step is the close of an
interaction (`RebuiltEnding`), where the record of the episode must bring back
everything that was gathered without a record of its own. That a finalised run is
rebuilt whole then needs that nothing is open in it. `TracesSound` types what
threads have left to be drained. The proof knows of the scenes only that each
emits events and leaves traces of these types, so it does not depend on their
order. `RecordingInvariant` is this for as long as `inherited` is empty: a run that
begins afresh, or branches any number of times with no interaction open (`BranchKeeps`:
what is left of the collector then has no open episode, and its engagements,
decisions and actions need no row of the parent). Once an interaction was open at a
branch nothing is claimed, since the code then does write what the tables refuse (§5). `RecordingAssumption` says that casts are made of characters, that the
bounds are numbers and that finitely many pairs may meet.

Some invariants were first stated in a form that is not inductive and turned
out to be false of larger instances: that the next number of a run is always
free, that the final run has no engagement plan when ticks overlap, and, in
`Transactions`, that a clerk who is not present has no turn. The first two are
described in §5; the third was an error of the model. The proofs about the
household found two more: `TextContent` let a write name a collection that does
not exist, which the code refuses with `NOT_FOUND`, and `Household` had guards
in its loops that were left to the reader.

Only model-checked: liveness (`StopFinalises`, `RequestsEnd`: out of the
prover's reach), `ImplementsBelongings`, the other properties of what is recorded
(`DecisionsAgree`, `EngagementsSettled` and `EpisodesStand` rest on ids that the
code makes by concatenating strings, about which the provers know nothing;
`CaptureTellsTheReaders` and `CaptureTellsTheHousehold`) and what is shown
(`SeenAndShown`). `ImplementsBelongings` needs more of a room than `Sound`: an
opening thing whose slot takes another relation besides IN_CONTAINER, a
character seated inside what is shut, or an attached thing that cannot be worn
would break it, and the schema forbids none of them.

## 5. Disagreements and observations

Three runs show a counterexample, each with its trace: `run_checkpoint`,
`characters_arrival` and `text_preempted` (above). `run_checkpoint` refutes
`docs/RUNTIME.md:17`, by which a checkpoint is saved only while "no tick is
advancing": `manager.step` (`manager.py:464`) starts a tick beside the one that
sleeps in the drain of a paused loop, and the first to end clears `_advancing`
and the phase of both (`runner.py:589`). What follows was met while modelling and no run is
about it.

*Barrier and run.* A stop that is requested while a tick raises is never
finalised (`runner.py:588`; `docs/RUNTIME.md:17`). A NAVIGATE that System 1
replaces never ends (`system1.py:740`). A late commit may follow a stop
(`coordinator.py:285`). When a compilation raises out of a tick, the works of the other agents stay pending.
One of them may then engage again; if a stop follows in that tick, `cancel_all`
(`engagements/coordinator.py:552`) cancels the older work and removes the
engagement of its agent, but `_cancel_action` (771) clears a plan only for the
action of that work, so the newer ENGAGE plan stays on a character of the final
run. Overlapping ticks lead to the same. The clause of `FinalisedIsClean` about
plans is therefore about runs without either.

*Runs and processes.* `reclaim_suspended_run` (`sqlite.py:473`) looks at the
status of the run only. A process that has read a head checkpoint, and is
overtaken by another that reclaims the run, records, saves a new head checkpoint
and suspends, reclaims it afterwards with the old sequence number; its next
record collides. `docs/RUNTIME.md:28` says that restoration "fails closed on"
mismatches of the persisted head. It takes three processes or a process that
restores twice, beyond what the run `archive` reaches; `LateReclaim` names the
step, and `OnlyLateReclaimsFallBehind`, which is proved, says that there is no
other way to fall behind.

*Characters.* A correction that never started may still be reported completed
when a drive recovers while System 1 is blocked, and a corrective NAVIGATE under
way when the drive recovers goes on in the normal state. `_restore_activity`
may restore an activity that is no longer the case. `fail_uncompiled` with
"conflicting_engagement" removes the state of another engagement without a
terminal event. An interaction or text action that commits (145, 146) in the
tick in which System 1 activates (170) is reported cancelled.

*Household.* A character who sits on furniture whose seat covers its body is
never offered STAND or GET_UP: `_interaction_occupancy_anchors`
(`scenario.py:5147`) seats the first nearest the centre, the body then covers
seat cells only, `footprints_touch` is false, and `available_interactions`
never lists a way out (`OffersAreComplete` exempts the two verbs for that
reason); `docs/CHARACTER_AGENT_ACTIONS.md:397` asks only for sitting on the
support and a valid exit pose. A full artifact raises a plain `ValueError` out of
the tick (`text_actions.py:292`; `docs/RUNTIME.md:213`). A read receipt is
removed when the decision is submitted (`scheduler.py:287`), so a decision that
fails loses what `docs/TEXT_CONTENT.md:93` guarantees. Unread counts never
decrease. PICK_UP may take the glasses from another's face. Contents of a
carried container, worn things after sitting down, and a thing under which a
book was taken away keep old poses. Carried mass counts direct things only.
NAVIGATE to a thing that was moved goes to where it was at the start, since
approach anchors are computed once.

*Scenarios.* (All of these are scenarios the theorems of the household are about.) Whether a scenario is accepted depends on names: a solid thing on
a solid support whose name sorts after it makes the support collide
(`scenario.py:4517`). The schema does not check that a held thing is portable,
that a two-handed thing fills both hands, that the slot of HELD_BY is a hand or
that custody follows holding. Nor does it check that the mailbox of an address is a
mailbox, that no two addresses share one, that nobody may create in it directly,
or that an authored message is also in the collection of its sender
(`scenario.py:2277`), so unread counts of such addresses count something else.

*Readers and branches.* Fact ids start again after any restore.
`_active_navigation_travel` is lost in a branch, which then records two routes.
Continuing a suspended run at its head gives the bus its events back while
the cursors start at 0, so the whole past is remembered a second time
(`memory_recording.py:235`, `domain/events.py:154`) and counted a second time by goals
that are still open (`goals.py:70`). This is `Continue` of `EventReaders`;
`EachRememberedOnce` and `GoalsAreReal` exempt such a run by name (`continued`), and
nothing else. Goals with a deadline and no criteria never expire.
`retire_goal` has no caller.

*Recording.* `BufferedResearchRecorder.drain` sorts the result of a memory
operation before its request (`recorder.py:189`), so the row of a memory
operation ends as "requested" with an empty result. A retrieval whose embedding
fails has no result either. In a branch `_initialize_goals` is not called
(`collection.py:314`), and the first event of a goal violates a foreign key
(`sqlite_schema.py:283`), which raises out of the tick;
`docs/DATA_COLLECTION.md:24` promises branches their own records. A branch leaves `record_id` of an open
episode empty, with the same effect on its next event (`collection.py:488`).
Both are modelled as `db.raised`: the second is `Branch` of `Recording`, and
`CaptureNeverRaises` says that nothing is refused unless an interaction was open
when the run branched (`inherited`); of the first, `ReaderCapture` speaks of the rows
of a branch only as far as nothing was refused. Two doors under one navigation reuse one
interaction key; a time-out followed by a failure without request makes a
second interaction; a trace drained after the commit regresses the decision's
row; late traces overwrite the status of a model request; overlapping ticks capture a phase
twice and violate a unique constraint. Outcomes of a stop are never told by a
transition, those of the barrier one tick late. `population_state` counts
things as characters (`state.py:1064`).

*Telemetry.* `messages_after` starts at the oldest message kept, so a reader that
falls behind the history after it has connected loses messages without being
told. After a run is continued its broker starts at 0 and an old cursor passes
`can_resume_after`. The agent's page names the target of an interaction
even when it is concealed.

## 6. Plan

1. *Proofs*: `ImplementsBelongings`, from the lemmas about each interaction;
   that what is recorded of the household and of the readers adds up
   (`CaptureTellsTheHousehold`, `CaptureTellsTheReaders`).
2. *Travel* on the network: legs, transitions, arrival and interruption, on top
   of `ActionLifecycle`.
3. *Telemetry broker*: bounded history, resume and resync.
4. *Libraries and migrations*: journal, revision-checked saves, recovery.
5. *Pure algorithms*: availability windows, weather, request budgets, checked
   against a reference definition over bounded inputs.

## 7. Not modelled

Geometry and path finding (continuous numbers: no property here depends on
them), cities, buildings and authoring forms of the scenario schema (pure
validation of documents), prompts and model adapters (text; their answers are
an environment choice), HTML pages and request parsing, analysis queries over
the dataset, document retrieval, weather and availability schedules, content
libraries and their migrations, network travel, and the telemetry broker. The
libraries, travel and the broker hold state and are in the plan.
