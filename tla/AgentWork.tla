----------------------------- MODULE AgentWork ------------------------------
(***************************************************************************)
(* The cognition scheduler, the controller state of every agent and the    *)
(* AgentWorkCoordinator, driven by the ticks of one simulation run.        *)
(*                                                                         *)
(* A tick is a coroutine.  The code between two awaits is atomic, because  *)
(* all coroutines share one event loop: `loop' names the task that holds   *)
(* it, or Free while every task is suspended.  The only await of a tick is *)
(* the sleep in drain_and_wait, so another coroutine (a second tick, or an *)
(* operator's stop) runs only while a tick is at stage "decide".  Worker   *)
(* threads and the wall clock take their steps at any moment.              *)
(***************************************************************************)
EXTENDS Integers, FiniteSets, FuturePool

CONSTANTS
    Agents,          \* agent ids; numbers, since a batch is sorted by id
    ModelAgents,     \* the agents whose controller uses the language model
    Tasks,           \* the coroutines that call advance_one_tick
    Free,            \* nobody holds the event loop
    MaxConcurrency,  \* worker threads of the executor
    MaxRequests,     \* request budget of the run
    MaxTokens,       \* token budget (input and output are guarded alike)
    MaxTicks,        \* bound: ticks explored
    Tools,           \* tools a model may call: a subset of AllTools
    Faults           \* faults a worker may meet: a subset of {"raise"}

AllTools == {"act", "say", "skip", "engage"}

ASSUME AgentsAssumption == Agents \subseteq Nat /\ ModelAgents \subseteq Agents
ASSUME TasksAssumption == Free \notin Tasks
ASSUME BudgetAssumption == MaxRequests \in Nat /\ MaxTokens \in Nat
ASSUME BoundAssumption == MaxTicks \in Nat /\ MaxConcurrency \in Nat \ {0}
ASSUME AnswersAssumption == Tools \subseteq AllTools /\ Faults \subseteq {"raise"}

VARIABLES
    status,        \* RunnerStatus; in this module it only goes to "stopped"
    clock,         \* SimulationClock.tick
    loop,          \* the task that holds the event loop, or Free
    stage,         \* task -> where its tick is
    visit,         \* the agents the scheduler's loop has still to look at
    controller,    \* agent -> ControllerComponent
    drive,         \* agent -> "normal" or "critical" (DriveComponent.state)
    occupied,      \* agent -> which of its plan and its speech is in use
    pool,          \* the coordinator's queue, futures and workers
    collected,     \* task -> the drain's local list of completed decisions
    round,         \* task -> non-empty polls of the drain so far
    requestCount,  \* AgentWorkCoordinator.request_count
    tokens,        \* AgentWorkCoordinator.input_tokens, output_tokens
    settled,       \* history: the terminal event of each decision
    abandoned      \* history: requests dropped when a drain raised

workVars == <<pool, collected, round, requestCount, tokens, settled, abandoned>>
worldVars == <<controller, drive, occupied>>
vars == <<status, clock, loop, stage, visit, worldVars, workVars>>

-----------------------------------------------------------------------------
Stages == {"idle", "schedule", "decide", "apply", "after"}
Statuses == {"created", "running", "paused", "stopped"}
Request == [agent: Agents, seq: Nat, rev: Nat, tick: Nat]
Answers == Tools \union {"no_tool", "error"} \union Faults
Results == Answers \union {"timeout"}
Item == [request: Request, result: Results, round: Nat]
Fates == {"committed", "rejected", "failed", "cancelled"}
Settlement == [request: Request, fate: Fates]
Controller ==
    [enabled: BOOLEAN, pending: BOOLEAN, current: Nat, seq: Nat, rev: Nat]

TypeOK ==
    /\ status \in Statuses
    /\ clock \in Nat
    /\ loop \in Tasks \union {Free}
    /\ stage \in [Tasks -> Stages]
    /\ visit \in SUBSET Agents
    /\ controller \in [Agents -> Controller]
    /\ drive \in [Agents -> {"normal", "critical"}]
    /\ occupied \in [Agents -> SUBSET {"plan", "speech"}]
    /\ pool \in PoolOf(Request, Answers)
    /\ collected \in [Tasks -> SUBSET Item]
    /\ round \in [Tasks -> Nat]
    /\ requestCount \in Nat
    /\ tokens \in Nat
    /\ settled \in SUBSET Settlement
    /\ abandoned \in SUBSET Request

NoWorkYet ==
    /\ clock = 0
    /\ loop = Free
    /\ stage = [t \in Tasks |-> "idle"]
    /\ visit = {}
    /\ controller = [a \in Agents |->
           [enabled |-> TRUE, pending |-> FALSE, current |-> 0, seq |-> 0, rev |-> 0]]
    /\ drive = [a \in Agents |-> "normal"]
    /\ occupied = [a \in Agents |-> {}]
    /\ pool = EmptyPool
    /\ collected = [t \in Tasks |-> {}]
    /\ round = [t \in Tasks |-> 0]
    /\ requestCount = 0
    /\ tokens = 0
    /\ settled = {}
    /\ abandoned = {}

Init == status = "running" /\ NoWorkYet

-----------------------------------------------------------------------------
(* The sort keys of the coordinator.                                       *)

\* The key of a completed decision: requested tick, agent id, decision id.
Precedes(r, s) ==
    \/ r.tick < s.tick
    \/ r.tick = s.tick /\ r.agent < s.agent
    \/ r.tick = s.tick /\ r.agent = s.agent /\ r.seq < s.seq

\* Each poll sorts what it collected and is appended to the list.
AppliedBefore(i, j) ==
    \/ i.round < j.round
    \/ i.round = j.round /\ Precedes(i.request, j.request)

IsNext(i, items) == i \in items /\ \A j \in items \ {i} : AppliedBefore(i, j)

-----------------------------------------------------------------------------
(* What happens to a controller.                                           *)

Waiting(c, n) == [c EXCEPT !.pending = TRUE, !.current = n]
Freed(c) == [c EXCEPT !.pending = FALSE, !.current = 0]

Revised(c) == [c EXCEPT !.rev = @ + 1]
Numbered(c) == [c EXCEPT !.seq = @ + 1]
Disabled(c) == [c EXCEPT !.enabled = FALSE]

\* _clear_pending: only the agent's current decision is cleared.
Cleared(c, r) == IF c.current = r.seq THEN Freed(c) ELSE c

-----------------------------------------------------------------------------
(* The systems of a tick that run before the scheduler.                    *)

Effects == {"none", "changed", "finished", "preempted", "resolved"}

\* A survival drive activates from NORMAL only; it resolves back to it.
Possible(a, effect) ==
    /\ effect = "preempted" => drive[a] = "normal"
    /\ effect = "resolved" => drive[a] = "critical"
    /\ effect = "finished" => occupied[a] # {}

ControllerAfter(c, effect) ==
    CASE effect = "changed" -> Revised(c)
      [] effect = "preempted" -> Revised(Freed(c))
      [] OTHER -> c

DriveAfter(d, effect) ==
    CASE effect = "preempted" -> "critical"
      [] effect = "resolved" -> "normal"
      [] OTHER -> d

\* A preemption clears the plan, not a pending speech.
OccupiedAfter(o, effect) ==
    CASE effect = "finished" -> {}
      [] effect = "preempted" -> o \ {"plan"}
      [] OTHER -> o

\* advance_one_tick up to the scheduler: the clock moves and the physical
\* systems run.  Bound: MaxTicks.
BeginTick(t) ==
    /\ loop = Free
    /\ stage[t] = "idle"
    /\ clock < MaxTicks
    /\ clock' = clock + 1
    /\ loop' = t
    /\ stage' = [stage EXCEPT ![t] = "schedule"]
    /\ visit' = Agents
    /\ \E effect \in [Agents -> Effects] :
        /\ \A a \in Agents : Possible(a, effect[a])
        /\ controller' = [a \in Agents |-> ControllerAfter(controller[a], effect[a])]
        /\ drive' = [a \in Agents |-> DriveAfter(drive[a], effect[a])]
        /\ occupied' = [a \in Agents |-> OccupiedAfter(occupied[a], effect[a])]
    /\ UNCHANGED <<status, workVars>>

-----------------------------------------------------------------------------
(* CognitionScheduler.update, one agent of its loop at a time.             *)

BudgetFailure(a) ==
    a \in ModelAgents /\ (requestCount >= MaxRequests \/ tokens >= MaxTokens)

\* The gates whose state is modelled.  Those on decision time, engagement,
\* affordance and npc service are the environment's: see PassOver.
GatesOpen(a) ==
    /\ controller[a].enabled
    /\ ~controller[a].pending
    /\ occupied[a] = {}
    /\ drive[a] = "normal"

NewRequest(a) ==
    [agent |-> a, seq |-> controller[a].seq + 1, rev |-> controller[a].rev, tick |-> clock]

Visiting(t, a) ==
    /\ loop = t
    /\ stage[t] = "schedule"
    /\ a \in visit
    /\ \A b \in visit : a <= b
    /\ visit' = visit \ {a}
    /\ UNCHANGED <<status, clock, loop, stage, drive, occupied>>

\* An open agent gets a decision id and its request is submitted.
Ask(t, a) ==
    /\ Visiting(t, a)
    /\ GatesOpen(a)
    /\ ~BudgetFailure(a)
    /\ controller' = [controller EXCEPT ![a] = Waiting(Numbered(@), @.seq + 1)]
    /\ pool' = Enqueue(pool, NewRequest(a))
    /\ requestCount' = IF a \in ModelAgents THEN requestCount + 1 ELSE requestCount
    /\ UNCHANGED <<collected, round, tokens, settled, abandoned>>

\* Only the budget is missing: the controller is switched off for good.
Exhaust(t, a) ==
    /\ Visiting(t, a)
    /\ GatesOpen(a)
    /\ BudgetFailure(a)
    /\ controller' = [controller EXCEPT ![a] = Disabled(@)]
    /\ UNCHANGED workVars

\* A gate is closed.  It may be one of the environment's, whatever the
\* modelled ones say, so there is no condition on them here.
PassOver(t, a) ==
    /\ Visiting(t, a)
    /\ UNCHANGED <<controller, workVars>>

Evaluate(t) == \E a \in Agents : Ask(t, a) \/ Exhaust(t, a) \/ PassOver(t, a)

-----------------------------------------------------------------------------
(* AgentWorkCoordinator.drain_and_wait.                                    *)

\* The drain starts every queued request before its first poll.
StartDrain(t) ==
    /\ loop = t
    /\ stage[t] = "schedule"
    /\ visit = {}
    /\ stage' = [stage EXCEPT ![t] = "decide"]
    /\ pool' = Dispatch(pool)
    /\ UNCHANGED <<status, clock, loop, visit, worldVars, collected, round,
                   requestCount, tokens, settled, abandoned>>

CanPoll(t) == stage[t] = "decide" /\ loop \in {t, Free}

\* One pass over the futures; the drain sleeps again unless none is left.
Poll(t) ==
    LET ready == Ready(pool)
        works == {x[1] : x \in ready}
        left == pool.pending \ works
    IN  /\ CanPoll(t)
        /\ \A x \in ready : x[2] # "raise"
        /\ pool' = Take(pool, works)
        /\ round' = [round EXCEPT ![t] = IF ready = {} THEN @ ELSE @ + 1]
        /\ collected' = [collected EXCEPT ![t] = @ \union
               {[request |-> x[1], result |-> x[2], round |-> round[t]] : x \in ready}]
        /\ stage' = [stage EXCEPT ![t] = IF left = {} THEN "apply" ELSE "decide"]
        /\ loop' = IF left = {} THEN t ELSE Free
        /\ UNCHANGED <<status, clock, visit, worldVars, requestCount, tokens,
                       settled, abandoned>>

\* A worker met an error that is not a ModelClientError: future.result()
\* raises out of the drain and of the tick.  The raising future, the ready
\* ones before it and all the drain had collected are dropped.
PollRaises(t) ==
    /\ CanPoll(t)
    /\ \E x \in Ready(pool) :
        /\ x[2] = "raise"
        /\ \A y \in Ready(pool) : y[2] = "raise" /\ y # x => Precedes(x[1], y[1])
        /\ LET taken == {x[1]} \union
                   {y[1] : y \in {z \in Ready(pool) : Precedes(z[1], x[1])}}
           IN  /\ pool' = Take(pool, taken)
               /\ abandoned' = abandoned \union taken
                      \union {i.request : i \in collected[t]}
    /\ collected' = [collected EXCEPT ![t] = {}]
    /\ round' = [round EXCEPT ![t] = 0]
    /\ stage' = [stage EXCEPT ![t] = "idle"]
    /\ loop' = Free
    /\ UNCHANGED <<status, clock, visit, worldVars, requestCount, tokens, settled>>

-----------------------------------------------------------------------------
(* AgentWorkCoordinator._apply, one completed decision at a time.          *)

Applying(t, i) ==
    /\ loop = t
    /\ stage[t] = "apply"
    /\ IsNext(i, collected[t])
    /\ collected' = [collected EXCEPT ![t] = @ \ {i}]
    /\ UNCHANGED <<status, clock, loop, stage, visit, drive, pool, round,
                   requestCount, abandoned>>

SettleAs(r, fate) == settled' = settled \union {[request |-> r, fate |-> fate]}

ClearPending(r) ==
    controller' = [controller EXCEPT ![r.agent] = Cleared(@, r)]

\* Mutant of Fresh: the revision the decision was made against is not compared.
FreshId(r) == controller[r.agent].current = r.seq /\ drive[r.agent] = "normal"

\* _freshness_failure: the decision id, the revision and System 1.
Fresh(r) ==
    /\ controller[r.agent].current = r.seq
    /\ controller[r.agent].rev = r.rev
    /\ drive[r.agent] = "normal"

\* The plan must be idle for every tool, speech also needs a free voice.
Conflicting(r, tool) ==
    \/ "plan" \in occupied[r.agent]
    \/ tool = "say" /\ "speech" \in occupied[r.agent]

OccupiedBy(tool) ==
    CASE tool = "skip" -> {}
      [] tool = "say" -> {"speech"}
      [] OTHER -> {"plan"}

\* A timeout or a provider error: cognition.failed.
Fail(t, i) ==
    /\ Applying(t, i)
    /\ i.result \in {"timeout", "error"}
    /\ ClearPending(i.request)
    /\ SettleAs(i.request, "failed")
    /\ UNCHANGED <<occupied, tokens>>

\* tool.rejected: no tool, a stale decision, a busy agent, or arguments the
\* tool registry refuses (the environment decides the last).
Reject(t, i) ==
    /\ Applying(t, i)
    /\ i.result \in Tools \union {"no_tool"}
    /\ ClearPending(i.request)
    /\ SettleAs(i.request, "rejected")
    /\ tokens' = tokens + 1
    /\ UNCHANGED occupied

\* _commit: the intent is queued and the agent's revision is consumed.
Commit(t, i) ==
    /\ Applying(t, i)
    /\ i.result \in Tools
    /\ Fresh(i.request)
    /\ ~Conflicting(i.request, i.result)
    /\ controller' = [controller EXCEPT ![i.request.agent] = Revised(Freed(@))]
    /\ occupied' = [occupied EXCEPT ![i.request.agent] = @ \union OccupiedBy(i.result)]
    /\ SettleAs(i.request, "committed")
    /\ tokens' = tokens + 1

ApplyNext(t) == \E i \in collected[t] : Fail(t, i) \/ Reject(t, i) \/ Commit(t, i)

\* The drain returns to advance_one_tick.
FinishDrain(t) ==
    /\ loop = t
    /\ stage[t] = "apply"
    /\ collected[t] = {}
    /\ stage' = [stage EXCEPT ![t] = "after"]
    /\ round' = [round EXCEPT ![t] = 0]
    /\ UNCHANGED <<status, clock, loop, visit, worldVars, pool, collected,
                   requestCount, tokens, settled, abandoned>>

\* The tick ends and gives the event loop back.
EndTick(t) ==
    /\ loop = t
    /\ stage[t] = "after"
    /\ stage' = [stage EXCEPT ![t] = "idle"]
    /\ loop' = Free
    /\ UNCHANGED <<status, clock, visit, worldVars, workVars>>

-----------------------------------------------------------------------------
(* AgentWorkCoordinator.cancel_all, called by SimulationRunner.stop.       *)

\* Mutant of ControllerCancelled: cancel_all does not clear request_pending.
ControllerLeft(a) == controller[a]

\* A cancelled request that is its agent's current one is cleared.
ControllerCancelled(a) ==
    IF \E r \in Outstanding(pool) : r.agent = a /\ r.seq = controller[a].current
    THEN Freed(controller[a])
    ELSE controller[a]

CancelAll ==
    /\ controller' = [a \in Agents |-> ControllerCancelled(a)]
    /\ settled' = settled \union
           {[request |-> r, fate |-> "cancelled"] : r \in Outstanding(pool)}
    /\ pool' = Abandon(pool)

Stop ==
    /\ loop = Free
    /\ status # "stopped"
    /\ status' = "stopped"
    /\ CancelAll
    /\ UNCHANGED <<clock, loop, stage, visit, drive, occupied, collected, round,
                   requestCount, tokens, abandoned>>

-----------------------------------------------------------------------------
(* Worker threads and the wall clock.                                      *)

poolUnchanged == UNCHANGED <<status, clock, loop, stage, visit, worldVars, collected,
                             round, requestCount, tokens, settled, abandoned>>

WorkerStarts ==
    /\ \E r \in pool.pending :
        /\ CanStart(pool, r, MaxConcurrency)
        /\ pool' = StartWork(pool, r)
    /\ poolUnchanged

WorkerFinishes ==
    /\ \E r \in pool.running, answer \in Answers : pool' = Finish(pool, r, answer)
    /\ poolUnchanged

DeadlinePasses ==
    /\ \E r \in pool.pending \ pool.expired : pool' = Expire(pool, r)
    /\ poolUnchanged

-----------------------------------------------------------------------------
TickStep(t) ==
    \/ Evaluate(t)
    \/ StartDrain(t)
    \/ Poll(t)
    \/ PollRaises(t)
    \/ ApplyNext(t)
    \/ FinishDrain(t)
    \/ EndTick(t)

Next ==
    \/ \E t \in Tasks : (status # "stopped" /\ BeginTick(t)) \/ TickStep(t)
    \/ Stop
    \/ WorkerStarts
    \/ WorkerFinishes
    \/ DeadlinePasses

\* The event loop serves every ready coroutine (its queue is first in, first
\* out) and time passes.  Nothing is assumed of the workers: a provider may
\* never answer.
Fairness ==
    /\ \A t \in Tasks : SF_vars(TickStep(t))
    /\ WF_vars(DeadlinePasses)

SafetySpec == Init /\ [][Next]_vars
Spec == SafetySpec /\ Fairness
-----------------------------------------------------------------------------
(* Properties.                                                             *)

Held(t) == {i.request : i \in collected[t]}
InDrains == UNION {Held(t) : t \in Tasks}
Unsettled == Outstanding(pool) \union InDrains
SettledRequests == {s.request : s \in settled}
Issued == Unsettled \union SettledRequests \union abandoned
Committed == {s.request : s \in {x \in settled : x.fate = "committed"}}

\* No agent waits for a decision nobody works on: request_pending is set
\* exactly while there is a current decision, and that decision is queued,
\* in flight or collected by a drain, or was dropped by a drain that raised.
\* (The scheduler never asks again while request_pending is set, so an
\* orphaned flag would silence the agent for the rest of the run.)
NoOrphanedRequest ==
    \A a \in Agents :
        /\ controller[a].pending <=> controller[a].current # 0
        /\ controller[a].pending =>
              \E r \in Unsettled \union abandoned : r.agent = a /\ r.seq = controller[a].current

EveryIdIssued ==
    \A a \in Agents : \A n \in 1..controller[a].seq :
        \E r \in Issued : r.agent = a /\ r.seq = n

OneRequestPerId ==
    \A r, s \in Issued : r.agent = s.agent /\ r.seq = s.seq => r = s

OnePlace ==
    /\ Outstanding(pool) \intersect InDrains = {}
    /\ Unsettled \intersect (SettledRequests \union abandoned) = {}
    /\ SettledRequests \intersect abandoned = {}

HeldOnce ==
    \A t, u \in Tasks : \A i \in collected[t], j \in collected[u] :
        i.request = j.request => t = u /\ i = j

OneFate == \A x, y \in settled : x.request = y.request => x = y

\* Every decision id an agent was given is in exactly one place: unsettled
\* in one list, settled with one fate, or dropped.  None vanishes, none is
\* applied by two drains, none gets two terminal events, whatever the order
\* of polls, deadlines, late answers, preemptions and stop.
NothingLostOrDuplicated ==
    EveryIdIssued /\ OneRequestPerId /\ OnePlace /\ HeldOnce /\ OneFate

\* The global barrier: while a drain applies its decisions, no request of
\* any tick is queued or in flight.
BarrierComplete ==
    \A t \in Tasks : stage[t] = "apply" => Outstanding(pool) = {}

\* A request is stale when it is not its agent's current decision, or was
\* made against an older revision: a preemption or another commit came first.
Stale(r) ==
    \/ controller[r.agent].current # r.seq
    \/ controller[r.agent].rev # r.rev

\* A stale request never commits, in this tick or in a later one: it stays
\* stale for as long as it is unsettled, whatever its agent is asked next.
PreemptionWins ==
    [][\A r \in Unsettled :
           Stale(r) => /\ r \notin Committed'
                       /\ r \in Unsettled' => Stale(r)']_vars

-----------------------------------------------------------------------------
(* The inductive invariant behind the properties above.                    *)

\* Only the holder of the event loop schedules or applies, and requests are
\* queued only while the holder's scheduler runs.
LoopDiscipline ==
    /\ \A t \in Tasks : stage[t] \in {"schedule", "apply"} => loop = t
    /\ pool.queued # {} => \E t \in Tasks : loop = t /\ stage[t] = "schedule"

\* No request carries an id its agent was not given.
NumberedByAgent ==
    \A r \in Issued : r.seq \in 1..controller[r.agent].seq

InductiveInvariant ==
    /\ TypeOK
    /\ Consistent(pool)
    /\ LoopDiscipline
    /\ NumberedByAgent
    /\ BarrierComplete
    /\ NothingLostOrDuplicated
    /\ NoOrphanedRequest

\* A request was made against the revision its agent has, or an earlier one.
RevisionsPast == \A r \in Unsettled : r.rev <= controller[r.agent].rev

\* An agent is asked once in a tick, so the ticks bound its decision ids.
AskedOncePerTick ==
    /\ clock <= MaxTicks
    /\ \A a \in Agents : /\ controller[a].seq <= clock
                         /\ a \in visit => controller[a].seq < clock

-----------------------------------------------------------------------------
(* Refinement of the abstract barrier.                                     *)

Id(r) == [agent |-> r.agent, seq |-> r.seq]

Protocol == INSTANCE DecisionProtocol WITH
    Decisions <- [agent: Agents, seq: 1..MaxTicks],
    Fates <- Fates,
    waiting <- {Id(r) : r \in Outstanding(pool)},
    known <- {Id(r) : r \in InDrains},
    settled <- {[decision |-> Id(s.request), fate |-> s.fate] : s \in settled},
    lost <- {Id(r) : r \in abandoned}

\* The coordinator implements the protocol: each decision is asked for,
\* answered and settled once, and none is settled while another is open.
ImplementsProtocol == Protocol!SafetySpec
=============================================================================
