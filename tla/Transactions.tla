---------------------------- MODULE Transactions ----------------------------
(***************************************************************************)
(* Transactions between characters and transaction points: the TRANSACT    *)
(* and SERVE_TRANSACTION actions of plans, the transaction system, the     *)
(* staffing of points by NPCs and the preemption of a customer by System 1.*)
(*                                                                         *)
(* Every iteration of a loop of these systems is a step.  Characters move  *)
(* only between transactions, to any place: the navigation that brings     *)
(* them there is the subject of CharacterTick.  All of them share one map. *)
(***************************************************************************)
EXTENDS ExchangeLedger, ActionLifecycle, FiniteSets

CONSTANTS
    Clerks,      \* NPCs, each for one staffed point
    PostOf,      \* clerk -> the point it staffs
    Places,      \* where a character may be
    CounterOf,   \* point -> the places it is used from
    StaffPlace,  \* clerk -> the place it works at
    Capacity,    \* point -> how many it serves at once
    Lasts,       \* offer -> the ticks it takes
    Patience,    \* staffed point -> the ticks until a request times out
    MaxActions   \* agent -> bound: its controller chooses no action after so many

Agents == Customers \union Clerks
N == Cardinality(Agents)
Staffed == {PostOf[k] : k \in Clerks}
ClerkOf(p) == CHOOSE k \in Clerks : PostOf[k] = p
OfferIds == UNION {Offers[p] : p \in Points}
Deals == {d \in Points \X OfferIds : d[2] \in Offers[d[1]]}

ASSUME PeopleAssumption ==
    /\ IsFiniteSet(Agents) /\ Agents = 1..N /\ Customers # {}
    /\ Customers \intersect Clerks = {}
ASSUME PostsAssumption ==
    /\ PostOf \in [Clerks -> Points]
    /\ \A k, l \in Clerks : PostOf[k] = PostOf[l] => k = l
    /\ StaffPlace \in [Clerks -> Places]
    /\ CounterOf \in [Points -> SUBSET Places]
    /\ Capacity \in [Points -> Nat \ {0}] /\ MaxActions \in [Agents -> Nat]
    /\ Patience \in [Staffed -> Nat \ {0}]
ASSUME GoodsAssumption ==
    /\ FirstPurse \in [Customers -> [Goods -> Nat]]
    /\ FirstShelf \in [Points -> [Goods -> Nat]]
    /\ \A d \in Deals : /\ Lasts[d[2]] \in Nat \ {0}
                        /\ Gives[d[2]] \in [Goods -> Nat] /\ Receives[d[2]] \in [Goods -> Nat]

VARIABLES
    person,     \* agent -> its components
    present,    \* the clerks that have been spawned
    available,  \* the points whose effective availability is true
    turn,       \* 0 at the start of a tick, then the iteration that is due
    active      \* the customers with an execution when the system began

vars == <<purse, shelf, person, present, available, turn, active>>

-----------------------------------------------------------------------------
(* Components.                                                             *)

Newborn(p) ==
    [plan |-> EmptyPlan, story |-> <<>>, at |-> p, preempted |-> FALSE,
     request |-> None, execution |-> None, paid |-> <<>>, raised |-> FALSE]

Init ==
    /\ LedgerInit
    /\ person \in [Agents -> {Newborn(p) : p \in Places}]
    /\ \A k \in Clerks : person[k].at = StaffPlace[k]
    /\ present = {} /\ available = Points
    /\ turn = 0 /\ active = {}

Fail(c) == [c EXCEPT !.request.status = "failed"]

Waits(c, statuses) == c.request # None /\ c.request.status \in statuses

\* The request a clerk's target names: request_id is set when it is prepared.
Named(target) ==
    {c \in Customers : Waits(person[c], {"awaiting_staff", "awaiting_authorization",
                                         "authorized", "running", "failed", "completed"})
                       /\ target = <<c, person[c].request.id>>}

-----------------------------------------------------------------------------
(* Plan execution, order 90.                                               *)

AtCounter(c, p) == person[c].at \in CounterOf[p]

CheckTransaction(c) ==
    LET d == [c EXCEPT !.request = None] IN
    CASE Waits(c, {"failed"}) -> FailPlanAction(d)
      [] Waits(c, {"completed"}) -> CompletePlanAction(d)
      [] c.request = None /\ c.execution = None -> FailPlanAction(c)
      [] OTHER -> c

\* add_component raises when the character still has a request.
StartTransact(a, c) ==
    IF ~AtCounter(a, c.plan.current.target[1]) THEN FailPlanAction(c)
    ELSE IF c.request # None THEN [c EXCEPT !.raised = TRUE]
    ELSE [c EXCEPT
            !.plan.waiting = "transaction",
            !.request = [id |-> c.plan.current.id, point |-> c.plan.current.target[1],
                         offer |-> c.plan.current.target[2], status |-> "requested",
                         left |-> 0, operator |-> None, by |-> None]]

Serviceable(k, c) ==
    LET r == person[c].request IN
    /\ r.status = "awaiting_authorization" /\ r.operator = k
    /\ PostOf[k] = r.point /\ person[k].at = StaffPlace[k]
    /\ AtCounter(c, r.point)

Authorized(c, k) == [c EXCEPT !.request.by = k, !.request.status = "authorized"]

\* The next action of a plan starts; a SERVE_TRANSACTION changes its customer.
StartNext(a, c) ==
    LET d == TakeNext(c)
        e == Tell(d, CurrentIds(d), "started")
        served == {x \in Named(e.plan.current.target) : Serviceable(a, x)}
    IN IF e.plan.current.act = "TRANSACT"
         THEN [person EXCEPT ![a] = StartTransact(a, e)]
       ELSE IF served = {} THEN [person EXCEPT ![a] = FailPlanAction(e)]
       ELSE LET x == CHOOSE x \in served : TRUE
            IN [person EXCEPT ![a] = CompletePlanAction(e), ![x] = Authorized(@, a)]

ExecutePlan(a) ==
    LET c == person[a]
        d == IF c.plan.waiting = "transaction" THEN CheckTransaction(c) ELSE c
    IN IF c.preempted THEN person
       ELSE IF d.plan.current # None \/ d.plan.queue = <<>> THEN [person EXCEPT ![a] = d]
       ELSE StartNext(a, d)

-----------------------------------------------------------------------------
(* System 1, order 170: it preempts a customer or gives it back.           *)

CancelTransaction(c) ==
    IF c.execution = None THEN c
    ELSE [c EXCEPT !.execution = None,
                   !.request = IF @ = None THEN None ELSE [@ EXCEPT !.status = "failed"]]

Preempt(c) ==
    [CancelTransaction(ClearPlanLineage(c)) EXCEPT !.request = None, !.preempted = TRUE]

-----------------------------------------------------------------------------
(* The transaction system, order 185.                                      *)

Served(p, a) ==
    {b \in Customers \ {a} : person[b].execution # None /\ person[b].execution.point = p}

HasRoom(a, p) == Cardinality(Served(p, a)) < Capacity[p]

\* Mutant of Allowed: the goods are looked at when the transaction starts only.
AllowedUnpaid(a, p, o, operator) ==
    /\ p \in available /\ AtCounter(a, p)
    /\ p \in Staffed => operator \in present

\* _precondition_failure is None, with require_staff and without capacity.
Allowed(a, p, o, operator) ==
    /\ p \in available /\ AtCounter(a, p)
    /\ p \in Staffed => /\ operator \in present /\ PostOf[operator] = p
                        /\ person[operator].at = StaffPlace[operator]
    /\ Affordable(a, p, o)

\* The preconditions of a request that is not staffed yet.
Acceptable(a, p, o) ==
    p \in available /\ AtCounter(a, p) /\ HasRoom(a, p) /\ Affordable(a, p, o)

\* _advance and _complete, for a customer c that has an execution.
Advanced(a, c) ==
    LET x == c.execution
        d == [c EXCEPT !.execution.left = @ - 1]
    IN IF ~Allowed(a, x.point, x.offer, x.operator)
         THEN CancelTransaction(c)
       ELSE IF d.execution.left > 0 THEN d
       ELSE IF ~Affordable(a, x.point, x.offer) THEN [d EXCEPT !.raised = TRUE]
       ELSE [d EXCEPT !.execution = None, !.request.status = "completed",
                      !.paid = Append(@, x.id)]

\* _start, then _advance
Started(a, c) ==
    LET r == c.request IN
    IF ~(Allowed(a, r.point, r.offer, r.by) /\ HasRoom(a, r.point)) THEN Fail(c)
    ELSE Advanced(a, [c EXCEPT
            !.request.status = "running",
            !.execution = [point |-> r.point, offer |-> r.offer, id |-> r.id,
                           left |-> Lasts[r.offer], operator |-> r.by]])

\* _prepare_request
Prepared(a, c) ==
    LET r == c.request IN
    IF ~Acceptable(a, r.point, r.offer) THEN Fail(c)
    ELSE IF r.point \in Staffed
      THEN [c EXCEPT !.request.status = "awaiting_staff",
                     !.request.left = Patience[r.point]]
    ELSE Started(a, c)

\* Mutant of TimedOut: only a clerk that does not answer is waited for so long.
TimedOutWhenStaffed(c) ==
    IF c.request.status = "awaiting_staff" THEN c
    ELSE IF c.request.left > 1 THEN [c EXCEPT !.request.left = @ - 1] ELSE Fail(c)

\* _check_timeout
TimedOut(c) ==
    IF c.request.left > 1 THEN [c EXCEPT !.request.left = @ - 1]
    ELSE Fail([c EXCEPT !.request.left = 0])

Requested(a, c) ==
    CASE c.request.status = "requested" -> Prepared(a, c)
      [] c.request.status = "authorized" -> Started(a, c)
      [] OTHER -> TimedOut(c)

\* Mutant of Settled: the point is forgotten.
SettledOneSided(a, c) ==
    /\ person' = [person EXCEPT ![a] = c]
    /\ UNCHANGED shelf
    /\ LET r == person[a].request IN
       purse' = IF Len(c.paid) > Len(person[a].paid)
                  THEN [purse EXCEPT ![a] = Swapped(@, Gives[r.offer], Receives[r.offer])]
                  ELSE purse

\* A customer that completes has exchanged the goods of its offer.
Settled(a, c) ==
    /\ person' = [person EXCEPT ![a] = c]
    /\ IF Len(c.paid) > Len(person[a].paid)
         THEN LET r == person[a].request IN Exchange(a, r.point, r.offer)
         ELSE UNCHANGED held

-----------------------------------------------------------------------------
(* Staffing (190) and the choices of the controllers (310).                *)

\* Mutant of Assign: the clerk that is sent has authorized the request.
AssignAuthorized(c, k) ==
    [c EXCEPT !.request.operator = k, !.request.status = "authorized"]

Assign(c, k) ==
    [c EXCEPT !.request.operator = k, !.request.status = "awaiting_authorization"]

\* _spawn: nobody may be where the clerk is going to work.
Blocked(k) ==
    \E b \in Customers \union present : person[b].at = StaffPlace[k]

Options(a) ==
    IF a \in Customers THEN {<<"TRANSACT", d>> : d \in Deals}
    ELSE {<<"SERVE_TRANSACTION", <<c, person[c].request.id>>>> : c \in
            {c \in Customers : Waits(person[c], {"awaiting_authorization"})
                               /\ person[c].request.operator = a}}

Decided(a, c) ==
    {QueueAction(c, x[1], x[2], "plan") : x \in
        {x \in Options(a) : PlanIdle(c) /\ ~c.preempted /\ Len(c.story) < MaxActions[a]}}

\* A character moves only between its actions, and not into a clerk.
Moved(a, c) ==
    IF a \in Clerks \/ ~PlanIdle(c) THEN {c}
    ELSE {[c EXCEPT !.at = p] : p \in Places \ {StaffPlace[k] : k \in present}} \union {c}

-----------------------------------------------------------------------------
(* The schedule of a tick.                                                 *)

\* Mutant of Phases: System 1 looks before the plan learns of its success.
PhasesPreemptFirst == <<"arbitrate", "plan", "advance", "request", "staff", "decide">>

Phases == <<"plan", "arbitrate", "advance", "request", "staff", "decide">>

Turns == 1..(Len(Phases) * N)
PhaseOf(n) == Phases[((n - 1) \div N) + 1]
AgentOf(n) == ((n - 1) % N) + 1

Pending == {"requested", "awaiting_staff", "awaiting_authorization", "authorized"}

\* A loop passes over the characters that are not due without a change.
Due(persons, begun, here, n) ==
    LET a == AgentOf(n)
        c == persons[a]
    IN CASE PhaseOf(n) = "plan" -> ~PlanIdle(c)
         [] PhaseOf(n) = "advance" -> a \in begun
         [] PhaseOf(n) = "request" ->
              a \notin begun /\ c.execution = None /\ Waits(c, Pending)
         [] PhaseOf(n) = "staff" -> Waits(c, {"awaiting_staff"})
         [] PhaseOf(n) = "arbitrate" -> a \in Customers
         [] PhaseOf(n) = "decide" -> a \in Customers \union here

\* active is taken when the transaction system begins.
Executing(persons) == {a \in Agents : persons[a].execution # None}

NextTurn(persons, begun, here) ==
    LET later == {n \in Turns : n > turn /\ Due(persons, begun, here, n)}
    IN IF later = {} THEN 0 ELSE CHOOSE n \in later : \A m \in later : n <= m

Raised == \E a \in Agents : person[a].raised

\* The iteration that is due, and the one after it.
InPhase(phase) == turn # 0 /\ PhaseOf(turn) = phase /\ ~Raised
Pass ==
    LET begun == IF PhaseOf(turn) \in {"plan", "arbitrate"} THEN Executing(person')
                 ELSE active
    IN active' = begun /\ turn' = NextTurn(person', begun, present')

\* The environment systems at the start of a tick may flip one availability.
BeginTick ==
    /\ turn = 0 /\ ~Raised
    /\ \/ available' = available
       \/ \E p \in Points : available' = IF p \in available THEN available \ {p}
                                         ELSE available \union {p}
    /\ turn' = NextTurn(person, {}, present) /\ active' = {}
    /\ UNCHANGED <<purse, shelf, person, present>>

Plan ==
    /\ InPhase("plan")
    /\ person' = ExecutePlan(AgentOf(turn))
    /\ UNCHANGED <<purse, shelf, present, available>> /\ Pass

Arbitrate ==
    LET a == AgentOf(turn)
        c == person[a]
    IN /\ InPhase("arbitrate")
       /\ \/ person' = person
          \/ person' = [person EXCEPT ![a] =
                IF c.preempted THEN [c EXCEPT !.preempted = FALSE] ELSE Preempt(c)]
       /\ UNCHANGED <<purse, shelf, present, available>> /\ Pass

Advance ==
    LET a == AgentOf(turn) IN
    /\ InPhase("advance")
    /\ Settled(a, Advanced(a, person[a]))
    /\ UNCHANGED <<present, available>> /\ Pass

Request ==
    LET a == AgentOf(turn) IN
    /\ InPhase("request")
    /\ Settled(a, Requested(a, person[a]))
    /\ UNCHANGED <<present, available>> /\ Pass

\* A clerk is spawned for the first request that finds its place free.
Staff ==
    LET a == AgentOf(turn)
        k == ClerkOf(person[a].request.point)
    IN /\ InPhase("staff")
       /\ present' = IF Blocked(k) /\ k \notin present THEN present ELSE present \union {k}
       /\ person' = IF k \in present' THEN [person EXCEPT ![a] = Assign(@, k)] ELSE person
       /\ UNCHANGED <<purse, shelf, available>> /\ Pass

Decide ==
    LET a == AgentOf(turn) IN
    /\ InPhase("decide")
    /\ \E c \in Moved(a, person[a]) : \E d \in {c} \union Decided(a, c) :
         person' = [person EXCEPT ![a] = d]
    /\ UNCHANGED <<purse, shelf, present, available>> /\ Pass

Next == BeginTick \/ Plan \/ Arbitrate \/ Advance \/ Request \/ Staff \/ Decide

SafetySpec == Init /\ [][Next]_vars

\* run_realtime keeps ticking while the run is running.
Spec == SafetySpec /\ WF_vars(Next)

-----------------------------------------------------------------------------
(* Properties.                                                             *)

Ended == {"failed", "completed"}

\* A character, its plan and its transaction, field by field: customers have
\* transactions and clerks authorize them.
Actions(a) == [id : Nat, origin : {"plan"},
               act : IF a \in Customers THEN {"TRANSACT"} ELSE {"SERVE_TRANSACTION"},
               target : IF a \in Customers THEN Deals ELSE Customers \X Nat]

Plans(a) == [open : BOOLEAN, queue : Seq(Actions(a)), current : Actions(a) \union {None},
             timer : {0}, before : {"NONE"}, waiting : {"no", "transaction"}]

Requests == [id : Nat, point : Points, offer : OfferIds,
             status : Pending \union {"running"} \union Ended, left : Nat,
             operator : Clerks \union {None}, by : Clerks \union {None}]

Executions == [id : Nat, point : Points, offer : OfferIds, left : Nat,
               operator : Clerks \union {None}]

Characters(a) ==
    [plan : Plans(a), story : Seq(Seq(Events)), at : Places, preempted : BOOLEAN,
     request : IF a \in Customers THEN Requests \union {None} ELSE {None},
     execution : IF a \in Customers THEN Executions \union {None} ELSE {None},
     paid : Seq(Nat), raised : BOOLEAN]

\* Python's None is neither a component nor an entity.
ASSUME NoneAssumption ==
    /\ None \notin Clerks \union Requests \union Executions
    /\ \A a \in Agents : None \notin Actions(a)

\* Every component has the type its dataclass declares, and refers to an offer
\* of its point and to actions of its character.
TransactionTypeOK ==
    /\ person = [a \in Agents |-> person[a]]
    /\ \A a \in Agents : LET c == person[a] IN
         /\ c \in Characters(a)
         /\ CurrentIds(c) \union QueuedIds(c) \subseteq DOMAIN c.story
         /\ \A n \in DOMAIN c.paid : c.paid[n] \in DOMAIN c.story
         /\ c.request # None =>
              /\ <<c.request.point, c.request.offer>> \in Deals
              /\ c.request.by \in {None, c.request.operator}
              /\ c.request.status \in {"awaiting_staff", "awaiting_authorization"}
                   => c.request.point \in Staffed /\ c.request.left \in 1..Patience[c.request.point]
         /\ c.execution # None =>
              /\ <<c.execution.point, c.execution.offer>> \in Deals
              /\ c.execution.left \in 1..Lasts[c.execution.offer]
    /\ purse \in [Customers -> Holdings] /\ shelf \in [Points -> Holdings]
    /\ present \subseteq Clerks /\ available \subseteq Points
    /\ turn \in Turns \union {0} /\ active \subseteq Customers

\* The economy implements the ledger: goods move only in whole offers both
\* sides can pay, although nothing is set aside while a transaction lasts.
ImplementsLedger == LedgerSpec

\* apply_exchange raises when a side cannot pay and add_component when there
\* is a request already; the rechecks of the transaction system and the
\* clean-up of System 1 keep either from aborting a tick.
TransactionsNeverRaise == ~Raised

\* plans.py, SERVE_TRANSACTION: what a staffed point hands out was authorized
\* by the clerk of that point, who is at work, for this request.
StaffedIsAuthorized ==
    \A a \in Customers : LET c == person[a] IN
        Waits(c, {"authorized", "running"}) /\ c.request.point \in Staffed
          => /\ c.request.by = c.request.operator
             /\ c.request.by \in present /\ PostOf[c.request.by] = c.request.point

\* transactions.py and plans.py: goods are exchanged for exactly the actions
\* that complete, and once for each.  The exchange and the end of the action
\* are in different systems, and System 1 may cancel the plan between them.
Times(c, id) == Cardinality({n \in DOMAIN c.paid : c.paid[n] = id})
EndsOf(c, id) == {c.story[id][n] : n \in DOMAIN c.story[id]} \intersect Terminal
PaidIsCompleted ==
    \A a \in Customers : LET c == person[a] IN
        \A id \in DOMAIN c.story :
            \/ Times(c, id) = 0 /\ "completed" \notin EndsOf(c, id)
            \/ Times(c, id) = 1 /\ EndsOf(c, id) = {"completed"}
            \/ /\ Times(c, id) = 1 /\ EndsOf(c, id) = {}
               /\ Waits(c, {"completed"}) /\ c.request.id = id

\* transactions.py and plans.py together: an exchange is due on both ends.  The
\* clerk of the point authorized it for this request, and every exchange belongs
\* to exactly one action that completed, whatever was preempted on the way.
ExchangesAreDue == StaffedIsAuthorized /\ PaidIsCompleted

\* transactions.py, _check_timeout: every request ends, also when nobody serves
\* it, its point closes, or its place is blocked.
RequestsEnd ==
    \A a \in Customers : person[a].request # None ~> person[a].request = None
=============================================================================
