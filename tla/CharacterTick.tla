--------------------------- MODULE CharacterTick ---------------------------
(***************************************************************************)
(* The bodies of the characters of a run, system by system of a tick:      *)
(* navigation and plan execution, path finding, movement, physiology,      *)
(* System 1 arbitration and affordance execution.                          *)
(*                                                                         *)
(* The systems from order 85 to 165 read and write one character at a time *)
(* and are one step of it ("body"), as are movement and decision ("settle");*)
(* arbitration and the three loops of the affordance system look at every  *)
(* other character, so each of their iterations is a step of its own.      *)
(*                                                                         *)
(* Space is abstracted to places: a path exists or not, a step of movement *)
(* ends anywhere in the room or is blocked, a portal is open or not.  A    *)
(* meter is abstracted to where it stands between its two thresholds.      *)
(***************************************************************************)
EXTENDS Integers, FiniteSets, ActionLifecycle

CONSTANTS
    Agents,      \* characters; numbers, since systems visit them in order
    Places,      \* what a position may be
    RoomOf,      \* place -> its room
    Portals,     \* <<from, to>>: two places a character crosses between
    Stations,    \* affordance stations
    Approaches,  \* station -> the places it is used from
    Supports,    \* station -> supported_actions
    Capacity,    \* station -> how many may use it at once
    Drives,      \* enabled_drives
    Corrects,    \* drive -> its corrective action
    Activities,  \* timed plan actions (WORK, READ, IDLE ...)
    Menu,        \* agent -> <<act, target>> its controller may choose
    Starts,      \* agent -> <<place, scenario plan>> it may start with
    Duration,    \* bound: ticks an activity or an affordance may last
    MaxActions,  \* bound: a controller chooses no action after this many
    MaxDrifts,   \* bound: meter changes outside affordances
    MaxOutages,  \* bound: changes of a station's availability
    MaxTicks     \* bound: ticks explored

Corrective == {Corrects[d] : d \in Drives}
Zones == {"critical", "between", "recovered"}
Phases == <<"body", "arbitrate", "advance", "correct", "serve", "settle">>

ASSUME PlacesAssumption ==
    /\ RoomOf \in [Places -> STRING]
    /\ Portals \subseteq Places \X Places
    /\ \A s \in Stations :
         /\ Approaches[s] # {} /\ Approaches[s] \subseteq Places
         /\ \A p, q \in Approaches[s] : RoomOf[p] = RoomOf[q]
    /\ \A s, t \in Stations : s # t => Approaches[s] \intersect Approaches[t] = {}
    /\ Capacity \in [Stations -> Nat \ {0}]
ASSUME AgentsAssumption ==
    IsFiniteSet(Agents) /\ Agents # {} /\ Agents = 1..Cardinality(Agents)
ASSUME ActsAssumption ==
    /\ Corrects \in [Drives -> STRING]
    /\ "NAVIGATE" \notin Corrective \union Activities
    /\ Corrective \intersect Activities = {}
ASSUME BoundsAssumption == Duration \in Nat \ {0}

VARIABLES
    character,  \* agent -> the components of the character
    available,  \* the stations whose effective availability is true
    turn,       \* 0 at the start of a tick, then the iteration that is due
    advanced,   \* existing_executions: the characters loop 1 has advanced
    tick,       \* SimulationClock.tick
    drifts,     \* meter changes so far
    outages     \* availability changes so far

vars == <<character, available, turn, advanced, tick, drifts, outages>>

-----------------------------------------------------------------------------
(* Components.                                                             *)

Showing(act) == [current |-> act, before |-> "NONE", override |-> FALSE]
Idle == Showing("IDLE")
Normal == [state |-> "NORMAL", active |-> None, target |-> None, place |-> None,
           correction |-> None, started |-> FALSE]
Nowhere == [status |-> "IDLE", target |-> None, route |-> <<>>]

Newborn(p, zone) ==
    [plan |-> EmptyPlan, story |-> <<>>, at |-> p, nav |-> Nowhere,
     goal |-> None, walking |-> FALSE, activity |-> Idle, drive |-> Normal,
     request |-> None, execution |-> None, zone |-> zone, raised |-> FALSE,
     arrived |-> FALSE]

RequestNavigation(c, s) ==
    [c EXCEPT !.nav = [status |-> "REQUESTED", target |-> s, route |-> <<>>]]

\* A scenario may give a character a plan; a NAVIGATE at its head is requested.
Scripted(c, script) ==
    LET queued ==
          [c EXCEPT
            !.plan.open = script # <<>>,
            !.plan.queue = [i \in DOMAIN script |->
                [id |-> i, act |-> script[i][1], target |-> script[i][2],
                 origin |-> "plan"]],
            !.story = [i \in DOMAIN script |-> <<"queued">>]]
    IN IF script # <<>> /\ Head(script)[1] = "NAVIGATE"
         THEN RequestNavigation(queued, Head(script)[2])
         ELSE queued

Newcomers(a) ==
    {Scripted(Newborn(x[1], [d \in Drives |-> "between"]), x[2]) : x \in Starts[a]}

Init ==
    /\ character \in [Agents -> UNION {Newcomers(a) : a \in Agents}]
    /\ \A a \in Agents : character[a] \in Newcomers(a)
    /\ available = Stations
    /\ turn = 0 /\ advanced = {}
    /\ tick = 0 /\ drifts = 0 /\ outages = 0

-----------------------------------------------------------------------------
(* Navigation and plan execution, orders 85 and 90.                        *)

Moving == {"REQUESTED", "PLANNED", "NAVIGATING"}

SurvivalNavigation(c) ==
    /\ c.plan.current # None
    /\ c.plan.current.origin = "system1" /\ c.plan.current.act = "NAVIGATE"

\* The routes of a planner to a station: through at most one portal.
Routes(p, s) ==
    {<<[kind |-> "move", from |-> p, to |-> q]>> :
        q \in {q \in Approaches[s] : RoomOf[q] = RoomOf[p]}} \union
    {<<[kind |-> "move", from |-> p, to |-> x[1][1]],
       [kind |-> "cross", from |-> x[1][1], to |-> x[1][2]],
       [kind |-> "move", from |-> x[1][2], to |-> x[2]]>> :
        x \in {y \in Portals \X Approaches[s] :
                 /\ RoomOf[y[1][1]] = RoomOf[p] /\ RoomOf[y[2]] # RoomOf[p]
                 /\ RoomOf[y[1][2]] = RoomOf[y[2]]}}

NextAction(c) ==
    IF c.plan.current # None THEN c.plan.current
    ELSE IF c.plan.queue # <<>> THEN Head(c.plan.queue) ELSE None

\* A route is the empty sequence when the service finds none.
PlanNavigation(c, route) ==
    IF \/ NextAction(c) = None \/ c.nav.status # "REQUESTED"
       \/ NextAction(c).act # "NAVIGATE"
    THEN c
    ELSE [c EXCEPT !.nav.route = route,
                   !.nav.status = IF route = <<>> THEN "FAILED" ELSE "PLANNED"]

FailNavigation(c) == FailPlanAction([c EXCEPT !.nav.status = "FAILED"])

PassPrimitive(c) == [c EXCEPT !.nav.route = Tail(@)]

Cross(c, p) ==
    [PassPrimitive(c) EXCEPT !.at = p.to, !.goal = None, !.walking = FALSE]

Arrive(c) == CompletePlanAction([c EXCEPT !.nav.status = "ARRIVED", !.arrived = TRUE])

\* One iteration of the loop over the primitives; it changes nothing when the
\* loop has ended or waits for movement.
NextPrimitive(c, open) ==
    LET p == Head(c.nav.route) IN
    IF c.nav.status # "NAVIGATING" THEN c
    ELSE IF c.nav.route = <<>> THEN Arrive(c)
    ELSE IF p.kind = "cross"
      THEN IF c.at # p.from \/ ~open THEN FailNavigation(c) ELSE Cross(c, p)
    ELSE IF c.at = p.to THEN PassPrimitive(c)
    ELSE IF RoomOf[c.at] # RoomOf[p.to] \/ c.goal \notin {None, p.to}
      THEN FailNavigation(c)
    ELSE IF c.goal = None THEN [c EXCEPT !.goal = p.to, !.walking = FALSE]
    ELSE c

\* Routes have at most three primitives.
FollowRoute(c, open) ==
    NextPrimitive(NextPrimitive(NextPrimitive(NextPrimitive(c, open), open), open), open)

AdvanceNavigation(c, open) ==
    CASE c.nav.status = "FAILED" -> FailPlanAction(c)
      [] c.nav.status \in {"PLANNED", "NAVIGATING"} ->
           FollowRoute([c EXCEPT !.nav.status = "NAVIGATING"], open)
      [] OTHER -> c

StartNavigation(c, open, valid) ==
    LET s == c.plan.current.target
        matching == c.nav.target = s /\ c.nav.status \in {"REQUESTED", "PLANNED", "FAILED"}
        d == IF matching THEN c ELSE RequestNavigation(c, s)
    IN IF ~valid THEN FailPlanAction(c)
       ELSE IF d.nav.status = "REQUESTED" THEN d
       ELSE AdvanceNavigation(d, open)

StartActivity(c, valid) ==
    IF ~valid THEN FailPlanAction(c)
    ELSE [c EXCEPT !.plan.before = c.activity.current,
                   !.plan.timer = Duration,
                   !.activity = Showing(c.plan.current.act)]

\* The station an action uses: its target, or the one the character stands at.
Serving(c) ==
    {s \in Stations :
        /\ c.at \in Approaches[s] /\ c.plan.current.act \in Supports[s]
        /\ c.plan.current.target \in {None, s}}

\* add_component raises when the character still has a request.
StartAffordanceAction(c) ==
    IF Serving(c) = {} THEN FailPlanAction(c)
    ELSE IF c.request # None THEN [c EXCEPT !.raised = TRUE]
    ELSE [c EXCEPT
            !.plan.waiting = "affordance",
            !.request = [station |-> CHOOSE s \in Serving(c) : TRUE,
                         act |-> c.plan.current.act, id |-> c.plan.current.id,
                         status |-> "requested"]]

StartPlanAction(c, open, valid) ==
    LET d == Tell(c, {c.plan.current.id}, "started") IN
    CASE c.plan.current.act = "NAVIGATE" -> StartNavigation(d, open, valid)
      [] c.plan.current.act \in Activities -> StartActivity(d, valid)
      [] OTHER -> StartAffordanceAction(d)

\* Mutant of CheckAffordance: the settled request stays on the character.
CheckAndKeepRequest(c) ==
    CASE c.request # None /\ c.request.status = "failed" -> FailPlanAction(c)
      [] c.request # None /\ c.request.status = "completed" -> CompletePlanAction(c)
      [] c.request = None /\ c.execution = None -> FailPlanAction(c)
      [] OTHER -> c

CheckAffordance(c) ==
    LET d == [c EXCEPT !.request = None] IN
    CASE c.request # None /\ c.request.status = "failed" -> FailPlanAction(d)
      [] c.request # None /\ c.request.status = "completed" -> CompletePlanAction(d)
      [] c.request = None /\ c.execution = None -> FailPlanAction(c)
      [] OTHER -> c

ExecutePlan(c, open, valid) ==
    IF c.drive.state # "NORMAL" /\ ~SurvivalNavigation(c) THEN c
    ELSE IF c.plan.current # None /\ c.plan.current.act = "NAVIGATE"
      THEN AdvanceNavigation(c, open)
    ELSE LET d == IF c.plan.waiting = "affordance" THEN CheckAffordance(c) ELSE c IN
         IF d.plan.current # None \/ d.plan.queue = <<>> THEN d
         ELSE StartPlanAction(TakeNext(d), open, valid)

-----------------------------------------------------------------------------
(* Path finding (100), movement activity (150), homeostasis (160) and      *)
(* timed actions (165).                                                    *)

CompletePath(c) == [c EXCEPT !.goal = None, !.walking = FALSE]

\* A path that is blocked at its first step is planned again.
FindPath(c, found) ==
    IF c.goal = None THEN c
    ELSE IF c.at = c.goal THEN CompletePath(c)
    ELSE [c EXCEPT !.walking = found]

ShowMovement(c) ==
    CASE c.walking /\ ~c.activity.override ->
           [c EXCEPT !.activity = [current |-> "WALKING", before |-> c.activity.current,
                                   override |-> TRUE]]
      [] ~c.walking /\ c.activity.override ->
           [c EXCEPT !.activity =
               Showing(IF c.activity.before = "NONE" THEN "IDLE" ELSE c.activity.before)]
      [] OTHER -> c

Neighbours == {<<"critical", "between">>, <<"between", "critical">>,
               <<"between", "recovered">>, <<"recovered", "between">>}

\* Integration moves a meter across at most one threshold in a tick.
Drifted(c) ==
    IF c.execution # None \/ drifts >= MaxDrifts THEN {c.zone}
    ELSE {c.zone} \union
         {[c.zone EXCEPT ![x[1]] = x[2]] :
             x \in {y \in Drives \X Zones : <<c.zone[y[1]], y[2]>> \in Neighbours}}

\* Mutant of RestoreActivity: an activity outlives its action.
KeepActivity(c, name) == c

RestoreActivity(c, name) ==
    [c EXCEPT !.activity.current = IF name = "NONE" THEN "IDLE" ELSE name]

\* An activity whose target is gone at its end fails.
CountDown(c, valid) ==
    IF \/ c.drive.state # "NORMAL" \/ c.plan.current = None \/ c.plan.timer = 0
    THEN c
    ELSE IF c.plan.timer > 1 THEN [c EXCEPT !.plan.timer = @ - 1]
    ELSE LET d == RestoreActivity(c, c.plan.before) IN
         IF valid THEN CompletePlanAction(d) ELSE FailPlanAction(d)

LiveThrough(c, route, open, valid, found, zone) ==
    LET moved == ShowMovement(FindPath(
                    ExecutePlan(PlanNavigation(c, route), open, valid), found))
    IN CountDown([moved EXCEPT !.zone = zone], valid)

-----------------------------------------------------------------------------
(* Affordance execution: helpers of order 180 that System 1 calls too.     *)

Users(s, a) ==
    {b \in Agents \ {a} : character[b].execution # None /\ character[b].execution.station = s}

\* _restore_activity
RestoreAfter(c) ==
    [RestoreActivity(c, c.execution.before) EXCEPT
        !.activity.before = "NONE", !.activity.override = FALSE, !.execution = None]

CancelAffordance(c) ==
    IF c.execution = None THEN c
    ELSE [RestoreAfter(c) EXCEPT
            !.request = IF c.execution.source = "plan" /\ @ # None
                          THEN [@ EXCEPT !.status = "failed"] ELSE @]

-----------------------------------------------------------------------------
(* System 1 arbitration, order 170.                                        *)

ClearMovement(c) == [c EXCEPT !.goal = None, !.walking = FALSE]
Transition(c, state) == [c EXCEPT !.drive.state = state]
Critical(c) == {d \in Drives : c.zone[d] = "critical"}

\* _clear_plan without its first guard.
DropPlan(c) ==
    LET d == [c EXCEPT !.nav.status = IF @ \in Moving THEN "INTERRUPTED" ELSE @]
    IN [ClearPlanLineage(d) EXCEPT !.activity = IF PlanIdle(c) THEN @ ELSE Idle]

\* Mutant of ClearPlan: the waiting plan survives the preemption.
KeepWaitingPlan(c) ==
    IF SurvivalNavigation(c) \/ c.plan.waiting # "no" THEN c ELSE DropPlan(c)

ClearPlan(c) == IF SurvivalNavigation(c) THEN c ELSE DropPlan(c)

\* A corrective action is queued beside the plan.
NewCorrection(c, d) ==
    [Announce(c) EXCEPT
        !.drive.active = d, !.drive.started = FALSE,
        !.drive.correction = NewAction(c, Corrects[d], None, "system1")]

\* Mutant of ActivateSystem1: the request of the plan is forgotten.
ActivateKeepingRequest(c, d) ==
    LET cleared == CancelAffordance(ClearMovement(ClearPlan(c)))
    IN NewCorrection(Transition([cleared EXCEPT !.activity = Idle], "PREEMPTING"), d)

ActivateSystem1(c, d) ==
    LET cleared == CancelAffordance(ClearMovement(ClearPlan(c)))
    IN NewCorrection(Transition([cleared EXCEPT !.request = None, !.activity = Idle],
                                "PREEMPTING"), d)

\* Mutant of ChangeDrive: the correction of the previous drive is replaced.
ReplaceDrive(c, d) ==
    LET cleared == ClearMovement(CancelAffordance(DropPlan(c)))
    IN NewCorrection([cleared EXCEPT !.request = None, !.drive.target = None,
                                     !.drive.place = None], d)

ChangeDrive(c, d) ==
    LET cancelled == Tell(DropPlan(c), {c.drive.correction.id}, "cancelled")
        cleared == ClearMovement(CancelAffordance(cancelled))
    IN NewCorrection([cleared EXCEPT !.request = None, !.drive.target = None,
                                     !.drive.place = None], d)

ResolveSystem1(c) ==
    [Tell(ClearMovement(c), {c.drive.correction.id}, "completed") EXCEPT !.drive = Normal]

\* Mutant of Reserved: only the characters that use a station count.
ReservedByNobody(s, a) == {}

Reserved(s, a) ==
    {b \in Agents \ {a} : character[b].drive.target = s /\ character[b].execution = None}

Candidates(a, d) ==
    {s \in available :
        /\ Corrects[d] \in Supports[s]
        /\ Cardinality(Users(s, a)) + Cardinality(Reserved(s, a)) < Capacity[s]}

Connected(p, q) ==
    \/ RoomOf[p] = RoomOf[q]
    \/ \E x \in Portals : RoomOf[x[1]] = RoomOf[p] /\ RoomOf[x[2]] = RoomOf[q]

\* _nearest_station: a station the character stands at costs nothing;
\* otherwise any one to which a path or a route is found.
Nearest(a, c) ==
    LET near == Candidates(a, c.drive.active)
        here == {s \in near : c.at \in Approaches[s]}
    IN IF here # {} THEN {<<s, c.at>> : s \in here}
       ELSE {None} \union UNION {
              {<<s, p>> : p \in {q \in Approaches[s] : Connected(c.at, q)}} : s \in near}

\* The part of _ensure_correction_target that takes the station.
AimAt(c, s, p) ==
    IF c.drive.target = s /\ c.drive.place = p THEN c
    ELSE LET d == CancelAffordance(c)
             told == IF c.drive.started THEN d
                     ELSE Tell(d, {c.drive.correction.id}, "started")
         IN [told EXCEPT !.drive.target = s, !.drive.place = p, !.drive.started = TRUE]

\* _ensure_correction_navigation
NavigateToCorrection(c, s) ==
    IF /\ SurvivalNavigation(c) /\ c.plan.current.target = s /\ c.nav.status \in Moving
      THEN Transition(c, "NAVIGATING_TO_CORRECTION")
    ELSE IF c.nav.status = "FAILED" THEN Transition(c, "BLOCKED_SURVIVAL")
    ELSE LET d == QueueAction(ClearMovement(c), "NAVIGATE", s, "system1")
         IN Transition(RequestNavigation(TakeNext(d), s), "NAVIGATING_TO_CORRECTION")

\* _ensure_correction_target for the outcome of _nearest_station.
Pursue(c, nearest) ==
    IF nearest = None
    THEN LET d == ClearMovement(CancelAffordance(c))
         IN Transition([d EXCEPT !.drive.target = None, !.drive.place = None],
                       "BLOCKED_SURVIVAL")
    ELSE LET p == nearest[2]
             d == AimAt(c, nearest[1], p)
         IN IF RoomOf[p] # RoomOf[c.at] THEN NavigateToCorrection(d, nearest[1])
            ELSE IF c.at = p THEN Transition(ClearMovement(d), "EXECUTING_CORRECTION")
            ELSE Transition(IF c.goal = p THEN d
                            ELSE [d EXCEPT !.goal = p, !.walking = FALSE],
                            "NAVIGATING_TO_CORRECTION")

\* What one iteration of update may make of a character.  A drive is selected
\* by severity, which changes from tick to tick: any critical one may win.
Arbitrated(a, c) ==
    LET b == ClearPlan(c)
        pursued(d) == {Pursue(d, x) : x \in Nearest(a, d)}
    IN IF c.drive.state = "NORMAL"
         THEN IF Critical(c) = {} THEN {c}
              ELSE UNION {pursued(ActivateSystem1(c, d)) : d \in Critical(c)}
       ELSE IF Critical(c) # {}
         THEN UNION {pursued(IF d = c.drive.active THEN b ELSE ChangeDrive(b, d)) :
                       d \in Critical(c)}
       ELSE IF c.zone[c.drive.active] # "recovered" THEN pursued(b)
       ELSE {IF c.execution # None THEN b ELSE ResolveSystem1(b)}

-----------------------------------------------------------------------------
(* Affordance execution, order 180.                                        *)

\* _precondition_failure is None, availability apart.
Usable(a, c, s, act) ==
    /\ act \in Supports[s] /\ c.at \in Approaches[s]
    /\ Cardinality(Users(s, a)) < Capacity[s]

\* The meters a corrective action improves; the others keep their zone.
Improved(c, act) ==
    {zone \in [Drives -> Zones] : \A d \in Drives :
        IF Corrects[d] # act THEN zone[d] = c.zone[d]
        ELSE \/ zone[d] = c.zone[d]
             \/ <<c.zone[d], zone[d]>> \in {<<"critical", "between">>,
                  <<"critical", "recovered">>, <<"between", "recovered">>}}

CompleteAffordance(c) ==
    LET d == RestoreAfter(c) IN
    IF c.execution.source = "plan"
      THEN IF c.request = None THEN d ELSE [d EXCEPT !.request.status = "completed"]
    ELSE IF c.drive.active # None /\ c.zone[c.drive.active] = "recovered"
      THEN ResolveSystem1(d)
    ELSE d

Spent(x) == x.left = 0

\* _advance; a station is looked up in the room the character is in.
Advanced(a, c) ==
    LET x == c.execution IN
    IF \A p \in Approaches[x.station] : RoomOf[p] # RoomOf[c.at]
      THEN {[c EXCEPT !.raised = TRUE]}
    ELSE IF ~Usable(a, c, x.station, x.act) THEN {CancelAffordance(c)}
    ELSE {LET d == [c EXCEPT !.zone = zone, !.execution.left = @ - 1]
          IN IF Spent(d.execution) THEN CompleteAffordance(d) ELSE d :
             zone \in Improved(c, x.act)}

\* _start
Occupy(c, s, act, source, id, ticks) ==
    [c EXCEPT !.activity = Showing(act),
              !.execution = [station |-> s, act |-> act, left |-> ticks, source |-> source,
                             before |-> c.activity.current, id |-> id]]

\* The second loop: a correction whose character has arrived.
Corrected(a, c) ==
    LET s == c.drive.target
        act == Corrects[c.drive.active]
    IN IF s \in available /\ Usable(a, c, s, act)
         THEN UNION {Advanced(a, Occupy(c, s, act, "system1", c.drive.correction.id, n)) :
                       n \in 1..Duration}
         ELSE {c}

\* The third loop: the request of a plan.
Served(a, c) ==
    LET r == c.request IN
    IF r.station \in available /\ Usable(a, c, r.station, r.act)
      THEN UNION {Advanced(a, [Occupy(c, r.station, r.act, "plan", r.id, n)
                                 EXCEPT !.request.status = "running"]) : n \in 1..Duration}
      ELSE {[c EXCEPT !.request.status = "failed"]}

-----------------------------------------------------------------------------
(* Movement (200), the recorder of routes (240) and the choice (310).      *)

Moved(c) ==
    IF ~c.walking THEN {c}
    ELSE {[c EXCEPT !.walking = FALSE], CompletePath([c EXCEPT !.at = c.goal])} \union
         {[c EXCEPT !.at = p] :
            p \in {q \in Places : RoomOf[q] = RoomOf[c.at] /\ q # c.goal}}

\* NavigationKnowledgeRecordingSystem reads navigation.arrived only now, and
\* raises when the route of the arrival is no longer in the component.
Learned(c) ==
    [c EXCEPT !.arrived = FALSE,
              !.raised = @ \/ (c.arrived /\ c.nav.status # "ARRIVED")]

Choose(c, choice) ==
    LET d == QueueAction(c, choice[1], choice[2], "plan")
    IN IF choice[1] = "NAVIGATE" THEN RequestNavigation(d, choice[2]) ELSE d

\* A decision commits only to a character without a plan in a normal state.
Decided(a, c) ==
    {c} \union
    {Choose(c, choice) : choice \in {x \in Menu[a] :
        PlanIdle(c) /\ c.drive.state = "NORMAL" /\ ~c.raised /\ Len(c.story) < MaxActions}}

-----------------------------------------------------------------------------
(* The schedule of a tick.                                                 *)

N == Cardinality(Agents)
Turns == 1..(Len(Phases) * N)
PhaseOf(n) == Phases[((n - 1) \div N) + 1]
AgentOf(n) == ((n - 1) % N) + 1

\* A loop passes over the characters that are not due without a change.
Due(cs, done, n) ==
    LET c == cs[AgentOf(n)] IN
    CASE PhaseOf(n) = "advance" -> c.execution # None
      [] PhaseOf(n) = "correct" ->
           /\ AgentOf(n) \notin done
           /\ c.drive.state = "EXECUTING_CORRECTION" /\ c.execution = None
      [] PhaseOf(n) = "serve" ->
           c.request # None /\ c.request.status = "requested" /\ c.execution = None
      [] OTHER -> TRUE

\* The next iteration that is due, 0 after the last one.
NextTurn(cs, done) ==
    LET later == {n \in Turns : n > turn /\ Due(cs, done, n)}
    IN IF later = {} THEN 0 ELSE CHOOSE n \in later : \A m \in later : n <= m

Raised == \E a \in Agents : character[a].raised

\* One iteration turns the character that is due into one of `outcomes'.
Iterate(phase, outcomes(_, _)) ==
    LET a == AgentOf(turn) IN
    /\ turn # 0 /\ PhaseOf(turn) = phase /\ ~Raised
    /\ \E c \in outcomes(a, character[a]) :
         /\ character' = [character EXCEPT ![a] = c]
         /\ advanced' = IF phase = "advance" THEN advanced \union {a} ELSE advanced
         /\ turn' = NextTurn(character', advanced')

RoutesOf(c) ==
    {<<>>} \union (IF c.nav.target = None THEN {} ELSE Routes(c.at, c.nav.target))

Lived(a, c) ==
    {LiveThrough(c, x[1], x[2], x[3], x[4], x[5]) :
        x \in RoutesOf(c) \X BOOLEAN \X BOOLEAN \X BOOLEAN \X Drifted(c)}

Settled(a, c) == UNION {Decided(a, Learned(d)) : d \in Moved(c)}

\* The environment systems at the start of a tick may flip one availability.
BeginTick ==
    /\ turn = 0 /\ tick < MaxTicks /\ ~Raised
    /\ \/ available' = available /\ outages' = outages
       \/ /\ outages < MaxOutages /\ outages' = outages + 1
          /\ \E s \in Stations :
               available' = IF s \in available THEN available \ {s} ELSE available \union {s}
    /\ turn' = 1 /\ advanced' = {}
    /\ tick' = tick + 1
    /\ UNCHANGED <<character, drifts>>

Live ==
    /\ Iterate("body", Lived)
    /\ drifts' = IF character'[AgentOf(turn)].zone = character[AgentOf(turn)].zone
                   THEN drifts ELSE drifts + 1
    /\ UNCHANGED <<available, tick, outages>>

Arbitrate == Iterate("arbitrate", Arbitrated) /\ UNCHANGED <<available, tick, drifts, outages>>
Advance == Iterate("advance", Advanced) /\ UNCHANGED <<available, tick, drifts, outages>>
Correct == Iterate("correct", Corrected) /\ UNCHANGED <<available, tick, drifts, outages>>
Serve == Iterate("serve", Served) /\ UNCHANGED <<available, tick, drifts, outages>>
Settle == Iterate("settle", Settled) /\ UNCHANGED <<available, tick, drifts, outages>>

Next == BeginTick \/ Live \/ Arbitrate \/ Advance \/ Correct \/ Serve \/ Settle

Spec == Init /\ [][Next]_vars

-----------------------------------------------------------------------------
(* Properties.                                                             *)

LiveIds(c) ==
    CurrentIds(c) \union QueuedIds(c) \union
    (IF c.drive.correction = None THEN {} ELSE {c.drive.correction.id})
Ends(c, id) == {n \in DOMAIN c.story[id] : c.story[id][n] \in Terminal}

Acts == {"NAVIGATE"} \union Corrective \union Activities
Shown == Acts \union {"IDLE", "WALKING", "NONE"}
Targets == Stations \union {None}

Actions == [id: Nat, act: Acts, target: Targets, origin: {"plan", "system1"}]
Plans ==
    [open: BOOLEAN, queue: Seq(Actions), current: Actions \union {None},
     timer: 0..Duration, before: Shown, waiting: {"no", "affordance"}]
Statuses == Moving \union {"IDLE", "ARRIVED", "FAILED", "INTERRUPTED"}
Primitives == [kind: {"move", "cross"}, from: Places, to: Places]
Navigations == [status: Statuses, target: Targets, route: Seq(Primitives)]
Shows == [current: Shown, before: Shown, override: BOOLEAN]
DriveStates ==
    {"NORMAL", "PREEMPTING", "NAVIGATING_TO_CORRECTION", "EXECUTING_CORRECTION",
     "BLOCKED_SURVIVAL"}
Controls ==
    [state: DriveStates, active: Drives \union {None}, target: Targets,
     place: Places \union {None}, correction: Actions \union {None}, started: BOOLEAN]
Requests ==
    [station: Stations, act: Corrective, id: Nat,
     status: {"requested", "running", "failed", "completed"}]
Executions ==
    [station: Stations, act: Corrective, left: 1..Duration, source: {"plan", "system1"},
     before: Shown, id: Nat]
Characters ==
    [plan: Plans, story: Seq(Seq(Events)), at: Places, nav: Navigations,
     goal: Places \union {None}, walking: BOOLEAN, activity: Shows, drive: Controls,
     request: Requests \union {None}, execution: Executions \union {None},
     zone: [Drives -> Zones], raised: BOOLEAN, arrived: BOOLEAN]

\* Python's None is neither an entity nor a component.
ASSUME NoneAssumption ==
    None \notin Places \union Stations \union Drives \union Actions \union Requests
                \union Executions

\* What controllers choose and scenarios plan are actions with their targets.
ASSUME ScriptsAssumption ==
    \A a \in Agents :
        /\ Menu[a] \subseteq Acts \X Targets
        /\ Starts[a] \subseteq Places \X Seq(Acts \X Targets)

\* Every component has the type its dataclass declares, and refers to actions
\* of its character.
CharacterTypeOK ==
    /\ character \in [Agents -> Characters]
    /\ \A a \in Agents : LiveIds(character[a]) \subseteq DOMAIN character[a].story
    /\ available \subseteq Stations
    /\ turn \in Turns \union {0} /\ advanced \subseteq Agents

\* emit_action_lifecycle: an action gets at most one of action.completed,
\* action.failed and action.cancelled, and none while it is in a plan or is
\* the correction of a drive, however failing, clearing and resolving combine.
EndedOnce ==
    \A a \in Agents : \A id \in DOMAIN character[a].story :
        /\ Cardinality(Ends(character[a], id)) <= 1
        /\ id \in LiveIds(character[a]) => Ends(character[a], id) = {}

\* lineage.py, plans.py, system1.py: an action leaves a plan or a drive with a
\* terminal event, except the NAVIGATE of System 1 that a later one replaces.
NoActionVanishes ==
    [][\A a \in Agents : \A id \in LiveIds(character[a]) :
         \/ id \in LiveIds(character'[a])
         \/ Ends(character'[a], id) # {}
         \/ SurvivalNavigation(character[a]) /\ id = character[a].plan.current.id]_vars

\* PlanComponent.waiting_for_affordance, AffordanceRequestComponent and
\* AffordanceExecutionComponent, written by three systems, describe the same
\* action: a plan waits for exactly the request that is there, and the request
\* runs exactly while an execution of the plan does.
WaitingHasWork ==
    \A a \in Agents : LET c == character[a] IN
        /\ c.plan.waiting = "affordance" <=> c.request # None
        /\ c.request # None => c.plan.current # None /\ c.request.id = c.plan.current.id
        /\ (c.request # None /\ c.request.status = "running")
             <=> (c.execution # None /\ c.execution.source = "plan")
        /\ c.request # None /\ c.execution # None => c.execution.id = c.request.id

\* affordances.py: plans and corrections together never overbook a station.
StationsNeverOverbooked ==
    \A s \in Stations :
        Cardinality({a \in Agents : character[a].execution # None
                                    /\ character[a].execution.station = s}) <= Capacity[s]

\* system1.py: System 1 never sends more characters to a station than it holds,
\* although each of them chooses alone and chooses again on every tick.
TargetsNeverOverbooked ==
    \A s \in Stations :
        Cardinality({a \in Agents : character[a].drive.target = s}) <= Capacity[s]

\* Neither those who use a station nor those on their way to it are more than
\* it holds (affordances.py and system1.py).
NoDoubleBooking == StationsNeverOverbooked /\ TargetsNeverOverbooked

\* Outside the normal state System 1 owns the character: nothing of the plan it
\* preempted is left, and what runs is its own correction at its own target.
SurvivalOwnsTheBody ==
    \A a \in Agents : LET c == character[a] IN
        c.drive.state # "NORMAL" =>
            /\ c.request = None /\ c.plan.queue = <<>>
            /\ c.plan.current = None \/ SurvivalNavigation(c)
            /\ c.execution # None =>
                 /\ c.execution.source = "system1"
                 /\ c.execution.station = c.drive.target
                 /\ c.execution.id = c.drive.correction.id

\* ActivityComponent.current, saved and restored by four systems: an activity
\* other than IDLE and WALKING belongs to the timed action or the affordance
\* that is running.
ActivityHasCause ==
    \A a \in Agents : LET c == character[a] IN
        \/ c.activity.current \in {"IDLE", "WALKING"}
        \/ c.plan.timer > 0 /\ c.activity.current = c.plan.current.act
        \/ c.execution # None /\ c.activity.current = c.execution.act

\* No add_component meets a component that is already there, no execution is
\* advanced in a room without its station, and no arrival is recorded without
\* its route: each would abort the tick.
TicksNeverRaise == ~Raised

-----------------------------------------------------------------------------
(* The strengthening the proofs need.                                      *)

Calm == {"IDLE", "WALKING"}

\* The live actions of a character are all different.
Distinct(c) ==
    /\ \A i, j \in DOMAIN c.plan.queue : c.plan.queue[i].id = c.plan.queue[j].id => i = j
    /\ CurrentIds(c) \intersect QueuedIds(c) = {}
    /\ c.drive.correction # None =>
         c.drive.correction.id \notin CurrentIds(c) \union QueuedIds(c)

\* None of them has ended, and the others have ended once.
LifeSound(c) ==
    /\ Distinct(c)
    /\ LiveIds(c) \subseteq DOMAIN c.story
    /\ \A id \in DOMAIN c.story : Cardinality(Ends(c, id)) <= 1
    /\ \A id \in LiveIds(c) : Ends(c, id) = {}

\* A plan waits for one thing: an affordance or the timer of an activity.
PlanSound(c) ==
    /\ c.plan.current = None => c.plan.waiting = "no" /\ c.plan.timer = 0
    /\ c.plan.waiting = "affordance" => c.plan.current.act \in Corrective
    /\ c.plan.timer > 0 =>
         /\ c.plan.waiting = "no" /\ c.plan.current.act \in Activities
         /\ c.plan.before \in Calm \union {"NONE"}
    /\ \A i \in DOMAIN c.plan.queue : c.plan.queue[i].origin = "plan"
    /\ SurvivalNavigation(c) => c.plan.queue = <<>>

\* The plan, its request and the execution are those of one action.
RequestSound(c) ==
    /\ c.plan.waiting = "affordance" <=> c.request # None
    /\ c.request # None => c.request.id = c.plan.current.id
    /\ (c.request # None /\ c.request.status = "running")
         <=> (c.execution # None /\ c.execution.source = "plan")
    /\ c.execution # None /\ c.execution.source = "plan" => c.execution.id = c.request.id

\* System 1 has a drive to correct or leaves the body alone.
DriveSound(c) ==
    /\ c.drive.state = "NORMAL" =>
         /\ c.drive.active = None /\ c.drive.target = None /\ c.drive.correction = None
         /\ c.execution # None => c.execution.source = "plan"
    /\ c.drive.state # "NORMAL" =>
         /\ c.drive.active # None /\ c.drive.correction # None
         /\ c.request = None /\ c.plan.queue = <<>>
         /\ c.plan.current = None \/ SurvivalNavigation(c)
         /\ c.execution # None =>
              /\ c.execution.source = "system1"
              /\ c.execution.station = c.drive.target
              /\ c.execution.id = c.drive.correction.id

\* A body walks to a goal of its room; in the normal state the goal is that of
\* its route.
MoveSound(c) ==
    /\ c.walking => c.goal # None
    /\ c.goal # None => c.at # c.goal /\ RoomOf[c.at] = RoomOf[c.goal]
    /\ c.drive.state = "NORMAL" /\ c.goal # None =>
         /\ c.plan.current # None /\ c.plan.current.act = "NAVIGATE"
         /\ c.nav.status = "NAVIGATING" /\ c.nav.route # <<>>
         /\ Head(c.nav.route).kind = "move" /\ Head(c.nav.route).to = c.goal

\* The activity that is shown and those that are to be restored have a cause.
ActivitySound(c) ==
    /\ \/ c.activity.current \in Calm
       \/ c.plan.timer > 0 /\ c.activity.current = c.plan.current.act
       \/ c.execution # None /\ c.activity.current = c.execution.act
    /\ c.activity.override =>
         /\ c.plan.timer = 0
         /\ \/ c.activity.before \in Calm \union {"NONE"}
            \/ c.execution # None /\ c.activity.before = c.execution.act
    /\ c.execution # None => c.execution.before \in Calm

Sound(c) ==
    /\ c \in Characters
    /\ LifeSound(c) /\ PlanSound(c) /\ RequestSound(c) /\ DriveSound(c)
    /\ MoveSound(c) /\ ActivitySound(c)

\* The iteration that is due is due for a reason.
Scheduled ==
    /\ available \subseteq Stations /\ advanced \subseteq Agents
    /\ turn \in Turns \union {0}
    /\ turn # 0 => Due(character, advanced, turn)

BodiesInvariant ==
    /\ character = [a \in Agents |-> character[a]]
    /\ \A a \in Agents : Sound(character[a])
    /\ Scheduled
    /\ NoDoubleBooking
=============================================================================
