--------------------------- MODULE EngagementWork ---------------------------
(***************************************************************************)
(* The second half of the cognition barrier: the EngagementWorkCoordinator *)
(* compiles the ENGAGE actions the decisions of the tick committed, behind *)
(* the same frozen clock, and the plan and engagement systems run or drop  *)
(* the compiled programs on later ticks.                                   *)
(*                                                                         *)
(* An engagement is identified by the decision that asked for it, so its   *)
(* work is that decision's request.                                        *)
(***************************************************************************)
EXTENDS AgentWork

CONSTANTS
    NoAction,          \* the plan holds no ENGAGE action
    NoEngagement,      \* the agent has no engagement component
    MaxCompilers,      \* worker threads of the compiler's executor
    MaxCompilations,   \* request budget of the compiler
    Verdicts           \* what a compiler may answer, a subset of AllVerdicts

AllVerdicts == {"compiled", "refused", "error"} \union Faults

ASSUME CompilerAssumption ==
    /\ MaxCompilers \in Nat \ {0} /\ MaxCompilations \in Nat
    /\ Verdicts \subseteq AllVerdicts

VARIABLES
    action,        \* agent -> the ENGAGE action of its plan, or NoAction
    engagement,    \* agent -> its engagement component, or NoEngagement
    compilers,     \* the compiler coordinator's queue, futures and workers
    compiling,     \* task -> "no", "wait" or "install"
    compiled,      \* task -> the compile drain's list of completed work
    compilations,  \* EngagementWorkCoordinator.request_count
    refusing,      \* _stopped or _closed: submit fails at once
    outcomes,      \* history: compilation events, [work, verdict]
    mislaid        \* history: works dropped when the compile drain raised

compilerVars == <<compilers, compiling, compiled, compilations,
                  refusing, outcomes, mislaid>>
engagementVars == <<action, engagement, compilerVars>>
allVars == <<vars, engagementVars>>

Phases == {"pending", "program", "running", "over"}
EngagementOf == [work: Request, phase: Phases]
Outcome == {"compiled", "failed", "cancelled", "unavailable"}
ActionOf == [work: Request, started: BOOLEAN]

ASSUME NothingAssumption == NoAction \notin ActionOf /\ NoEngagement \notin EngagementOf

EngagementTypeOK ==
    /\ TypeOK
    /\ action \in [Agents -> ActionOf \union {NoAction}]
    /\ engagement \in [Agents -> EngagementOf \union {NoEngagement}]
    /\ compilers \in PoolOf(Request, Verdicts)
    /\ compiling \in [Tasks -> {"no", "wait", "install"}]
    /\ compiled \in [Tasks -> SUBSET [request: Request, result: Verdicts \union {"timeout"}]]
    /\ compilations \in Nat
    /\ refusing \in BOOLEAN
    /\ outcomes \in SUBSET [work: Request, verdict: Outcome]
    /\ mislaid \in SUBSET Request

NoEngagementYet ==
    /\ NoWorkYet
    /\ action = [a \in Agents |-> NoAction]
    /\ engagement = [a \in Agents |-> NoEngagement]
    /\ compilers = EmptyPool
    /\ compiling = [t \in Tasks |-> "no"]
    /\ compiled = [t \in Tasks |-> {}]
    /\ compilations = 0
    /\ refusing = FALSE
    /\ outcomes = {}
    /\ mislaid = {}

-----------------------------------------------------------------------------
(* The systems of a tick, for agents whose plan holds an ENGAGE action.    *)

HasProgram(a) ==
    /\ engagement[a] # NoEngagement
    /\ engagement[a].phase = "program"
    /\ engagement[a].work = action[a].work

\* PlanExecutionSystem starts a queued ENGAGE only with its own program, and
\* ends a started one when its execution is over or gone.
PlanEnds(a) ==
    IF action[a].started
    THEN engagement[a] = NoEngagement \/ engagement[a].phase = "over"
    ELSE ~HasProgram(a)

BeginEngagedTick(t) ==
    /\ BeginTick(t)
    /\ \A a \in Agents : action[a] # NoAction /\ drive'[a] = "normal" =>
           ("plan" \notin occupied'[a] <=> PlanEnds(a))
    /\ action' = [a \in Agents |->
           IF action[a] = NoAction \/ "plan" \notin occupied'[a]
           THEN NoAction ELSE [action[a] EXCEPT !.started = TRUE]]
    /\ \E e \in [Agents -> {"running", "over"}] :
           engagement' = [a \in Agents |->
               IF action'[a] = NoAction THEN NoEngagement
               ELSE [engagement[a] EXCEPT !.phase = e[a]]]
    /\ UNCHANGED compilerVars

-----------------------------------------------------------------------------
(* EngagementWorkCoordinator.submit, from AgentWorkCoordinator._commit.    *)

Queued(r) == [work |-> r, started |-> FALSE]
Report(r, verdict) == outcomes' = outcomes \union {[work |-> r, verdict |-> verdict]}

\* fail_uncompiled_engagement and _fail: the agent's engagement components
\* go, and the plan is cleared when it holds this very action.

DropEngagement(r) == engagement' = [engagement EXCEPT ![r.agent] = NoEngagement]
Holds(a, r) == action[a] # NoAction /\ action[a].work = r

CommitOther(t) ==
    /\ \E i \in collected[t] :
           Fail(t, i) \/ Reject(t, i) \/ (i.result # "engage" /\ Commit(t, i))
    /\ UNCHANGED engagementVars

CommitAndSubmit(t) ==
    \E i \in collected[t] :
        /\ i.result = "engage"
        /\ Commit(t, i)
        /\ ~refusing
        /\ compilations < MaxCompilations
        /\ engagement[i.request.agent] = NoEngagement
        /\ action' = [action EXCEPT ![i.request.agent] = Queued(i.request)]
        /\ engagement' = [engagement EXCEPT ![i.request.agent] =
               [work |-> i.request, phase |-> "pending"]]
        /\ compilers' = Enqueue(compilers, i.request)
        /\ compilations' = compilations + 1
        /\ UNCHANGED <<compiling, compiled, refusing, outcomes, mislaid>>

\* The coordinator is closed, out of budget or busy with this agent: the
\* committed ENGAGE action fails in the same call.
CommitUnavailable(t) ==
    \E i \in collected[t] :
        LET a == i.request.agent
        IN  /\ i.result = "engage"
            /\ Applying(t, i)
            /\ Fresh(i.request)
            /\ ~Conflicting(i.request, "engage")
            /\ refusing \/ compilations >= MaxCompilations \/ engagement[a] # NoEngagement
            /\ controller' = [controller EXCEPT ![a] = Revised(Freed(@))]
            /\ SettleAs(i.request, "committed")
            /\ tokens' = tokens + 1
            /\ Report(i.request, "unavailable")
            /\ DropEngagement(i.request)
            /\ UNCHANGED <<occupied, action, compilers, compiling, compiled, compilations,
                           refusing, mislaid>>

-----------------------------------------------------------------------------
(* EngagementWorkCoordinator.drain_and_wait.                               *)

\* advance_one_tick drains the compiler when it has work and no stop came.
StartCompile(t) ==
    /\ loop = t
    /\ stage[t] = "after"
    /\ compiling[t] = "no"
    /\ Outstanding(compilers) # {}
    /\ status # "stopped"
    /\ compiling' = [compiling EXCEPT ![t] = "wait"]
    /\ compilers' = Dispatch(compilers)
    /\ UNCHANGED <<vars, action, engagement, compiled, compilations,
                   refusing, outcomes, mislaid>>

CanPollCompiler(t) == compiling[t] = "wait" /\ loop \in {t, Free}

tickUnchanged == UNCHANGED <<status, clock, visit, worldVars, workVars>>

PollCompiler(t) ==
    LET ready == Ready(compilers)
        works == {x[1] : x \in ready}
        left == compilers.pending \ works
    IN  /\ CanPollCompiler(t)
        /\ \A x \in ready : x[2] # "raise"
        /\ compilers' = Take(compilers, works)
        /\ compiled' = [compiled EXCEPT ![t] = @ \union
               {[request |-> x[1], result |-> x[2]] : x \in ready}]
        /\ compiling' = [compiling EXCEPT ![t] = IF left = {} THEN "install" ELSE "wait"]
        /\ loop' = IF left = {} THEN t ELSE Free
        /\ tickUnchanged
        /\ UNCHANGED <<stage, action, engagement, compilations, refusing,
                       outcomes, mislaid>>

PollCompilerRaises(t) ==
    /\ CanPollCompiler(t)
    /\ \E x \in Ready(compilers) :
        /\ x[2] = "raise"
        /\ \A y \in Ready(compilers) : y[2] = "raise" /\ y # x => Precedes(x[1], y[1])
        /\ LET taken == {x[1]} \union
                   {y[1] : y \in {z \in Ready(compilers) : Precedes(z[1], x[1])}}
           IN  /\ compilers' = Take(compilers, taken)
               /\ mislaid' = mislaid \union taken
                      \union {i.request : i \in compiled[t]}
    /\ compiled' = [compiled EXCEPT ![t] = {}]
    /\ compiling' = [compiling EXCEPT ![t] = "no"]
    /\ stage' = [stage EXCEPT ![t] = "idle"]
    /\ loop' = Free
    /\ tickUnchanged
    /\ UNCHANGED <<action, engagement, compilations, refusing, outcomes>>

-----------------------------------------------------------------------------
(* EngagementWorkCoordinator._apply, in the order of the stable work key.  *)
(* Its test of _cancelled_engagement_ids is left out: an id gets there only *)
(* together with _stopped, and a stopped drain applies nothing.            *)

Installing(t, i) ==
    /\ loop = t
    /\ compiling[t] = "install"
    /\ ~refusing
    /\ i \in compiled[t]
    /\ \A j \in compiled[t] \ {i} : Precedes(i.request, j.request)
    /\ compiled' = [compiled EXCEPT ![t] = @ \ {i}]
    /\ UNCHANGED <<status, clock, loop, stage, visit, controller, drive, workVars,
                   compilers, compiling, compilations, refusing, mislaid>>

\* _freshness_failure of the compiler: the agent, its revision, its plan and
\* its pending component are still those of the submission.
StillWanted(r) ==
    /\ controller[r.agent].rev = r.rev + 1
    /\ ~controller[r.agent].pending
    /\ drive[r.agent] = "normal"
    /\ Holds(r.agent, r)
    /\ engagement[r.agent] = [work |-> r, phase |-> "pending"]

Install(t, i) ==
    /\ Installing(t, i)
    /\ i.result = "compiled"
    /\ StillWanted(i.request)
    /\ engagement' = [engagement EXCEPT ![i.request.agent].phase = "program"]
    /\ Report(i.request, "compiled")
    /\ UNCHANGED <<action, occupied>>

FailCompilation(t, i) ==
    /\ Installing(t, i)
    /\ i.result # "compiled" \/ ~StillWanted(i.request)
    /\ DropEngagement(i.request)
    /\ Report(i.request, "failed")
    /\ IF Holds(i.request.agent, i.request)
       THEN /\ action' = [action EXCEPT ![i.request.agent] = NoAction]
            /\ occupied' = [occupied EXCEPT ![i.request.agent] = @ \ {"plan"}]
       ELSE UNCHANGED <<action, occupied>>

InstallNext(t) ==
    \/ \E i \in compiled[t] : Install(t, i) \/ FailCompilation(t, i)
    \/ /\ loop = t /\ compiling[t] = "install" /\ refusing /\ compiled[t] # {}
       /\ compiled' = [compiled EXCEPT ![t] = {}]
       /\ UNCHANGED <<vars, action, engagement, compilers, compiling, compilations,
                      refusing, outcomes, mislaid>>

-----------------------------------------------------------------------------
(* Stopping: cancel_all, then _prepare_stop.                               *)

\* Mutant of CancelledAgents: the pending components are forgotten.
NoCancelledAgents == {}

\* The agents whose queued or pending compilation is cancelled.
CancelledAgents == {r.agent : r \in Outstanding(compilers)}

\* Mutant of ClearEngagePlans: the plans are left alone.
KeepEngagePlans(S) == UNCHANGED <<action, occupied>>

\* The plan of an agent in S that holds an ENGAGE action is cleared.
ClearEngagePlans(S) ==
    LET cleared == {a \in S : action[a] # NoAction}
    IN  /\ action' = [a \in Agents |-> IF a \in cleared THEN NoAction ELSE action[a]]
        /\ occupied' = [a \in Agents |->
               IF a \in cleared THEN occupied[a] \ {"plan"} ELSE occupied[a]]

\* Mutant of CancelOutstanding: the coordinator is not marked as stopped.
CancelUnmarked ==
    /\ compilers' = Abandon(compilers)
    /\ outcomes' = outcomes \union
           {[work |-> r, verdict |-> "cancelled"] : r \in Outstanding(compilers)}
    /\ UNCHANGED refusing

\* Every queued or pending compilation is cancelled and later ones refused.
CancelOutstanding ==
    /\ compilers' = Abandon(compilers)
    /\ outcomes' = outcomes \union
           {[work |-> r, verdict |-> "cancelled"] : r \in Outstanding(compilers)}
    /\ refusing' = TRUE

\* EngagementWorkCoordinator.cancel_all.  _cancel_action clears the plan only
\* when it still holds the action of the cancelled work.
CancelCompilations ==
    /\ CancelOutstanding
    /\ engagement' = [a \in Agents |->
           IF a \in CancelledAgents THEN NoEngagement ELSE engagement[a]]
    /\ ClearEngagePlans({a \in Agents : \E r \in Outstanding(compilers) : Holds(a, r)})

\* _prepare_stop at a tick boundary: every agent with an engagement component
\* loses it, and its plan when that holds an ENGAGE action.
StopEngagements ==
    /\ CancelOutstanding
    /\ engagement' = [a \in Agents |-> NoEngagement]
    /\ ClearEngagePlans({a \in Agents : engagement[a] # NoEngagement})

-----------------------------------------------------------------------------
(* Worker threads and the wall clock.                                      *)

compilersOnly ==
    UNCHANGED <<vars, action, engagement, compiling, compiled, compilations, refusing,
                outcomes, mislaid>>

CompilerStarts ==
    /\ \E r \in compilers.pending :
        /\ CanStart(compilers, r, MaxCompilers)
        /\ compilers' = StartWork(compilers, r)
    /\ compilersOnly

CompilerFinishes ==
    /\ \E r \in compilers.running, answer \in Verdicts :
           compilers' = Finish(compilers, r, answer)
    /\ compilersOnly

CompilerDeadline ==
    /\ \E r \in compilers.pending \ compilers.expired : compilers' = Expire(compilers, r)
    /\ compilersOnly

-----------------------------------------------------------------------------
(* Properties of the engagement half of the barrier.                       *)

InCompileDrains == UNION {{i.request : i \in compiled[t]} : t \in Tasks}

\* An agent's engagement component and the ENGAGE action of its plan agree:
\* no component survives its action, and a program is never run for another.
EngagementHasAction ==
    \A a \in Agents : engagement[a] # NoEngagement =>
        /\ action[a] # NoAction
        /\ action[a].work = engagement[a].work
        /\ "plan" \in occupied[a]
        /\ engagement[a].phase \in {"running", "over"} => action[a].started

\* A pending engagement is being compiled: its work is queued, in flight, in
\* a drain's hands, or was dropped by a drain that raised.  (From a stop on
\* the components are removed at the end of the tick: see FinalisedIsClean.)
PendingEngagementHasWork ==
    \A a \in Agents :
        engagement[a] # NoEngagement /\ engagement[a].phase = "pending" =>
            \/ engagement[a].work \in Outstanding(compilers) \union InCompileDrains
                                      \union mislaid
            \/ refusing

\* An engagement component always has its action, and while it is pending also
\* somebody who compiles it (application/engagements/coordinator.py).
EngagementFollowsAction == EngagementHasAction /\ PendingEngagementHasWork

\* Why it lasts: an ENGAGE action was asked for by the agent that holds it and
\* occupies its plan, and an agent in a survival drive has no plan to run.
PlansAreOwn ==
    \A a \in Agents :
        /\ action[a] # NoAction => action[a].work.agent = a /\ "plan" \in occupied[a]
        /\ drive[a] = "critical" => "plan" \notin occupied[a]

=============================================================================
