--------------------------- MODULE SimulationRun ----------------------------
(***************************************************************************)
(* One simulation run: SimulationRunner with its two work coordinators and *)
(* the memory queue, the realtime loop, and the operator's calls through   *)
(* SimulationManager.  Every call of the operator is one coroutine that    *)
(* runs while no tick holds the event loop.                                *)
(***************************************************************************)
EXTENDS EngagementWork

CONSTANTS
    Realtime,     \* the task of run_realtime; the other tasks serve /step
    Remembering,  \* the agents that have a MemoryComponent
    Calls,        \* bound: the calls explored of pause, resume and checkpoint
    NoSnapshot    \* no checkpoint was taken yet

ASSUME RunAssumption ==
    /\ Realtime \in Tasks
    /\ Remembering \subseteq Agents
    /\ Calls \subseteq {"pause", "resume", "checkpoint"}

VARIABLES
    phase,          \* CognitionPhase
    advancing,      \* SimulationRunner._advancing
    stopRequested,  \* SimulationRunner._stop_requested
    finalised,      \* simulation.stopped was emitted, capture is final
    alive,          \* the realtime task exists and is not done
    memory,         \* the agents with work in MemoryWorkCoordinator's queue
    alarmed,        \* the agents with a survival event in the current tick
    snapshot,       \* what the last checkpoint holds
    overlapped      \* history: a tick began while another one had not ended

runVars == <<phase, advancing, stopRequested, finalised, alive, memory, alarmed,
             snapshot, overlapped>>
everything == <<allVars, runVars>>

RunTypeOK ==
    /\ EngagementTypeOK
    /\ phase \in {"idle", "waiting", "applying"}
    /\ advancing \in BOOLEAN
    /\ stopRequested \in BOOLEAN
    /\ finalised \in BOOLEAN
    /\ alive \in BOOLEAN
    /\ memory \in SUBSET Agents
    /\ alarmed \in SUBSET Agents
    /\ snapshot \in [waiting: SUBSET Agents, memory: SUBSET Agents] \union {NoSnapshot}
    /\ overlapped \in BOOLEAN

\* start_run leaves the run running, with or without a realtime loop;
\* restore_checkpoint leaves it paused.
RunInit ==
    /\ status \in {"running", "paused"}
    /\ NoEngagementYet
    /\ phase = "idle"
    /\ advancing = FALSE
    /\ stopRequested = FALSE
    /\ finalised = FALSE
    /\ alive \in (IF status = "paused" THEN {FALSE} ELSE BOOLEAN)
    /\ memory = {}
    /\ alarmed = {}
    /\ snapshot = NoSnapshot
    /\ overlapped = FALSE

-----------------------------------------------------------------------------
(* SimulationRunner.advance_one_tick.                                      *)

\* run_realtime advances a running simulation, manager.step any other that
\* is not stopped.  Neither is refused because another tick is advancing.
MayAdvance(t) ==
    IF t = Realtime THEN alive /\ status = "running" ELSE status = "paused"

RunBegin(t) ==
    /\ MayAdvance(t)
    /\ BeginEngagedTick(t)
    /\ advancing' = TRUE
    /\ overlapped' = (overlapped \/ advancing)
    /\ alarmed' = {a \in Agents : drive'[a] # drive[a]}
    /\ \E remembered \in SUBSET Remembering : memory' = memory \union remembered
    /\ UNCHANGED <<phase, stopRequested, finalised, alive, snapshot>>

RunEvaluate(t) == Evaluate(t) /\ UNCHANGED <<engagementVars, runVars>>

HasBarrierWork ==
    memory # {} \/ Outstanding(pool) # {} \/ Outstanding(compilers) # {}

\* The memory queue is drained first: the works of an agent that is not
\* NORMAL, or had a survival event this tick, stay queued.
RunStartDrain(t) ==
    /\ StartDrain(t)
    /\ phase' = IF HasBarrierWork THEN "waiting" ELSE phase
    /\ memory' = IF stopRequested THEN memory
                 ELSE {a \in memory : drive[a] # "normal" \/ a \in alarmed}
    /\ alarmed' = {}
    /\ UNCHANGED <<engagementVars, advancing, stopRequested, finalised, alive, snapshot,
                   overlapped>>

\* on_applying is called when the drain ends with something to apply.
RunPoll(t) ==
    /\ Poll(t)
    /\ phase' = IF stage'[t] = "apply" /\ collected'[t] # {} THEN "applying" ELSE phase
    /\ UNCHANGED <<engagementVars, advancing, stopRequested, finalised, alive, memory,
                   alarmed, snapshot, overlapped>>

\* The finally clause of advance_one_tick; an error ends a realtime task.
Unwound(t) ==
    /\ advancing' = FALSE
    /\ phase' = "idle"
    /\ alive' = (alive /\ t # Realtime)
    /\ UNCHANGED <<stopRequested, finalised, memory, alarmed, snapshot, overlapped>>

RunPollRaises(t) == PollRaises(t) /\ Unwound(t) /\ UNCHANGED engagementVars

RunApply(t) ==
    /\ CommitOther(t) \/ CommitAndSubmit(t) \/ CommitUnavailable(t)
    /\ UNCHANGED runVars

RunFinishDrain(t) == FinishDrain(t) /\ UNCHANGED <<engagementVars, runVars>>

RunStartCompile(t) ==
    /\ StartCompile(t)
    /\ ~stopRequested
    /\ phase' = "waiting"
    /\ UNCHANGED <<advancing, stopRequested, finalised, alive, memory, alarmed, snapshot,
                   overlapped>>

RunPollCompiler(t) ==
    /\ PollCompiler(t)
    /\ phase' = IF compiling'[t] = "install" /\ compiled'[t] # {} /\ ~refusing
                THEN "applying" ELSE phase
    /\ UNCHANGED <<advancing, stopRequested, finalised, alive, memory, alarmed, snapshot,
                   overlapped>>

RunPollCompilerRaises(t) == PollCompilerRaises(t) /\ Unwound(t)

RunInstall(t) == InstallNext(t) /\ UNCHANGED runVars

\* Nothing is left for the compile drain of this tick.
CompileDone(t) ==
    IF compiling[t] = "no"
    THEN stopRequested \/ Outstanding(compilers) = {}
    ELSE compiling[t] = "install" /\ compiled[t] = {}

\* The tick is emitted; a stop that came during it is finalised here.
RunEndTick(t) ==
    /\ CompileDone(t)
    /\ loop = t
    /\ stage[t] = "after"
    /\ stage' = [stage EXCEPT ![t] = "idle"]
    /\ loop' = Free
    /\ compiling' = [compiling EXCEPT ![t] = "no"]
    /\ phase' = "idle"
    /\ advancing' = FALSE
    /\ stopRequested' = FALSE
    /\ finalised' = (finalised \/ stopRequested)
    /\ memory' = IF stopRequested THEN {} ELSE memory
    /\ IF stopRequested
       THEN CancelAll /\ StopEngagements
       ELSE UNCHANGED <<controller, settled, pool, occupied, action, engagement,
                        compilers, refusing, outcomes>>
    /\ UNCHANGED <<status, clock, visit, drive, collected, round, requestCount, tokens,
                   abandoned, compiled, compilations, mislaid, alive, alarmed, snapshot,
                   overlapped>>

-----------------------------------------------------------------------------
(* The operator's calls.                                                   *)

Pause ==
    /\ loop = Free
    /\ status = "running"
    /\ status' = "paused"
    /\ UNCHANGED <<clock, loop, stage, visit, worldVars, workVars, engagementVars, runVars>>

\* resume starts a new realtime task when there is none, or it is done.
Resume ==
    /\ loop = Free
    /\ status = "paused"
    /\ status' = "running"
    /\ alive' = TRUE
    /\ UNCHANGED <<clock, loop, stage, visit, worldVars, workVars, engagementVars, phase,
                   advancing, stopRequested, finalised, memory, alarmed, snapshot, overlapped>>

\* Mutant of AtBoundary: a stop always waits for the end of a tick.
NeverAtBoundary == FALSE

AtBoundary == ~advancing

\* stop: during a tick the coordinators are cancelled and the tick finalises;
\* at a boundary the run is finalised at once.
RunStop ==
    /\ loop = Free
    /\ status # "stopped"
    /\ status' = "stopped"
    /\ CancelAll
    /\ IF AtBoundary THEN StopEngagements ELSE CancelCompilations
    /\ stopRequested' = ~AtBoundary
    /\ finalised' = AtBoundary
    /\ memory' = IF AtBoundary THEN {} ELSE memory
    /\ UNCHANGED <<clock, loop, stage, visit, drive, collected, round, requestCount,
                   tokens, abandoned, compiling, compiled, compilations, mislaid,
                   phase, advancing, alive, alarmed, snapshot, overlapped>>

\* Mutant of CheckpointBoundary: being paused is taken for being settled.
CheckpointWhenPaused == status = "paused"

\* save_checkpoint behind require_checkpoint_boundary.  The coordinators are
\* operational resources and are not part of the saved state.
CheckpointBoundary ==
    /\ status = "paused"
    /\ phase = "idle"
    /\ ~advancing
    /\ Outstanding(pool) = {}
    /\ Outstanding(compilers) = {}

Checkpoint ==
    /\ loop = Free
    /\ CheckpointBoundary
    /\ snapshot' = [waiting |-> {a \in Agents : controller[a].pending}, memory |-> memory]
    /\ UNCHANGED <<allVars, phase, advancing, stopRequested, finalised, alive, memory, alarmed,
                   overlapped>>

-----------------------------------------------------------------------------
TaskStep(t) ==
    \/ RunEvaluate(t)
    \/ RunStartDrain(t)
    \/ RunPoll(t)
    \/ RunPollRaises(t)
    \/ RunApply(t)
    \/ RunFinishDrain(t)
    \/ RunStartCompile(t)
    \/ RunPollCompiler(t)
    \/ RunPollCompilerRaises(t)
    \/ RunInstall(t)
    \/ RunEndTick(t)

Threads ==
    \/ (WorkerStarts \/ WorkerFinishes \/ DeadlinePasses) /\ UNCHANGED <<engagementVars, runVars>>
    \/ (CompilerStarts \/ CompilerFinishes \/ CompilerDeadline) /\ UNCHANGED runVars

Operator ==
    \/ "pause" \in Calls /\ Pause
    \/ "resume" \in Calls /\ Resume
    \/ "checkpoint" \in Calls /\ Checkpoint
    \/ RunStop

RunNext ==
    \/ \E t \in Tasks : RunBegin(t) \/ TaskStep(t)
    \/ Operator
    \/ Threads

RunSafetySpec == RunInit /\ [][RunNext]_everything

\* The event loop is fair to its coroutines and time passes; the operator
\* and the providers owe nothing.
RunFairness ==
    /\ \A t \in Tasks : SF_everything(TaskStep(t))
    /\ WF_everything(DeadlinePasses /\ UNCHANGED <<engagementVars, runVars>>)
    /\ WF_everything(CompilerDeadline /\ UNCHANGED runVars)

RunSpec == RunSafetySpec /\ RunFairness

-----------------------------------------------------------------------------
(* Properties of a run.                                                    *)

\* A checkpoint is taken only at a settled boundary: no agent it saves waits
\* for a decision (the queue that would answer it is not saved), unless a
\* drain that raised had dropped that decision.
CheckpointIsSettled ==
    snapshot # NoSnapshot =>
        \A a \in snapshot.waiting : \E r \in abandoned : r.agent = a

\* What of it the code does keep: an agent is saved waiting only when a drain
\* that raised dropped its decision, or when another tick, asleep in its
\* drain, already holds the answer.
OnlyOverlapsUnsettle ==
    [][snapshot' # snapshot =>
           \A a \in snapshot'.waiting :
               \E r \in abandoned \union InDrains : r.agent = a]_everything

\* When the run is final nothing is left behind: no work, no engagement, no
\* unsaved memory, and no agent waits but one whose decision a raising drain
\* dropped, or a tick that still sleeps holds.  The plans hold no ENGAGE
\* action either, where no tick overlapped another and no compile drain
\* raised.  In both of those cases an agent may have engaged again while an
\* earlier work of its was pending: cancelling that work takes the engagement
\* and leaves the plan.
FinalisedIsClean ==
    finalised =>
        /\ Outstanding(pool) = {} /\ Outstanding(compilers) = {}
        /\ \A a \in Agents : controller[a].pending =>
               \E r \in abandoned \union InDrains : r.agent = a
        /\ \A a \in Agents : engagement[a] = NoEngagement
        /\ ~overlapped /\ mislaid = {} => \A a \in Agents : action[a] = NoAction
        /\ memory = {}

\* After a stop no compiled program is installed any more
\* (test_stop_cancels_compiler_work_and_prevents_late_commit).
NoInstallAfterStop ==
    [][status = "stopped" =>
           \A a \in Agents :
               engagement'[a] # NoEngagement /\ engagement'[a].phase = "program"
                   => engagement'[a] = engagement[a]]_everything

\* A stop is finalised, although providers and compilers may never answer;
\* only a tick that raised leaves a stop that was asked for during it open.
StopFinalises ==
    status = "stopped" ~> (finalised \/ abandoned \union mislaid # {})

-----------------------------------------------------------------------------
(* The inductive invariants behind them.                                   *)

StoppedForGood ==
    /\ status = "stopped" => refusing
    /\ stopRequested => status = "stopped"

\* The compiler is drained after the decisions of the same tick are applied.
CompileStage == \A t \in Tasks : compiling[t] # "no" => stage[t] = "after"

\* A compiler answers only for a work whose future is still there.
CompilerAnswers == AnsweredWorks(compilers) \subseteq compilers.pending

\* What holds however ticks overlap: the barrier does, although a tick now
\* sleeps a second time while the compiler works.
RunInvariant ==
    /\ RunTypeOK
    /\ InductiveInvariant
    /\ CompileStage
    /\ CompilerAnswers
    /\ EngagementFollowsAction
    /\ PlansAreOwn
    /\ StoppedForGood

\* While no tick overlapped another: one tick advances, and what its drains
\* hold is gone when it ends or raises.
OneTickAtATime ==
    /\ \A t, u \in Tasks : stage[t] # "idle" /\ stage[u] # "idle" => t = u
    /\ \A t \in Tasks :
        /\ stage[t] # "idle" => advancing
        /\ stage[t] \notin {"decide", "apply"} => collected[t] = {}
        /\ compiling[t] # "no" => compilers.queued = {}
        /\ compiling[t] = "no" => compiled[t] = {}

\* Unless a compile drain raised, a plan that holds an ENGAGE action has its
\* engagement, the work being compiled is the one its agent engages in, and
\* there is such work only from the decisions of a tick to its end.
CompilationsAgree ==
    mislaid = {} =>
        /\ \A a \in Agents : action[a] # NoAction => engagement[a] # NoEngagement
        /\ \A r \in Outstanding(compilers) \union InCompileDrains :
               engagement[r.agent] # NoEngagement => engagement[r.agent].work = r
        /\ Outstanding(compilers) # {} => \E t \in Tasks : stage[t] \in {"apply", "after"}
        /\ \A t \in Tasks : stage[t] = "apply" =>
               \A r \in Outstanding(compilers) : engagement[r.agent] # NoEngagement
        /\ \A t \in Tasks : compiling[t] = "install" => Outstanding(compilers) = {}

\* What a stop has emptied stays empty, whoever wakes up later.
StoppedIsEmpty ==
    /\ refusing => Outstanding(compilers) = {}
    /\ status = "stopped" =>
           Outstanding(pool) = {} /\ \A t \in Tasks : stage[t] # "schedule"
    /\ finalised =>
           /\ status = "stopped"
           /\ \A a \in Agents : engagement[a] = NoEngagement
           /\ memory = {}

StopInvariant ==
    /\ RunInvariant
    /\ StoppedIsEmpty
    /\ ~overlapped => OneTickAtATime /\ CompilationsAgree /\ CheckpointIsSettled
=============================================================================
