----------------------------- MODULE ReaderCapture -----------------------------
(***************************************************************************)
(* What the research collector writes of what is perceived, wanted,         *)
(* remembered and done (application/collection.py) and how the dataset keeps *)
(* and rebuilds it (adapters/persistence/sqlite.py), beside EventReaders.    *)
(*                                                                         *)
(* The collector is told every event as it is emitted, and drains the        *)
(* private traces of the memory and the retrieval when the tick has settled. *)
(* Its fields here, besides those of DatasetRecords, are                     *)
(*     facts     the facts that have a record                              *)
(*     sources   request for a memory -> the event that caused it            *)
(*     open      the goals whose episode is open, since when, and their      *)
(*               events                                                     *)
(*     doing     character -> since when it does what it does                *)
(*     kept      what the last checkpoint holds of the collector             *)
(*     final     the run is finalised                                       *)
(*                                                                         *)
(* A statement that raises ends the tick in the program; here the readers go *)
(* on as in a run without a collector.                                      *)
(***************************************************************************)
EXTENDS EventReaders, DatasetRecords

VARIABLE capture

-----------------------------------------------------------------------------
(* Tables.                                                                 *)

NoReaderTables ==
    [facts |-> NoRows, deliveries |-> NoRows, goals |-> NoRows, transitions |-> <<>>,
     goal_episodes |-> NoRows, relations |-> NoRows, operations |-> NoRows,
     retrievals |-> NoRows, memories |-> NoRows, intervals |-> {}, raised |-> FALSE]

AppendPerceptionFact(db, fact) ==
    [db EXCEPT !.facts = Put(@, fact.id, [kind |-> fact.kind, subject |-> fact.subject,
                                          tick |-> fact.tick])]

AppendPerceptionDelivery(db, event, fact, observer, status) ==
    [db EXCEPT !.deliveries = Put(@, event, [fact |-> fact, observer |-> observer,
                                             status |-> status]),
               !.raised = @ \/ fact \notin DOMAIN db.facts]

AppendGoal(db, g, status) == [db EXCEPT !.goals = Put(@, g, status)]

AppendGoalTransition(db, g, from, to) ==
    [db EXCEPT !.transitions = Append(@, [goal |-> g, from |-> from, to |-> to]),
               !.raised = @ \/ g \notin DOMAIN db.goals]

AppendGoalEpisode(db, r) ==
    [db EXCEPT !.goal_episodes = Put(@, r.goal, [status |-> r.status, since |-> r.since,
                                                 until |-> r.until, events |-> r.events])]

AppendMemoryRelation(db, memory, source) ==
    [db EXCEPT !.relations = Put(@, <<memory, source>>, TRUE)]

\* What has a row keeps its request; its memory once it has one.
AppendMemoryOperation(db, key, status, memory) ==
    [db EXCEPT !.operations =
        Put(@, key, [status |-> status,
                     memory |-> IF memory # None \/ key \notin DOMAIN @ THEN memory
                                ELSE @[key].memory])]

AppendRetrieval(db, key, status) == [db EXCEPT !.retrievals = Put(@, key, status)]

InsertMemory(db, m, memory) == [db EXCEPT !.memories = Put(@, m, memory)]

\* save_memory_binding: all of them, or none.
SaveMemoryBinding(db, episodes) ==
    FoldLeft(LAMBDA x, m : InsertMemory(x, m, episodes[m]), db,
             [m \in DOMAIN episodes |-> m])

-----------------------------------------------------------------------------
(* Perception.                                                             *)

RecordFact(c, fact) ==
    IF fact.id \in c.facts THEN c
    ELSE [Record(c, [kind |-> "perception_fact", fact |-> fact]) EXCEPT
            !.facts = @ \union {fact.id},
            !.db = AppendPerceptionFact(@, fact)]

DeliveryStatus(e) == IF e.type = "perception.delivered" THEN "delivered" ELSE "dropped"

CollectPerception(c, n, e) ==
    [Record(RecordFact(c, e.about),
            [kind |-> "perception_delivery", event |-> n, fact |-> e.about.id,
             observer |-> e.agent, status |-> DeliveryStatus(e)]) EXCEPT
       !.db = AppendPerceptionDelivery(RecordFact(c, e.about).db, n, e.about.id, e.agent,
                                       DeliveryStatus(e))]

-----------------------------------------------------------------------------
(* Goals.                                                                  *)

Outcome ==
    [e \in {"goal.activated", "goal.progressed"} |-> "active"]
    @@ ("goal.succeeded" :> "succeeded") @@ ("goal.failed" :> "failed")
    @@ ("goal.expired" :> "expired")

InitialGoals(c) ==
    [c EXCEPT !.db.goals = [g \in DOMAIN Plans |-> "pending"],
              !.open = [g \in DOMAIN Plans |-> [since |-> tick, events |-> <<>>]]]

\* Mutant of CloseGoalEpisode: the episode stays open, to be closed again.
CloseNotForgotten(c, g, until, status) ==
    IF g \notin DOMAIN c.open THEN c
    ELSE LET body == [kind |-> "goal_episode", goal |-> g, status |-> status,
                      since |-> c.open[g].since, until |-> until,
                      events |-> c.open[g].events]
         IN [Record(c, body) EXCEPT !.db = AppendGoalEpisode(@, body)]

CloseGoalEpisode(c, g, until, status) ==
    IF g \notin DOMAIN c.open THEN c
    ELSE LET body == [kind |-> "goal_episode", goal |-> g, status |-> status,
                      since |-> c.open[g].since, until |-> until,
                      events |-> c.open[g].events]
         IN [Record(c, body) EXCEPT !.open = Drop(@, {g}),
                                    !.db = AppendGoalEpisode(@, body)]

\* The episode hears of the event before it is closed by it.
GoalHeard(c, n, e) ==
    IF e.about \notin DOMAIN c.open THEN c
    ELSE LET heard == [c EXCEPT !.open[e.about] =
                   [since |-> IF e.type = "goal.activated" THEN e.tick ELSE @.since,
                    events |-> Append(@.events, n)]]
         IN IF Outcome[e.type] = "active" THEN heard
            ELSE CloseGoalEpisode(heard, e.about, e.tick, Outcome[e.type])

\* _collect_goal_transition: the transition names the goal, which must have a row.
CollectGoal(c, n, e) ==
    LET from == IF e.type = "goal.activated" THEN "pending" ELSE "active"
        told == [c EXCEPT !.db = AppendGoalTransition(@, e.about, from, Outcome[e.type])]
    IN IF told.db.raised THEN told
       ELSE [GoalHeard(told, n, e) EXCEPT !.db = AppendGoal(@, e.about, Outcome[e.type])]

\* _close_open_goals
CloseOpenGoals(c) ==
    FoldLeft(LAMBDA x, g : CloseGoalEpisode(x, g, tick, "unknown"), c,
             [g \in DOMAIN Plans |-> g])

-----------------------------------------------------------------------------
(* Memories.                                                               *)

CollectRequest(c, n, e) == [c EXCEPT !.sources = Put(@, n, e.cause)]

CollectMemory(c, e) ==
    LET source == Get(c.sources, e.cause, e.cause) IN
    [Record(c, [kind |-> "memory_relation", memory |-> e.about, source |-> source]) EXCEPT
        !.db = InsertMemory(AppendMemoryRelation(@, e.about, source),
                            e.about, memories'[e.about])]

\* The traces of one memory: its generation, and the embedding of its text,
\* which is named after the next memory.
Trace(kind, part, key) ==
    [kind |-> kind, part |-> part, key |-> key, status |-> None, memory |-> None]

Generation(item, part, status, memory) ==
    [Trace("memory_generation", part, <<"generation", item.request>>) EXCEPT
        !.status = status, !.memory = memory]

Embedding(item, next, part) == Trace("embedding", part, <<"embedding", item.agent, next>>)

RememberTraces(traces, item, fails) ==
    LET next == traces.next IN
    [next |-> IF fails THEN next ELSE next + 1,
     list |-> traces.list \o
       <<Generation(item, "request", None, None), Embedding(item, next, "request"),
         Embedding(item, next, IF fails THEN "error" ELSE "result"),
         IF fails THEN Generation(item, "result", "failed", None)
         ELSE Generation(item, "result", "completed", next)>>]

SettleTraces(traces, item, fails, last) ==
    CASE item.agent \notin alarmed -> RememberTraces(traces, item, fails)
      [] item.agent \in alarmed ->
           IF last THEN [traces EXCEPT !.list =
                           Append(@, Generation(item, "result", "cancelled", None))]
           ELSE traces

MemoryTraces(fails, last) ==
    FoldLeft(LAMBDA p, x : SettleTraces(p, x, fails, last),
             [next |-> Len(memories) + 1, list |-> <<>>], work).list

\* The retrieval of a character that is asked for a decision, and the embedding
\* of its query, when the provider answers.
QueryTraces(key) ==
    <<Trace("retrieval", "request", Append(key, "query")),
      Trace("retrieval", "result", Append(key, "query"))>>

RetrievalTraces(a) ==
    <<Trace("retrieval", "request", <<a, tick>>)>> \o QueryTraces(<<a, tick>>)
        \o <<Trace("retrieval", "result", <<a, tick>>)>>

\* Two traces of one operation are drained in the order of their types, or, for
\* the types that have no place in it, in the order of their payloads: the
\* result of a generation comes before its request.
DrainOrder(traces) ==
    LET late(t) == t.kind = "memory_generation" /\ t.part = "request" IN
    SelectSeq(traces, LAMBDA t : ~late(t)) \o SelectSeq(traces, late)

\* _trace_status
TraceStatus(t) ==
    IF t.status # None THEN t.status
    ELSE CASE t.part = "request" -> "requested"
           [] t.part = "error"   -> "failed"
           [] t.part = "result"  -> "completed"

ProjectMemoryTrace(db, t) == AppendMemoryOperation(db, t.key, TraceStatus(t), t.memory)

ProjectInformationTrace(db, t) == AppendRetrieval(db, t.key, TraceStatus(t))

\* _collect_research_trace
CollectTrace(c, t) ==
    [Record(c, t) EXCEPT !.db = IF t.kind = "retrieval" THEN ProjectInformationTrace(@, t)
                                ELSE ProjectMemoryTrace(@, t)]

DrainResearch(c, traces) ==
    IF c.db.raised THEN c ELSE FoldLeft(CollectTrace, c, DrainOrder(traces))

-----------------------------------------------------------------------------
(* Activities.                                                             *)

CloseActivity(c, a, until) ==
    IF a \notin DOMAIN c.doing THEN c
    ELSE [c EXCEPT !.doing = Drop(@, {a}),
                   !.db.intervals = @ \union {[agent |-> a, since |-> c.doing[a],
                                              until |-> until]}]

ChangeDoing(c, e) ==
    [CloseActivity(c, e.agent, e.tick) EXCEPT !.doing = Put(@, e.agent, e.tick)]

-----------------------------------------------------------------------------
(* The collector.                                                          *)

\* _collect, _collect_specialized: event e, the n-th of the bus.
Collect(c, n, e) ==
    CASE c.db.raised -> c
      [] ~c.db.raised /\ e.type \in {"perception.delivered", "perception.dropped"} ->
           CollectPerception(c, n, e)
      [] ~c.db.raised /\ e.type \in DOMAIN Outcome -> CollectGoal(c, n, e)
      [] ~c.db.raised /\ e.type = "memory.requested" -> CollectRequest(c, n, e)
      [] ~c.db.raised /\ e.type = "memory.recorded" -> CollectMemory(c, e)
      [] ~c.db.raised /\ e.type = "activity.changed" -> ChangeDoing(c, e)
      [] OTHER -> c

\* The events of this step.
Collected ==
    FoldLeft(LAMBDA c, n : Collect(c, n, bus'[n]), capture,
             [i \in 1..(Len(bus') - Len(bus)) |-> Len(bus) + i])

\* finalize: the traces, the activities and the goals that are open.
Finalised(traces) ==
    LET drained == DrainResearch(Collected, traces)
        idle == FoldLeft(LAMBDA c, a : CloseActivity(c, a, tick), drained, Agents)
    IN [CloseOpenGoals(idle) EXCEPT !.final = TRUE]

\* checkpoint_state
Kept(c) == [open |-> c.open, doing |-> c.doing]

\* restore_checkpoint_state and _prepare_branch_capture_state: the new run has
\* no rows but those of the memories, and no goals are initialised.
Branched(c) ==
    [number |-> 0, log |-> <<>>, facts |-> {}, sources |-> NoRows, open |-> c.kept.open,
     doing |-> c.kept.doing, kept |-> None, final |-> FALSE,
     db |-> SaveMemoryBinding(NoReaderTables, memories')]

\* _initialize_activities, when the run is started.
InitialDoing == [a \in Characters |-> 0]

InitialCapture ==
    InitialGoals([number |-> 0, log |-> <<>>, facts |-> {}, sources |-> NoRows,
                  open |-> NoRows, doing |-> InitialDoing, kept |-> None,
                  final |-> FALSE, db |-> NoReaderTables])

-----------------------------------------------------------------------------
(* The readers and the collector.                                          *)

RecordedInit == Init /\ capture = InitialCapture

RecordedHappening == Happening /\ capture' = Collected

RecordedReading == (Perceive \/ Evaluate \/ Memorise) /\ capture' = Collected

\* Bound: only who has something to be told is asked.
RecordedThinking ==
    \E asked \in SUBSET {a \in Deciders \ alarmed : minds[a].inbox # <<>>} :
        /\ Think(asked)
        /\ capture' = DrainResearch(Collected,
                          FlattenSeq([i \in DOMAIN SetToSeq(asked) |->
                                         RetrievalTraces(SetToSeq(asked)[i])]))

RecordedDraining ==
    \E fails \in BOOLEAN :
        Drain(fails) /\ capture' = DrainResearch(Collected, MemoryTraces(fails, FALSE))

RecordedFinalising == Finalise /\ capture' = Finalised(MemoryTraces(FALSE, TRUE))

RecordedSaving == Save /\ capture' = [capture EXCEPT !.kept = Kept(capture)]

RecordedBranching == Branch /\ capture' = Branched(capture)

\* The dataset goes on, and the collector is what it was when the run was suspended.
RecordedContinuing == Continue /\ UNCHANGED capture

RecordedNext ==
    \/ RecordedHappening \/ RecordedReading \/ RecordedThinking \/ RecordedDraining
    \/ RecordedFinalising \/ RecordedSaving \/ RecordedBranching
    \/ RecordedContinuing

RecordedSpec == RecordedInit /\ [][RecordedNext]_<<vars, capture>>

-----------------------------------------------------------------------------
(* Rebuilding.                                                             *)

RebuildPerceptionFact(db, r) == AppendPerceptionFact(db, r.fact)

RebuildPerceptionDelivery(db, r) ==
    AppendPerceptionDelivery(db, r.event, r.fact, r.observer, r.status)

\* _rebuild_projection
RebuildRecord(db, r) ==
    CASE r.kind = "perception_fact"     -> RebuildPerceptionFact(db, r)
      [] r.kind = "perception_delivery" -> RebuildPerceptionDelivery(db, r)
      [] r.kind = "goal_episode"        -> AppendGoalEpisode(db, r)
      [] r.kind = "memory_relation"     -> AppendMemoryRelation(db, r.memory, r.source)
      [] r.kind \in {"memory_generation", "embedding"} -> ProjectMemoryTrace(db, r)
      [] r.kind = "retrieval"           -> ProjectInformationTrace(db, r)

\* rebuild_run_projections, of a run that is over.
Rebuilt(c) ==
    FoldLeft(RebuildRecord,
             [c.db EXCEPT !.facts = NoRows, !.deliveries = NoRows, !.goal_episodes = NoRows,
                          !.relations = NoRows, !.operations = NoRows,
                          !.retrievals = NoRows],
             c.log)

-----------------------------------------------------------------------------
(* Properties.                                                             *)

\* What is in an inbox was delivered and not dropped; what was dropped had been
\* delivered to the same observer, once, and each has its fact.
DeliveriesTellTheInbox(db) ==
    LET rows(o, f, status) == {n \in DOMAIN db.deliveries :
            db.deliveries[n] = [fact |-> f, observer |-> o, status |-> status]}
    IN /\ \A o \in Characters : \A i \in DOMAIN minds[o].inbox :
            LET x == minds[o].inbox[i] IN
            /\ Cardinality(rows(o, x.id, "delivered")) = 1
            /\ rows(o, x.id, "dropped") = {}
            /\ db.facts[x.id] = [kind |-> x.kind, subject |-> x.subject, tick |-> x.tick]
       /\ \A n \in DOMAIN db.deliveries :
            db.deliveries[n].status = "dropped" =>
              \E m \in 1..(n - 1) :
                 m \in rows(db.deliveries[n].observer, db.deliveries[n].fact, "delivered")

\* The rows of a goal lead from pending to its status, and it has an episode
\* once it is closed, from its activation to its end, or when the run is over.
RowsTellTheGoals(c) ==
    \A g \in DOMAIN Plans :
        LET told == SelectSeq(c.db.transitions, LAMBDA t : t.goal = g)
            over == goals[g].status \in Closed
        IN /\ c.db.goals[g] = goals[g].status
           /\ \A i \in DOMAIN told :
                told[i].from = IF i = 1 THEN "pending" ELSE told[i - 1].to
           /\ goals[g].status = IF told = <<>> THEN "pending" ELSE told[Len(told)].to
           /\ (g \in DOMAIN c.open) = (~over /\ ~c.final)
           /\ (g \in DOMAIN c.db.goal_episodes) = (over \/ c.final)
           /\ g \in DOMAIN c.db.goal_episodes =>
                LET episode == c.db.goal_episodes[g] IN
                /\ episode.status = IF over THEN goals[g].status ELSE "unknown"
                /\ Len(episode.events) = Len(told)
                /\ told # <<>> => bus[episode.events[1]].tick = episode.since
                /\ over => bus[episode.events[Len(told)]].tick = episode.until

\* A memory is in its table and is related to the event that it is of; the
\* operation of its generation names it.
RowsTellTheMemories(db) ==
    /\ \A m \in DOMAIN memories : <<m, memories[m].event>> \in DOMAIN db.relations
    /\ Cardinality(DOMAIN db.relations) = Len(memories)
    /\ {db.operations[k].memory : k \in DOMAIN db.operations} \ {None} = DOMAIN memories
    /\ \A i \in DOMAIN bus :
         bus[i].type \in {"memory.failed", "memory.cancelled"} =>
            db.operations[<<"generation", bus[i].cause>>].memory = None

\* The intervals of a character follow one another from the start to the end.
IntervalsCover(c) ==
    \A a \in Characters :
        LET mine == {x \in c.db.intervals : x.agent = a}
            last == IF c.final THEN tick ELSE c.doing[a]
        IN /\ c.final = (a \notin DOMAIN c.doing)
           /\ FoldSet(LAMBDA x, sum : sum + x.until - x.since, 0, mine) = last
           /\ \A x \in mine : x.until = last \/ \E y \in mine : y.since = x.until

\* collection.py: in a run from its start, the collector never raises; after
\* perception its rows tell what is in the inboxes, and when a tick has settled
\* and at the end what the goals, the memories and the activities are.  In every
\* run that it has not ended the memories are kept, and once it is over the rows
\* can be rebuilt from the records.
CaptureTellsTheReaders ==
    /\ restores = 0 =>
         /\ ~capture.db.raised
         /\ phase = "evaluate" => DeliveriesTellTheInbox(capture.db)
         /\ phase \in {"world", "ended"} => /\ RowsTellTheGoals(capture)
                                            /\ RowsTellTheMemories(capture.db)
                                            /\ IntervalsCover(capture)
    /\ phase \in {"world", "ended"} /\ ~capture.db.raised =>
         /\ capture.db.memories = [m \in DOMAIN memories |-> memories[m]]
         /\ capture.final => Rebuilt(capture) = capture.db
=============================================================================
