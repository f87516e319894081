------------------------------ MODULE Recording ------------------------------
(***************************************************************************)
(* A run and its research collector (application/collection.py): systems    *)
(* emit events, the collector takes each within the emission; threads leave *)
(* traces, the collector drains them at the phases of a tick; the run is    *)
(* finalised; a branch goes on from a checkpoint with a dataset of its own, *)
(* which is empty, and with what was open, of which that dataset has no     *)
(* record.  What is emitted, and when, is in the modules that extend this.  *)
(***************************************************************************)
EXTENDS InteractionCapture, EngagementCapture, DecisionCapture, EngagementTelemetry

CONSTANTS Speakers, Customers, Bodies, Engagers, Deciders,
                        \* characters, by what they do
          Pairs,        \* pairs of characters that may meet
          Soloists,     \* who may take part in a run alone, twice
          Troupes,      \* who may take part in a run together, each once
          Doors,        \* doors a body opens under one action, at most
          MaxIntervals  \* bound on how often a pair meets

Everyone == Speakers \cup Customers \cup Bodies \cup Engagers \cup Deciders \cup Pairs

\* Who takes part in a run: [who -> how many turns it has]
Casts == {who :> 2 : who \in Soloists} \cup {[who \in troupe |-> 1] : troupe \in Troupes}

ASSUME RecordingAssumption ==
    /\ \A cast \in Casts : DOMAIN cast \subseteq Everyone
    /\ {Doors, MaxIntervals} \subseteq Nat /\ IsFiniteSet(Pairs)

VARIABLES c,        \* the collector
          view,     \* [character -> its engagements, as an operator sees them]
          traces,   \* what threads have recorded and nobody has drained
          scene,    \* [character -> what it is doing]
          inherited,\* history: the interactions that were open when it branched
          ended     \* has the run been finalised?

vars == <<c, view, traces, scene, inherited, ended>>

Begin == [turn |-> 1, last |-> 0, at |-> "idle", staffed |-> FALSE, doors |-> 0,
          work |-> "none", groups |-> NoRows]

EmptyCollector ==
    [number |-> 0, log |-> <<>>,
     db |-> Else(NoInteractionTables, Else(NoEngagementTables,
                Else(NoDecisionTables, [raised |-> FALSE]))),
     episodes |-> NoRows, keys |-> NoRows, joined |-> NoRows, intervals |-> NoRows,
     engagements |-> NoRows, decisions |-> NoRows, actions |-> NoRows]

(***************************************************************************)
(* Events and traces.                                                       *)
(***************************************************************************)
Nth(k, name) == name \o ":" \o k \o ":" \o ToString(scene[k].turn)

Event(k, family, type, fields) ==
    fields @@
    [id |-> Nth(k, type), family |-> family, type |-> type, agent |-> k, subject |-> k,
     cause |-> Absent, correlation |-> Absent, action |-> Absent, request |-> Absent,
     operator |-> Absent, target |-> Absent, reason |-> Absent, outcome |-> Absent,
     engagement |-> Absent, private |-> FALSE, recipients |-> {}, decision |-> Absent,
     tool |-> Absent, group |-> Absent, invocation |-> Absent, invocations |-> {},
     valid |-> NoRows, rejected |-> {}, statuses |-> NoRows]

\* Each event is a record, and is then looked at by what it may concern.
Collect(x, e) ==
    LET told == CollectDecisionEvent([x EXCEPT !.number = @ + 1], e)
        engaged == IF e.family = "engagement" THEN CollectEngagementEvent(told, e) ELSE told
    IN CollectInteractionEvent(engaged, e)

CollectTrace(x, t) ==
    LET recorded == [x EXCEPT !.number = @ + 1] IN
    IF t.kind = "engagement_compilation"
      THEN ProjectEngagementTrace(recorded, t.engagement)
      ELSE CollectDecisionTrace(recorded, t)

Drained(x) == FoldLeft(CollectTrace, x, traces)

CanRun == ~ended /\ ~c.db.raised

\* A character does something: the events it emits, the traces it leaves.
EmitsAndRecords(k, now, events, left) ==
    /\ CanRun
    /\ c' = FoldLeft(Collect, c, events)
    /\ view' = FoldLeft(Seen, view, events)
    /\ traces' = traces \o left
    /\ scene' = [scene EXCEPT ![k] = now]
    /\ UNCHANGED <<inherited, ended>>

Emits(k, at, events) == EmitsAndRecords(k, [scene[k] EXCEPT !.at = at], events, <<>>)

Goes(k, at) == Emits(k, at, <<>>)

\* What a character does is over: it turns to something else.
MoveOn(k) ==
    /\ CanRun
    /\ scene[k].at = "over" /\ scene[k].turn < scene[k].last
    /\ scene' = [scene EXCEPT ![k] = [Begin EXCEPT !.turn = scene[k].turn + 1,
                                                 !.last = scene[k].last]]
    /\ UNCHANGED <<c, view, traces, inherited, ended>>

(***************************************************************************)
(* The phases of the runner, a branch, and the end.                         *)
(***************************************************************************)
Meetings == {"co_presence", "visibility"} \X {pair \in Pairs : scene[pair].at = "idle"}

PostSystems ==
    /\ CanRun
    /\ \E current \in SUBSET Meetings :
        /\ \A key \in current \ DOMAIN c.keys :
               Get(c.intervals, key, 0) < MaxIntervals
        /\ c' = CaptureExposureIntervals(Drained(c), current)
    /\ traces' = <<>>
    /\ UNCHANGED <<view, scene, inherited, ended>>

\* restore_checkpoint_state and _prepare_branch_capture_state: what the collector
\* of a branch has of the collector that was saved, for a dataset with nothing in it.
Restored(x) ==
    [EmptyCollector EXCEPT
       !.episodes = [id \in DOMAIN x.episodes |-> [x.episodes[id] EXCEPT !.record = 0]],
       !.keys = x.keys, !.joined = x.joined, !.engagements = x.engagements,
       !.decisions = x.decisions, !.actions = x.actions]

\* A checkpoint is of a settled run: nobody waits for a thread, what threads have
\* left is drained first, and those that still run stay behind.  The operator of
\* a branch sees its own events only.
Branch ==
    /\ CanRun
    /\ \A k \in Everyone : scene[k].at \notin {"deciding", "compiling"}
    /\ c' = Restored(Drained(c))
    /\ view' = [k \in Everyone |-> NoRows]
    /\ traces' = <<>>
    /\ scene' = [k \in Everyone |-> [scene[k] EXCEPT !.work = "none"]]
    /\ inherited' = inherited \cup DOMAIN c'.episodes
    /\ UNCHANGED ended

Finalize ==
    /\ CanRun
    /\ c' = CloseOpenInteractions(CloseOpenEngagements(CloseExposures(Drained(c))))
    /\ traces' = <<>>
    /\ ended' = TRUE
    /\ UNCHANGED <<view, scene, inherited>>

Init == /\ c = EmptyCollector
        /\ view = [k \in Everyone |-> NoRows]
        /\ traces = <<>>
        /\ \E cast \in Casts :
               scene = [k \in Everyone |->
                   IF k \in DOMAIN cast THEN [Begin EXCEPT !.last = cast[k]]
                   ELSE [Begin EXCEPT !.at = "absent"]]
        /\ inherited = {} /\ ended = FALSE
=============================================================================
