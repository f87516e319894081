------------------------- MODULE InteractionCapture -------------------------
(***************************************************************************)
(* The interactions of a run, as the research collector follows them        *)
(* (application/collection.py) and as the dataset keeps and rebuilds them   *)
(* (adapters/persistence/sqlite.py).                                        *)
(*                                                                          *)
(* The fields of the collector here, besides those of DatasetRecords, are   *)
(*     episodes   the open interactions, by identifier                      *)
(*     keys       what an event may find an open interaction by             *)
(*     joined     the interactions each event was found to belong to        *)
(*     intervals  how often an exposure of two characters has begun         *)
(* Identifiers, keys and events are tuples of strings.  Payloads, times and *)
(* the copies of an event under other record types are left out.            *)
(***************************************************************************)
EXTENDS DatasetRecords

(***************************************************************************)
(* Tables.  A row names the record it was projected from; a reference to a  *)
(* record or a parent row that does not exist raises.                       *)
(***************************************************************************)
NoInteractionTables ==
    [interactions |-> NoRows, participants |-> {}, events |-> NoRows,
     interaction_episodes |-> NoRows]

AppendInteraction(db, id, record, status, ended) ==
    [db EXCEPT !.interactions =
                   Put(@, id, [record |-> record, status |-> status, ended |-> ended]),
               !.raised = @ \/ record = 0]

AppendParticipants(db, id, people) ==
    [db EXCEPT !.participants = @ \cup {<<id, person>> : person \in people},
               !.raised = @ \/ (people # {} /\ id \notin DOMAIN db.interactions)]

AppendInteractionEvent(db, id, event, record) ==
    [db EXCEPT !.events = Put(@, <<id, event>>, record),
               !.raised = @ \/ id \notin DOMAIN db.interactions]

AppendInteractionEpisode(db, id, record, status) ==
    [db EXCEPT !.interaction_episodes =
                   Put(@, id, [record |-> record, status |-> status])]

(***************************************************************************)
(* Opening, extending and closing an interaction.                           *)
(***************************************************************************)
StartInteraction(c, id, type, key, people, status) ==
    IF id \in DOMAIN c.episodes THEN c
    ELSE LET n == c.number + 1 IN
         [Record(c, [kind |-> "interaction_started", id |-> id,
                     status |-> status, people |-> people]) EXCEPT
            !.episodes = Put(@, id, [type |-> type, status |-> status, record |-> n,
                                     people |-> people, events |-> {}]),
            !.keys = Put(@, key, id),
            !.db = AppendParticipants(
                       AppendInteraction(@, id, n, status, FALSE), id, people)]

\* _append_interaction_constituent, and the boundaries of an interval.
AppendConstituent(c, id, event, type) ==
    IF id \notin DOMAIN c.episodes \/ event \in c.episodes[id].events THEN c
    ELSE [Record(c, [kind |-> "interaction_event", id |-> id, event |-> event,
                     type |-> type]) EXCEPT
            !.episodes[id].events = @ \cup {event},
            !.db = AppendInteractionEvent(@, id, event, c.number + 1)]

\* Mutant: who joins later is in the table only.
AddToTableOnly(c, id, people) ==
    IF id \notin DOMAIN c.episodes \/ people = {} THEN c
    ELSE [c EXCEPT !.db = AppendParticipants(@, id, people)]

\* Who joins later is in the table and in the episode, not in a record of its own.
AddParticipants(c, id, people) ==
    IF id \notin DOMAIN c.episodes \/ people = {} THEN c
    ELSE [c EXCEPT !.episodes[id].people = @ \cup people,
                   !.db = AppendParticipants(@, id, people)]

\* An interval is told its end before it is closed.
Bounded(c, id) ==
    IF id \in DOMAIN c.episodes /\ c.episodes[id].type \in {"co_presence", "visibility"}
      THEN AppendConstituent(c, id, "interval.ended", "interval.ended")
      ELSE c

\* The row, the episode and the record are final; the keys in `forgotten' go.
Finished(c, id, status, forgotten) ==
    LET n == c.number + 1
        episode == c.episodes[id] IN
    [Record(c, [kind |-> "interaction_episode", id |-> id, status |-> status,
                people |-> episode.people, events |-> episode.events]) EXCEPT
       !.episodes = Drop(@, {id}),
       !.keys = Drop(@, forgotten),
       !.db = AppendInteractionEpisode(
                  AppendInteraction(@, id, n, status, TRUE), id, n, status)]

\* Mutant: the keys of an interaction that has ended still lead to it.
CloseAndKeepKeys(c, id, status) ==
    IF id \in DOMAIN c.episodes THEN Finished(Bounded(c, id), id, status, {}) ELSE c

CloseInteraction(c, id, status) ==
    IF id \in DOMAIN c.episodes
      THEN Finished(Bounded(c, id), id, status,
                    {key \in DOMAIN c.keys : c.keys[key] = id})
      ELSE c

CloseAll(c, ids, status) ==
    FoldSet(LAMBDA id, x : CloseInteraction(x, id, status), c, ids)

CloseOpenInteractions(c) == CloseAll(c, DOMAIN c.episodes, "run_ended")

(***************************************************************************)
(* Which interactions an event belongs to.  Each handler gives the new      *)
(* collector and the interactions, in order.                                *)
(***************************************************************************)
Person(who, role) == IF who = Absent THEN {} ELSE {<<who, role>>}

Nobody(c) == [c |-> c, ids |-> <<>>]

SpeechInteractions(c, e) ==
    LET heard == Get(c.joined, e.cause, <<>>)
        id == <<"speech", e.id>> IN
    IF e.type = "speech.delivered"
      THEN IF heard = <<>> THEN Nobody(c)
           ELSE [c |-> AddParticipants(c, heard[1],
                           {<<who, "recipient">> : who \in e.recipients}),
                 ids |-> <<heard[1]>>]
      ELSE [c |-> StartInteraction(c, id, "direct_speech", id,
                      Person(e.agent, "speaker") \cup Person(e.target, "addressee"),
                      "active"),
            ids |-> <<id>>]

\* The interaction the first known of `keys' leads to.
Found(c, keys) ==
    LET known == SelectSeq(keys, LAMBDA key : key \in DOMAIN c.keys) IN
    IF known = <<>> THEN Absent ELSE c.keys[known[1]]

KnownBy(c, keys, id) ==
    [c EXCEPT !.keys = Else([key \in ToSet(keys) |-> id], @)]

StaffEvents == {"transaction.awaiting_staff", "transaction.staff_assigned",
                "transaction.authorized"}

TransactionKeys(e) ==
    LET bases == SelectSeq(<<e.request, e.action, e.correlation, e.subject>>,
                           LAMBDA basis : basis # Absent)
    IN [i \in DOMAIN bases |-> <<"transaction", bases[i]>>]

\* With staff there is the service as well.
WithService(c, e, id) ==
    LET service == <<"staffed_service", id[2]>>
        provider == Person(e.operator, "service_provider")
        staffed == \/ service \in DOMAIN c.keys
                   \/ e.type \in StaffEvents
                   \/ e.operator # Absent /\ e.type # "transaction.requested"
    IN IF staffed
         THEN [c |-> AddParticipants(
                         StartInteraction(c, service, "staffed_service", service,
                             Person(e.agent, "customer") \cup provider, "active"),
                         service, provider),
               ids |-> <<id, service>>]
         ELSE [c |-> c, ids |-> <<id>>]

TransactionFor(c, e, keys, known) ==
    LET id == IF known = Absent THEN keys[1] ELSE known
        begun == IF known = Absent
                   THEN StartInteraction(c, id, "transaction", id,
                            Person(e.agent, "customer") \cup Person(e.operator, "operator"),
                            "active")
                   ELSE c
    IN WithService(AddParticipants(KnownBy(begun, keys, id), id,
                                   Person(e.operator, "operator")), e, id)

TransactionInteractions(c, e) ==
    TransactionFor(c, e, TransactionKeys(e), Found(c, TransactionKeys(e)))

PhysicalStatus == [type \in {"interaction.requested", "interaction.started",
                             "interaction.completed", "interaction.failed",
                             "interaction.cancelled"} |->
    CASE type = "interaction.requested" -> "requested"
      [] type = "interaction.started" -> "active"
      [] type = "interaction.completed" -> "completed"
      [] type = "interaction.failed" -> "failed"
      [] OTHER -> "cancelled"]

\* The interactions that the cause of the event belongs to are keys of their own.
PhysicalKeys(c, e) ==
    LET causes == SelectSeq(Get(c.joined, e.cause, <<>>),
                      LAMBDA id : /\ id \in DOMAIN c.episodes
                                  /\ c.episodes[id].type = "physical_object") IN
    (IF e.action = Absent THEN <<>> ELSE << <<"physical_action", e.action>> >>)
    \o (IF e.correlation = Absent THEN <<>>
        ELSE << <<"physical_correlation", e.correlation>> >>)
    \o [i \in DOMAIN causes |-> <<"physical_interaction", causes[i][2]>>]
    \o << <<"physical_subject", e.subject>> >>

Basis(e) == IF e.action # Absent THEN e.action
            ELSE IF e.correlation # Absent THEN e.correlation ELSE e.id

Moved(c, id, status) ==
    IF id \notin DOMAIN c.episodes THEN Nobody(c)
    ELSE [c |-> [c EXCEPT
                   !.episodes[id].status = status,
                   !.db = AppendInteraction(@, id, c.episodes[id].record, status, FALSE)],
          ids |-> <<id>>]

PhysicalFor(c, e, keys, known) ==
    LET id == IF known = Absent THEN <<"physical", Basis(e)>> ELSE known
        begun == IF known = Absent
                   THEN StartInteraction(c, id, "physical_object", keys[1],
                            Person(e.agent, "actor") \cup Person(e.target, "target"),
                            IF e.type = "interaction.requested" THEN "requested"
                            ELSE "active")
                   ELSE c
    IN Moved(KnownBy(begun, Append(keys, <<"physical_interaction", id[2]>>), id), id,
             PhysicalStatus[e.type])

PhysicalInteractions(c, e) ==
    PhysicalFor(c, e, PhysicalKeys(c, e), Found(c, PhysicalKeys(c, e)))

EngagementStatus(type, status) ==
    CASE type = "engagement.started" -> "active"
      [] type = "engagement.completed" -> "completed"
      [] type = "engagement.partial" -> "partial"
      [] type = "engagement.failed" -> "failed"
      [] type = "engagement.cancelled" -> "cancelled"
      [] OTHER -> status

\* What is private is not repeated, except that a capability was committed.
Repeats(e) ==
    ~e.private \/ e.type \in {"engagement.requested", "engagement.capability_committed"}

EngagementFor(c, e, id) ==
    LET status == EngagementStatus(e.type, c.episodes[id].status)
        marked == [c EXCEPT !.episodes[id].status = status]
    IN IF Found(c, <<id>>) = Absent THEN Nobody(c)
       ELSE Moved(IF Repeats(e) THEN AppendConstituent(marked, id, e.id, e.type) ELSE marked,
                  id, status)

EngagementInteractions(c, e) ==
    LET id == <<"engagement", e.engagement>> IN
    EngagementFor(IF e.type = "engagement.requested"
                    THEN StartInteraction(c, id, "engagement", id,
                             Person(e.agent, "actor"), "requested")
                    ELSE c,
                  e, id)

\* Nothing is free where it was wanted: opened and closed at once.
Contended(e) ==
    \/ e.type = "affordance.failed" /\ e.reason = "station_at_capacity"
    \/ e.type = "transaction.failed" /\ e.reason = "transaction_point_at_capacity"
    \/ e.type = "npc.spawn_blocked"

ContentionInteraction(c, e) ==
    LET id == <<"contention", e.id>> IN
    [c |-> CloseInteraction(
               StartInteraction(c, id, "shared_resource_contention", id,
                   Person(e.agent, "contender") \cup Person(e.target, "holder"), "active"),
               id, "failed"),
     ids |-> <<id>>]

TerminalEvents ==
    {"speech.failed", "speech.delivered"}
    \cup {"transaction.completed", "transaction.failed", "transaction.cancelled",
          "transaction.timed_out"}
    \cup {"interaction.completed", "interaction.failed", "interaction.cancelled"}
    \cup {"engagement.completed", "engagement.partial", "engagement.failed",
          "engagement.cancelled"}

Assigned(c, e) ==
    CASE e.family = "speech" -> SpeechInteractions(c, e)
      [] e.family = "transaction" -> TransactionInteractions(c, e)
      [] e.family = "interaction" -> PhysicalInteractions(c, e)
      [] e.family = "engagement" -> EngagementInteractions(c, e)
      [] OTHER -> Nobody(c)

WithContention(found, e) ==
    IF Contended(e)
      THEN [c |-> ContentionInteraction(found.c, e).c,
            ids |-> found.ids \o ContentionInteraction(found.c, e).ids]
      ELSE found

Extended(found, e) ==
    [found EXCEPT !.c =
        IF e.family = "engagement" THEN @
        ELSE FoldLeft(LAMBDA x, id : AppendConstituent(x, id, e.id, e.type), @, found.ids)]

Joined(found, e) == [found EXCEPT !.c.joined = Put(@, e.id, found.ids)]

Concluded(found, e) ==
    IF e.type \in TerminalEvents
      THEN FoldLeft(LAMBDA x, id : CloseInteraction(x, id, e.outcome), found.c, found.ids)
      ELSE found.c

CollectInteractionEvent(c, e) ==
    Concluded(Joined(Extended(WithContention(Assigned(c, e), e), e), e), e)

(***************************************************************************)
(* Exposure: who shares a place with whom and who sees whom, looked at once *)
(* a tick.                                                                  *)
(***************************************************************************)
StartInterval(c, key) ==
    LET n == Get(c.intervals, key, 0) + 1
        id == Append(key, ToString(n))
    IN AppendConstituent(
           StartInteraction([c EXCEPT !.intervals = Put(@, key, n)], id, key[1], key,
               {<<key[2], "one">>, <<key[2], "other">>}, "active"),
           id, "interval.started", "interval.started")

IsExposure(key) == key[1] \in {"co_presence", "visibility"}

CaptureExposureIntervals(c, current) ==
    LET over == {key \in DOMAIN c.keys : IsExposure(key)} \ current IN
    CloseAll(FoldSet(LAMBDA key, x : StartInterval(x, key), c, current \ DOMAIN c.keys),
             {c.keys[key] : key \in over}, "ended")

CloseExposures(c) ==
    CloseAll(c, {c.keys[key] : key \in {k \in DOMAIN c.keys : IsExposure(k)}}, "ended")

(***************************************************************************)
(* Rebuilding: what each record does to the tables.                         *)
(***************************************************************************)
RebuildInteractionEpisode(db, r) ==
    LET ended == AppendParticipants(
                     AppendInteraction(db, r.id, r.number, r.status, TRUE), r.id, r.people)
        missing == {event \in r.events : <<r.id, event>> \notin DOMAIN db.events}
    IN AppendInteractionEpisode(
           FoldSet(LAMBDA event, x : AppendInteractionEvent(x, r.id, event, r.number),
                   ended, missing),
           r.id, r.number, r.status)

RebuildInteraction(db, r) ==
    CASE r.kind = "interaction_started" ->
           AppendParticipants(
               AppendInteraction(db, r.id, r.number, r.status, FALSE), r.id, r.people)
      [] r.kind = "interaction_event" ->
           LET appended == AppendInteractionEvent(db, r.id, r.event, r.number) IN
           IF r.type \in DOMAIN PhysicalStatus /\ r.id \in DOMAIN db.interactions
             THEN [appended EXCEPT
                     !.interactions[r.id].status = PhysicalStatus[r.type]]
             ELSE appended
      [] OTHER -> RebuildInteractionEpisode(db, r)
=============================================================================
