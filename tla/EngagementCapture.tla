-------------------------- MODULE EngagementCapture --------------------------
(***************************************************************************)
(* The engagements of a run, as the research collector follows them: one    *)
(* projection per engagement, written out whole after each of its events,   *)
(* once for private research and once, cut down to what has been executed,  *)
(* for the operator (application/collection.py, adapters/persistence/       *)
(* sqlite.py).                                                              *)
(*                                                                          *)
(* The field `engagements' of the collector holds the projections; they are *)
(* never dropped.  Versions, texts, proposals and times are left out.       *)
(***************************************************************************)
EXTENDS DatasetRecords

NewEngagement ==
    [status |-> "requested", compiler |-> Absent, started |-> FALSE,
     outcome |-> Absent, groups |-> NoRows]

NewGroup == [validation |-> "unknown", execution |-> "not_started", invocations |-> NoRows]

OfGroup(g, group) == Get(g.groups, group, NewGroup)

Outcomes == {"completed", "partial", "failed", "cancelled"}
Settled == Outcomes \cup {"unfinished"}

(***************************************************************************)
(* What an event tells of groups and of the invocations in them.            *)
(***************************************************************************)
Pending(invocations) == [i \in invocations |-> "pending"]

\* Every known invocation that is named and not committed takes the status.
Marked(known, named, status) ==
    [i \in DOMAIN known |->
        IF i \in named /\ known[i] # "committed" THEN status ELSE known[i]]

ProjectCompiledGroups(g, valid, rejected) ==
    [g EXCEPT !.groups =
        [group \in rejected |-> [OfGroup(g, group) EXCEPT
             !.validation = "rejected", !.execution = "not_run"]]
        @@ [group \in DOMAIN valid |-> [OfGroup(g, group) EXCEPT
             !.validation = "valid", !.execution = "pending",
             !.invocations = @ @@ Pending(valid[group])]]
        @@ @]

ProjectGroupEvent(g, group, outcome, named) ==
    LET known == OfGroup(g, group).invocations @@ Pending(named) IN
    [g EXCEPT !.groups = Put(@, group,
        [validation |-> "valid", execution |-> outcome,
         invocations |-> IF outcome = "failed" THEN Marked(known, named, "failed")
                         ELSE known])]

ProjectInvocationEvent(g, group, invocation) ==
    [g EXCEPT !.groups = Put(@, group,
        [OfGroup(g, group) EXCEPT
           !.validation = "valid",
           !.execution = IF @ = "not_started" THEN "running" ELSE @,
           !.invocations = Put(@, invocation, "committed")])]

\* Mutant: the invocations of a cancelled group stay as they were.
ProjectGroupStatusesOnly(g, statuses) ==
    [g EXCEPT !.groups =
        [group \in DOMAIN statuses |-> [OfGroup(g, group) EXCEPT
             !.validation = "valid", !.execution = statuses[group].status]] @@ @]

\* _project_terminal_group_statuses: `statuses' is what an outcome says of each group.
ProjectTerminalGroups(g, statuses) ==
    [g EXCEPT !.groups =
        [group \in DOMAIN statuses |->
            LET told == statuses[group]
                known == OfGroup(g, group).invocations @@ Pending(told.invocations) IN
            [validation |-> "valid", execution |-> told.status,
             invocations |-> Marked(known, told.invocations, told.status)]] @@ @]

(***************************************************************************)
(* The tables.  Absent values never replace known ones, but a status always *)
(* replaces a status.                                                       *)
(***************************************************************************)
NoEngagementTables ==
    [engagements |-> NoRows, engagement_groups |-> NoRows, invocations |-> NoRows]

AppendEngagement(db, id, record, row) ==
    LET old == Get(db.engagements, id, row) IN
    [db EXCEPT !.engagements = Put(@, id,
        [record |-> record, status |-> row.status,
         compiler |-> IF row.compiler # Absent THEN row.compiler ELSE old.compiler,
         started |-> row.started \/ old.started,
         outcome |-> IF row.outcome # Absent THEN row.outcome ELSE old.outcome])]

AppendEngagementGroups(db, id, record, groups) ==
    [db EXCEPT
       !.engagement_groups =
           [key \in {id} \X DOMAIN groups |->
               [record |-> record, validation |-> groups[key[2]].validation,
                execution |-> groups[key[2]].execution]] @@ @,
       !.invocations =
           [key \in UNION {{<<id, group, i>> : i \in DOMAIN groups[group].invocations} :
                              group \in DOMAIN groups} |->
               [record |-> record, status |-> groups[key[2]].invocations[key[3]]]] @@ @]

\* _persist_engagement_feature_payload, and what a rebuild does with the record.
PersistEngagementFeature(db, r) ==
    AppendEngagementGroups(AppendEngagement(db, r.id, r.number, r.engagement),
                           r.id, r.number, r.groups)

HasPublicExecution(group) ==
    /\ group.validation = "valid"
    /\ \/ group.execution \notin {"not_started", "pending"}
       \/ \E i \in DOMAIN group.invocations : group.invocations[i] = "committed"

\* The groups and invocations an operator may read of.
PublicGroups(groups) ==
    [group \in {x \in DOMAIN groups : HasPublicExecution(groups[x])} |->
        [groups[group] EXCEPT !.invocations =
            Drop(@, {i \in DOMAIN @ : @[i] # "committed"})]]

Persisted(c) == [c EXCEPT !.db = PersistEngagementFeature(@, Last(c.log))]

PersistFeature(c, id, private) ==
    LET g == c.engagements[id] IN
    Persisted(Record(c, [kind |-> "engagement_feature", id |-> id, private |-> private,
                         engagement |-> [status |-> g.status, compiler |-> g.compiler,
                                         started |-> g.started, outcome |-> g.outcome],
                         groups |-> IF private THEN g.groups ELSE PublicGroups(g.groups)]))

\* For the researcher, and what is public for the operator as well.
PersistBoth(c, id, public) ==
    IF public THEN PersistFeature(PersistFeature(c, id, TRUE), id, FALSE)
    ELSE PersistFeature(c, id, TRUE)

(***************************************************************************)
(* Events, traces and the end of the run.                                   *)
(***************************************************************************)
ProjectEngagementEvent(g, e) ==
    CASE e.type = "engagement.requested" -> [g EXCEPT !.status = "requested"]
      [] e.type = "engagement.compilation_requested" ->
           [g EXCEPT !.status = "compiling", !.compiler = "requested"]
      [] e.type = "engagement.compilation_completed" ->
           ProjectCompiledGroups(
               [g EXCEPT !.status = "compiled", !.compiler = "completed"],
               e.valid, e.rejected)
      [] e.type = "engagement.compilation_failed" ->
           [g EXCEPT !.status = "compilation_failed", !.compiler = "failed"]
      [] e.type = "engagement.compilation_cancelled" -> [g EXCEPT !.compiler = "cancelled"]
      [] e.type = "engagement.started" -> [g EXCEPT !.status = "running", !.started = TRUE]
      [] e.type = "engagement.group_completed" ->
           ProjectGroupEvent(g, e.group, "completed", e.invocations)
      [] e.type = "engagement.group_failed" ->
           ProjectGroupEvent(g, e.group, "failed", e.invocations)
      [] e.type = "engagement.capability_committed" ->
           ProjectInvocationEvent(g, e.group, e.invocation)
      [] OTHER -> ProjectTerminalGroups(
                      [g EXCEPT !.status = e.outcome, !.outcome = e.outcome], e.statuses)

CollectEngagementEvent(c, e) ==
    PersistBoth([c EXCEPT !.engagements = Put(@, e.engagement,
                    ProjectEngagementEvent(Get(@, e.engagement, NewEngagement), e))],
                e.engagement, ~e.private \/ e.type = "engagement.capability_committed")

\* A trace of the compiler may come when all is over.
ProjectEngagementTrace(c, id) ==
    LET g == Get(c.engagements, id, NewEngagement) IN
    PersistBoth([c EXCEPT !.engagements = Put(@, id, g)], id, g.status \in Settled)

Unfinished(g) ==
    [g EXCEPT
       !.status = "unfinished", !.outcome = "unfinished",
       !.groups = [group \in DOMAIN @ |->
           IF @[group].validation # "valid" THEN @[group]
           ELSE [@[group] EXCEPT
                   !.execution = IF @ \in {"completed", "failed", "cancelled"} THEN @
                                 ELSE "unfinished",
                   !.invocations = Marked(@, DOMAIN @, "unfinished")]]]

CloseOpenEngagements(c) ==
    FoldSet(LAMBDA id, x :
               PersistFeature(
                   PersistFeature([x EXCEPT !.engagements[id] = Unfinished(@)], id, TRUE),
                   id, FALSE),
            c, {id \in DOMAIN c.engagements : c.engagements[id].status \notin Settled})
=============================================================================
