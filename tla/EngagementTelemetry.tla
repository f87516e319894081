------------------------- MODULE EngagementTelemetry -------------------------
(***************************************************************************)
(* The engagements of a character as an operator sees them                  *)
(* (application/telemetry.py): every snapshot folds the events of the run   *)
(* anew, cut down to what may be shown, and lays what the character's       *)
(* components say now over it.  A view is a function from the engagements   *)
(* that have been told of to what they have come to, one for each actor.    *)
(* Lineage, references, participants and ticks are left out, and so are the *)
(* order of groups and the limit of five on what is shown of the past.      *)
(***************************************************************************)
EXTENDS DatasetRecords

NewProjection ==
    [status |-> "requested", compiler |-> Absent, groups |-> NoRows, evidence |-> <<>>]

Terminal == {"partial", "completed", "failed", "cancelled"}

\* _engagement_event_phase_status: what a compilation event says of the compiler.
CompilerStatuses ==
    ("engagement.compilation_requested" :> "pending")
    @@ ("engagement.compilation_completed" :> "succeeded")
    @@ ("engagement.compilation_failed" :> "failed")
    @@ ("engagement.compilation_cancelled" :> "cancelled")

(***************************************************************************)
(* The fold over the events.                                                *)
(***************************************************************************)
StatusAfter(p, e) ==
    CASE e.type = "engagement.compilation_completed" -> "compiled"
      [] e.type = "engagement.compilation_failed" -> "failed"
      [] e.type = "engagement.compilation_cancelled" -> "cancelled"
      [] e.type = "engagement.started" -> "running"
      [] e.outcome \in Terminal -> e.outcome
      [] OTHER -> p.status

\* Evidence of a group nothing is known of shows that it is running.
GroupsAfter(groups, e) ==
    CASE e.type = "engagement.group_completed" -> Put(groups, e.group, "completed")
      [] e.type = "engagement.group_failed" -> Put(groups, e.group, "failed")
      [] e.type = "engagement.capability_committed" -> groups @@ (e.group :> "running")
      [] OTHER -> [group \in DOMAIN e.statuses |-> e.statuses[group].status] @@ groups

\* Mutant: a second piece of evidence of a group is dropped.
EvidenceOfNew(p, e) ==
    IF e.type = "engagement.capability_committed" /\ e.group \notin DOMAIN p.groups
      THEN Append(p.evidence, <<e.group, e.invocation>>) ELSE p.evidence

EvidenceAfter(p, e) ==
    IF e.type = "engagement.capability_committed"
      THEN Append(p.evidence, <<e.group, e.invocation>>) ELSE p.evidence

Projection(p, e) ==
    [status |-> StatusAfter(p, e), compiler |-> Get(CompilerStatuses, e.type, p.compiler),
     groups |-> GroupsAfter(p.groups, e), evidence |-> EvidenceAfter(p, e)]

\* project_operator_event lets every event of an engagement through, private or not.
Seen(view, e) ==
    IF e.family # "engagement" THEN view
    ELSE LET old == Get(view[e.agent], e.engagement, NewProjection) IN
         [view EXCEPT ![e.agent] = Put(@, e.engagement, Projection(old, e))]

(***************************************************************************)
(* The snapshot: `id' is the engagement a character is in, `at' the         *)
(* component it has for it, `groups' what that says of the groups.          *)
(***************************************************************************)
Progress(groups) ==
    [status \in {"completed", "failed", "cancelled"} |->
        Cardinality({group \in DOMAIN groups : groups[group] = status})]

Shown(id, status, compiler, groups, evidence) ==
    [id |-> id, status |-> status, compiler |-> compiler, groups |-> groups,
     progress |-> Progress(groups), evidence |-> evidence]

EvidenceOf(view, id) == Get(view, id, NewProjection).evidence

PendingPayload(view, id) == Shown(id, "pending", "pending", NoRows, EvidenceOf(view, id))

ProgramPayload(view, id, groups) ==
    Shown(id, "compiled", "succeeded", [group \in DOMAIN groups |-> "pending"],
          EvidenceOf(view, id))

ExecutionPayload(view, id, groups) ==
    Shown(id, "running", "succeeded", groups, EvidenceOf(view, id))

Current(view, id, at, groups) ==
    CASE at = "compiling" -> {PendingPayload(view, id)}
      [] at = "compiled" -> {ProgramPayload(view, id, groups)}
      [] at = "engaged" -> {ExecutionPayload(view, id, groups)}
      [] OTHER -> {}

\* What is over, unless a component still says otherwise.
Recent(view, current) ==
    {Shown(id, view[id].status, view[id].compiler, view[id].groups, view[id].evidence) :
        id \in {x \in DOMAIN view : /\ \/ view[x].status \in Terminal
                                       \/ view[x].compiler \in {"failed", "cancelled"}
                                    /\ \A item \in current : item.id # x}}

EngagementSnapshot(view, id, at, groups) ==
    LET current == Current(view, id, at, groups) IN current \cup Recent(view, current)
=============================================================================
