--------------------------- MODULE EngagementScenes ---------------------------
(***************************************************************************)
(* Characters that engage: the events of the coordinator that has an        *)
(* engagement compiled (application/engagements/coordinator.py) and of the  *)
(* system that executes it (domain/systems/engagements.py), in the orders   *)
(* in which they can be emitted.  A program has up to two groups, tried in  *)
(* order; the first has two invocations, which are committed together.      *)
(***************************************************************************)
EXTENDS Recording

Groups == <<"first", "second">>

InvocationsOf(group) == IF group = "first" THEN {"a", "b"} ELSE {"c"}

(***************************************************************************)
(* Events.                                                                  *)
(***************************************************************************)
Engaged(k, type, fields) ==
    Event(k, "engagement", "engagement." \o type,
          fields @@ [engagement |-> Nth(k, "engagement")])

Private(k, type, fields) == Engaged(k, type, fields @@ [private |-> TRUE])

OfGroupEvent(k, group, type) ==
    Engaged(k, "group_" \o type,
            [id |-> Nth(k, "group" \o type) \o group, group |-> group,
             invocations |-> InvocationsOf(group)])

\* A group commits all of its invocations in one call.
Committed(k, group) ==
    [i \in 1 .. Cardinality(InvocationsOf(group)) |->
        LET invocation == SetToSeq(InvocationsOf(group))[i] IN
        Private(k, "capability_committed",
                [id |-> Nth(k, "committed") \o invocation, group |-> group,
                 invocation |-> invocation])]
    \o <<OfGroupEvent(k, group, "completed")>>

Ended(k, outcome, statuses) ==
    Engaged(k, outcome, [outcome |-> outcome, statuses |-> statuses])

CompilerTrace(k) == <<[kind |-> "engagement_compilation",
                       engagement |-> Nth(k, "engagement")]>>

(***************************************************************************)
(* Compilation.                                                             *)
(***************************************************************************)
FailedCompilation(k) ==
    <<Private(k, "compilation_failed", NoRows), Ended(k, "failed", NoRows)>>

Engage(k) ==
    LET asked == Private(k, "requested", NoRows) IN
    /\ k \in Engagers /\ scene[k].at = "idle"
    /\ \/ Emits(k, "over", <<asked>> \o FailedCompilation(k))
       \/ EmitsAndRecords(k, [scene[k] EXCEPT !.at = "compiling"],
              <<asked, Private(k, "compilation_requested", NoRows)>>, CompilerTrace(k))

\* The second group may be refused, or not be there.
Compiled(k) ==
    /\ k \in Engagers /\ scene[k].at = "compiling"
    /\ \E valid \in {{"first"}, {"first", "second"}}, rejected \in SUBSET {"second"} :
           /\ valid \cap rejected = {}
           /\ EmitsAndRecords(k,
                  [scene[k] EXCEPT !.at = "compiled",
                                   !.groups = [group \in valid |-> "pending"]],
                  <<Private(k, "compilation_completed",
                      [valid |-> [group \in valid |-> InvocationsOf(group)],
                       rejected |-> rejected])>>,
                  CompilerTrace(k))

CompilationFails(k) ==
    /\ k \in Engagers /\ scene[k].at = "compiling"
    /\ EmitsAndRecords(k, [scene[k] EXCEPT !.at = "over"],
                       FailedCompilation(k), CompilerTrace(k))

(***************************************************************************)
(* Execution.                                                               *)
(***************************************************************************)
\* What the groups come to when those in `done' are completed and others fail.
OutcomeOf(done, groups) ==
    IF done = groups THEN "completed" ELSE IF done = {} THEN "failed" ELSE "partial"

\* The groups of a set, in the order of the program.
InOrder(groups) ==
    FoldLeft(LAMBDA found, group : IF group \in groups THEN Append(found, group) ELSE found,
             <<>>, Groups)

\* The events of groups that have come to something, after those in `before'.
OutcomesOf(k, before, now, settled) ==
    FoldLeft(LAMBDA events, group :
                events \o (IF now[group] = "completed" THEN Committed(k, group)
                           ELSE <<OfGroupEvent(k, group, "failed")>>),
             before, settled)

\* _advance: each group is validated when it is due and either commits or
\* fails; a timed one runs first, and what comes after it waits.
Advance(k, started, statuses) ==
    LET due == InOrder({group \in DOMAIN statuses :
                            statuses[group] \in {"pending", "running"}})
    IN \/ \E done \in SUBSET ToSet(due) :
              LET now == [group \in DOMAIN statuses |->
                      IF statuses[group] \notin {"pending", "running"} THEN statuses[group]
                      ELSE IF group \in done THEN "completed" ELSE "failed"]
                  outcome == OutcomeOf({g \in DOMAIN now : now[g] = "completed"}, DOMAIN now)
              IN EmitsAndRecords(k, [scene[k] EXCEPT !.at = "over", !.groups = now],
                     OutcomesOf(k, started, now, due) \o
                     <<Ended(k, outcome,
                         [group \in DOMAIN now |->
                             [status |-> now[group], invocations |-> {}]])>>, <<>>)
       \/ \E i \in DOMAIN due : \E done \in SUBSET ToSet(SubSeq(due, 1, i - 1)) :
              LET earlier == SubSeq(due, 1, i - 1)
                  now == [group \in DOMAIN statuses |->
                      IF group = due[i] THEN "running"
                      ELSE IF group \notin ToSet(earlier) THEN statuses[group]
                      ELSE IF group \in done THEN "completed" ELSE "failed"]
              IN /\ statuses[due[i]] = "pending"
                 /\ EmitsAndRecords(k, [scene[k] EXCEPT !.at = "engaged", !.groups = now],
                                    OutcomesOf(k, started, now, earlier), <<>>)

Execute(k) ==
    /\ k \in Engagers
    /\ \/ /\ scene[k].at = "compiled"
          /\ Advance(k, <<Engaged(k, "started", NoRows)>>, scene[k].groups)
       \/ /\ scene[k].at = "engaged"
          /\ Advance(k, <<>>, scene[k].groups)

(***************************************************************************)
(* Cancellation: the action is lost, the body preempts, the run stops.      *)
(***************************************************************************)
Cancel(k) ==
    LET cancelled == [group \in DOMAIN scene[k].groups |->
            IF scene[k].groups[group] \in {"pending", "running"} THEN "cancelled"
            ELSE scene[k].groups[group]]
        told == [group \in DOMAIN cancelled |->
            [status |-> cancelled[group], invocations |-> InvocationsOf(group)]]
        pending == scene[k].at = "compiling"
    IN /\ k \in Engagers /\ scene[k].at \in {"compiling", "compiled", "engaged"}
       /\ EmitsAndRecords(k, [scene[k] EXCEPT !.at = "over", !.groups = cancelled],
              (IF pending THEN <<Private(k, "compilation_cancelled", NoRows)>> ELSE <<>>)
                  \o <<Ended(k, "cancelled", told)>>,
              IF pending THEN CompilerTrace(k) ELSE <<>>)

Engages(k) == Engage(k) \/ Compiled(k) \/ CompilationFails(k) \/ Execute(k) \/ Cancel(k)
=============================================================================
