-------------------------- MODULE ActionLifecycle --------------------------
(***************************************************************************)
(* The plan of a character and the lifecycle events of its actions, as     *)
(* values: a character `c' is a record with at least                       *)
(*   c.plan   PlanComponent                                                *)
(*   c.story  id -> the action.* events emitted for that action            *)
(* and every helper of lineage.py and plans.py is an operator from         *)
(* characters to characters.  Ids are numbered per character.              *)
(***************************************************************************)
EXTENDS Naturals, Sequences

CONSTANTS
    None   \* Python's None

Terminal == {"completed", "failed", "cancelled"}
Events == {"queued", "started"} \union Terminal

\* open: the plan has an id.  timer: remaining_duration, 0 when there is none.
\* before: previous_activity.  waiting: which of the waiting_for_* flags is set.
EmptyPlan ==
    [open |-> FALSE, queue |-> <<>>, current |-> None,
     timer |-> 0, before |-> "NONE", waiting |-> "no"]

QueuedIds(c) == {c.plan.queue[i].id : i \in DOMAIN c.plan.queue}
CurrentIds(c) == IF c.plan.current = None THEN {} ELSE {c.plan.current.id}
PlanIdle(c) == c.plan.current = None /\ c.plan.queue = <<>>

Tell(c, ids, event) ==
    [c EXCEPT !.story =
        [i \in DOMAIN @ |-> IF i \in ids THEN Append(@[i], event) ELSE @[i]]]

\* new_action_instance and its action.queued event, outside any plan.
NewAction(c, act, target, origin) ==
    [id |-> Len(c.story) + 1, act |-> act, target |-> target, origin |-> origin]

Announce(c) == [c EXCEPT !.story = Append(@, <<"queued">>)]

QueueAction(c, act, target, origin) ==
    [Announce(c) EXCEPT
        !.plan.open = TRUE,
        !.plan.queue = Append(@, NewAction(c, act, target, origin))]

\* plan.current = plan.queue.pop(0)
TakeNext(c) ==
    [c EXCEPT !.plan.current = Head(c.plan.queue), !.plan.queue = Tail(@)]

ClearPlanLineage(c) ==
    [Tell(c, CurrentIds(c) \union QueuedIds(c), "cancelled") EXCEPT !.plan = EmptyPlan]

\* The event of the current action and reset_current_plan_action.
EndCurrent(c, event) ==
    [Tell(c, CurrentIds(c), event) EXCEPT
        !.plan = [EmptyPlan EXCEPT !.open = c.plan.open, !.queue = c.plan.queue]]

CompletePlanAction(c) ==
    [EndCurrent(c, "completed") EXCEPT !.plan.open = c.plan.queue # <<>>]

\* Mutant of FailPlanAction: the failed action is cleared with the rest.
FailTwice(c) == ClearPlanLineage(Tell(c, CurrentIds(c), "failed"))

FailPlanAction(c) == ClearPlanLineage(EndCurrent(c, "failed"))
=============================================================================
