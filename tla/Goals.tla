-------------------------------- MODULE Goals --------------------------------
(***************************************************************************)
(* Goals and their evaluation (application/goals.py,                        *)
(* domain/components/goals.py): what one evaluation makes of a goal, given  *)
(* the events read since the last one and the state of the world.           *)
(*                                                                         *)
(* A criterion is met by an event ("event"), by the outcome of an action    *)
(* ("action"), by so many interactions ("count"), by a place ("place") or   *)
(* by the time ("time"); comparisons of other state are like the last two.  *)
(***************************************************************************)
EXTENDS Integers, Sequences, FiniteSets, SequencesExt

CONSTANTS
    None,
    Scale       \* progress 1.0 of one criterion; every minimum divides it

ASSUME ScaleAssumption == Scale \in Nat \ {0}

\* _INTERACTION_EVENTS: the events that a criterion of the kind "count" may count.
Interactions == {"speech.started", "transaction.completed", "interaction.completed"}

\* The elements of a sequence that are in a set, in their order.
Only(seq, elements) ==
    FoldLeft(LAMBDA found, x : IF x \in elements THEN Append(found, x) ELSE found, <<>>, seq)

Closed == {"succeeded", "failed", "expired", "retired", "unknown"}

NewGoal(criteria) ==
    [status |-> "pending", progress |-> 0, matched |-> {}, evidence |-> <<>>,
     parts |-> [i \in DOMAIN criteria |-> 0], counts |-> [i \in DOMAIN criteria |-> 0]]

\* _is_payload_subset, the filter of an action's outcome, _interaction_matches
Matches(owner, c, e) ==
    /\ e.type = c.type
    /\ CASE c.kind = "event" -> e.agent \in {None, owner}
         [] c.kind = "action" -> e.agent = owner /\ c.target \in {None, e.target}
         [] c.kind = "count" ->
              /\ owner \in {e.agent, e.target}
              /\ \/ c.target = None
                 \/ e.agent = owner /\ e.target = c.target
                 \/ e.agent # owner /\ e.agent = c.target

\* The world the comparisons look at.
Holds(c, world) ==
    CASE c.kind = "place" -> c.target = world.place
      [] c.kind = "time" -> world.now >= c.minimum

Lesser(x, y) == IF x <= y THEN x ELSE y

\* Mutant of Counted: the count starts again with every evaluation.
CountedAnew(goal, i, found) == found

Counted(goal, i, found) == goal.counts[i] + found

\* _criterion_progress: a criterion that was met once stays met.
Measured(owner, goal, i, c, events, world) ==
    LET found == Cardinality({n \in DOMAIN events : Matches(owner, c, events[n])})
        total == Counted(goal, i, found)
        met(yes) == [part |-> IF yes THEN Scale ELSE 0, count |-> 0, new |-> yes]
    IN IF i \in goal.matched
         THEN [part |-> Scale, count |-> goal.counts[i], new |-> FALSE]
       ELSE IF c.kind = "count"
         THEN [part |-> Lesser(Scale, total * (Scale \div c.minimum)),
               count |-> total, new |-> found > 0]
       ELSE IF c.kind \in {"event", "action"} THEN met(found > 0)
       ELSE met(Holds(c, world))

Met(matched, i, part) == IF part = Scale THEN matched \union {i} ELSE matched

\* Every criterion is measured, also after one of failure.
Assessed(def, goal, events, world) ==
    LET measure(g, i) ==
          LET m == Measured(def.owner, g, i, def.criteria[i], events, world) IN
          [g EXCEPT !.parts[i] = m.part, !.counts[i] = m.count,
                    !.matched = Met(@, i, m.part),
                    !.evidence = IF m.new THEN Append(@, <<i, world.now>>) ELSE @]
    IN FoldLeft(measure, goal, [i \in DOMAIN def.criteria |-> i])

Of(def, effect) == {i \in DOMAIN def.criteria : def.criteria[i].effect = effect}

\* In shares of Scale times the number of criteria.
ProgressOf(def, parts) ==
    LET success == Of(def, "success")
        more(x, i) == IF i \in success THEN x + parts[i] ELSE x
        best(x, i) == IF i \in success /\ parts[i] > x THEN parts[i] ELSE x
        all == [i \in DOMAIN def.criteria |-> i]
    IN IF def.policy = "ALL" THEN FoldLeft(more, 0, all)
         ELSE Cardinality(success) * FoldLeft(best, 0, all)

Fails(def, goal) == \E i \in Of(def, "failure") : goal.parts[i] = Scale
Whole(def, goal) ==
    /\ Of(def, "success") # {}
    /\ goal.progress >= Scale * Cardinality(Of(def, "success"))
Late(def, now) == def.by # None /\ now >= def.by

\* Mutant of Verdict: success is looked at before failure.
VerdictOfSuccess(def, goal, now) ==
    CASE Whole(def, goal) -> "succeeded"
      [] ~Whole(def, goal) /\ Fails(def, goal) -> "failed"
      [] OTHER -> IF Late(def, now) THEN "expired" ELSE "active"

\* What _evaluate_goal ends with: failure before success before the deadline.
Verdict(def, goal, now) ==
    CASE Fails(def, goal) -> "failed"
      [] ~Fails(def, goal) /\ Whole(def, goal) -> "succeeded"
      [] OTHER -> IF Late(def, now) THEN "expired" ELSE "active"

Closing ==
    [succeeded |-> "goal.succeeded", failed |-> "goal.failed", expired |-> "goal.expired"]

\* _evaluate_goal: the goal, and the events it emits, in their order.
Evaluated(def, goal, events, world) ==
    LET waits == \/ goal.status \in Closed
                 \/ goal.status = "pending" /\ def.from # None /\ world.now < def.from
        assessed == Assessed(def, goal, events, world)
        progress == IF Of(def, "success") = {} THEN goal.progress
                    ELSE ProgressOf(def, assessed.parts)
        risen == [assessed EXCEPT !.progress = progress]
        verdict == Verdict(def, risen, world.now)
        told(yes, type) == IF yes THEN <<type>> ELSE <<>>
    IN CASE waits -> [goal |-> goal, emits |-> <<>>]
         [] ~waits /\ def.criteria = <<>> ->
              [goal |-> [goal EXCEPT !.status = "active"],
               emits |-> told(goal.status = "pending", "goal.activated")]
         [] ~waits /\ def.criteria # <<>> ->
              [goal |-> [risen EXCEPT !.status = verdict],
               emits |-> told(goal.status = "pending", "goal.activated")
                         \o told(progress > goal.progress, "goal.progressed")
                         \o (IF verdict = "active" THEN <<>> ELSE <<Closing[verdict]>>)]
=============================================================================
