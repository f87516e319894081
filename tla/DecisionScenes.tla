---------------------------- MODULE DecisionScenes ----------------------------
(***************************************************************************)
(* Characters that decide: the events of the agent work coordinator         *)
(* (application/agents/coordinator.py) and of the plan that carries out the *)
(* action, and the traces of the thread that asks the model                 *)
(* (application/agents/controller.py), which goes on by itself and may be   *)
(* done after nobody waits for it any more.  One round per decision.        *)
(***************************************************************************)
EXTENDS Recording

Offered == {"tool:go", "tool:wait"}

Decision(k) == Nth(k, "decision")

Told(k, type, fields) == Event(k, "cognition", type, fields @@ [decision |-> Decision(k)])

Trace(k, kind, status) ==
    [kind |-> kind, decision |-> Decision(k), request |-> Nth(k, "round"),
     status |-> status, options |-> Offered]

(***************************************************************************)
(* The thread.                                                              *)
(***************************************************************************)
Works(k, from, to, left) ==
    /\ k \in Deciders /\ scene[k].work = from
    /\ EmitsAndRecords(k, [scene[k] EXCEPT !.work = to], <<>>, left)

AskModel(k) ==
    Works(k, "submitted", "asking",
          <<Trace(k, "decision_request", Absent), Trace(k, "model_request", "requested")>>)

ModelAnswers(k) ==
    \E status \in {"model_completed", "model_rejected"} :
        Works(k, "asking", status,
              <<Trace(k, "model_turn", "completed"), Trace(k, "decision_result", status)>>)

ModelFails(k) ==
    \E status \in {"failed", "timeout"} :
        Works(k, "asking", status, <<Trace(k, "model_error", status)>>)

(***************************************************************************)
(* The coordinator.                                                         *)
(***************************************************************************)
RequestDecision(k) ==
    /\ k \in Deciders /\ scene[k].at = "idle"
    /\ EmitsAndRecords(k, [scene[k] EXCEPT !.at = "deciding", !.work = "submitted"],
                       <<Told(k, "cognition.requested", NoRows)>>, <<>>)

Failure(k, status) == <<Trace(k, "model_error", status), Trace(k, "decision_result", status)>>

\* The model has failed, or the deadline has passed with the thread at work; that
\* is recorded when it is noticed and when it is applied.
FailDecision(k) ==
    LET late == scene[k].work \in {"submitted", "asking"} IN
    /\ k \in Deciders /\ scene[k].at = "deciding"
    /\ late \/ scene[k].work \in {"failed", "timeout"}
    /\ EmitsAndRecords(k,
           [scene[k] EXCEPT !.at = "over", !.work = IF @ = "submitted" THEN "none" ELSE @],
           <<Told(k, "cognition.failed", NoRows)>>,
           IF late THEN Failure(k, "timeout") \o Failure(k, "timeout")
           ELSE Failure(k, scene[k].work))

\* The future that has not started is cancelled, the one that has goes on.
CancelDecision(k) ==
    /\ k \in Deciders /\ scene[k].at = "deciding"
    /\ EmitsAndRecords(k,
           [scene[k] EXCEPT !.at = "over",
                            !.work = IF @ = "submitted" THEN "none" ELSE @],
           <<Told(k, "cognition.cancelled", NoRows)>>, Failure(k, "cancelled"))

\* Stages a proposal may reach before it is rejected, or it is committed.
ApplyDecision(k) ==
    LET completed == <<Told(k, "cognition.completed", NoRows)>>
        Tool(type, fields) == Told(k, type, fields)
        proposed(tool) == completed \o <<Tool("tool.proposed", [tool |-> tool])>>
        accepted(tool) == proposed(tool) \o <<Tool("tool.accepted", [tool |-> tool])>>
        rejected(tool) == <<Tool("tool.rejected", [tool |-> tool])>>
        action == [action |-> Nth(k, "action")]
        queued == <<Told(k, "action.queued", action)>>
        committed(tool, fields) == <<Tool("tool.committed", fields @@ [tool |-> tool])>>
    IN /\ k \in Deciders /\ scene[k].at = "deciding"
       /\ \/ /\ scene[k].work = "model_rejected"
             /\ Emits(k, "over", completed \o rejected(Absent))
          \/ /\ scene[k].work = "model_completed"
             /\ \/ \E tool \in Offered \cup {"tool:other"} :
                       Emits(k, "over", proposed(tool) \o rejected(tool))
                \/ Emits(k, "over", accepted("tool:go") \o rejected("tool:go"))
                \/ Emits(k, "planned",
                         accepted("tool:go") \o queued \o committed("tool:go", action))
                \/ Emits(k, "over",
                         accepted("tool:wait") \o committed("tool:wait", NoRows)
                         \o <<Told(k, "cognition.skipped", NoRows)>>)

(***************************************************************************)
(* The plan: an action ends once, and may end without having started.       *)
(***************************************************************************)
Carried(k, status) ==
    <<Told(k, "action." \o status, [action |-> Nth(k, "action")])>>

StartAction(k) ==
    /\ k \in Deciders /\ scene[k].at = "planned"
    /\ \/ Emits(k, "acting", Carried(k, "started"))
       \/ \E status \in {"failed", "cancelled"} : Emits(k, "over", Carried(k, status))

\* Other events name the action while it lasts.
ActionNoted(k) ==
    /\ k \in Deciders /\ scene[k].at = "acting"
    /\ Emits(k, "noted",
             <<Event(k, "other", "navigation.arrived", [action |-> Nth(k, "action")])>>)

EndAction(k) ==
    /\ k \in Deciders /\ scene[k].at \in {"acting", "noted"}
    /\ \E status \in TerminalActions : Emits(k, "over", Carried(k, status))

Decides(k) ==
    \/ AskModel(k) \/ ModelAnswers(k) \/ ModelFails(k)
    \/ RequestDecision(k) \/ FailDecision(k) \/ CancelDecision(k) \/ ApplyDecision(k)
    \/ StartAction(k) \/ ActionNoted(k) \/ EndAction(k)
=============================================================================
