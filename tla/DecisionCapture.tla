--------------------------- MODULE DecisionCapture ---------------------------
(***************************************************************************)
(* The decisions of a run, the model calls and tools behind them and the    *)
(* actions that come of them, as the research collector follows them        *)
(* (application/collection.py, adapters/persistence/sqlite.py).             *)
(*                                                                          *)
(* A decision is told twice: by events, which are collected as they are     *)
(* emitted, and by traces, which threads leave in a queue the collector     *)
(* drains later.  The fields of the collector here are `decisions' and      *)
(* `actions', the episodes it follows; they are never dropped.              *)
(***************************************************************************)
EXTENDS DatasetRecords

NoDecisionTables ==
    [decisions |-> NoRows, options |-> NoRows, model_requests |-> NoRows,
     turns |-> NoRows, tools |-> NoRows, decision_episodes |-> NoRows,
     action_instances |-> NoRows, transitions |-> <<>>, action_episodes |-> NoRows]

Known(new, old) == IF new # Absent THEN new ELSE old

\* The row keeps the record it had when the new one brings no context.
AppendDecision(db, id, record, status, d) ==
    LET old == Get(db.decisions, id, [record |-> record, selected |-> Absent, context |-> {}])
    IN [db EXCEPT !.decisions = Put(@, id,
           [record |-> IF d.context = {} THEN old.record ELSE record,
            status |-> status,
            selected |-> Known(d.selected, old.selected),
            context |-> IF d.context = {} THEN old.context ELSE d.context])]

AppendOption(db, id, option, selected) ==
    [db EXCEPT !.options = Put(@, <<id, option>>, selected),
               !.raised = @ \/ id \notin DOMAIN db.decisions]

AppendDecisionEpisode(db, id, record, d) ==
    [db EXCEPT !.decision_episodes = Put(@, id,
        [record |-> record, status |-> d.status, selected |-> d.selected, action |-> d.action])]

\* A model request is the same row from the first attempt to the last answer.
AppendModelRequest(db, id, status) == [db EXCEPT !.model_requests = Put(@, id, status)]

AppendModelTurn(db, id, role) == [db EXCEPT !.turns = Put(@, id, role)]

\* The call keeps the action it had when the new status names none.
AppendTool(db, id, status, action) ==
    [db EXCEPT !.tools = Put(@, id,
        [status |-> status,
         action |-> Known(action, Get(@, id, [action |-> Absent]).action)])]

\* Where an action came from is written once, its status each time.
AppendActionInstance(db, id, record, decision, status) ==
    [db EXCEPT !.action_instances = Put(@, id,
        [Get(@, id, [record |-> record, decision |-> decision, status |-> status])
            EXCEPT !.status = status])]

AppendTransition(db, id, from, to) ==
    [db EXCEPT !.transitions = Append(@, <<id, from, to>>)]

AppendActionEpisode(db, id, record, episode) ==
    [db EXCEPT !.action_episodes = Put(@, id,
        [record |-> record, status |-> episode.status, events |-> episode.events])]

(***************************************************************************)
(* Events.                                                                  *)
(***************************************************************************)
NewDecision == [status |-> "requested", selected |-> Absent, context |-> {}, action |-> Absent]

TerminalDecisions == {"completed", "failed", "cancelled", "interrupted", "rejected", "skipped"}
TerminalActions == {"completed", "failed", "cancelled"}

ActionEvent == [type \in {"action." \o status : status \in
                             {"queued", "started"} \cup TerminalActions} |->
    CHOOSE status \in {"queued", "started"} \cup TerminalActions :
        type = "action." \o status]

\* What an event makes of the status of the decision it names.
DecisionStatus(e) ==
    CASE e.type = "cognition.completed" -> "model_completed"
      [] e.type = "tool.proposed" -> "tool_proposed"
      [] e.type = "tool.accepted" -> "tool_validated"
      [] e.type = "tool.committed" -> "action_committed"
      [] e.type = "action.queued" -> "action_queued"
      [] e.type = "action.started" -> "action_executing"
      [] e.type = "tool.rejected" -> "rejected"
      [] e.type = "cognition.failed" -> "failed"
      [] e.type = "cognition.cancelled" -> "cancelled"
      [] e.type = "cognition.skipped" -> "skipped"
      [] e.type \in {"action." \o ended : ended \in TerminalActions} -> ActionEvent[e.type]
      [] OTHER -> Absent

CloseDecision(c, id) ==
    LET d == c.decisions[id]
        n == c.number + 1 IN
    [Record(c, [kind |-> "decision_episode", id |-> id, status |-> d.status,
                selected |-> d.selected, action |-> d.action]) EXCEPT
       !.db = AppendDecisionEpisode(AppendDecision(@, id, n, d.status, d), id, n, d)]

Followed(d, e) ==
    [d EXCEPT
        !.status = DecisionStatus(e),
        !.selected = IF e.type = "tool.proposed" THEN e.tool ELSE @,
        !.action = IF e.type \in DOMAIN ActionEvent \cup {"tool.committed"}
                     THEN Known(e.action, @) ELSE @]

Tracked(c, id, d) ==
    LET updated == AppendDecision(c.db, id, c.number, d.status, d) IN
    [c EXCEPT
        !.decisions = Put(@, id, d),
        !.db = IF d.selected \in d.context THEN AppendOption(updated, id, d.selected, TRUE)
               ELSE updated]

TrackDecision(c, e) ==
    LET id == e.decision
        d == Get(c.decisions, id, NewDecision)
        status == DecisionStatus(e)
    IN IF e.decision = Absent THEN c
       ELSE IF status = Absent THEN [c EXCEPT !.decisions = Put(@, id, d)]
       ELSE IF status \in TerminalDecisions
         THEN CloseDecision(Tracked(c, id, Followed(d, e)), id)
       ELSE Tracked(c, id, Followed(d, e))

ToolEvents == {"tool.proposed", "tool.accepted", "tool.rejected", "tool.committed"}

\* A decision has at most one tool, that it calls by name only once: the rest of
\* the tool's events name the call.
ProjectTool(c, e) ==
    IF e.type \notin ToolEvents \/ e.tool = Absent THEN c
    ELSE [c EXCEPT !.db = AppendTool(@, e.decision, e.type, e.action)]

ActionMoved(c, e, episode) ==
    LET id == e.action
        before == Get(c.actions, id, [status |-> Absent]).status
        instance == AppendActionInstance(c.db, id, c.number + 1, e.decision, episode.status)
    IN [Record(c, [kind |-> "action_transition", id |-> id]) EXCEPT
          !.actions = Put(@, id, episode),
          !.db = AppendTransition(instance, id, before, episode.status)]

ActionEnded(c, id, episode) ==
    [Record(c, [kind |-> "action_episode", id |-> id, status |-> episode.status,
                events |-> episode.events]) EXCEPT
       !.db = AppendActionEpisode(@, id, c.number + 1, episode)]

CollectAction(c, e) ==
    LET status == ActionEvent[e.type]
        episode == [status |-> status,
                    events |-> Get(c.actions, e.action, [events |-> {}]).events \cup {e.id}]
    IN IF e.type \notin DOMAIN ActionEvent THEN c
       ELSE IF status \notin TerminalActions THEN ActionMoved(c, e, episode)
       ELSE ActionEnded(ActionMoved(c, e, episode), e.action, episode)

\* An event that only names an action is one of those the action came of.
TrackActionSource(c, e) ==
    IF e.type \in DOMAIN ActionEvent \/ e.action \notin DOMAIN c.actions THEN c
    ELSE [c EXCEPT !.actions[e.action].events = @ \cup {e.id}]

CollectDecisionEvent(c, e) ==
    CollectAction(TrackActionSource(ProjectTool(TrackDecision(c, e), e), e), e)

(***************************************************************************)
(* Traces.  Each is a record of its own, which the caller has appended.     *)
(***************************************************************************)
\* Mutant: the options are written before the decision they belong to.
ProjectOptionsFirst(c, t) ==
    LET d == [Get(c.decisions, t.decision, NewDecision) EXCEPT !.context = t.options]
        options == FoldSet(LAMBDA option, db :
                              AppendOption(db, t.decision, option, option = d.selected),
                           c.db, t.options)
    IN [c EXCEPT !.decisions = Put(@, t.decision, d),
                 !.db = AppendDecision(options, t.decision, c.number, d.status, d)]

ProjectDecisionRequest(c, t) ==
    LET d == [Get(c.decisions, t.decision, NewDecision) EXCEPT !.context = t.options] IN
    [c EXCEPT
       !.decisions = Put(@, t.decision, d),
       !.db = FoldSet(LAMBDA option, db :
                         AppendOption(db, t.decision, option, option = d.selected),
                      AppendDecision(@, t.decision, c.number, d.status, d), t.options)]

\* Mutant: a late result takes the row back from how the decision ended.
ProjectLateResult(c, t) ==
    [c EXCEPT !.db = AppendDecision(@, t.decision, c.number, t.status,
                                    Get(c.decisions, t.decision, NewDecision))]

ProjectDecisionResult(c, t) ==
    LET d == Get(c.decisions, t.decision, NewDecision)
        status == IF d.status \in TerminalDecisions THEN d.status ELSE t.status
    IN [c EXCEPT !.db = AppendDecision(@, t.decision, c.number, status, d)]

\* model_request, model_turn and model_error: what came last is the status.
ProjectModel(c, t) ==
    LET request == AppendModelRequest(c.db, t.request, t.status) IN
    [c EXCEPT !.db =
        CASE t.kind = "model_request" -> request
          [] t.kind = "model_turn"    -> AppendModelTurn(request, t.request, "assistant")
          [] t.kind = "model_error"   -> AppendModelTurn(request, t.request, "error")]

CollectDecisionTrace(c, t) ==
    CASE t.kind = "decision_request" -> ProjectDecisionRequest(c, t)
      [] t.kind = "decision_result" -> ProjectDecisionResult(c, t)
      [] OTHER -> ProjectModel(c, t)

(***************************************************************************)
(* Rebuilding; what the other tables hold of decisions is left alone.       *)
(***************************************************************************)
RebuildDecision(db, r) ==
    CASE r.kind = "decision_episode" -> AppendDecisionEpisode(db, r.id, r.number, r)
      [] r.kind = "action_episode"   -> AppendActionEpisode(db, r.id, r.number, r)
      [] OTHER                       -> db
=============================================================================
