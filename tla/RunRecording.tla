----------------------------- MODULE RunRecording -----------------------------
(***************************************************************************)
(* The recording of a run as a whole, and what a reader of its dataset      *)
(* relies on.                                                               *)
(***************************************************************************)
EXTENDS InteractionScenes, EngagementScenes, DecisionScenes

Next == \/ PostSystems \/ Finalize \/ Branch
        \/ \E k \in Everyone : Interacts(k) \/ Engages(k) \/ Decides(k) \/ MoveOn(k)

Spec == Init /\ [][Next]_vars

-----------------------------------------------------------------------------
\* The tables with one record entered again.
Rebuild(db, r) ==
    CASE r.kind = "engagement_feature" -> PersistEngagementFeature(db, r)
      [] r.kind \in {"interaction_started", "interaction_event", "interaction_episode"} ->
           RebuildInteraction(db, r)
      [] OTHER -> RebuildDecision(db, r)

\* A rebuild deletes what it can derive and leaves the rest.
Cleared(db) ==
    [db EXCEPT
       !.interactions = NoRows, !.participants = {}, !.events = NoRows,
       !.interaction_episodes = NoRows, !.engagements = NoRows, !.engagement_groups = NoRows,
       !.invocations = NoRows, !.decision_episodes = NoRows, !.action_episodes = NoRows]

\* The tables as a rebuild makes them from the records.
Rebuilt == FoldLeft(Rebuild, Cleared(c.db), c.log)

\* Nothing the collector writes is refused, whatever the order of the events, but
\* in a branch that was taken while an interaction was open, of which the dataset of
\* the branch has no row (append_interaction_event, append_decision_option and the
\* foreign keys).
CaptureNeverRaises == c.db.raised => inherited # {}

\* A rebuild gives back what was captured: of a run that was finalised all of it,
\* of one that was interrupted what has ended in it (rebuild_derived_projections).
\* The same of a branch that was taken with no interaction open.
RebuildAgrees ==
    inherited = {} =>
        /\ Rebuilt.events = c.db.events
        /\ Rebuilt.interaction_episodes = c.db.interaction_episodes
        /\ Rebuilt.participants \subseteq c.db.participants
        /\ ended => Rebuilt = c.db

\* An episode that was written stays as it was written, whatever comes late:
\* no event reopens what has ended (_start_interaction, _track_decision_event).
\* A branch, which has a dataset of its own, does not open it again either.
EpisodesStand ==
    [][\/ \A table \in {"interaction_episodes", "decision_episodes", "action_episodes"} :
              \A id \in DOMAIN c.db[table] :
                  /\ id \in DOMAIN c'.db[table]
                  /\ c'.db[table][id] = c.db[table][id]
       \/ Branch /\ DOMAIN c.db.interaction_episodes \cap DOMAIN c'.episodes = {}]_vars

\* A finalised run has no open interaction and no open engagement.
FinalIsClosed ==
    ended => /\ DOMAIN c.episodes = {}
             /\ \A id \in DOMAIN c.db.interactions : c.db.interactions[id].ended
             /\ \A id \in DOMAIN c.db.engagements : c.db.engagements[id].outcome # Absent

\* An operator finds each engagement of a character in one place of a snapshot,
\* as far as its row is, with what has been done of its groups, and with each
\* thing it has done as evidence, once (_engagement_snapshot).
OperatorAgrees ==
    \A k \in Engagers :
        LET shown == EngagementSnapshot(view[k], Nth(k, "engagement"), scene[k].at,
                                        scene[k].groups) IN
        /\ \A id \in DOMAIN view[k] : Cardinality({item \in shown : item.id = id}) = 1
        /\ \A item \in shown :
               LET Recorded(status) == {key \in DOMAIN c.db.engagement_groups :
                                        /\ key[1] = item.id
                                        /\ c.db.engagement_groups[key].execution = status}
                   committed == {key \in DOMAIN c.db.invocations :
                                    key[1] = item.id /\ c.db.invocations[key].status = "committed"}
               IN /\ \A status \in DOMAIN item.progress :
                         item.progress[status] = Cardinality(Recorded(status))
                  /\ Len(item.evidence) = Cardinality(committed)
                  /\ ToSet(item.evidence) = {<<key[2], key[3]>> : key \in committed}
                  /\ c.db.engagements[item.id].outcome \notin {Absent, "unfinished"}
                         => item.status = c.db.engagements[item.id].outcome

\* What an engagement has come to is told alike by its row, its groups, its
\* invocations and its interaction: a group is committed as a whole or not at
\* all, nothing is left pending, the end of the run closes what is open, and an
\* operator sees the same (_project_terminal_group_statuses,
\* _close_open_engagements, _engagement_event_projections).
EngagementsSettled ==
    /\ FinalIsClosed /\ (inherited = {} => OperatorAgrees)
    /\ \A id \in DOMAIN c.db.engagements :
           LET outcome == c.db.engagements[id].outcome
               groups == {key \in DOMAIN c.db.engagement_groups : key[1] = id}
               Executed(status) ==
                   {key \in groups : c.db.engagement_groups[key].execution = status}
               Of(group) == {key \in DOMAIN c.db.invocations : <<key[1], key[2]>> = group}
           IN outcome # Absent =>
               /\ c.db.engagements[id].status = outcome
               /\ \A group \in groups :
                      /\ c.db.engagement_groups[group].execution \in
                             {"completed", "failed", "cancelled", "unfinished", "not_run"}
                      /\ \A key \in Of(group) :
                             /\ c.db.invocations[key].status # "pending"
                             /\ c.db.engagement_groups[group].execution = "completed"
                                    <=> c.db.invocations[key].status = "committed"
               /\ outcome = "completed" => Executed("completed") \cup Executed("not_run") = groups
               /\ outcome = "partial" => Executed("completed") # {} /\ Executed("failed") # {}
               /\ outcome = "failed" => Executed("completed") = {}
               /\ c.db.interaction_episodes[<<"engagement", id>>].status =
                      (IF outcome = "unfinished" THEN "run_ended" ELSE outcome)

\* A decision that has ended reads the same in its row and in its episode, and as
\* the action that came of it, although threads go on telling of it; of the
\* options it had exactly the chosen one is marked (_project_decision_trace,
\* _track_decision_event).
DecisionsAgree ==
    /\ \A id \in DOMAIN c.db.decision_episodes :
           LET episode == c.db.decision_episodes[id] IN
           /\ c.db.decisions[id].status = episode.status
           /\ c.db.decisions[id].selected = episode.selected
           /\ episode.action # Absent =>
                  /\ episode.action \in DOMAIN c.db.action_episodes
                  /\ c.db.action_episodes[episode.action].status = episode.status
    /\ \A key \in DOMAIN c.db.options :
           c.db.options[key] <=> c.db.decisions[key[1]].selected = key[2]
=============================================================================
