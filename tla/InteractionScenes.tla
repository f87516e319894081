-------------------------- MODULE InteractionScenes --------------------------
(***************************************************************************)
(* Characters that speak, trade and handle things: the events that their    *)
(* systems emit, in the orders in which they can (domain/systems).  Why a   *)
(* system emits is modelled elsewhere; here it may emit whatever its        *)
(* handlers can emit next.                                                  *)
(***************************************************************************)
EXTENDS Recording

\* Every request is made by an action, and its events have the lineage of that.
Lineage(k) == [action |-> Nth(k, "action"), correlation |-> Nth(k, "root")]

(***************************************************************************)
(* Speech: said, and heard by whoever perceives it.                         *)
(***************************************************************************)
Said(k, type, outcome) ==
    Event(k, "speech", type, [target |-> "addressee", outcome |-> outcome])

Speak(k) ==
    /\ k \in Speakers /\ scene[k].at = "idle"
    /\ \/ Emits(k, "spoken", <<Said(k, "speech.started", Absent)>>)
       \/ Emits(k, "over", <<Said(k, "speech.failed", "failed")>>)

Deliver(k) ==
    /\ scene[k].at = "spoken"
    /\ \E heard \in SUBSET {"addressee", "bystander"} :
           Emits(k, "over",
                 <<[Said(k, "speech.delivered", "delivered") EXCEPT
                      !.cause = Nth(k, "speech.started"), !.recipients = heard]>>)

(***************************************************************************)
(* Transactions.  Only the request names its request_id; a request that is  *)
(* pre-empted before it is served ends without an event.                    *)
(***************************************************************************)
Deal(k, type, fields) == Event(k, "transaction", type, fields @@ Lineage(k))

Requested(k, type) == Deal(k, type, [request |-> Nth(k, "request")])

Served(k, type, outcome) ==
    Deal(k, type, [operator |-> IF scene[k].staffed THEN "staff" ELSE Absent,
                   outcome |-> outcome])

Refused(k, reason) ==
    Deal(k, "transaction.failed", [reason |-> reason, outcome |-> "failed"])

Choose(k) ==
    /\ k \in Customers \cup Bodies /\ scene[k].at = "idle"
    /\ \E staffed \in BOOLEAN :
           EmitsAndRecords(k, [scene[k] EXCEPT !.at = "ready", !.staffed = staffed],
                           <<>>, <<>>)

Request(k) ==
    LET asked == Requested(k, "transaction.requested")
        full == "transaction_point_at_capacity" IN
    /\ k \in Customers /\ scene[k].at = "ready"
    /\ \/ \E reason \in {full, "insufficient_holdings"} :
              Emits(k, "over", <<Refused(k, reason)>>)
       \/ /\ scene[k].staffed
          /\ Emits(k, "awaiting", <<asked, Requested(k, "transaction.awaiting_staff")>>)
       \/ /\ ~scene[k].staffed
          /\ \/ Emits(k, "over", <<asked, Refused(k, full)>>)
             \/ Emits(k, "served", <<asked, Served(k, "transaction.started", Absent)>>)

AssignStaff(k) ==
    /\ scene[k].at = "awaiting"
    /\ Emits(k, "assigned",
             <<[Requested(k, "transaction.staff_assigned") EXCEPT
                  !.operator = "staff", !.action = Absent, !.correlation = Absent]>>)

\* The lineage is that of the service, not of the request.
Authorize(k) ==
    /\ scene[k].at = "assigned"
    /\ Emits(k, "authorized",
             <<[Requested(k, "transaction.authorized") EXCEPT
                  !.operator = "staff", !.action = Nth(k, "service"),
                  !.correlation = Nth(k, "serving")]>>)

StartServing(k) ==
    /\ scene[k].at = "authorized"
    /\ \/ Emits(k, "served", <<Served(k, "transaction.started", Absent)>>)
       \/ Emits(k, "over", <<Refused(k, "insufficient_holdings")>>)

TimeOut(k) ==
    /\ scene[k].at \in {"awaiting", "assigned"}
    /\ Emits(k, "over",
             <<[Requested(k, "transaction.timed_out") EXCEPT
                  !.operator = IF scene[k].at = "assigned" THEN "staff" ELSE Absent,
                  !.outcome = "timed_out"],
               Refused(k, "transaction_service_timed_out")>>)

Conclude(k) ==
    /\ scene[k].at = "served"
    /\ \/ Emits(k, "over", <<Served(k, "transaction.progressed", Absent),
                             Served(k, "transaction.completed", "completed")>>)
       \/ Emits(k, "over", <<Served(k, "transaction.cancelled", "cancelled")>>)

Abandon(k) ==
    /\ scene[k].at \in {"awaiting", "assigned", "authorized"}
    /\ Goes(k, "over")

(***************************************************************************)
(* Physical interactions, asked for on their own or by a way through doors. *)
(***************************************************************************)
Act(k, type, fields) ==
    Event(k, "interaction", type, fields @@ Lineage(k) @@ [target |-> "object"])

Ask(k) ==
    LET asked == Act(k, "interaction.requested", [id |-> Nth(k, "interaction.requested")]) IN
    /\ k \in Bodies /\ scene[k].at = "ready" /\ scene[k].doors = 0
    /\ \/ Emits(k, "asked",
                <<asked, Act(k, "interaction.started", [cause |-> asked.id])>>)
       \/ Emits(k, "over",
                <<asked, Act(k, "interaction.failed",
                             [cause |-> asked.id, outcome |-> "failed"])>>)

Finish(k) ==
    /\ scene[k].at = "asked"
    /\ \E outcome \in {"completed", "cancelled"} :
           Emits(k, "over",
                 <<Act(k, "interaction." \o outcome, [outcome |-> outcome])>>)

\* execute_navigation_interaction: all of it within one call.
OpenDoor(k) ==
    LET door == "door" \o ToString(scene[k].doors)
        Of(type, cause, outcome) ==
            [Act(k, type, [target |-> door]) EXCEPT
               !.id = @ \o door, !.subject = @ \o door, !.outcome = outcome,
               !.cause = IF cause = Absent THEN Absent ELSE Nth(k, cause) \o door]
        requested == Of("interaction.requested", Absent, Absent)
        started == Of("interaction.started", "interaction.requested", Absent)
        opened == Of("interaction.completed", "interaction.started", "completed")
        failed == Of("interaction.failed", "interaction.requested", "failed")
    IN /\ k \in Bodies /\ scene[k].at = "ready" /\ scene[k].doors < Doors
       /\ \/ EmitsAndRecords(k, [scene[k] EXCEPT !.doors = @ + 1],
                             <<requested, started, opened>>, <<>>)
          \/ Emits(k, "over", <<requested, failed>>)

Arrive(k) ==
    /\ k \in Bodies /\ scene[k].at = "ready" /\ scene[k].doors > 0
    /\ Goes(k, "over")

(***************************************************************************)
(* What speakers, customers and bodies do.                                  *)
(***************************************************************************)
Interacts(k) ==
    \/ Speak(k) \/ Deliver(k) \/ Choose(k)
    \/ Request(k) \/ AssignStaff(k) \/ Authorize(k) \/ StartServing(k)
    \/ TimeOut(k) \/ Conclude(k) \/ Abandon(k)
    \/ Ask(k) \/ Finish(k) \/ OpenDoor(k) \/ Arrive(k)
=============================================================================
