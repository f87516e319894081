---------------------------- MODULE MCEventReaders ----------------------------
(***************************************************************************)
(* Small instances of EventReaders for TLC.                                *)
(***************************************************************************)
EXTENDS ReaderCapture

AnnAndBen == <<"ann", "ben">>

\* Both speak; Ann walks about; Ben works and may be alarmed.
Talks ==
    {<<"speak", "ann">>, <<"speak", "ben">>, <<"walk", "ann">>, <<"finish", "ben">>,
     <<"change", "ben">>, <<"alarm", "ben">>}

Criterion(kind, effect, type, target, minimum) ==
    [kind |-> kind, effect |-> effect, type |-> type, target |-> target, minimum |-> minimum]

\* Ann wants two talks with Ben and to be in the hall, by tick 3.
Meet ==
    [owner |-> "ann", policy |-> "ALL", from |-> None, by |-> 3,
     criteria |-> <<Criterion("count", "success", "speech.started", "ben", 2),
                    Criterion("place", "success", None, "hall", 0)>>]

\* From tick 2 Ben wants to finish something or just to last until tick 3,
\* without an alarm.
Work ==
    [owner |-> "ben", policy |-> "ANY", from |-> 2, by |-> None,
     criteria |-> <<Criterion("action", "success", "action.completed", None, 0),
                    Criterion("time", "success", None, None, 3),
                    Criterion("event", "failure", "system1.activated", None, 0)>>]

MeetAndWork == <<Meet, Work>>

\* Bound: a checkpoint is used before the next tick or not at all, since what comes of
\* it does not depend on when it is used.
SavedLately == saved # None => saved.tick = tick
=============================================================================
