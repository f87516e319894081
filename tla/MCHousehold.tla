----------------------------- MODULE MCHousehold -----------------------------
(***************************************************************************)
(* Instances of Household: two characters in one room, and casts that put    *)
(* them before the same thing or the same text.                              *)
(***************************************************************************)
EXTENDS StateCapture, HouseholdTelemetry, HouseholdScenario, TLC

CONSTANTS Casts     \* the casts of this run

-----------------------------------------------------------------------------
(* The things of the room, on cells 1..10; a body covers two.                 *)

Plain ==
    [shape |-> {0}, solid |-> FALSE, carry |-> "no", mass |-> 1, wear |-> {},
     slots |-> <<>>, opens |-> FALSE, locked |-> FALSE, usable |-> FALSE,
     readable |-> FALSE, servings |-> 0, stops |-> {}, scent |-> 0, keen |-> 0]

MCOrder == <<"ann", "bo">>

Slot(takes, room) == [takes |-> takes, room |-> room]

MCNames == <<"bench", "book", "box", "cabinet", "crate", "glasses", "mug", "tray">>

MCThings == Range(MCNames)

MCIds == People \cup Things \cup {"room", "left", "right", "both", "face"}

MCObject ==
    [mug     |-> [Plain EXCEPT !.carry = "one", !.scent = 2, !.servings = 1],
     book    |-> [Plain EXCEPT !.carry = "one", !.readable = TRUE,
                               !.slots = <<Slot({"ON_SUPPORT"}, 1)>>],
     box     |-> [Plain EXCEPT !.carry = "two", !.mass = 2, !.opens = TRUE,
                               !.stops = {"sight"}, !.slots = <<Slot({"IN_CONTAINER"}, 2)>>],
     glasses |-> [Plain EXCEPT !.carry = "one", !.wear = {"face"}, !.keen = 2],
     crate   |-> [Plain EXCEPT !.carry = "one", !.solid = TRUE],
     tray    |-> [Plain EXCEPT !.shape = {-1, 0}, !.slots = <<Slot({"ON_SUPPORT"}, 2)>>],
     cabinet |-> [Plain EXCEPT !.solid = TRUE, !.opens = TRUE, !.stops = {"sight", "smell"},
                               !.slots = <<Slot({"IN_CONTAINER"}, 1), Slot({"ON_SUPPORT"}, 1)>>],
     bench   |-> [Plain EXCEPT !.shape = {0, 1, 2}, !.solid = TRUE, !.usable = TRUE,
                               !.slots = <<Slot({"OCCUPIES_SLOT"}, 2)>>]]

MCEquipment == [face |-> 1]

MCAcuity == [sight |-> 4, recognition |-> 1, smell |-> 2]

Put(rel, cell, keeper) == [rel |-> rel, at |-> cell, open |-> FALSE, keeper |-> keeper]

Loose(cell) == Put(Placed("ON_FLOOR", "room", None), cell, None)

Lent(placement, p) == [placement EXCEPT !.keeper = p]

Opened(placement) == [placement EXCEPT !.open = TRUE]

Within(d, cell) == Put(Placed("IN_CONTAINER", d, 1), cell, None)

Upon(d, cell) == Put(Placed("ON_SUPPORT", d, 1), cell, None)

Held(p, hand) == Put(Placed("HELD_BY", p, hand), 5, p)

Worn(p) == Put(Placed("ATTACHED_TO", p, "face"), 5, p)

Act(verb, x) ==
    [verb |-> verb, target |-> x, destination |-> None, slot |-> None, ticks |-> 2]

To(verb, x, d) == [Act(verb, x) EXCEPT !.destination = d]

At(verb, x, slot) == [Act(verb, x) EXCEPT !.slot = slot]

-----------------------------------------------------------------------------
(* The texts: a page both may change, a notebook, and mail.                 *)

Both == {"ann", "bo"}

Offer(on, access, of, allows) ==
    [on |-> on, access |-> access, of |-> of, allows |-> allows, lists |-> FALSE, mails |-> FALSE,
     created |-> [mode |-> "append_only",
                  policy |-> [r \in {"read", "append", "replace"} |-> Both]]]

MCEndpoint ==
    [page  |-> Offer("book", "reachable", <<"page", 0>>,
                     {"read", "append", "edit", "replace", "delete"}),
     diary |-> [Offer("book", "held", <<"diary", 0>>, {"create", "read", "append", "replace"})
                  EXCEPT !.lists = TRUE],
     desk  |-> [Offer("bench", "terminal", <<"sent", 0>>, {"create"}) EXCEPT !.mails = TRUE],
     phone |-> [Offer("bench", "logical", <<"sent", 1>>, {"create"}) EXCEPT !.mails = TRUE],
     inbox |-> [Offer("bench", "logical", <<"mail", 0>>, {"read"}) EXCEPT !.lists = TRUE]]

MCAddress ==
    [box |-> [holders |-> {"bo"}, known |-> Both, accepts |-> Both, mailbox |-> <<"mail", 0>>],
     out |-> [holders |-> Both, known |-> Both, accepts |-> Both, mailbox |-> <<"mail", 1>>]]

Page == [mode |-> "mutable", deleted |-> FALSE,
         policy |-> [r \in {"read", "append", "edit", "replace", "delete"} |-> Both],
         history |-> <<[blocks |-> <<NewBlock(<<"b", 0>>)>>, by |-> "ann", from |-> 0]>>]

Collection(kind, rights, room) ==
    [kind |-> kind, revision |-> 1, members |-> {}, capacity |-> room,
     policy |-> [r \in rights |-> Both], receives |-> TRUE]

MCTexts ==
    [artifacts |-> <<"page", 0>> :> Page,
     collections |-> <<"diary", 0>> :> Collection("notebook", {"create", "list"}, 2)
                     @@ <<"sent", 0>> :> Collection("sent", {"send"}, 2)
                     @@ <<"sent", 1>> :> Collection("sent", {"send"}, 2)
                     @@ <<"mail", 0>> :> Collection("mailbox", {"list"}, 1)
                     @@ <<"mail", 1>> :> Collection("mailbox", {}, 1),
     unread |-> [a \in DOMAIN Address |-> 0]]

TextAct(verb, endpoint, artifact) ==
    [verb |-> verb, target |-> Endpoint[endpoint].on, endpoint |-> endpoint,
     artifact |-> artifact, block |-> None, to |-> None, sender |-> None,
     seen |-> 0, seenBlock |-> 0, seenSent |-> 0, ticks |-> IF verb = "read" THEN 2 ELSE 1]

OnBlock(verb) == [TextAct(verb, "page", <<"page", 0>>) EXCEPT !.block = <<"b", 0>>]

InDiary(verb) ==
    [TextAct(verb, "diary", <<"ann", 2>>) EXCEPT
        !.block = IF verb = "append" THEN None ELSE <<"ann", 2>>]

Mail(endpoint) == [TextAct("create", endpoint, None) EXCEPT !.to = "box", !.sender = "out"]

-----------------------------------------------------------------------------
(* The casts: the things of the room, and what each character may decide.    *)

Face == [ann |-> 3, bo |-> 6]

AtBench == [ann |-> 1, bo |-> 4]

Cast ==
    [cup   |-> [things |-> <<[mug |-> Loose(3), cabinet |-> Loose(5)]>>, people |-> Face,
                ann |-> {Act("PICK_UP", "mug"), To("PLACE_IN", "mug", "cabinet"),
                         Act("OPEN", "cabinet"), Act("PUT_DOWN", "mug")},
                bo  |-> {Act("PICK_UP", "mug"), Act("OPEN", "cabinet"),
                         Act("CLOSE", "cabinet"), Act("DRINK", "mug")}],
     box   |-> [things |-> <<[box |-> Opened(Loose(5)), book |-> Within("box", 5)]>>, people |-> Face,
                ann |-> {Act("PICK_UP", "box"), Act("CLOSE", "box"),
                         To("PLACE_ON", "box", "book"), Act("PUT_DOWN", "box")},
                bo  |-> {Act("PICK_UP", "book"), To("PLACE_IN", "book", "box"),
                         Act("OPEN", "box"), Act("READ", "book")}],
     seat  |-> [things |-> <<[bench |-> Loose(6)]>>, people |-> AtBench,
                ann |-> {Act("NAVIGATE", "bench"), Act("SIT", "bench"), Act("STAND", "bench")},
                bo  |-> {Act("LIE_DOWN", "bench"), Act("GET_UP", "bench"),
                         Act("NAVIGATE", "bench"), Act("USE", "bench")}],
     specs |-> [things |-> <<[glasses |-> Loose(3), bench |-> Loose(6)]>>, people |-> AtBench,
                ann |-> {Act("PICK_UP", "glasses"), At("EQUIP", "glasses", "face"),
                         Act("UNEQUIP", "glasses"), Act("NAVIGATE", "bench")},
                bo  |-> {Act("PICK_UP", "glasses"), To("PLACE_ON", "glasses", "bench")}],
     tray  |-> [things |-> <<[crate |-> Lent(Loose(5), "bo"), tray |-> Loose(6), glasses |-> Loose(7)]>>,
                people |-> Face,
                ann |-> {Act("PICK_UP", "crate"), To("PLACE_ON", "crate", "tray")},
                bo  |-> {Act("NAVIGATE", "tray"), Act("PICK_UP", "glasses"),
                         To("PLACE_ON", "glasses", "tray")}],
     moved |-> [things |-> [i \in (1..2) \X (1..5) \X (1..3) |->
                              [glasses |-> <<Worn("ann"), Held("ann", "left")>>[i[1]],
                               mug     |-> <<Held("ann", "left"), Held("ann", "right"), Worn("bo"),
                                             Upon("book", 5), Loose(5)>>[i[2]],
                               box     |-> <<Loose(5), Held("bo", "both"), Held("ann", "both")>>[i[3]],
                               book    |-> Within("box", 5)]],
                people |-> Face,
                ann |-> {Act("UNEQUIP", "glasses"), Act("PUT_DOWN", "mug")},
                bo  |-> {Act("PUT_DOWN", "box")}],
     page  |-> [things |-> <<[book |-> Loose(5)]>>, people |-> Face,
                ann |-> {OnBlock("edit"), OnBlock("delete")},
                bo  |-> {TextAct("append", "page", <<"page", 0>>),
                         TextAct("delete", "page", <<"page", 0>>)}],
     diary |-> [things |-> <<[book |-> Loose(5)]>>, people |-> Face,
                ann |-> {Act("PICK_UP", "book"), TextAct("create", "diary", None),
                         InDiary("append"), Act("PUT_DOWN", "book")},
                bo  |-> {Act("PICK_UP", "book"), InDiary("append"), InDiary("replace"),
                         InDiary("read")}],
     mail  |-> [things |-> <<[bench |-> Loose(6)]>>, people |-> AtBench,
                ann |-> {Act("NAVIGATE", "bench"), Act("SIT", "bench"), Mail("desk"), Mail("phone")},
                bo  |-> {Mail("phone"), TextAct("read", "inbox", <<"bo", 1>>)}]]

\* The casts in which no need becomes critical.
Calm == {"cup", "box", "page", "mail"}

Init ==
    \E c \in Casts : \E i \in DOMAIN Cast[c].things :
      LET placed == Cast[c].things[i] IN
        /\ Accepted(placed, Cast[c].people, MCTexts)
        /\ StartRecorded([world |-> Materialized(placed, Cast[c].people), texts |-> MCTexts,
               alarms |-> IF c \in Calm THEN Alarms ELSE 0,
               menu  |-> [ann |-> Cast[c].ann, bo |-> Cast[c].bo]])

Spec == Init /\ [][RecordedNext]_<<vars, recorded>>
=============================================================================
