-------------------------- MODULE MCCharacterTick --------------------------
(***************************************************************************)
(* Small instances of CharacterTick for TLC.                               *)
(***************************************************************************)
EXTENDS CharacterTick

Kitchens == {"stove", "table"}

\* One room, two stations, no portal.
OneRoomPlaces == {"beside stove", "beside table", "floor"}
OneRoom == [p \in OneRoomPlaces |-> "kitchen"]
OneRoomApproaches ==
    [s \in Kitchens |-> IF s = "stove" THEN {"beside stove"} ELSE {"beside table"}]
AllEat == [s \in Kitchens |-> {"EAT"}]
ForOne == [s \in Kitchens |-> 1]
Hunger == [d \in {"SATIETY"} |-> "EAT"]
OneRoomMenu ==
    << {<<"WORK", None>>},
       {<<"EAT", "stove">>} >>
OneRoomStarts ==
    << {<<"floor", << <<"NAVIGATE", "stove">>, <<"EAT", "stove">> >> >>},
       {<<"beside stove", <<>> >>} >>

\* Two rooms joined by a door; the stove is used from where the door opens.
Furniture == {"stove", "bed", "tray"}
RoomOfTwo ==
    [p \in {"kitchen", "kitchen door", "bedroom door", "beside bed", "beside tray"} |->
       IF p \in {"kitchen", "kitchen door"} THEN "kitchen" ELSE "bedroom"]
Door == {<<"kitchen door", "bedroom door">>, <<"bedroom door", "kitchen door">>}
TwoRoomApproaches ==
    [s \in Furniture |-> CASE s = "stove" -> {"kitchen door"}
                           [] s = "bed" -> {"beside bed"}
                           [] s = "tray" -> {"beside tray"}]
EatAndSleep == [s \in Furniture |-> IF s = "bed" THEN {"SLEEP"} ELSE {"EAT"}]
OneEach == [s \in Furniture |-> 1]
Needs == [d \in {"SATIETY", "ENERGY"} |-> IF d = "SATIETY" THEN "EAT" ELSE "SLEEP"]
TwoRoomMenu == << {<<"NAVIGATE", "tray">>} >>
TwoRoomStarts == << {<<"kitchen", <<>> >>} >>
=============================================================================
