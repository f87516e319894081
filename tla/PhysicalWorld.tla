---------------------------- MODULE PhysicalWorld ----------------------------
(***************************************************************************)
(* Things, the bodies that handle them, and what one interaction does       *)
(* (domain/systems/interactions.py, domain/world/physical.py).              *)
(*                                                                         *)
(* The room is a line of cells.  The components of its entities are the     *)
(* fields of a record w:                                                    *)
(*   rel       entity -> SpatialParentRelationComponent, or None            *)
(*   at        entity -> the anchor of its pose                             *)
(*   indexed   the entities of the SpatialIndex                             *)
(*   open      the openable things that are open                            *)
(*   hands     character -> CharacterHandStateComponent                     *)
(*   keeper    thing -> CustodyComponent, or None                           *)
(*   lent      thing -> the custodian that its definition names, for those    *)
(*             things that somebody else has, or nobody                      *)
(*   posture   character -> CharacterPostureComponent                       *)
(*   servings  thing -> what is left of its ConsumableComponent             *)
(*   approach, seats  thing -> the anchors of its interaction target        *)
(*   raised    SpatialIndex.add has met an entity it has already            *)
(***************************************************************************)
EXTENDS Integers, FiniteSets, Sequences, FiniteSetsExt, SequencesExt

CONSTANTS
    None,
    People, Things,
    Ids,        \* the names that a scenario may give to what it relates things to
    Object,     \* thing -> its definition: footprint, solidity, capabilities
    Body,       \* offsets of the cells a standing character covers
    Equipment,  \* equipment slot -> CharacterEmbodimentComponent's capacity
    MaxMass, MaxLoad,
    Width       \* bound: the room has the cells 1..Width

Entities == People \cup Things

\* SpatialParentRelationComponent: what an entity is on, in, held or worn by.
\* Who holds a thing, or has it attached, need not be a character.
Relations ==
    [kind : {"ON_FLOOR"}, parent : {"room"}, slot : {None}]
      \cup [kind : {"HELD_BY", "ATTACHED_TO"}, parent : Ids, slot : {None} \cup Ids \cup Nat]
      \cup UNION {[kind : {"ON_SUPPORT", "IN_CONTAINER", "OCCUPIES_SLOT"}, parent : {d},
                    slot : DOMAIN Object[d].slots] : d \in Things}

ASSUME EntitiesAssumption ==
    /\ IsFiniteSet(Entities) /\ People \cap Things = {}
    /\ "room" \notin Things /\ None \notin Entities \cup Relations
    /\ Entities \cup {"room", "left", "right", "both"} \cup DOMAIN Equipment \subseteq Ids

\* Slots are numbered in the order of their definition.
ASSUME ObjectAssumption ==
    \A x \in Things :
        /\ Object[x].carry \in {"no", "one", "two"} /\ Object[x].mass \in Nat
        /\ DOMAIN Object[x].slots \subseteq Nat
        /\ \A s \in DOMAIN Object[x].slots : Object[x].slots[s].room \in Nat \ {0}

Hand(both, free) == IF both THEN "both" ELSE IF "left" \in free THEN "left" ELSE "right"

-----------------------------------------------------------------------------
(* Where things are.                                                       *)

Shape(e) == IF e \in People THEN Body ELSE Object[e].shape

Cells(e, anchor) == {anchor + d : d \in Shape(e)}

Occupied(w, e) == Cells(e, w.at[e])

Contact(w, e) == {c + d : c \in Occupied(w, e), d \in {-1, 1}} \ Occupied(w, e)

Touches(w, p, x) == Occupied(w, p) \cap Contact(w, x) # {}

\* What is open no longer blocks movement.
Solid(w, e) == e \in People \/ (Object[e].solid /\ e \notin w.open)

CanPlace(w, cells, others) ==
    \A e \in w.indexed \ others : Solid(w, e) => Occupied(w, e) \cap cells = {}

Related(rel, e) == e \in Entities /\ rel[e] # None

\* An entity, what it is in, on, held or worn by, and so on.
Lineage(rel, e) ==
    LET Up[n \in 0..Cardinality(Entities)] ==
            IF n = 0 THEN {e}
            ELSE LET known == Up[n - 1]
                 IN known \cup {rel[y].parent : y \in {z \in known : Related(rel, z)}}
    IN Up[Cardinality(Entities)]

Endless(rel, e) == \A y \in Lineage(rel, e) : Related(rel, y)

Shut(w, r) == r.kind = "IN_CONTAINER" /\ Object[r.parent].opens /\ r.parent \notin w.open

Hidden(w, e) ==
    \/ \E y \in Lineage(w.rel, e) : Related(w.rel, y) /\ Shut(w, w.rel[y])
    \/ Endless(w.rel, e)

Has(w, e, kind, parent) ==
    w.rel[e] # None /\ w.rel[e].kind = kind /\ w.rel[e].parent = parent

HeldBy(w, x, p) == Has(w, x, "HELD_BY", p)

WornBy(w, x, p) == Has(w, x, "ATTACHED_TO", p) /\ Object[x].wear # {}

\* Mutant: what is in a shut container is handled through its wall.
AccessibleByTouch(w, p, x) ==
    HeldBy(w, x, p) \/ WornBy(w, x, p) \/ Touches(w, p, x)

Accessible(w, p, x) ==
    \/ HeldBy(w, x, p) \/ WornBy(w, x, p)
    \/ ~Hidden(w, x) /\ Touches(w, p, x)

Carried(w, p) ==
    MapThenSumSet(LAMBDA x : Object[x].mass,
                  {x \in Things : HeldBy(w, x, p) \/ Has(w, x, "ATTACHED_TO", p)})

\* Whose custody a thing in this relation is in.
Keeper(x, r) ==
    IF r # None /\ (r.kind = "HELD_BY" \/ (r.kind = "ATTACHED_TO" /\ Object[x].wear # {}))
      THEN r.parent ELSE None

FreeHands(w, p) == {h \in {"left", "right"} : w.hands[p][h] = None}

Grip(x) == IF Object[x].carry = "two" THEN 2 ELSE 1

InSlot(w, d, s) ==
    {e \in Entities : w.rel[e] # None /\ w.rel[e].parent = d /\ w.rel[e].slot = s}

\* The first slot of d that takes a relation of this kind and has room.
FittingSlots(w, d, kind, asked) ==
    {s \in DOMAIN Object[d].slots :
        /\ asked # None => s = asked
        /\ kind \in Object[d].slots[s].takes
        /\ Cardinality(InSlot(w, d, s)) < Object[d].slots[s].room}

SelectSlot(w, d, kind, asked) ==
    LET fitting == FittingSlots(w, d, kind, asked)
    IN IF fitting = {} THEN None ELSE Min(fitting)

\* The floor cells beside p where x fits, and the one that is chosen.
FloorAnchors(w, p, x) ==
    {a \in {c - d : c \in Contact(w, p), d \in Object[x].shape} :
        /\ Cells(x, a) \cap Occupied(w, p) = {}
        /\ Cells(x, a) \subseteq 1..Width
        /\ CanPlace(w, Cells(x, a), {x})}

FloorPose(w, p, x) ==
    LET off(a) == IF a < w.at[p] THEN w.at[p] - a ELSE a - w.at[p]
    IN CHOOSE a \in FloorAnchors(w, p, x) :
           \A b \in FloorAnchors(w, p, x) : off(a) < off(b) \/ (off(a) = off(b) /\ a <= b)

FirstFit(anchors, fits(_)) ==
    LET free == SelectSeq(anchors, fits) IN IF free = <<>> THEN None ELSE free[1]

OccupancyPose(w, p, x, slot) ==
    FirstFit(w.seats[x], LAMBDA a : CanPlace(w, Cells(p, a), {p, x}))

ExitPose(w, p, x) ==
    FirstFit(w.approach[x],
             LAMBDA a : Cells(p, a) \subseteq 1..Width /\ CanPlace(w, Cells(p, a), {p}))

-----------------------------------------------------------------------------
(* What must hold of an interaction when it starts, goes on and commits.    *)

MayPickUp(w, p, x) ==
    /\ Object[x].carry # "no"
    /\ w.rel[x] # None => w.rel[x].kind # "HELD_BY"
    /\ Accessible(w, p, x)
    /\ Object[x].mass <= MaxMass /\ Carried(w, p) + Object[x].mass <= MaxLoad
    /\ Cardinality(FreeHands(w, p)) >= Grip(x)

MayEquip(w, p, x, slot) ==
    /\ HeldBy(w, x, p)
    /\ slot \in Object[x].wear \cap DOMAIN Equipment
    /\ Cardinality({y \in Things : WornBy(w, y, p) /\ w.rel[y].slot = slot}) < Equipment[slot]
    /\ Carried(w, p) <= MaxLoad

MayUnequip(w, p, x) == WornBy(w, x, p) /\ Cardinality(FreeHands(w, p)) >= Grip(x)

MayPutDown(w, p, x) == HeldBy(w, x, p) /\ FloorAnchors(w, p, x) # {}

Placed(kind, d, slot) == [kind |-> kind, parent |-> d, slot |-> slot]

Exists(w, x) == x \in Things /\ w.rel[x] # None

MayPlace(w, p, x, d, kind, asked) ==
    LET slot == SelectSlot(w, d, kind, asked) IN
    /\ HeldBy(w, x, p)
    /\ Exists(w, d)
    /\ Accessible(w, p, d)
    /\ kind = "IN_CONTAINER" /\ Object[d].opens => d \in w.open
    /\ slot # None
    /\ \A e \in Entities : ~Endless([w.rel EXCEPT ![x] = Placed(kind, d, slot)], e)

MayOpen(w, p, x) ==
    /\ Object[x].opens /\ Accessible(w, p, x)
    /\ x \notin w.open /\ ~Object[x].locked

MayClose(w, p, x) ==
    /\ Object[x].opens /\ Accessible(w, p, x)
    /\ x \in w.open
    /\ x \in w.indexed => CanPlace(w, Occupied(w, x), {x})

MayOccupy(w, p, x, asked) ==
    LET slot == SelectSlot(w, x, "OCCUPIES_SLOT", asked) IN
    /\ w.posture[p].is = "STANDING"
    /\ Accessible(w, p, x)
    /\ slot # None /\ OccupancyPose(w, p, x, slot) # None

MayLeave(w, p, x, expected) ==
    /\ w.posture[p] = [is |-> expected, on |-> x]
    /\ ExitPose(w, p, x) # None

May(w, p, s) ==
    LET x == s.target IN
    /\ Exists(w, x)
    /\ CASE s.verb = "PICK_UP"  -> MayPickUp(w, p, x)
         [] s.verb = "PUT_DOWN" -> MayPutDown(w, p, x)
         [] s.verb = "PLACE_ON" -> MayPlace(w, p, x, s.destination, "ON_SUPPORT", s.slot)
         [] s.verb = "PLACE_IN" -> MayPlace(w, p, x, s.destination, "IN_CONTAINER", s.slot)
         [] s.verb = "OPEN"     -> MayOpen(w, p, x)
         [] s.verb = "CLOSE"    -> MayClose(w, p, x)
         [] s.verb \in {"SIT", "LIE_DOWN"} -> MayOccupy(w, p, x, s.slot)
         [] s.verb = "STAND"    -> MayLeave(w, p, x, "SITTING")
         [] s.verb = "GET_UP"   -> MayLeave(w, p, x, "LYING")
         [] s.verb = "USE"      -> Object[x].usable /\ Accessible(w, p, x)
         [] s.verb = "EQUIP"    -> MayEquip(w, p, x, s.slot)
         [] s.verb = "UNEQUIP"  -> MayUnequip(w, p, x)

-----------------------------------------------------------------------------
(* What it changes.                                                        *)

ReleaseHands(hands, x) == [h \in DOMAIN hands |-> IF hands[h] = x THEN None ELSE hands[h]]

TakeInHand(w, p, x) ==
    LET both == Object[x].carry = "two"
        hand == Hand(both, FreeHands(w, p))
    IN [w EXCEPT !.hands[p] = [h \in DOMAIN @ |-> IF both \/ h = hand THEN x ELSE @[h]],
                 !.rel[x] = Placed("HELD_BY", p, hand),
                 !.keeper[x] = p]

PickUp(w, p, x) ==
    [TakeInHand(w, p, x) EXCEPT !.indexed = @ \ {x}, !.at[x] = w.at[p]]

Equip(w, p, x, slot) ==
    [w EXCEPT !.hands[p] = ReleaseHands(@, x),
              !.rel[x] = Placed("ATTACHED_TO", p, slot),
              !.at[x] = w.at[p]]

Index(w, x) == [w EXCEPT !.indexed = @ \cup {x}, !.raised = @ \/ x \in w.indexed]

\* Mutant: the hands keep what was put away.
LetGoButHold(w, p, x, place, anchor) ==
    [w EXCEPT !.rel[x] = place, !.keeper[x] = None, !.at[x] = anchor]

LetGo(w, p, x, place, anchor) ==
    [w EXCEPT !.hands[p] = ReleaseHands(@, x),
              !.rel[x] = place, !.keeper[x] = None, !.at[x] = anchor]

PutDown(w, p, x) ==
    LetGo(Index(w, x), p, x, Placed("ON_FLOOR", "room", None), FloorPose(w, p, x))

SlotAnchor(w, d) == IF w.seats[d] = <<>> THEN w.at[d] ELSE w.seats[d][1]

Place(w, p, x, d, kind, asked) ==
    LetGo(IF kind = "ON_SUPPORT" THEN Index(w, x) ELSE w, p, x,
          Placed(kind, d, SelectSlot(w, d, kind, asked)), SlotAnchor(w, d))

\* SpatialCollisionError: what is put on a support would stand in something.
Collides(w, s) ==
    /\ s.verb = "PLACE_ON" /\ Solid(w, s.target)
    /\ ~CanPlace(w, Cells(s.target, SlotAnchor(w, s.destination)), {s.destination})

Occupy(w, p, x, posture, asked) ==
    LET slot == SelectSlot(w, x, "OCCUPIES_SLOT", asked) IN
    [w EXCEPT !.at[p] = OccupancyPose(w, p, x, slot),
              !.rel[p] = Placed("OCCUPIES_SLOT", x, slot),
              !.posture[p] = [is |-> posture, on |-> x]]

Leave(w, p, x) ==
    [w EXCEPT !.at[p] = ExitPose(w, p, x), !.rel[p] = None,
              !.posture[p] = [is |-> "STANDING", on |-> None]]

Commit(w, p, s) ==
    LET x == s.target IN
    CASE s.verb = "PICK_UP"  -> PickUp(w, p, x)
      [] s.verb = "PUT_DOWN" -> PutDown(w, p, x)
      [] s.verb = "PLACE_ON" -> Place(w, p, x, s.destination, "ON_SUPPORT", s.slot)
      [] s.verb = "PLACE_IN" -> Place(w, p, x, s.destination, "IN_CONTAINER", s.slot)
      [] s.verb = "OPEN"     -> [w EXCEPT !.open = @ \cup {x}]
      [] s.verb = "CLOSE"    -> [w EXCEPT !.open = @ \ {x}]
      [] s.verb = "SIT"      -> Occupy(w, p, x, "SITTING", s.slot)
      [] s.verb = "LIE_DOWN" -> Occupy(w, p, x, "LYING", s.slot)
      [] s.verb \in {"STAND", "GET_UP"} -> Leave(w, p, x)
      [] s.verb = "USE"      -> w
      [] s.verb = "EQUIP"    -> Equip(w, p, x, s.slot)
      [] s.verb = "UNEQUIP"  -> TakeInHand(w, p, x)

-----------------------------------------------------------------------------
(* Drinking, reading and walking.                                          *)

MayEnjoy(w, p, act, x) ==
    /\ IF act = "DRINK" THEN w.servings[x] > 0 ELSE Object[x].readable
    /\ Accessible(w, p, x)

Drink(w, x) == [w EXCEPT !.servings[x] = @ - 1]

\* sync_held_object_poses: what is in the hands or worn comes along; what is in
\* or on it keeps its pose.
Move(w, p, anchor) ==
    [w EXCEPT !.at = [e \in Entities |->
        IF e = p \/ (e \in Things /\ (e \in {w.hands[p][h] : h \in DOMAIN w.hands[p]}
                                     \/ Has(w, e, "ATTACHED_TO", p)))
          THEN anchor ELSE @[e]]]
=============================================================================
