--------------------------- MODULE HouseholdScenario ---------------------------
(***************************************************************************)
(* How a scenario becomes the room in which a run starts, and which scenarios *)
(* are refused (application/scenario.py: the definitions of physical objects  *)
(* and texts, _materialize_physical_objects and what follows it).            *)
(*                                                                         *)
(* A scenario says where its things are (thing -> placement: relation, anchor, *)
(* open, custodian) and where its people stand.                              *)
(***************************************************************************)
EXTENDS Observation

CONSTANTS Names     \* the things, in the order of their names

Before(x, y) ==
    \E i, j \in DOMAIN Names : i < j /\ Names[i] = x /\ Names[j] = y

Slotting == {"ON_SUPPORT", "IN_CONTAINER", "OCCUPIES_SLOT"}

Slotted == Slotting \cup {"HELD_BY"}

-----------------------------------------------------------------------------
(* What the definitions admit on their own.                                 *)

\* PhysicalCapabilitiesDefinition and PhysicalObjectDefinition
ObjectDefined(x, placement) ==
    /\ Object[x].wear # {} => Object[x].carry # "no"
    /\ placement.open => Object[x].opens /\ ~Object[x].locked

\* SpatialParentRelationComponent
RelationDefined(r) ==
    /\ r.kind \in Slotted => r.slot # None
    /\ r.kind = "ON_FLOOR" => r.slot = None

\* TextContentDefinition: texts in their first revision, and no mail counted,
\* whatever the mailboxes hold.
TextsDefined(r) ==
    /\ \A id \in DOMAIN r.artifacts :
          LET a == r.artifacts[id] IN
          /\ Len(a.history) = 1
          /\ \A i, j \in DOMAIN Blocks(a) : Blocks(a)[i].id = Blocks(a)[j].id => i = j
    /\ \A c \in DOMAIN r.collections : r.collections[c].members \subseteq DOMAIN r.artifacts
    /\ \A a \in DOMAIN Address : Address[a].mailbox \in DOMAIN r.collections
    /\ r.unread = [a \in DOMAIN Address |-> 0]

\* _validate_content_endpoint_bindings
EndpointsBound(r, placed) ==
    \A e \in DOMAIN Endpoint : Endpoint[e].on \in DOMAIN placed =>
        Endpoint[e].of \in DOMAIN r.artifacts \cup DOMAIN r.collections

-----------------------------------------------------------------------------
(* The things.                                                             *)

\* What is in a container, in a hand or worn has no place in the index.
Exposed(placement) == placement.rel.kind \notin {"IN_CONTAINER", "HELD_BY", "ATTACHED_TO"}

Stands(x, placement) == Exposed(placement) /\ Object[x].solid /\ ~placement.open

\* A thing is added after those before it, and may stand only in what it is on,
\* if that is there already.
ThingsFit(placed) ==
    \A x, y \in {z \in DOMAIN placed : Stands(z, placed[z])} :
        Before(y, x) /\ Cells(x, placed[x].at) \cap Cells(y, placed[y].at) # {}
        => /\ placed[x].rel.kind \in {"ON_SUPPORT", "OCCUPIES_SLOT"}
           /\ placed[x].rel.parent = y

\* _validate_materialized_physical_relations
RelationsHold(rel, placed) ==
    \A x \in DOMAIN placed :
        LET r == rel[x]
            with == {y \in DOMAIN placed : /\ rel[y].kind \in Slotting
                                           /\ rel[y].parent = r.parent /\ rel[y].slot = r.slot}
        IN /\ ~Endless(rel, x)
           /\ r.kind = "ON_FLOOR" => r.parent = "room"
           /\ r.kind \in Slotting =>
                 /\ r.parent \in DOMAIN placed /\ r.slot \in DOMAIN Object[r.parent].slots
                 /\ r.kind \in Object[r.parent].slots[r.slot].takes
                 /\ Cardinality(with) <= Object[r.parent].slots[r.slot].room

Furnished(placed) ==
    [rel      |-> [e \in Entities |-> IF e \in DOMAIN placed THEN placed[e].rel ELSE None],
     at       |-> [e \in Entities |-> IF e \in DOMAIN placed THEN placed[e].at ELSE 0],
     indexed  |-> {x \in DOMAIN placed : Exposed(placed[x])},
     open     |-> {x \in DOMAIN placed : placed[x].open},
     raised   |-> FALSE,
     keeper   |-> [x \in Things |-> IF x \in DOMAIN placed THEN placed[x].keeper ELSE None],
     lent     |-> [x \in {y \in DOMAIN placed : placed[y].keeper # Keeper(y, placed[y].rel)} |->
                      placed[x].keeper],
     servings |-> [x \in Things |-> Object[x].servings]]

-----------------------------------------------------------------------------
(* The interaction registry: where one stands and sits to use a thing, worked  *)
(* out once, before the people are there.                                    *)

Nearest(anchors, at) ==
    SetToSortSeq(anchors, LAMBDA a, b : \/ Gap(a, at) < Gap(b, at)
                                        \/ Gap(a, at) = Gap(b, at) /\ a < b)

Standable(w, a, on) ==
    {a + d : d \in Body} \subseteq 1..Width /\ CanPlace(w, {a + d : d \in Body}, on)

ApproachAnchors(w, x) ==
    Nearest({a \in {c - d : c \in Contact(w, x), d \in Body} :
                {a + d : d \in Body} \cap Occupied(w, x) = {} /\ Standable(w, a, {})},
            w.at[x])

OccupancyAnchors(w, x) ==
    Nearest({a \in Occupied(w, x) \cup {w.at[x]} : Standable(w, a, {x})}, w.at[x])

Takes(x, kind) == \E s \in DOMAIN Object[x].slots : kind \in Object[x].slots[s].takes

Targets(w, placed) ==
    [approach |-> [x \in Things |-> IF x \in DOMAIN placed THEN ApproachAnchors(w, x) ELSE <<>>],
     seats    |-> [x \in Things |-> IF x \in DOMAIN placed /\ Takes(x, "OCCUPIES_SLOT")
                                      THEN OccupancyAnchors(w, x) ELSE <<>>]]

-----------------------------------------------------------------------------
(* The people, with what they hold and wear.                                 *)

\* Mutant: a hand that is full already takes another thing.
HandsTakeAll(rel) == TRUE

HandsSuffice(rel) ==
    \A p \in People : \A h \in {"left", "right"} :
        Cardinality({x \in Things : /\ rel[x] # None /\ rel[x].kind = "HELD_BY"
                                    /\ rel[x].parent = p /\ rel[x].slot \in {h, "both"}}) <= 1

InHand(rel, p, h) ==
    LET held == {x \in Things : /\ rel[x] # None /\ rel[x].kind = "HELD_BY"
                                /\ rel[x].parent = p /\ rel[x].slot \in {h, "both"}}
    IN IF held = {} THEN None ELSE CHOOSE x \in held : TRUE

\* _materialize_character_physics
PeopleFit(w, people) ==
    \A p \in People :
        /\ Standable(w, people[p], {})
        /\ \A q \in People \ {p} : Cells(p, people[p]) \cap Cells(q, people[q]) = {}

\* _validate_initial_equipment
EquipmentFits(rel) ==
    \A x \in Things : rel[x] # None /\ rel[x].kind = "ATTACHED_TO" =>
        LET r == rel[x] IN
        IF r.slot = None THEN Object[x].wear = {}
        ELSE /\ r.parent \in People /\ r.slot \in Object[x].wear \cap DOMAIN Equipment
             /\ Cardinality({y \in Things : rel[y] # None /\ rel[y].kind = r.kind
                                       /\ rel[y].parent = r.parent /\ rel[y].slot = r.slot})
                  <= Equipment[r.slot]

\* _validate_initial_carried_load
LoadFits(w) ==
    \A p \in People :
        /\ Carried(w, p) <= MaxLoad
        /\ \A x \in Things : HeldBy(w, x, p) \/ Has(w, x, "ATTACHED_TO", p)
                               => Object[x].mass <= MaxMass

\* What is worn is where its wearer is; what is held stays where it was placed.
Inhabited(w, targets, people) ==
    [rel      |-> w.rel, indexed |-> w.indexed \cup People, open |-> w.open,
     raised   |-> w.raised, keeper |-> w.keeper, lent |-> w.lent, servings |-> w.servings,
     approach |-> targets.approach, seats |-> targets.seats,
     at       |-> [e \in Entities |->
                     CASE e \in People -> people[e]
                       [] e \in Things /\ w.rel[e] # None /\ w.rel[e].kind = "ATTACHED_TO"
                            /\ Object[e].wear # {} -> people[w.rel[e].parent]
                       [] OTHER -> w.at[e]],
     hands    |-> [p \in People |-> [h \in {"left", "right"} |-> InHand(w.rel, p, h)]],
     posture  |-> [p \in People |-> [is |-> "STANDING", on |-> None]]]

-----------------------------------------------------------------------------
\* build_registry: the scenarios that become a run, and the room they become.
Accepted(placed, people, texts) ==
    LET w == Furnished(placed) IN
    /\ \A x \in DOMAIN placed : ObjectDefined(x, placed[x]) /\ RelationDefined(placed[x].rel)
    /\ TextsDefined(texts) /\ EndpointsBound(texts, placed)
    /\ ThingsFit(placed) /\ RelationsHold(w.rel, placed)
    /\ PeopleFit(w, people) /\ HandsSuffice(w.rel) /\ EquipmentFits(w.rel) /\ LoadFits(w)

Materialized(placed, people) ==
    LET w == Furnished(placed) IN Inhabited(w, Targets(w, placed), people)
=============================================================================
