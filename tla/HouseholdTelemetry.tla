-------------------------- MODULE HouseholdTelemetry --------------------------
(***************************************************************************)
(* The pages that show the household while it runs (application/telemetry.py): *)
(* the room with its things, and the characters, for an operator, who is shown *)
(* everything, and for the public, which is not shown what lies in a shut      *)
(* container that stops sight.  A page is built between two ticks, when the    *)
(* characters are deciding, from the same state as what they observe.          *)
(***************************************************************************)
EXTENDS Household

-----------------------------------------------------------------------------
(* What is shown.                                                          *)

\* _physical_entity_is_visible
Concealed(e) ==
    \/ Endless(world.rel, e)
    \/ \E y \in Lineage(world.rel, e) :
          /\ Related(world.rel, y) /\ Shut(world, world.rel[y])
          /\ "sight" \in Object[world.rel[y].parent].stops

\* Whoever is not an entity, such as the room, is shown.
Shown(operator, e) == operator \/ e \notin Entities \/ ~Concealed(e)

-----------------------------------------------------------------------------
(* _physical_state_payload and what it is made of.                           *)

PoseView(e) ==
    [anchor |-> world.at[e], occupied |-> Occupied(world, e), blocks |-> Solid(world, e),
     stops  |-> {s \in {"sight", "smell"} : Screens(world, e, s)}]

RelationView(operator, e) ==
    LET r == world.rel[e] IN IF r # None /\ Shown(operator, r.parent) THEN r ELSE None

HolderView(operator, e) ==
    LET r == RelationView(operator, e) IN
    IF r # None /\ r.kind = "HELD_BY" THEN r.parent ELSE None

CustodyView(operator, x) ==
    LET p == world.keeper[x] IN IF p # None /\ Shown(operator, p) THEN p ELSE None

Occupants(x, s) ==
    {e \in Entities : world.rel[e] # None /\ world.rel[e].parent = x /\ world.rel[e].slot = s}

\* Mutant: the slots tell who is in them whether they are shown or not.
SlotOfAll(operator, x, s) ==
    [entities  |-> Occupants(x, s),
     remaining |-> Object[x].slots[s].room - Cardinality(Occupants(x, s))]

\* The occupancy of a slot is told when all that is in it is shown.
SlotView(operator, x, s) ==
    IF \A e \in Occupants(x, s) : Shown(operator, e)
      THEN [entities  |-> Occupants(x, s),
            remaining |-> Object[x].slots[s].room - Cardinality(Occupants(x, s))]
    ELSE None

CapabilitiesView(x) ==
    [grip |-> IF Object[x].carry = "no" THEN None ELSE Grip(x),
     opens |-> Object[x].opens, readable |-> Object[x].readable, wear |-> Object[x].wear,
     servings |-> world.servings[x], scent |-> Object[x].scent,
     endpoints |-> {e \in DOMAIN Endpoint : Endpoint[e].on = x}]

IntrinsicsView(x) == [mass |-> Object[x].mass]

TargetView(x) == [approach |-> world.approach[x], occupancy |-> world.seats[x]]

ObjectView(operator, x) ==
    [pose |-> PoseView(x), open |-> x \in world.open, capabilities |-> CapabilitiesView(x),
     intrinsics |-> IntrinsicsView(x), relation |-> RelationView(operator, x),
     custodian |-> CustodyView(operator, x), holder |-> HolderView(operator, x),
     slots |-> [s \in DOMAIN Object[x].slots |-> SlotView(operator, x, s)],
     indexed |-> x \in world.indexed, target |-> TargetView(x)]

\* build_physical_room_snapshot: the world of this model is one room.
RoomView(operator) ==
    LET shown == {x \in Registered(world) \cap Things : Shown(operator, x)}
    IN [things  |-> [x \in shown |-> ObjectView(operator, x)],
        indexed |-> {e \in world.indexed : Shown(operator, e)}]

-----------------------------------------------------------------------------
(* build_agent_snapshot                                                    *)

ActionView(s, status) == [about |-> s, status |-> status]

InteractionView(p) ==
    LET me == person[p] IN
    [request   |-> IF me.asked = None THEN None ELSE ActionView(me.asked.spec, me.asked.status),
     execution |-> IF me.interaction = None THEN None
                   ELSE ActionView(me.interaction.spec, "running")]

GearView(p) ==
    [senses |-> person[p].gear.senses, base |-> Acuity,
     equipment |-> person[p].gear.worn, load |-> person[p].gear.load]

BodyView(operator, p) ==
    [pose |-> PoseView(p), relation |-> RelationView(operator, p),
     posture |-> world.posture[p], indexed |-> p \in world.indexed,
     held |-> {world.hands[p][h] : h \in DOMAIN world.hands[p]} \ {None}]

AgentView(operator, p) ==
    [body |-> BodyView(operator, p), gear |-> GearView(p), interaction |-> InteractionView(p),
     plan |-> person[p].action, visible |-> DOMAIN person[p].sees.people]

-----------------------------------------------------------------------------
(* Properties.                                                             *)

\* Part of SeenAndShown: the facts add up to what is in sight, and that is what
\* there is to see with what is worn; sight is mutual, what is held is seen with
\* its holder, and two who see a thing see the same.
SightsAreTrue ==
    \A p \in People :
        LET mine == person[p].sees
            worn == {x \in Things : WornBy(world, x, p)}
        IN /\ person[p].minds = mine
           /\ mine = Scan(world, p, Senses(worn))
           /\ worn \cup {x \in Things : HeldBy(world, x, p)} =
                 {x \in DOMAIN mine.things : mine.things[x].mass # None}
           /\ \A q \in People \ {p} :
                 LET other == person[q].sees IN
                 /\ q \in DOMAIN mine.people <=> p \in DOMAIN other.people
                 /\ \A x \in DOMAIN mine.things :
                       /\ HeldBy(world, x, q) => q \in DOMAIN mine.people
                       /\ x \in DOMAIN other.things =>
                             /\ mine.things[x].open = other.things[x].open
                             /\ mine.things[x].place = other.things[x].place

\* Part of SeenAndShown: whatever the interaction system would do with a thing in
\* sight is offered, but for rising from a seat.
OffersAreComplete ==
    \A p \in People : \A x \in DOMAIN person[p].sees.things :
        \A verb \in Interactions \ {"STAND", "GET_UP"} :
            LET ways == IF verb \in {"PLACE_ON", "PLACE_IN"} THEN Registered(world) \cap Things
                        ELSE {None}
                slots == IF verb = "EQUIP" THEN DOMAIN Equipment ELSE {None}
            IN (\E d \in ways, s \in slots :
                   May(world, p, [verb |-> verb, target |-> x, destination |-> d, slot |-> s]))
               => verb \in AvailableInteractions(world, p, x)

\* Part of SeenAndShown: the operator's page shows every thing, the public's is
\* the same as far as it goes, names nothing that it does not show, and shows
\* whatever a character has in sight; the page of a character and the pages of
\* the things tell the same.
ViewsAgree ==
    LET all    == RoomView(TRUE)
        public == RoomView(FALSE)
        named  == DOMAIN public.things \cup People
    IN /\ DOMAIN all.things = Registered(world) \cap Things
       /\ \A x \in DOMAIN public.things :
             LET shown == public.things[x] IN
             /\ shown.relation \in {None, all.things[x].relation}
             /\ shown.relation # None => shown.relation.parent \in named \cup {"room"}
             /\ \A s \in DOMAIN shown.slots : shown.slots[s] # None =>
                   /\ shown.slots[s] = all.things[x].slots[s] /\ shown.slots[s].remaining >= 0
                   /\ shown.slots[s].entities \subseteq named
             /\ shown.indexed <=> x \in public.indexed
       /\ \A p \in People :
             LET me == AgentView(FALSE, p)
                 seat == me.body.posture.on
             IN /\ me.body.held = {x \in DOMAIN public.things : public.things[x].holder = p}
                /\ (UNION Range(me.gear.equipment) \cup me.body.held) \ Owed(world, p)
                      = {x \in DOMAIN public.things : public.things[x].custodian = p}
                          \ Owed(world, p)
                /\ DOMAIN person[p].sees.things \subseteq DOMAIN public.things
                /\ seat # None => \E s \in DOMAIN all.things[seat].slots :
                                     p \in all.things[seat].slots[s].entities

\* When the characters decide, what each sees, is offered and is shown of is the
\* room as it is, although things have changed hands, containers and shutters
\* since they last looked (perception/system.py, context.py, telemetry.py).
SeenAndShown ==
    system = "decisions" /\ queue = Round("decisions") =>
        SightsAreTrue /\ OffersAreComplete /\ ViewsAgree
=============================================================================
