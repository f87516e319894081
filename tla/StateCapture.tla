----------------------------- MODULE StateCapture -----------------------------
(***************************************************************************)
(* What the research collector writes of the household at the phases of a    *)
(* tick (application/data_capture/state.py, application/collection.py): a    *)
(* sample of the state of every entity, what has changed since the sample    *)
(* before, a transition that tells which actions have ended, and rows about  *)
(* the things, their relations and the characters.                          *)
(*                                                                         *)
(* TICK_POST_SYSTEMS comes after the last system; TICK_POST_COGNITION after   *)
(* the decisions, and nothing happens between it and TICK_PRE_SYSTEMS of the  *)
(* next tick, which tells the same state once more.                         *)
(*                                                                         *)
(*   recorded.samples   subject -> its state in the last sample              *)
(*   recorded.replayed  subject -> what the first sample and the deltas make *)
(*   recorded.pending   character -> actions that have ended, to be told      *)
(*   recorded.told      character -> the outcomes in its transitions          *)
(***************************************************************************)
EXTENDS Household

VARIABLE recorded

Global == "__global__"

Subjects == Registered(world) \cup {Global}

-----------------------------------------------------------------------------
(* Samples: the components that an entity has, by their type.               *)

\* capture_registry_state: a component that the entity does not have is left out.
Serialized(components) ==
    [k \in {t \in DOMAIN components : components[t] # None} |-> components[k]]

Relation(e) ==
    IF world.rel[e] = None THEN None
    ELSE <<world.rel[e].kind, world.rel[e].parent, world.rel[e].slot>>

CharacterComponents(p) ==
    LET me == person[p] IN
    [PhysicalState |-> world.at[p], SpatialParentRelation |-> Relation(p),
     CharacterPosture |-> world.posture[p], CharacterHandState |-> world.hands[p],
     Drive |-> me.critical, Plan |-> <<me.action, me.waits>>,
     InteractionRequest |-> me.asked, InteractionExecution |-> me.interaction,
     TextActionRequest |-> me.textAsked, TextActionExecution |-> me.text,
     TextReadReceipt |-> IF me.receipts = {} THEN None ELSE me.receipts,
     Perception |-> me.sees, EquipmentState |-> me.gear.worn,
     EffectiveSenses |-> me.gear.senses, CarriedLoad |-> me.gear.load]

ThingComponents(x) ==
    [PhysicalState |-> world.at[x], SpatialParentRelation |-> Relation(x),
     Custody |-> world.keeper[x],
     Openable |-> IF Object[x].opens THEN x \in world.open ELSE None,
     Consumable |-> IF world.servings[x] > 0 THEN world.servings[x] ELSE None]

\* The resources that are part of the state; services and callbacks are not.
Resources == [SpatialIndex |-> world.indexed, TextContentRegistry |-> texts]

Snapshot(s) ==
    CASE s = Global   -> Resources
      [] s \in People -> Serialized(CharacterComponents(s))
      [] s \in Things -> Serialized(ThingComponents(s))

-----------------------------------------------------------------------------
(* Deltas.                                                                 *)

\* Mutant: a component that has gone is not a change.
ChangesOfWhatStays(before, after) ==
    LET both == DOMAIN before \cap DOMAIN after IN
    [added    |-> [k \in DOMAIN after \ DOMAIN before |-> after[k]],
     removed  |-> {},
     replaced |-> [k \in {t \in both : before[t] # after[t]} |-> after[k]]]

\* _collect_changes
Changes(before, after) ==
    LET both == DOMAIN before \cap DOMAIN after IN
    [added    |-> [k \in DOMAIN after \ DOMAIN before |-> after[k]],
     removed  |-> DOMAIN before \ DOMAIN after,
     replaced |-> [k \in {t \in both : before[t] # after[t]} |-> after[k]]]

ChangeCount(changes) ==
    Cardinality(DOMAIN changes.added) + Cardinality(changes.removed)
        + Cardinality(DOMAIN changes.replaced)

\* What a reader of the deltas makes of them.
Replayed(state, changes) ==
    [k \in (DOMAIN state \ changes.removed) \cup DOMAIN changes.added |->
        CASE k \in DOMAIN changes.added    -> changes.added[k]
          [] k \in DOMAIN changes.replaced -> changes.replaced[k]
          [] OTHER                         -> state[k]]

-----------------------------------------------------------------------------
(* Transitions.                                                            *)

\* An action that ends is to be told by the next transition after the systems.
ActionOutcomes ==
    recorded' = [recorded EXCEPT !.pending = [p \in People |->
        IF person[p].action # None /\ person'[p].action = None
          THEN Append(@[p], person[p].decided) ELSE @[p]]]

\* The rows of one subject: a delta only when something has changed, and a
\* transition from the sample before, with the actions that have ended.
StateDelta(s, changes) ==
    IF ChangeCount(changes) = 0 THEN recorded.replayed[s]
    ELSE Replayed(recorded.replayed[s], changes)

Transition(s, after) ==
    [ended |-> IF after = "systems" /\ s \in People THEN recorded.pending[s] ELSE <<>>]

Persist(s, now, after) ==
    [sample |-> now, delta |-> StateDelta(s, Changes(recorded.samples[s], now)),
     transition |-> Transition(s, after)]

SampleTable(row) == [s \in Subjects |-> row[s].sample]

TransitionTable(row) == [p \in People |-> recorded.told[p] \o row[p].transition.ended]

CapturePhase(after) ==
    LET row == [s \in Subjects |-> Persist(s, Snapshot(s), after)] IN
    recorded' = [samples  |-> SampleTable(row),
                 replayed |-> [s \in Subjects |-> row[s].delta],
                 pending  |-> [p \in People |-> IF after = "systems" THEN <<>>
                                                ELSE recorded.pending[p]],
                 told     |-> TransitionTable(row)]

-----------------------------------------------------------------------------
StartRecorded(cast) ==
    /\ Start(cast)
    /\ recorded = [samples  |-> [s \in Subjects |-> Snapshot(s)],
                   replayed |-> [s \in Subjects |-> Snapshot(s)],
                   pending  |-> [p \in People |-> <<>>],
                   told     |-> [p \in People |-> <<>>]]

PhaseEnds ==
    /\ NextSystem
    /\ CASE system = "perception" -> CapturePhase("systems")
         [] system = "decisions"  -> CapturePhase("cognition")
         [] OTHER                 -> UNCHANGED recorded

CharacterMoves ==
    /\ \E p \in People :
          \/ PlanStep(p) \/ InteractionStep(p) \/ TextStep(p) \/ EffectStep(p)
          \/ TimedStep(p) \/ SurvivalStep(p) \/ MovementStep(p) \/ PerceptionStep(p)
          \/ DecisionStep(p)
    /\ ActionOutcomes

RecordedNext == PhaseEnds \/ CharacterMoves

-----------------------------------------------------------------------------
(* Rows: what is observed of each thing, relation and character, and the     *)
(* columns of the tables.                                                    *)

\* physical_object_states: where it is, and what it would stop.
ObjectPose(x) ==
    [anchor |-> world.at[x], occupied |-> Occupied(world, x), blocks |-> Solid(world, x),
     indexed |-> x \in world.indexed, parent |-> world.rel[x]]

\* What can be done with it, as far as that changes.
ObjectCapabilities(x) ==
    [open |-> Object[x].opens /\ x \in world.open, servings |-> world.servings[x]]

ObjectSlots(x) ==
    [s \in DOMAIN Object[x].slots |->
        LET in == {e \in Entities : world.rel[e] # None /\ world.rel[e].parent = x
                                                       /\ world.rel[e].slot = s}
        IN [occupants |-> in, remaining |-> Object[x].slots[s].room - Cardinality(in)]]

ObjectCustody(x) ==
    [custodian |-> world.keeper[x],
     holder |-> IF world.rel[x] # None /\ world.rel[x].kind = "HELD_BY"
                  THEN world.rel[x].parent ELSE None]

ObjectColumns(x) ==
    LET custody == ObjectCustody(x) IN
    [open |-> ObjectCapabilities(x).open, blocks |-> ObjectPose(x).blocks,
     anchor |-> ObjectPose(x).anchor, slots |-> ObjectSlots(x),
     parent |-> ObjectPose(x).parent, custodian |-> custody.custodian,
     holder |-> custody.holder]

\* _physical_parent_kind
ParentKind(e) ==
    CASE e \in Things -> "physical_object" [] e \in People -> "character" [] OTHER -> "space"

\* physical_relation_samples
RelationColumns(e) ==
    LET r == world.rel[e] IN
    [parent |-> r.parent, kind |-> r.kind, slot |-> r.slot, parentKind |-> ParentKind(r.parent),
     holder |-> IF r.kind = "HELD_BY" THEN r.parent ELSE None,
     custodian |-> IF e \in Things THEN world.keeper[e] ELSE None]

\* _physical_custody_entries
Custodied(p) == {x \in Things : world.keeper[x] = p}

\* character_physical_state: the body.
CharacterBody(p) ==
    [anchor |-> world.at[p], posture |-> world.posture[p], parent |-> world.rel[p],
     request |-> person[p].asked, execution |-> person[p].interaction]

\* What it has.
CharacterHoldings(p) ==
    [held |-> {world.hands[p][h] : h \in DOMAIN world.hands[p]} \ {None},
     custodied |-> Custodied(p), equipment |-> person[p].gear.worn,
     load |-> person[p].gear.load]

ObjectTable == [x \in Registered(world) \cap Things |-> ObjectColumns(x)]

RelationTable == [e \in {f \in Entities : world.rel[f] # None} |-> RelationColumns(e)]

PhysicalObservations ==
    [things |-> ObjectTable, relations |-> RelationTable,
     bodies |-> [p \in People |-> CharacterBody(p)],
     people |-> [p \in People |-> CharacterHoldings(p)]]

\* The other entities that the row of a thing is about.
RelatedIds(x, things) ==
    LET row == things[x] IN
    ({row.custodian, row.holder} \cup (IF row.parent = None THEN {} ELSE {row.parent.parent})
       \cup UNION {row.slots[s].occupants : s \in DOMAIN row.slots}) \ {None, x}

\* population_state: how many entities have a component of each type.
Population ==
    [k \in UNION {DOMAIN recorded.samples[e] : e \in Registered(world)} |->
        Cardinality({e \in Registered(world) : k \in DOMAIN recorded.samples[e]})]

-----------------------------------------------------------------------------
(* Properties.                                                             *)

\* The rows of one phase tell the same of who has what: the things, the
\* relations and the characters.
RowsAgree ==
    LET seen      == PhysicalObservations
        things    == seen.things
        relations == seen.relations
        Having(p) == seen.people[p].held \cup UNION Range(seen.people[p].equipment)
    IN /\ \A p \in People : LET has == seen.people[p] IN
             /\ has.held = {x \in DOMAIN things : things[x].holder = p}
             /\ has.custodied = {x \in DOMAIN things : things[x].custodian = p}
             /\ has.custodied \ Owed(world, p) = Having(p) \ Owed(world, p)
             /\ has.load = MapThenSumSet(LAMBDA x : Object[x].mass, Having(p))
             /\ LET seat == seen.bodies[p].posture.on IN
                seat # None => p \in UNION {slot.occupants : slot \in Range(things[seat].slots)}
       /\ \A x \in DOMAIN things : \A s \in DOMAIN things[x].slots :
             /\ things[x].slots[s].remaining >= 0
             /\ things[x].slots[s].occupants =
                   {e \in DOMAIN relations : relations[e].parent = x /\ relations[e].slot = s}
       /\ \A e \in DOMAIN relations : LET row == relations[e] IN
             /\ row.holder # None => row.parentKind = "character" /\ row.custodian = row.holder
             /\ e \in Things => row.parent \in RelatedIds(e, things)
       /\ Cardinality(DOMAIN relations) =
             IF DOMAIN relations = {} THEN 0 ELSE Population["SpatialParentRelation"]

\* The data set tells the household as it was: the deltas since the first sample
\* add up to the last one although components come and go between the phases, the
\* rows about things, relations and characters agree, and each action's end is
\* told by one transition, in order.
CaptureTellsTheHousehold ==
    /\ recorded.replayed = recorded.samples
    /\ \A p \in People :
          recorded.told[p] \o recorded.pending[p] =
              [n \in 1..(person[p].decided - IF person[p].action = None THEN 0 ELSE 1) |-> n]
    /\ system \in {"plans", "decisions"} /\ queue = Round(system) => RowsAgree
=============================================================================
