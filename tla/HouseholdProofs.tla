--------------------------- MODULE HouseholdProofs ---------------------------
(***************************************************************************)
(* What holds of characters who handle things and texts, for any people,   *)
(* things, texts and decisions and any number of turns.                    *)
(***************************************************************************)
EXTENDS Household, HouseholdScenario, TLAPS, FiniteSetTheorems, SequenceTheorems, WellFoundedInduction

-----------------------------------------------------------------------------
(* The room.                                                               *)

RoomFields == {"rel", "at", "indexed", "open", "hands", "keeper", "posture", "servings",
               "approach", "seats", "raised", "lent"}

\* The room's components have their types.
WorldTyped(w) ==
    /\ DOMAIN w = RoomFields
    /\ w.rel \in [Entities -> Relations \cup {None}]
    /\ w.hands \in [People -> [{"left", "right"} -> Things \cup {None}]]
    /\ w.keeper \in [Things -> Ids \cup {None}]
    /\ w.posture \in [People -> [is : {"STANDING", "SITTING", "LYING"}, on : Things \cup {None}]]
    /\ w.indexed \subseteq Entities

\* What is in a slot is in a slot of a thing.
LEMMA RelationParts ==
    ASSUME NEW r \in Relations
    PROVE  /\ r.kind \in Slotting => r.parent \in Things /\ r.slot \in DOMAIN Object[r.parent].slots
           /\ r # None
BY EntitiesAssumption DEF Relations, Slotting

LEMMA PlacedInSlot ==
    ASSUME NEW kind \in Slotting, NEW d \in Things, NEW s \in DOMAIN Object[d].slots
    PROVE  Placed(kind, d, s) \in Relations
BY DEF Relations, Slotting, Placed

LEMMA PlacedElsewhere ==
    /\ Placed("ON_FLOOR", "room", None) \in Relations
    /\ \A p \in People, h \in {"left", "right", "both"} : Placed("HELD_BY", p, h) \in Relations
    /\ \A p \in People, s \in DOMAIN Equipment : Placed("ATTACHED_TO", p, s) \in Relations
<1>1. /\ DOMAIN Equipment \subseteq Ids /\ People \subseteq Ids
      /\ "left" \in Ids /\ "right" \in Ids /\ "both" \in Ids
  BY EntitiesAssumption DEF Entities
<1>2. Placed("ON_FLOOR", "room", None) \in Relations
  BY DEF Relations, Placed
<1>3. \A p \in People, h \in {"left", "right", "both"} : Placed("HELD_BY", p, h) \in Relations
  BY <1>1 DEF Relations, Placed
<1>4. \A p \in People, t \in DOMAIN Equipment : Placed("ATTACHED_TO", p, t) \in Relations
  BY <1>1 DEF Relations, Placed
<1> QED BY <1>2, <1>3, <1>4

Less == {ss \in Nat \X Nat : ss[1] < ss[2]}

LEMMA LessIsWellFounded == IsWellFoundedOn(Less, Nat)
BY NatLessThanWellFounded DEF OpToRel, Less

\* A set of numbers has a least one.
LEMMA MinIsOne ==
    ASSUME NEW S \in SUBSET Nat, S # {}
    PROVE  Min(S) \in S
<1>1. PICK x \in S : \A y \in S : ~ (<<y, x>> \in Less)
  BY LessIsWellFounded, WFMin
<1>2. \A y \in S : ~ (y < x)
  BY <1>1 DEF Less
<1>3. \A y \in S : x <= y
  BY <1>2
<1> QED BY <1>3 DEF Min

\* The slot that is chosen takes what is put there, and has room.
LEMMA SelectedSlot ==
    ASSUME NEW w, NEW d \in Things, NEW kind, NEW asked, SelectSlot(w, d, kind, asked) # None
    PROVE  SelectSlot(w, d, kind, asked) \in FittingSlots(w, d, kind, asked)
<1> DEFINE F == FittingSlots(w, d, kind, asked)
<1>1. F \subseteq Nat
  BY ObjectAssumption DEF FittingSlots
<1>2. F # {} /\ SelectSlot(w, d, kind, asked) = Min(F)
  BY DEF SelectSlot
<1> QED BY <1>1, <1>2, MinIsOne

-----------------------------------------------------------------------------
(* Hands.                                                                  *)

LEMMA HandsAreTwo ==
    ASSUME NEW S \in SUBSET {"left", "right"}
    PROVE  Cardinality(S) = (IF "left" \in S THEN 1 ELSE 0) + (IF "right" \in S THEN 1 ELSE 0)
<1>1. Cardinality({}) = 0
  BY FS_EmptySet
<1>2. Cardinality({"left"}) = 1 /\ Cardinality({"right"}) = 1
  BY FS_Singleton
<1>3. Cardinality({"left"} \cup {"right"}) = 2
  <2>1. IsFiniteSet({"left"})
    BY FS_Singleton
  <2>2. Cardinality({"left"} \cup {"right"})
            = IF "right" \in {"left"} THEN Cardinality({"left"}) ELSE Cardinality({"left"}) + 1
    BY <2>1, FS_AddElement
  <2> QED BY <1>2, <2>2
<1>4. CASE "left" \in S /\ "right" \in S
  <2>1. S = {"left"} \cup {"right"}
    BY <1>4
  <2> QED BY <1>3, <1>4, <2>1
<1>5. CASE "left" \in S /\ "right" \notin S
  <2>1. S = {"left"}
    BY <1>5
  <2> QED BY <1>2, <1>5, <2>1
<1>6. CASE "left" \notin S /\ "right" \in S
  <2>1. S = {"right"}
    BY <1>6
  <2> QED BY <1>2, <1>6, <2>1
<1>7. CASE "left" \notin S /\ "right" \notin S
  <2>1. S = {}
    BY <1>7
  <2> QED BY <1>1, <1>7, <2>1
<1> QED BY <1>4, <1>5, <1>6, <1>7

\* The hands that are to take a thing are free.
LEMMA GripIsFree ==
    ASSUME NEW w, NEW p \in People, NEW x \in Things, Cardinality(FreeHands(w, p)) >= Grip(x),
           NEW h \in {"left", "right"}, Hand(Object[x].carry = "two", FreeHands(w, p)) \in {h, "both"}
    PROVE  w.hands[p][h] = None
<1> DEFINE free == FreeHands(w, p)
<1>1. free \in SUBSET {"left", "right"}
  BY DEF FreeHands
<1>2. Cardinality(free) = (IF "left" \in free THEN 1 ELSE 0) + (IF "right" \in free THEN 1 ELSE 0)
  BY <1>1, HandsAreTwo
<1>3. h \in free
  <2>1. CASE Object[x].carry = "two"
    BY <1>2, <2>1 DEF Grip
  <2>2. CASE Object[x].carry # "two"
    <3>1. h = IF "left" \in free THEN "left" ELSE "right"
      BY <2>2 DEF Hand
    <3>2. "left" \in free \/ "right" \in free
      BY <1>2, <2>2 DEF Grip
    <3> QED BY <3>1, <3>2
  <2> QED BY <2>1, <2>2
<1> QED BY <1>3 DEF FreeHands

-----------------------------------------------------------------------------
(* Slots.                                                                  *)

\* An entity goes somewhere: if that is a slot, the slot had room.
LEMMA SlotsAfter ==
    ASSUME NEW w, WorldTyped(w), SlotsSuffice(w), NEW v, NEW e \in Entities,
           NEW r \in Relations \cup {None}, v.rel = [w.rel EXCEPT ![e] = r],
           r # None /\ r.kind \in Slotting =>
               Cardinality(InSlot(w, r.parent, r.slot)) < Object[r.parent].slots[r.slot].room
    PROVE  SlotsSuffice(v)
<1> SUFFICES ASSUME NEW f \in Entities, Fills(v, f)
             PROVE  Cardinality(Filling(v, v.rel[f].parent, v.rel[f].slot))
                        <= Object[v.rel[f].parent].slots[v.rel[f].slot].room
  BY DEF SlotsSuffice
<1> DEFINE d == v.rel[f].parent
           s == v.rel[f].slot
           room == Object[d].slots[s].room
           all == InSlot(w, d, s)
<1>1. w.rel \in [Entities -> Relations \cup {None}] /\ v.rel \in [Entities -> Relations \cup {None}]
  BY DEF WorldTyped
<1>2. v.rel[f] # None /\ v.rel[f].kind \in Slotting
  BY DEF Fills, Slotting
<1>3. d \in Things /\ s \in DOMAIN Object[d].slots /\ room \in Nat
  BY <1>1, <1>2, RelationParts, ObjectAssumption
<1>4. IsFiniteSet(all) /\ Cardinality(all) \in Nat
  <2>1. all \in SUBSET Entities
    BY DEF InSlot
  <2>2. IsFiniteSet(all)
    BY <2>1, EntitiesAssumption, FS_Subset
  <2> QED BY <2>2, FS_CardinalityType
<1>5. CASE r # None /\ r.kind \in Slotting /\ r.parent = d /\ r.slot = s
  <2>1. Cardinality(all) < room
    BY <1>5
  <2>2. Filling(v, d, s) \in SUBSET (all \cup {e})
    BY <1>1 DEF Filling, InSlot
  <2>3. /\ IsFiniteSet(all \cup {e})
        /\ Cardinality(all \cup {e})
               = IF e \in all THEN Cardinality(all) ELSE Cardinality(all) + 1
    BY <1>4, FS_AddElement
  <2>4. Cardinality(all \cup {e}) <= room
    <3> HIDE DEF d, s, room, all
    <3> QED BY <1>3, <1>4, <2>1, <2>3
  <2>5. /\ IsFiniteSet(Filling(v, d, s))
        /\ Cardinality(Filling(v, d, s)) <= Cardinality(all \cup {e})
    BY <2>2, <2>3, FS_Subset
  <2>6. Cardinality(Filling(v, d, s)) \in Nat /\ Cardinality(all \cup {e}) \in Nat
    BY <2>3, <2>5, FS_CardinalityType
  <2> QED
    <3> HIDE DEF d, s, room, all
    <3>1. Cardinality(Filling(v, d, s)) <= room
      BY <1>3, <2>4, <2>5, <2>6
    <3> QED BY <3>1 DEF d, s, room
<1>6. CASE ~(r # None /\ r.kind \in Slotting /\ r.parent = d /\ r.slot = s)
  <2>1. f # e
    BY <1>1, <1>2, <1>6
  <2>2. v.rel[f] = w.rel[f]
    BY <1>1, <2>1
  <2>3. Cardinality(Filling(w, d, s)) <= room
    BY <2>2 DEF SlotsSuffice, Fills
  <2>4. Filling(v, d, s) \in SUBSET Filling(w, d, s)
    BY <1>1, <1>6 DEF Filling, InSlot, Fills, Slotting
  <2>5. Filling(w, d, s) \in SUBSET all
    BY DEF Filling
  <2>6. IsFiniteSet(Filling(w, d, s))
    BY <1>4, <2>5, FS_Subset
  <2>7. /\ IsFiniteSet(Filling(v, d, s))
        /\ Cardinality(Filling(v, d, s)) <= Cardinality(Filling(w, d, s))
    BY <2>4, <2>6, FS_Subset
  <2>8. Cardinality(Filling(v, d, s)) \in Nat /\ Cardinality(Filling(w, d, s)) \in Nat
    BY <2>6, <2>7, FS_CardinalityType
  <2> QED
    <3> HIDE DEF d, s, room
    <3>1. Cardinality(Filling(v, d, s)) <= room
      BY <1>3, <2>3, <2>7, <2>8
    <3> QED BY <3>1 DEF d, s, room
<1> QED BY <1>5, <1>6

-----------------------------------------------------------------------------
(* Each interaction keeps the accounts in agreement.                        *)

Sound(w) == WorldTyped(w) /\ Agreed(w)

\* A thing is taken into free hands, from the floor, a slot or the body.
LEMMA TakenInHand ==
    ASSUME NEW w, Sound(w), NEW p \in People, NEW x \in Things,
           ~(w.rel[x] # None /\ w.rel[x].kind = "HELD_BY"),
           Cardinality(FreeHands(w, p)) >= Grip(x)
    PROVE  /\ WorldTyped(TakeInHand(w, p, x))
           /\ HandsAgree(TakeInHand(w, p, x)) /\ KeepersAgree(TakeInHand(w, p, x))
           /\ PosturesAgree(TakeInHand(w, p, x)) /\ SlotsSuffice(TakeInHand(w, p, x))
           /\ TakeInHand(w, p, x).raised = w.raised
           /\ TakeInHand(w, p, x).indexed = w.indexed
           /\ \A y \in Things : TakeInHand(w, p, x).rel[y]
                  = IF y = x THEN Placed("HELD_BY", p, Hand(Object[x].carry = "two", FreeHands(w, p)))
                    ELSE w.rel[y]
<1> DEFINE both == Object[x].carry = "two"
           hand == Hand(both, FreeHands(w, p))
           r    == Placed("HELD_BY", p, hand)
           held == [h \in {"left", "right"} |-> IF both \/ h = hand THEN x ELSE w.hands[p][h]]
           v    == TakeInHand(w, p, x)
<1>1. WorldTyped(w) /\ Agreed(w)
  BY DEF Sound
<1>2. hand \in {"left", "right", "both"} /\ (hand = "both") = both
  BY DEF Hand
<1>3. r \in Relations
  BY <1>2, PlacedElsewhere
<1>4. DOMAIN w.hands[p] = {"left", "right"}
  BY <1>1 DEF WorldTyped
<1>5. /\ DOMAIN v = RoomFields /\ v.rel = [w.rel EXCEPT ![x] = r]
      /\ v.hands = [w.hands EXCEPT ![p] = held] /\ v.keeper = [w.keeper EXCEPT ![x] = p]
      /\ v.posture = w.posture /\ v.indexed = w.indexed /\ v.raised = w.raised /\ v.lent = w.lent
  BY <1>1, <1>4 DEF TakeInHand, WorldTyped, RoomFields
<1> HIDE DEF v
<1>6. x \in Entities /\ p \in Entities /\ x \notin People /\ x # None /\ p # None
  BY EntitiesAssumption DEF Entities
<1>7. held \in [{"left", "right"} -> Things \cup {None}]
  BY <1>1 DEF WorldTyped
<1>8. WorldTyped(v)
  <2> HIDE DEF held, r
  <2>1. v.rel \in [Entities -> Relations \cup {None}]
    BY <1>1, <1>3, <1>5 DEF WorldTyped
  <2>2. v.hands \in [People -> [{"left", "right"} -> Things \cup {None}]]
    BY <1>1, <1>5, <1>7 DEF WorldTyped
  <2>3. v.keeper \in [Things -> Ids \cup {None}]
    BY <1>1, <1>5, EntitiesAssumption DEF WorldTyped, Entities
  <2> QED BY <1>1, <1>5, <2>1, <2>2, <2>3, Zenon DEF WorldTyped
<1>9. /\ w.rel \in [Entities -> Relations \cup {None}] /\ w.keeper \in [Things -> Ids \cup {None}]
      /\ w.hands \in [People -> [{"left", "right"} -> Things \cup {None}]]
  BY <1>1 DEF WorldTyped
<1>10. /\ r # None /\ r.kind = "HELD_BY" /\ r.parent = p /\ r.slot = hand
  BY <1>3, EntitiesAssumption DEF Placed
<1>11. HandsAgree(v)
  <2> SUFFICES ASSUME NEW y \in Things, NEW q \in People, NEW h \in {"left", "right"}
               PROVE  v.hands[q][h] = y <=> HeldBy(v, y, q) /\ v.rel[y].slot \in {h, "both"}
    BY DEF HandsAgree
  <2>1. w.hands[q][h] = y <=> HeldBy(w, y, q) /\ w.rel[y].slot \in {h, "both"}
    BY <1>1 DEF Agreed, HandsAgree
  <2>2. /\ v.rel[y] = IF y = x THEN r ELSE w.rel[y]
        /\ HeldBy(v, y, q) <=> IF y = x THEN q = p ELSE HeldBy(w, y, q)
    <3> HIDE DEF r
    <3> QED BY <1>5, <1>6, <1>9, <1>10 DEF HeldBy, Has, Entities
  <2>3. w.hands[q][h] # x
    BY <1>1 DEF Agreed, HandsAgree, HeldBy, Has
  <2>4. v.hands[q][h] = IF q = p /\ hand \in {h, "both"} THEN x ELSE w.hands[q][h]
    <3>1. both \/ h = hand <=> hand \in {h, "both"}
      BY <1>2
    <3> HIDE DEF hand
    <3> QED BY <1>5, <1>9, <3>1
  <2>5. y # None
    BY EntitiesAssumption DEF Entities
  <2>6. hand \in {h, "both"} => w.hands[p][h] = None
    BY GripIsFree
  <2> HIDE DEF r, hand, held
  <2>7. CASE y = x
    BY <1>10, <2>2, <2>3, <2>4, <2>7
  <2>8. CASE y # x
    BY <2>1, <2>2, <2>4, <2>5, <2>6, <2>8
  <2> QED BY <2>7, <2>8
<1>12. KeepersAgree(v)
  <2> HIDE DEF r
  <2>1. KeepersAgree(w)
    BY <1>1 DEF Agreed
  <2> QED BY <2>1, <1>5, <1>6, <1>9, <1>10 DEF KeepersAgree, Keeper, Entities
<1>13. PosturesAgree(v)
  <2> HIDE DEF r
  <2>1. PosturesAgree(w)
    BY <1>1 DEF Agreed
  <2> QED BY <2>1, <1>5, <1>6, <1>9 DEF PosturesAgree, Has, Entities
<1>14. SlotsSuffice(v)
  <2>1. r.kind \notin Slotting
    BY <1>10 DEF Slotting
  <2>2. SlotsSuffice(w)
    BY <1>1 DEF Agreed
  <2> HIDE DEF r
  <2> QED BY <1>1, <1>3, <1>5, <1>6, <2>1, <2>2, SlotsAfter
<1>15. \A y \in Things : v.rel[y] = IF y = x THEN r ELSE w.rel[y]
  <2> HIDE DEF r
  <2> QED BY <1>5, <1>9 DEF Entities
<1> QED BY <1>5, <1>8, <1>11, <1>12, <1>13, <1>14, <1>15 DEF v

\* What was held leaves the hand: it is put somewhere, or on.
Released(w, v, p, x, r) ==
    /\ HeldBy(w, x, p) /\ r \in Relations /\ r.kind # "HELD_BY"
    /\ DOMAIN v = RoomFields /\ v.rel = [w.rel EXCEPT ![x] = r] /\ v.posture = w.posture
    /\ v.hands = [w.hands EXCEPT ![p] = ReleaseHands(@, x)]
    /\ v.keeper \in [Things -> Ids \cup {None}]
    /\ v.indexed \in {w.indexed, w.indexed \cup {x}}
    /\ r.kind \in Slotting =>
          Cardinality(InSlot(w, r.parent, r.slot)) < Object[r.parent].slots[r.slot].room

Settled(w, v, x, r) ==
    /\ WorldTyped(v) /\ HandsAgree(v) /\ PosturesAgree(v) /\ SlotsSuffice(v)
    /\ \A y \in Things : v.rel[y] = IF y = x THEN r ELSE w.rel[y]

LEMMA ReleasedFromHands ==
    ASSUME NEW w, Sound(w), NEW p \in People, NEW x \in Things, NEW r, NEW v,
           Released(w, v, p, x, r)
    PROVE  Settled(w, v, x, r)
<1> USE DEF Released
<1>1. WorldTyped(w) /\ Agreed(w)
  BY DEF Sound
<1>2. x \in Entities /\ p \in Entities /\ x \notin People /\ x # None /\ p # None /\ r # None
  BY EntitiesAssumption DEF Entities
<1>3. /\ w.rel \in [Entities -> Relations \cup {None}]
      /\ w.hands \in [People -> [{"left", "right"} -> Things \cup {None}]]
      /\ w.indexed \subseteq Entities
  BY <1>1 DEF WorldTyped
<1> DEFINE free == ReleaseHands(w.hands[p], x)
<1>4. /\ free \in [{"left", "right"} -> Things \cup {None}]
      /\ \A h \in {"left", "right"} : free[h] = IF w.hands[p][h] = x THEN None ELSE w.hands[p][h]
  BY <1>3 DEF ReleaseHands
<1>5. v.hands = [w.hands EXCEPT ![p] = free]
  OBVIOUS
<1> HIDE DEF free
<1>6. WorldTyped(v)
  <2>1. v.rel \in [Entities -> Relations \cup {None}]
    BY <1>3
  <2>2. v.hands \in [People -> [{"left", "right"} -> Things \cup {None}]]
    BY <1>3, <1>4, <1>5
  <2>3. v.indexed \subseteq Entities
    BY <1>2, <1>3
  <2> QED BY <1>1, <2>1, <2>2, <2>3, Zenon DEF WorldTyped
<1>7. HandsAgree(v)
  <2> SUFFICES ASSUME NEW y \in Things, NEW q \in People, NEW h \in {"left", "right"}
               PROVE  v.hands[q][h] = y <=> HeldBy(v, y, q) /\ v.rel[y].slot \in {h, "both"}
    BY DEF HandsAgree
  <2>1. w.hands[q][h] = y <=> HeldBy(w, y, q) /\ w.rel[y].slot \in {h, "both"}
    BY <1>1 DEF Agreed, HandsAgree
  <2>2. /\ HeldBy(v, y, q) <=> y # x /\ HeldBy(w, y, q)
        /\ y # x => v.rel[y] = w.rel[y]
    BY <1>2, <1>3 DEF HeldBy, Has, Entities
  <2>3. v.hands[q][h] = IF q = p /\ w.hands[p][h] = x THEN None ELSE w.hands[q][h]
    BY <1>3, <1>4, <1>5
  <2>4. y # None /\ (w.hands[q][h] = x => q = p)
    BY <1>1, EntitiesAssumption DEF Agreed, HandsAgree, HeldBy, Has, Entities
  <2> QED BY <2>1, <2>2, <2>3, <2>4
<1>8. PosturesAgree(v)
  <2>1. PosturesAgree(w)
    BY <1>1 DEF Agreed
  <2> QED BY <2>1, <1>2, <1>3 DEF PosturesAgree, Has, Entities
<1>9. SlotsSuffice(v)
  <2>1. SlotsSuffice(w)
    BY <1>1 DEF Agreed
  <2> QED BY <1>1, <1>2, <2>1, SlotsAfter
<1>10. \A y \in Things : v.rel[y] = IF y = x THEN r ELSE w.rel[y]
  BY <1>3 DEF Entities
<1> QED BY <1>6, <1>7, <1>8, <1>9, <1>10 DEF Settled

LEMMA PickUpKeeps ==
    ASSUME NEW w, Sound(w), NEW p \in People, NEW x \in Things, MayPickUp(w, p, x)
    PROVE  Sound(PickUp(w, p, x))
<1> DEFINE t == TakeInHand(w, p, x)
           v == PickUp(w, p, x)
<1>1. /\ WorldTyped(t) /\ HandsAgree(t) /\ KeepersAgree(t) /\ PosturesAgree(t) /\ SlotsSuffice(t)
      /\ t.raised = w.raised /\ t.indexed = w.indexed
      /\ \A y \in Things : t.rel[y] = IF y = x THEN Placed("HELD_BY", p, Hand(Object[x].carry = "two", FreeHands(w, p)))
                                      ELSE w.rel[y]
  BY ZenonT(40), TakenInHand DEF MayPickUp
<1> HIDE DEF t
<1>2. /\ DOMAIN v = RoomFields /\ v.rel = t.rel /\ v.hands = t.hands /\ v.keeper = t.keeper
      /\ v.posture = t.posture /\ v.raised = t.raised /\ v.indexed = t.indexed \ {x}
      /\ v.lent = t.lent
  BY <1>1 DEF PickUp, WorldTyped, RoomFields, t
<1> HIDE DEF v
<1>3. WorldTyped(v)
  BY <1>1, <1>2 DEF WorldTyped
<1>4. HandsAgree(v) /\ KeepersAgree(v) /\ PosturesAgree(v) /\ SlotsSuffice(v)
  BY SMTT(30), <1>1, <1>2
     DEF HandsAgree, KeepersAgree, PosturesAgree, SlotsSuffice, HeldBy, Has, InSlot, Fills, Filling
<1>5. IndexAgrees(v)
  BY <1>1, <1>2 DEF IndexAgrees, Sound, Agreed, Placed
<1>6. ~v.raised
  BY <1>1, <1>2 DEF Sound, Agreed
<1> QED BY <1>3, <1>4, <1>5, <1>6 DEF Sound, Agreed, v

LEMMA UnequipKeeps ==
    ASSUME NEW w, Sound(w), NEW p \in People, NEW x \in Things, MayUnequip(w, p, x)
    PROVE  Sound(TakeInHand(w, p, x))
<1> DEFINE t == TakeInHand(w, p, x)
<1>1. w.rel[x] # None /\ w.rel[x].kind = "ATTACHED_TO" /\ Cardinality(FreeHands(w, p)) >= Grip(x)
  BY DEF MayUnequip, WornBy, Has
<1>2. /\ WorldTyped(t) /\ HandsAgree(t) /\ KeepersAgree(t) /\ PosturesAgree(t) /\ SlotsSuffice(t)
      /\ t.raised = w.raised /\ t.indexed = w.indexed
      /\ \A y \in Things : t.rel[y] = IF y = x THEN Placed("HELD_BY", p, Hand(Object[x].carry = "two", FreeHands(w, p)))
                                      ELSE w.rel[y]
  <2>1. ~(w.rel[x] # None /\ w.rel[x].kind = "HELD_BY")
    BY <1>1
  <2> QED BY ZenonT(40), <1>1, <2>1, TakenInHand
<1> HIDE DEF t
<1>3. IndexAgrees(t) /\ ~t.raised
  BY <1>1, <1>2 DEF IndexAgrees, Sound, Agreed, Placed
<1> QED BY <1>2, <1>3 DEF Sound, Agreed, t

LEMMA EquipKeeps ==
    ASSUME NEW w, Sound(w), NEW p \in People, NEW x \in Things, NEW slot, MayEquip(w, p, x, slot)
    PROVE  Sound(Equip(w, p, x, slot))
<1> DEFINE v == Equip(w, p, x, slot)
           r == Placed("ATTACHED_TO", p, slot)
<1>1. HeldBy(w, x, p) /\ slot \in DOMAIN Equipment /\ Object[x].wear # {}
  BY DEF MayEquip
<1>2. r \in Relations /\ r.kind = "ATTACHED_TO" /\ r.parent = p
  BY <1>1, PlacedElsewhere DEF Placed
<1>3. /\ DOMAIN v = RoomFields /\ v.rel = [w.rel EXCEPT ![x] = r]
      /\ v.hands = [w.hands EXCEPT ![p] = ReleaseHands(@, x)] /\ v.keeper = w.keeper
      /\ v.posture = w.posture /\ v.raised = w.raised /\ v.indexed = w.indexed /\ v.lent = w.lent
  BY DEF Equip, Sound, WorldTyped, RoomFields
<1>4. /\ w.keeper \in [Things -> Ids \cup {None}] /\ r.kind \notin Slotting
      /\ KeepersAgree(w) /\ IndexAgrees(w) /\ ~w.raised /\ r # None
  BY <1>2, EntitiesAssumption DEF Sound, WorldTyped, Agreed, Slotting
<1> HIDE DEF v, r
<1>5. /\ WorldTyped(v) /\ HandsAgree(v) /\ PosturesAgree(v) /\ SlotsSuffice(v)
      /\ \A y \in Things : v.rel[y] = IF y = x THEN r ELSE w.rel[y]
  <2>1. Released(w, v, p, x, r)
    BY <1>1, <1>2, <1>3, <1>4 DEF Released
  <2>2. Settled(w, v, x, r)
    BY <2>1, ReleasedFromHands
  <2> QED BY <2>2 DEF Settled
<1>6. KeepersAgree(v) /\ IndexAgrees(v)
  BY <1>1, <1>2, <1>3, <1>4, <1>5 DEF KeepersAgree, Keeper, IndexAgrees, HeldBy, Has
<1> QED BY <1>3, <1>4, <1>5, <1>6 DEF Sound, Agreed, v

\* Put on the floor, on a support or in a container.
LEMMA LetGoKeeps ==
    ASSUME NEW w, Sound(w), NEW p \in People, NEW x \in Things, HeldBy(w, x, p),
           NEW r \in Relations, r.kind \in {"ON_FLOOR", "ON_SUPPORT", "IN_CONTAINER"},
           r.kind \in Slotting =>
               Cardinality(InSlot(w, r.parent, r.slot)) < Object[r.parent].slots[r.slot].room,
           NEW anchor
    PROVE  Sound(LetGo(IF r.kind = "IN_CONTAINER" THEN w ELSE Index(w, x), p, x, r, anchor))
<1> DEFINE u == IF r.kind = "IN_CONTAINER" THEN w ELSE Index(w, x)
           v == LetGo(u, p, x, r, anchor)
<1>1. /\ KeepersAgree(w) /\ IndexAgrees(w) /\ ~w.raised /\ r # None
      /\ w.keeper \in [Things -> Ids \cup {None}]
  BY EntitiesAssumption DEF Sound, WorldTyped, Agreed
<1>2. x \notin w.indexed
  BY <1>1 DEF IndexAgrees, HeldBy, Has
<1>3. /\ DOMAIN u = RoomFields /\ u.rel = w.rel /\ u.hands = w.hands /\ u.keeper = w.keeper
      /\ u.posture = w.posture /\ ~u.raised /\ u.lent = w.lent
      /\ u.indexed = IF r.kind = "IN_CONTAINER" THEN w.indexed ELSE w.indexed \cup {x}
  BY <1>1, <1>2 DEF Index, Sound, WorldTyped, RoomFields
<1> HIDE DEF u
<1>4. /\ DOMAIN v = RoomFields /\ v.rel = [w.rel EXCEPT ![x] = r]
      /\ v.hands = [w.hands EXCEPT ![p] = ReleaseHands(@, x)]
      /\ v.keeper = [w.keeper EXCEPT ![x] = None]
      /\ v.posture = w.posture /\ ~v.raised /\ v.indexed = u.indexed /\ v.lent = w.lent
  BY <1>3 DEF LetGo, RoomFields
<1> HIDE DEF v
<1>5. /\ v.keeper \in [Things -> Ids \cup {None}] /\ v.indexed \in {w.indexed, w.indexed \cup {x}}
      /\ r.kind # "HELD_BY"
  BY <1>1, <1>3, <1>4
<1>6. /\ WorldTyped(v) /\ HandsAgree(v) /\ PosturesAgree(v) /\ SlotsSuffice(v)
      /\ \A y \in Things : v.rel[y] = IF y = x THEN r ELSE w.rel[y]
  <2>1. Released(w, v, p, x, r)
    BY <1>4, <1>5 DEF Released
  <2>2. Settled(w, v, x, r)
    BY <2>1, ReleasedFromHands
  <2> QED BY <2>2 DEF Settled
<1>7. KeepersAgree(v)
  BY <1>1, <1>4, <1>6 DEF KeepersAgree, Keeper
<1>8. IndexAgrees(v)
  <2>1. \A y \in Things : y \in v.indexed <=> IF y = x THEN r.kind # "IN_CONTAINER" ELSE y \in w.indexed
    BY <1>2, <1>3, <1>4
  <2> QED BY <1>1, <1>6, <2>1 DEF IndexAgrees
<1> QED BY <1>4, <1>6, <1>7, <1>8 DEF Sound, Agreed, v, u

LEMMA PutDownKeeps ==
    ASSUME NEW w, Sound(w), NEW p \in People, NEW x \in Things, MayPutDown(w, p, x)
    PROVE  Sound(PutDown(w, p, x))
<1> DEFINE r == Placed("ON_FLOOR", "room", None)
<1>1. HeldBy(w, x, p) /\ r \in Relations /\ r.kind = "ON_FLOOR" /\ r.kind \notin Slotting
  BY PlacedElsewhere DEF MayPutDown, Placed, Slotting
<1> HIDE DEF r
<1>2. \A anchor : Sound(LetGo(IF r.kind = "IN_CONTAINER" THEN w ELSE Index(w, x), p, x, r, anchor))
  BY <1>1, LetGoKeeps
<1>3. \A anchor : Sound(LetGo(Index(w, x), p, x, r, anchor))
  BY <1>1, <1>2
<1> QED BY <1>3 DEF PutDown, r

LEMMA PlaceKeeps ==
    ASSUME NEW w, Sound(w), NEW p \in People, NEW x \in Things, NEW d \in Things,
           NEW kind \in {"ON_SUPPORT", "IN_CONTAINER"}, NEW asked, MayPlace(w, p, x, d, kind, asked)
    PROVE  Sound(Place(w, p, x, d, kind, asked))
<1> DEFINE slot == SelectSlot(w, d, kind, asked)
           r == Placed(kind, d, slot)
<1>1. HeldBy(w, x, p) /\ slot # None
  BY DEF MayPlace
<1>2. slot \in FittingSlots(w, d, kind, asked)
  BY <1>1, SelectedSlot
<1>3. /\ slot \in DOMAIN Object[d].slots
      /\ Cardinality(InSlot(w, d, slot)) < Object[d].slots[slot].room
  BY <1>2 DEF FittingSlots
<1>4. /\ r \in Relations /\ r.kind = kind /\ r.parent = d /\ r.slot = slot
  BY <1>3, PlacedInSlot DEF Placed, Slotting
<1> HIDE DEF r, slot
<1>5. \A anchor : Sound(LetGo(IF r.kind = "IN_CONTAINER" THEN w ELSE Index(w, x), p, x, r, anchor))
  BY <1>1, <1>3, <1>4, LetGoKeeps
<1>6. \A anchor : Sound(LetGo(IF kind = "ON_SUPPORT" THEN Index(w, x) ELSE w, p, x, r, anchor))
  BY <1>4, <1>5
<1> QED BY <1>6 DEF Place, r, slot

\* A person goes into a seat, or out of it.
LEMMA SeatedKeeps ==
    ASSUME NEW w, Sound(w), NEW p \in People, NEW r \in Relations \cup {None},
           NEW is \in {"STANDING", "SITTING", "LYING"}, NEW on \in Things \cup {None},
           IF r = None THEN is = "STANDING" /\ on = None
           ELSE /\ is # "STANDING" /\ r.kind = "OCCUPIES_SLOT" /\ r.parent = on
                /\ Cardinality(InSlot(w, r.parent, r.slot)) < Object[r.parent].slots[r.slot].room,
           NEW anchor
    PROVE  Sound([w EXCEPT !.at[p] = anchor, !.rel[p] = r, !.posture[p] = [is |-> is, on |-> on]])
<1> DEFINE new == [is |-> is, on |-> on]
           v == [w EXCEPT !.at[p] = anchor, !.rel[p] = r, !.posture[p] = new]
<1>1. WorldTyped(w) /\ Agreed(w)
  BY DEF Sound
<1>2. p \in Entities /\ p \notin Things
  BY EntitiesAssumption DEF Entities
<1>3. /\ new \in [is : {"STANDING", "SITTING", "LYING"}, on : Things \cup {None}]
      /\ new.is = is /\ new.on = on /\ (new = Standing <=> r = None)
  BY DEF Standing
<1> HIDE DEF new
<1>4. /\ DOMAIN v = RoomFields /\ v.rel = [w.rel EXCEPT ![p] = r]
      /\ v.posture = [w.posture EXCEPT ![p] = new] /\ v.hands = w.hands
      /\ v.keeper = w.keeper /\ v.raised = w.raised /\ v.indexed = w.indexed /\ v.lent = w.lent
  BY <1>1 DEF WorldTyped, RoomFields
<1> HIDE DEF v
<1>5. /\ w.rel \in [Entities -> Relations \cup {None}]
      /\ w.posture \in [People -> [is : {"STANDING", "SITTING", "LYING"}, on : Things \cup {None}]]
  BY <1>1 DEF WorldTyped
<1>6. WorldTyped(v)
  <2>1. v.rel \in [Entities -> Relations \cup {None}]
    BY <1>4, <1>5
  <2>2. v.posture \in [People -> [is : {"STANDING", "SITTING", "LYING"}, on : Things \cup {None}]]
    BY <1>3, <1>4, <1>5
  <2> QED BY <1>1, <1>4, <2>1, <2>2, Zenon DEF WorldTyped
<1>7. \A y \in Things : v.rel[y] = w.rel[y]
  BY <1>2, <1>4, <1>5 DEF Entities
<1>8. HandsAgree(v) /\ KeepersAgree(v) /\ IndexAgrees(v) /\ ~v.raised
  BY <1>1, <1>4, <1>7
     DEF Agreed, HandsAgree, KeepersAgree, IndexAgrees, HeldBy, Has
<1>9. PosturesAgree(v)
  <2>1. PosturesAgree(w)
    BY <1>1 DEF Agreed
  <2>2. /\ v.posture[p] = new /\ v.rel[p] = r
        /\ \A q \in People : q # p => v.posture[q] = w.posture[q] /\ v.rel[q] = w.rel[q]
    BY <1>2, <1>4, <1>5 DEF Entities
  <2>3. on # None => r # None /\ r.kind = "OCCUPIES_SLOT" /\ r.parent = on
    OBVIOUS
  <2> QED BY <1>3, <2>1, <2>2, <2>3 DEF PosturesAgree, Has
<1>10. SlotsSuffice(v)
  <2>1. SlotsSuffice(w)
    BY <1>1 DEF Agreed
  <2>2. r # None /\ r.kind \in Slotting =>
            Cardinality(InSlot(w, r.parent, r.slot)) < Object[r.parent].slots[r.slot].room
    OBVIOUS
  <2> QED BY <1>1, <1>2, <1>4, <2>1, <2>2, SlotsAfter
<1> QED BY <1>6, <1>8, <1>9, <1>10 DEF Sound, Agreed, v, new

LEMMA OccupyKeeps ==
    ASSUME NEW w, Sound(w), NEW p \in People, NEW x \in Things, NEW asked,
           MayOccupy(w, p, x, asked), NEW posture \in {"SITTING", "LYING"}
    PROVE  Sound(Occupy(w, p, x, posture, asked))
<1> DEFINE slot == SelectSlot(w, x, "OCCUPIES_SLOT", asked)
           r == Placed("OCCUPIES_SLOT", x, slot)
<1>1. slot \in FittingSlots(w, x, "OCCUPIES_SLOT", asked)
  BY SelectedSlot DEF MayOccupy
<1>2. /\ slot \in DOMAIN Object[x].slots
      /\ Cardinality(InSlot(w, x, slot)) < Object[x].slots[slot].room
  BY <1>1 DEF FittingSlots
<1>3. /\ r \in Relations /\ r # None /\ r.kind = "OCCUPIES_SLOT" /\ r.parent = x /\ r.slot = slot
  BY <1>2, PlacedInSlot, RelationParts DEF Placed, Slotting
<1> HIDE DEF r, slot
<1>4. \A anchor : Sound([w EXCEPT !.at[p] = anchor, !.rel[p] = r,
                                  !.posture[p] = [is |-> posture, on |-> x]])
  BY <1>2, <1>3, SeatedKeeps
<1> QED BY <1>4 DEF Occupy, r, slot

LEMMA LeaveKeeps ==
    ASSUME NEW w, Sound(w), NEW p \in People, NEW x
    PROVE  Sound(Leave(w, p, x))
<1>1. \A anchor : Sound([w EXCEPT !.at[p] = anchor, !.rel[p] = None,
                                  !.posture[p] = [is |-> "STANDING", on |-> None]])
  BY SeatedKeeps
<1> QED BY <1>1 DEF Leave

\* Neither what is open, nor what is left of it, nor where bodies stand counts.
LEMMA RestKeeps ==
    ASSUME NEW w, Sound(w), NEW v, DOMAIN v = RoomFields, v.rel = w.rel, v.hands = w.hands,
           v.keeper = w.keeper, v.posture = w.posture, v.indexed = w.indexed, v.raised = w.raised,
           v.lent = w.lent
    PROVE  Sound(v)
<1>1. WorldTyped(v)
  BY DEF Sound, WorldTyped
<1>2. Agreed(v)
  BY SMTT(30) DEF Sound, Agreed, HandsAgree, KeepersAgree, IndexAgrees, PosturesAgree, SlotsSuffice,
         HeldBy, Has, InSlot, Fills, Filling
<1> QED BY <1>1, <1>2 DEF Sound

LEMMA TurningKeeps ==
    ASSUME NEW w, Sound(w)
    PROVE  /\ \A open : Sound([w EXCEPT !.open = open])
           /\ \A servings : Sound([w EXCEPT !.servings = servings])
           /\ \A at : Sound([w EXCEPT !.at = at])
<1>1. DOMAIN w = RoomFields
  BY DEF Sound, WorldTyped
<1>2. ASSUME NEW open PROVE Sound([w EXCEPT !.open = open])
  <2> DEFINE v == [w EXCEPT !.open = open]
  <2>1. /\ DOMAIN v = RoomFields /\ v.rel = w.rel /\ v.hands = w.hands /\ v.keeper = w.keeper
        /\ v.posture = w.posture /\ v.indexed = w.indexed /\ v.raised = w.raised
        /\ v.lent = w.lent
    BY <1>1 DEF RoomFields
  <2> HIDE DEF v
  <2> QED BY <2>1, RestKeeps DEF v
<1>3. ASSUME NEW servings PROVE Sound([w EXCEPT !.servings = servings])
  <2> DEFINE v == [w EXCEPT !.servings = servings]
  <2>1. /\ DOMAIN v = RoomFields /\ v.rel = w.rel /\ v.hands = w.hands /\ v.keeper = w.keeper
        /\ v.posture = w.posture /\ v.indexed = w.indexed /\ v.raised = w.raised
        /\ v.lent = w.lent
    BY <1>1 DEF RoomFields
  <2> HIDE DEF v
  <2> QED BY <2>1, RestKeeps DEF v
<1>4. ASSUME NEW at PROVE Sound([w EXCEPT !.at = at])
  <2> DEFINE v == [w EXCEPT !.at = at]
  <2>1. /\ DOMAIN v = RoomFields /\ v.rel = w.rel /\ v.hands = w.hands /\ v.keeper = w.keeper
        /\ v.posture = w.posture /\ v.indexed = w.indexed /\ v.raised = w.raised
        /\ v.lent = w.lent
    BY <1>1 DEF RoomFields
  <2> HIDE DEF v
  <2> QED BY <2>1, RestKeeps DEF v
<1> QED BY <1>2, <1>3, <1>4

LEMMA CommitKeeps ==
    ASSUME NEW w, Sound(w), NEW p \in People, NEW s, s.verb \in Interactions, May(w, p, s)
    PROVE  Sound(Commit(w, p, s))
<1> DEFINE x == s.target
<1>1. x \in Things
  BY DEF May, Exists
<1>2. CASE s.verb = "PICK_UP"
  BY <1>1, <1>2, PickUpKeeps DEF May, Commit
<1>3. CASE s.verb = "PUT_DOWN"
  BY <1>1, <1>3, PutDownKeeps DEF May, Commit
<1>4. CASE s.verb = "PLACE_ON"
  <2>1. MayPlace(w, p, x, s.destination, "ON_SUPPORT", s.slot) /\ s.destination \in Things
    BY <1>4 DEF May, MayPlace, Exists
  <2>2. Sound(Place(w, p, x, s.destination, "ON_SUPPORT", s.slot))
    BY <1>1, <2>1, PlaceKeeps
  <2> QED BY <1>4, <2>2 DEF Commit
<1>5. CASE s.verb = "PLACE_IN"
  <2>1. MayPlace(w, p, x, s.destination, "IN_CONTAINER", s.slot) /\ s.destination \in Things
    BY <1>5 DEF May, MayPlace, Exists
  <2>2. Sound(Place(w, p, x, s.destination, "IN_CONTAINER", s.slot))
    BY <1>1, <2>1, PlaceKeeps
  <2> QED BY <1>5, <2>2 DEF Commit
<1>6. CASE s.verb = "OPEN"
  BY <1>6, TurningKeeps DEF Commit
<1>7. CASE s.verb = "CLOSE"
  BY <1>7, TurningKeeps DEF Commit
<1>8. CASE s.verb = "SIT"
  <2>1. MayOccupy(w, p, x, s.slot)
    BY <1>8 DEF May
  <2>2. Sound(Occupy(w, p, x, "SITTING", s.slot))
    BY <1>1, <2>1, OccupyKeeps
  <2> QED BY <1>8, <2>2 DEF Commit
<1>9. CASE s.verb = "LIE_DOWN"
  <2>1. MayOccupy(w, p, x, s.slot)
    BY <1>9 DEF May
  <2>2. Sound(Occupy(w, p, x, "LYING", s.slot))
    BY <1>1, <2>1, OccupyKeeps
  <2> QED BY <1>9, <2>2 DEF Commit
<1>10. CASE s.verb \in {"STAND", "GET_UP"}
  BY <1>10, LeaveKeeps DEF Commit
<1>11. CASE s.verb = "USE"
  BY <1>11 DEF Commit
<1>12. CASE s.verb = "EQUIP"
  <2>1. MayEquip(w, p, x, s.slot)
    BY <1>12 DEF May
  <2>2. Sound(Equip(w, p, x, s.slot))
    BY <1>1, <2>1, EquipKeeps
  <2> QED BY <1>12, <2>2 DEF Commit
<1>13. CASE s.verb = "UNEQUIP"
  BY <1>1, <1>13, UnequipKeeps DEF May, Commit
<1> QED BY <1>2, <1>3, <1>4, <1>5, <1>6, <1>7, <1>8, <1>9, <1>10, <1>11, <1>12, <1>13
        DEF Interactions

-----------------------------------------------------------------------------
(* The characters.                                                         *)

\* None is a value of its own: it is not one of the program's records.
NoneIsNoRecord == None # [field \in DOMAIN None |-> None[field]]

LEMMA RecordIsNotNone ==
    ASSUME NoneIsNoRecord, NEW r, r = [field \in DOMAIN r |-> r[field]]
    PROVE  r # None
BY DEF NoneIsNoRecord

LEMMA MarkedIsNotNone ==
    ASSUME NoneIsNoRecord, NEW r, NEW status
    PROVE  [r EXCEPT !.status = status] # None
<1> DEFINE v == [r EXCEPT !.status = status]
<1>1. v = [field \in DOMAIN v |-> v[field]]
  OBVIOUS
<1> HIDE DEF v
<1>2. v # None
  BY <1>1, RecordIsNotNone
<1> QED BY <1>2 DEF v

Writing == {"create", "append", "replace", "edit", "delete"}

\* What a character is to do has a verb that some tool has.
Said(s) ==
    s # None /\ s.verb \in Interactions \cup {"NAVIGATE", "READ", "DRINK", "read"} \cup Writing

ToolCall(s) == Said(s) /\ "verb" \in DOMAIN s

LEMMA StatedIsSaid ==
    ASSUME NoneIsNoRecord, NEW o, NEW s, ToolCall(s)
    PROVE  Said(Stated(o, s))
<1> DEFINE t == Stated(o, s)
<1>1. ASSUME NEW v PROVE [s EXCEPT !.seen = v] # None /\ [s EXCEPT !.seen = v].verb = s.verb
  <2> DEFINE u == [s EXCEPT !.seen = v]
  <2>1. u = [field \in DOMAIN u |-> u[field]]
    OBVIOUS
  <2>2. u # None
    <3> HIDE DEF u
    <3> QED BY <2>1, RecordIsNotNone
  <2> QED BY <2>2 DEF ToolCall
<1>2. ASSUME NEW v, NEW b PROVE /\ [s EXCEPT !.seen = v, !.seenSent = b] # None
                                /\ [s EXCEPT !.seen = v, !.seenSent = b].verb = s.verb
  <2> DEFINE u == [s EXCEPT !.seen = v, !.seenSent = b]
  <2>1. u = [field \in DOMAIN u |-> u[field]]
    OBVIOUS
  <2>2. u # None
    <3> HIDE DEF u
    <3> QED BY <2>1, RecordIsNotNone
  <2> QED BY <2>2 DEF ToolCall
<1>3. ASSUME NEW v, NEW b PROVE /\ [s EXCEPT !.seen = v, !.seenBlock = b] # None
                                /\ [s EXCEPT !.seen = v, !.seenBlock = b].verb = s.verb
  <2> DEFINE u == [s EXCEPT !.seen = v, !.seenBlock = b]
  <2>1. u = [field \in DOMAIN u |-> u[field]]
    OBVIOUS
  <2>2. u # None
    <3> HIDE DEF u
    <3> QED BY <2>1, RecordIsNotNone
  <2> QED BY <2>2 DEF ToolCall
<1>4. t # None /\ t.verb = s.verb
  <2>1. CASE s.verb = "create" /\ s.to = None
    BY <1>1, <2>1 DEF Stated
  <2>2. CASE s.verb = "create" /\ s.to # None
    BY <1>2, <2>2 DEF Stated
  <2>3. CASE s.verb \in {"append", "replace", "edit", "delete"}
    BY <1>3, <2>3 DEF Stated
  <2>4. CASE s.verb \notin Writing
    BY <2>4 DEF Stated, Writing, ToolCall, Said
  <2> QED BY <2>1, <2>2, <2>3, <2>4 DEF Writing
<1> QED BY <1>4 DEF ToolCall, Said

PersonFields == {"critical", "action", "waits", "left", "asked", "interaction", "textAsked",
                 "text", "receipts", "decided", "sees", "minds", "gear"}

\* The request and the execution of an interaction.
Asking(me) ==
    /\ me.asked # None =>
          /\ DOMAIN me.asked = {"spec", "status"} /\ me.asked.spec.verb \in Interactions
          /\ me.asked.status \in {"requested", "running", "completed", "failed"}
    /\ me.interaction # None => /\ DOMAIN me.interaction = {"spec", "elapsed"}
                                /\ me.asked # None /\ me.asked.spec = me.interaction.spec
    /\ (me.interaction # None) <=> (me.asked # None /\ me.asked.status = "running")
    /\ (me.asked # None) <=> (me.waits = "interaction")

\* Those of a text action; System 1 may leave a request behind, but no execution.
Texting(me) ==
    /\ me.textAsked # None =>
          /\ DOMAIN me.textAsked = {"spec", "status"} /\ Said(me.textAsked.spec)
          /\ me.textAsked.spec.verb \in Writing \cup {"read"}
          /\ me.textAsked.status \in {"requested", "running", "completed", "failed"}
          /\ me.textAsked.status \in {"requested", "running"} => me.waits = "text"
    /\ me.text # None => /\ DOMAIN me.text = {"spec", "elapsed", "receipt"}
                         /\ Said(me.text.spec) /\ me.text.spec.verb \in Writing \cup {"read"}
    /\ (me.text # None) <=> (me.textAsked # None /\ me.textAsked.status = "running")

Serving(me) ==
    /\ DOMAIN me = PersonFields
    /\ me.waits \in {"nothing", "interaction", "text", "walk", "time", "arrived"}
    /\ me.decided \in Nat
    /\ me.action # None => Said(me.action)
    /\ me.waits # "nothing" => me.action # None
    /\ me.critical => me.action = None
    /\ Asking(me) /\ Texting(me)

-----------------------------------------------------------------------------
(* What the systems do to a character.                                      *)

LEMMA CheckedServes ==
    ASSUME NEW me, Serving(me)
    PROVE  /\ me.waits = "interaction" => Serving(Checked(me, "asked", "interaction"))
           /\ me.waits = "text" => Serving(Checked(me, "textAsked", "text"))
<1>1. ASSUME me.waits = "interaction" PROVE Serving(Checked(me, "asked", "interaction"))
  <2> DEFINE v == [Idle(me) EXCEPT !.asked = None]
  <2>1. Checked(me, "asked", "interaction")
           = IF me.asked.status \in {"failed", "completed"} THEN v ELSE me
    BY <1>1 DEF Checked, Serving, Asking
  <2>2. ASSUME me.asked.status \in {"failed", "completed"} PROVE Serving(v)
    <3>1. /\ DOMAIN v = PersonFields /\ v.waits = "nothing" /\ v.action = None /\ v.asked = None
          /\ v.interaction = me.interaction /\ v.textAsked = me.textAsked /\ v.text = me.text
          /\ v.decided = me.decided
      BY DEF Idle, Serving, PersonFields
    <3> HIDE DEF v
    <3>2. me.interaction = None
      BY <2>2 DEF Serving, Asking
    <3>3. Asking(v)
      BY <3>1, <3>2 DEF Asking
    <3>4. Texting(v)
      BY <1>1, <3>1 DEF Texting, Serving
    <3> QED BY <3>1, <3>3, <3>4 DEF Serving
  <2> HIDE DEF v
  <2> QED BY <2>1, <2>2
<1>2. ASSUME me.waits = "text" PROVE Serving(Checked(me, "textAsked", "text"))
  <2> DEFINE v == Idle(me)
             u == [v EXCEPT !.textAsked = None]
  <2>1. Checked(me, "textAsked", "text")
           = IF me.textAsked = None THEN v
             ELSE IF me.textAsked.status \in {"failed", "completed"} THEN u ELSE me
    BY <1>2 DEF Checked, Serving, Texting
  <2>2. /\ DOMAIN v = PersonFields /\ v.waits = "nothing" /\ v.action = None
        /\ v.asked = me.asked /\ v.interaction = me.interaction
        /\ v.textAsked = me.textAsked /\ v.text = me.text /\ v.decided = me.decided
    BY DEF Idle, Serving, PersonFields
  <2> HIDE DEF v
  <2>3. /\ DOMAIN u = PersonFields /\ u.waits = "nothing" /\ u.action = None
        /\ u.asked = me.asked /\ u.interaction = me.interaction
        /\ u.textAsked = None /\ u.text = me.text /\ u.decided = me.decided
    BY <2>2 DEF PersonFields
  <2> HIDE DEF u
  <2>4. Asking(v) /\ Asking(u)
    BY <1>2, <2>2, <2>3 DEF Asking, Serving
  <2>5. ASSUME me.textAsked = None PROVE Serving(v)
    BY <2>2, <2>4, <2>5 DEF Serving, Texting
  <2>6. ASSUME me.textAsked.status \in {"failed", "completed"} PROVE Serving(u)
    BY <2>3, <2>4, <2>6 DEF Serving, Texting
  <2> QED BY <2>1, <2>5, <2>6
<1> QED BY <1>1, <1>2

LEMMA IdleServes ==
    ASSUME NEW me, Serving(me), me.waits \notin {"interaction", "text"}
    PROVE  Serving(Idle(me))
<1> DEFINE v == Idle(me)
<1>1. /\ DOMAIN v = PersonFields /\ v.waits = "nothing" /\ v.action = None
      /\ v.asked = me.asked /\ v.interaction = me.interaction
      /\ v.textAsked = me.textAsked /\ v.text = me.text /\ v.decided = me.decided
  BY DEF Idle, Serving, PersonFields
<1> HIDE DEF v
<1>2. Asking(v) /\ Texting(v)
  BY <1>1 DEF Asking, Texting, Serving
<1>3. Serving(v)
  BY <1>1, <1>2 DEF Serving
<1> QED BY <1>3 DEF v

\* What else a character has does not count.
LEMMA AsideServes ==
    ASSUME NEW me, Serving(me), NEW v, DOMAIN v = PersonFields, v.waits = me.waits,
           v.action = me.action, v.critical = me.critical, v.decided = me.decided,
           v.asked = me.asked, v.interaction = me.interaction,
           v.textAsked = me.textAsked, v.text = me.text
    PROVE  Serving(v)
<1>1. Asking(v) /\ Texting(v)
  BY DEF Serving, Asking, Texting
<1> QED BY <1>1 DEF Serving

LEMMA StartedServes ==
    ASSUME NoneIsNoRecord, NEW me, Serving(me), me.waits = "nothing", me.action # None, NEW p
    PROVE  Serving(Started(me, p))
<1>1. Said(me.action) /\ me.asked = None /\ me.interaction = None /\ me.text = None
  BY DEF Serving, Asking, Texting
<1>2. ~me.critical
  BY DEF Serving
<1>3. Serving(Idle(me))
  BY IdleServes
<1>4. Requested(me.action) # None
  <2> DEFINE r == Requested(me.action)
  <2>1. r = [field \in DOMAIN r |-> r[field]]
    BY DEF Requested
  <2> HIDE DEF r
  <2>2. r # None
    BY <2>1, RecordIsNotNone
  <2> QED BY <2>2 DEF r
<1>5. /\ DOMAIN Requested(me.action) = {"spec", "status"}
      /\ Requested(me.action).spec = me.action /\ Requested(me.action).status = "requested"
  BY DEF Requested
<1>6. CASE me.action.verb \in Interactions
  <2> DEFINE v == [me EXCEPT !.asked = Requested(me.action), !.waits = "interaction"]
  <2>1. /\ DOMAIN v = PersonFields /\ v.waits = "interaction" /\ v.action = me.action
        /\ v.asked = Requested(me.action) /\ v.interaction = None /\ v.critical = me.critical
        /\ v.textAsked = me.textAsked /\ v.text = None /\ v.decided = me.decided
    BY <1>1 DEF Serving, PersonFields
  <2> HIDE DEF v
  <2>3. Asking(v)
    BY <1>4, <1>5, <1>6, <2>1 DEF Asking
  <2>4. Texting(v)
    BY <1>1, <2>1 DEF Texting, Serving
  <2>5. Serving(v)
    BY <1>1, <1>2, <2>1, <2>3, <2>4 DEF Serving
  <2>6. Started(me, p) = v
    BY <1>1, <1>6 DEF Started, StartedInteraction, Interactions, v
  <2> QED BY <2>5, <2>6
<1>7. CASE me.action.verb = "NAVIGATE"
  <2> DEFINE v == [me EXCEPT !.waits = "walk"]
  <2>1. /\ DOMAIN v = PersonFields /\ v.waits = "walk" /\ v.action = me.action
        /\ v.asked = None /\ v.interaction = None /\ v.critical = me.critical
        /\ v.textAsked = me.textAsked /\ v.text = None /\ v.decided = me.decided
    BY <1>1 DEF Serving, PersonFields
  <2> HIDE DEF v
  <2>2. Asking(v) /\ Texting(v)
    BY <1>1, <2>1 DEF Asking, Texting, Serving
  <2>3. Serving(v)
    BY <1>1, <1>2, <2>1, <2>2 DEF Serving
  <2>4. Started(me, p) \in {v, Idle(me)}
    BY <1>7 DEF Started, StartedWalk, Interactions, v
  <2> QED BY <1>3, <2>3, <2>4
<1>8. CASE me.action.verb \in {"READ", "DRINK"}
  <2> DEFINE v == [me EXCEPT !.waits = "time", !.left = me.action.ticks]
  <2>1. /\ DOMAIN v = PersonFields /\ v.waits = "time" /\ v.action = me.action
        /\ v.asked = None /\ v.interaction = None /\ v.critical = me.critical
        /\ v.textAsked = me.textAsked /\ v.text = None /\ v.decided = me.decided
    BY <1>1 DEF Serving, PersonFields
  <2> HIDE DEF v
  <2>2. Asking(v) /\ Texting(v)
    BY <1>1, <2>1 DEF Asking, Texting, Serving
  <2>3. Serving(v)
    BY <1>1, <1>2, <2>1, <2>2 DEF Serving
  <2>4. Started(me, p) \in {v, Idle(me)}
    BY <1>8 DEF Started, StartedTimed, Interactions, v
  <2> QED BY <1>3, <2>3, <2>4
<1>9. CASE me.action.verb \in Writing \cup {"read"}
  <2> DEFINE v == [me EXCEPT !.textAsked = Requested(me.action), !.waits = "text"]
  <2>1. /\ DOMAIN v = PersonFields /\ v.waits = "text" /\ v.action = me.action
        /\ v.asked = None /\ v.interaction = None /\ v.critical = me.critical
        /\ v.textAsked = Requested(me.action) /\ v.text = None /\ v.decided = me.decided
    BY <1>1 DEF Serving, PersonFields
  <2> HIDE DEF v
  <2>2. Asking(v) /\ Texting(v)
    BY <1>1, <1>4, <1>5, <1>9, <2>1 DEF Asking, Texting
  <2>3. Serving(v)
    BY <1>1, <1>2, <2>1, <2>2 DEF Serving
  <2>4. Started(me, p) \in {v, Idle(me)}
    BY <1>9 DEF Started, StartedText, Interactions, Writing, v
  <2> QED BY <1>3, <2>3, <2>4
<1> QED BY <1>1, <1>6, <1>7, <1>8, <1>9 DEF Said

\* An interaction under way is cancelled, goes on, or is completed.
LEMMA InteractionServes ==
    ASSUME NoneIsNoRecord, NEW me, Serving(me), me.interaction # None
    PROVE  /\ Serving(CancelledInteraction(me))
           /\ \A n : Serving([me EXCEPT !.interaction.elapsed = n])
           /\ Serving([me EXCEPT !.interaction = None, !.asked.status = "completed"])
<1>1. /\ me.asked # None /\ DOMAIN me.asked = {"spec", "status"}
      /\ DOMAIN me.interaction = {"spec", "elapsed"}
  BY DEF Serving, Asking
<1>2. Serving(CancelledInteraction(me))
  <2> DEFINE v == CancelledInteraction(me)
             r == [me.asked EXCEPT !.status = "failed"]
  <2>1. DOMAIN r = {"spec", "status"} /\ r.spec = me.asked.spec /\ r.status = "failed"
    BY <1>1
  <2>2. /\ DOMAIN v = PersonFields /\ v.waits = me.waits /\ v.action = me.action
        /\ v.asked = r /\ v.interaction = None /\ v.critical = me.critical
        /\ v.textAsked = me.textAsked /\ v.text = me.text /\ v.decided = me.decided
    BY <1>1 DEF Serving, PersonFields, CancelledInteraction
  <2>3. r # None
    BY MarkedIsNotNone
  <2> HIDE DEF v, r
  <2>4. Asking(v)
    BY <1>1, <2>1, <2>2, <2>3 DEF Asking, Serving
  <2>5. Texting(v)
    BY <2>2 DEF Texting, Serving
  <2>6. Serving(v)
    BY <2>2, <2>4, <2>5 DEF Serving
  <2> QED BY <2>6 DEF v
<1>3. ASSUME NEW n PROVE Serving([me EXCEPT !.interaction.elapsed = n])
  <2> DEFINE v == [me EXCEPT !.interaction.elapsed = n]
             x == [me.interaction EXCEPT !.elapsed = n]
  <2>1. DOMAIN x = {"spec", "elapsed"} /\ x.spec = me.interaction.spec
    BY <1>1
  <2>2. x # None
    <3>1. x = [field \in DOMAIN x |-> x[field]]
      OBVIOUS
    <3> HIDE DEF x
    <3> QED BY <3>1, RecordIsNotNone
  <2>3. /\ DOMAIN v = PersonFields /\ v.waits = me.waits /\ v.action = me.action
        /\ v.asked = me.asked /\ v.interaction = x /\ v.critical = me.critical
        /\ v.textAsked = me.textAsked /\ v.text = me.text /\ v.decided = me.decided
    BY DEF Serving, PersonFields
  <2> HIDE DEF v, x
  <2>4. Asking(v)
    BY <2>1, <2>2, <2>3 DEF Asking, Serving
  <2>5. Texting(v)
    BY <2>3 DEF Texting, Serving
  <2>6. Serving(v)
    BY <2>3, <2>4, <2>5 DEF Serving
  <2> QED BY <2>6 DEF v
<1>4. Serving([me EXCEPT !.interaction = None, !.asked.status = "completed"])
  <2> DEFINE v == [me EXCEPT !.interaction = None, !.asked.status = "completed"]
             r == [me.asked EXCEPT !.status = "completed"]
  <2>1. DOMAIN r = {"spec", "status"} /\ r.spec = me.asked.spec /\ r.status = "completed"
    BY <1>1
  <2>2. r # None
    BY MarkedIsNotNone
  <2>3. /\ DOMAIN v = PersonFields /\ v.waits = me.waits /\ v.action = me.action
        /\ v.asked = r /\ v.interaction = None /\ v.critical = me.critical
        /\ v.textAsked = me.textAsked /\ v.text = me.text /\ v.decided = me.decided
    BY DEF Serving, PersonFields
  <2> HIDE DEF v, r
  <2>4. Asking(v)
    BY <1>1, <2>1, <2>2, <2>3 DEF Asking, Serving
  <2>5. Texting(v)
    BY <2>3 DEF Texting, Serving
  <2>6. Serving(v)
    BY <2>3, <2>4, <2>5 DEF Serving
  <2> QED BY <2>6 DEF v
<1> QED BY <1>2, <1>3, <1>4

\* It begins, or is refused.
LEMMA InteractionBegins ==
    ASSUME NoneIsNoRecord, NEW me, Serving(me), me.asked # None, me.asked.status = "requested"
    PROVE  /\ Serving([me EXCEPT !.asked.status = "failed"])
           /\ Serving([me EXCEPT !.asked.status = "running",
                                 !.interaction = [spec |-> me.asked.spec, elapsed |-> 0]])
           /\ [me EXCEPT !.asked.status = "running",
                         !.interaction = [spec |-> me.asked.spec, elapsed |-> 0]].interaction
                  = [spec |-> me.asked.spec, elapsed |-> 0]
           /\ [spec |-> me.asked.spec, elapsed |-> 0] # None
<1>1. DOMAIN me.asked = {"spec", "status"} /\ me.interaction = None
  BY DEF Serving, Asking
<1> DEFINE x == [spec |-> me.asked.spec, elapsed |-> 0]
           v == [me EXCEPT !.asked.status = "failed"]
           u == [me EXCEPT !.asked.status = "running", !.interaction = x]
           bad == [me.asked EXCEPT !.status = "failed"]
           good == [me.asked EXCEPT !.status = "running"]
<1>2. DOMAIN x = {"spec", "elapsed"} /\ x.spec = me.asked.spec
  OBVIOUS
<1>3. x # None
  <2>1. x = [field \in DOMAIN x |-> x[field]]
    OBVIOUS
  <2> HIDE DEF x
  <2> QED BY <2>1, RecordIsNotNone
<1>4. /\ DOMAIN bad = {"spec", "status"} /\ bad.spec = me.asked.spec /\ bad.status = "failed"
      /\ DOMAIN good = {"spec", "status"} /\ good.spec = me.asked.spec /\ good.status = "running"
  BY <1>1
<1>5. bad # None /\ good # None
  BY MarkedIsNotNone
<1> HIDE DEF x
<1>6. /\ DOMAIN v = PersonFields /\ v.waits = me.waits /\ v.action = me.action
      /\ v.asked = bad /\ v.interaction = None /\ v.critical = me.critical
      /\ v.textAsked = me.textAsked /\ v.text = me.text /\ v.decided = me.decided
  BY <1>1 DEF Serving, PersonFields
<1>7. /\ DOMAIN u = PersonFields /\ u.waits = me.waits /\ u.action = me.action
      /\ u.asked = good /\ u.interaction = x /\ u.critical = me.critical
      /\ u.textAsked = me.textAsked /\ u.text = me.text /\ u.decided = me.decided
  BY <1>1 DEF Serving, PersonFields
<1> HIDE DEF u, v, bad, good
<1>8. Serving(v)
  <2>1. Asking(v)
    BY <1>1, <1>4, <1>5, <1>6 DEF Asking, Serving
  <2>2. Texting(v)
    BY <1>6 DEF Texting, Serving
  <2> QED BY <1>6, <2>1, <2>2 DEF Serving
<1>9. Serving(u)
  <2>1. Asking(u)
    BY <1>2, <1>3, <1>4, <1>5, <1>7 DEF Asking, Serving
  <2>2. Texting(u)
    BY <1>7 DEF Texting, Serving
  <2> QED BY <1>7, <2>1, <2>2 DEF Serving
<1> QED BY <1>3, <1>7, <1>8, <1>9 DEF u, v, x

\* The same of a text action.
LEMMA TextServes ==
    ASSUME NoneIsNoRecord, NEW me, Serving(me), me.text # None
    PROVE  /\ Serving(CancelledText(me))
           /\ \A n : Serving([me EXCEPT !.text.elapsed = n])
           /\ Serving(FinishedText(me))
           /\ \A receipts : Serving([FinishedText(me) EXCEPT !.receipts = receipts])
<1>1. /\ me.textAsked # None /\ DOMAIN me.textAsked = {"spec", "status"}
      /\ DOMAIN me.text = {"spec", "elapsed", "receipt"}
  BY DEF Serving, Texting
<1>2. Serving(CancelledText(me))
  <2> DEFINE v == CancelledText(me)
             r == [me.textAsked EXCEPT !.status = "failed"]
  <2>1. DOMAIN r = {"spec", "status"} /\ r.spec = me.textAsked.spec /\ r.status = "failed"
    BY <1>1
  <2>2. r # None
    BY MarkedIsNotNone
  <2>3. /\ DOMAIN v = PersonFields /\ v.waits = me.waits /\ v.action = me.action
        /\ v.textAsked = r /\ v.text = None /\ v.critical = me.critical
        /\ v.asked = me.asked /\ v.interaction = me.interaction /\ v.decided = me.decided
    BY <1>1 DEF Serving, PersonFields, CancelledText
  <2> HIDE DEF v, r
  <2>4. Texting(v)
    BY <1>1, <2>1, <2>2, <2>3 DEF Texting, Serving
  <2>5. Asking(v)
    BY <2>3 DEF Asking, Serving
  <2>6. Serving(v)
    BY <2>3, <2>4, <2>5 DEF Serving
  <2> QED BY <2>6 DEF v
<1>3. ASSUME NEW n PROVE Serving([me EXCEPT !.text.elapsed = n])
  <2> DEFINE v == [me EXCEPT !.text.elapsed = n]
             x == [me.text EXCEPT !.elapsed = n]
  <2>1. DOMAIN x = {"spec", "elapsed", "receipt"} /\ x.spec = me.text.spec
    BY <1>1
  <2>2. x # None
    <3>1. x = [field \in DOMAIN x |-> x[field]]
      OBVIOUS
    <3> HIDE DEF x
    <3> QED BY <3>1, RecordIsNotNone
  <2>3. /\ DOMAIN v = PersonFields /\ v.waits = me.waits /\ v.action = me.action
        /\ v.textAsked = me.textAsked /\ v.text = x /\ v.critical = me.critical
        /\ v.asked = me.asked /\ v.interaction = me.interaction /\ v.decided = me.decided
    BY DEF Serving, PersonFields
  <2> HIDE DEF v, x
  <2>4. Texting(v)
    BY <2>1, <2>2, <2>3 DEF Texting, Serving
  <2>5. Asking(v)
    BY <2>3 DEF Asking, Serving
  <2>6. Serving(v)
    BY <2>3, <2>4, <2>5 DEF Serving
  <2> QED BY <2>6 DEF v
<1>4. Serving(FinishedText(me))
  <2> DEFINE v == FinishedText(me)
             r == [me.textAsked EXCEPT !.status = "completed"]
  <2>1. DOMAIN r = {"spec", "status"} /\ r.spec = me.textAsked.spec /\ r.status = "completed"
    BY <1>1
  <2>2. r # None
    BY MarkedIsNotNone
  <2>3. /\ DOMAIN v = PersonFields /\ v.waits = me.waits /\ v.action = me.action
        /\ v.textAsked = r /\ v.text = None /\ v.critical = me.critical
        /\ v.asked = me.asked /\ v.interaction = me.interaction /\ v.decided = me.decided
    BY DEF Serving, PersonFields, FinishedText
  <2> HIDE DEF v, r
  <2>4. Texting(v)
    BY <1>1, <2>1, <2>2, <2>3 DEF Texting, Serving
  <2>5. Asking(v)
    BY <2>3 DEF Asking, Serving
  <2>6. Serving(v)
    BY <2>3, <2>4, <2>5 DEF Serving
  <2> QED BY <2>6 DEF v
<1>5. ASSUME NEW receipts PROVE Serving([FinishedText(me) EXCEPT !.receipts = receipts])
  <2> DEFINE u == FinishedText(me)
             v == [u EXCEPT !.receipts = receipts]
  <2>1. Serving(u)
    BY <1>4
  <2> HIDE DEF u
  <2>2. /\ DOMAIN v = PersonFields /\ v.waits = u.waits /\ v.action = u.action
        /\ v.textAsked = u.textAsked /\ v.text = u.text /\ v.critical = u.critical
        /\ v.asked = u.asked /\ v.interaction = u.interaction /\ v.decided = u.decided
    BY <2>1 DEF Serving, PersonFields
  <2> HIDE DEF v
  <2>3. Serving(v)
    BY <2>1, <2>2, AsideServes
  <2> QED BY <2>3 DEF v, u
<1> QED BY <1>2, <1>3, <1>4, <1>5

LEMMA TextBegins ==
    ASSUME NoneIsNoRecord, NEW me, Serving(me), me.textAsked # None,
           me.textAsked.status = "requested", NEW receipt
    PROVE  LET x == [spec |-> me.textAsked.spec, elapsed |-> 0, receipt |-> receipt]
               u == [me EXCEPT !.textAsked.status = "running", !.text = x]
           IN /\ Serving([me EXCEPT !.textAsked.status = "failed"])
              /\ Serving(u) /\ u.text = x /\ x # None /\ u.decided = me.decided
<1>1. DOMAIN me.textAsked = {"spec", "status"} /\ me.text = None
  BY DEF Serving, Texting
<1> DEFINE x == [spec |-> me.textAsked.spec, elapsed |-> 0, receipt |-> receipt]
           v == [me EXCEPT !.textAsked.status = "failed"]
           u == [me EXCEPT !.textAsked.status = "running", !.text = x]
           bad == [me.textAsked EXCEPT !.status = "failed"]
           good == [me.textAsked EXCEPT !.status = "running"]
<1>2. DOMAIN x = {"spec", "elapsed", "receipt"} /\ x.spec = me.textAsked.spec
  OBVIOUS
<1>3. x # None
  <2>1. x = [field \in DOMAIN x |-> x[field]]
    OBVIOUS
  <2> HIDE DEF x
  <2> QED BY <2>1, RecordIsNotNone
<1>4. /\ DOMAIN bad = {"spec", "status"} /\ bad.spec = me.textAsked.spec /\ bad.status = "failed"
      /\ DOMAIN good = {"spec", "status"} /\ good.spec = me.textAsked.spec /\ good.status = "running"
  BY <1>1
<1>5. bad # None /\ good # None
  BY MarkedIsNotNone
<1> HIDE DEF x
<1>6. /\ DOMAIN v = PersonFields /\ v.waits = me.waits /\ v.action = me.action
      /\ v.textAsked = bad /\ v.text = None /\ v.critical = me.critical
      /\ v.asked = me.asked /\ v.interaction = me.interaction /\ v.decided = me.decided
  BY <1>1 DEF Serving, PersonFields
<1>7. /\ DOMAIN u = PersonFields /\ u.waits = me.waits /\ u.action = me.action
      /\ u.textAsked = good /\ u.text = x /\ u.critical = me.critical
      /\ u.asked = me.asked /\ u.interaction = me.interaction /\ u.decided = me.decided
  BY <1>1 DEF Serving, PersonFields
<1> HIDE DEF u, v, bad, good
<1>8. Serving(v)
  <2>1. Texting(v)
    BY <1>1, <1>4, <1>5, <1>6 DEF Texting, Serving
  <2>2. Asking(v)
    BY <1>6 DEF Asking, Serving
  <2> QED BY <1>6, <2>1, <2>2 DEF Serving
<1>9. Serving(u)
  <2>1. Texting(u)
    BY <1>2, <1>3, <1>4, <1>5, <1>7 DEF Texting, Serving
  <2>2. Asking(u)
    BY <1>7 DEF Asking, Serving
  <2> QED BY <1>7, <2>1, <2>2 DEF Serving
<1> QED BY <1>3, <1>7, <1>8, <1>9 DEF u, v, x

\* What System 1 interrupts goes, but for a request for a text that has failed.
LEMMA PreemptedServes ==
    ASSUME NoneIsNoRecord, NEW me, Serving(me)
    PROVE  Serving(Preempted(me))
<1> DEFINE i == Idle(me)
           v == DroppedInteraction(i)
           bad == [me.textAsked EXCEPT !.status = "failed"]
           d == DroppedText(v)
           u == [d EXCEPT !.critical = TRUE, !.left = 0]
<1>1. /\ DOMAIN i = PersonFields /\ i.waits = "nothing" /\ i.action = None
      /\ i.textAsked = me.textAsked /\ i.text = me.text /\ i.decided = me.decided
  BY DEF Idle, Serving, PersonFields
<1> HIDE DEF i
<1>2. /\ DOMAIN v = PersonFields /\ v.waits = "nothing" /\ v.action = None /\ v.asked = None
      /\ v.interaction = None
      /\ v.textAsked = me.textAsked /\ v.text = me.text /\ v.decided = me.decided
  BY <1>1 DEF DroppedInteraction, PersonFields
<1> HIDE DEF v
<1>3. bad # None
  BY MarkedIsNotNone
<1>4. me.textAsked # None => /\ DOMAIN bad = {"spec", "status"} /\ bad.status = "failed"
                             /\ bad.spec = me.textAsked.spec
  BY DEF Serving, Texting
<1>5. /\ DOMAIN d = PersonFields /\ d.waits = "nothing" /\ d.action = None /\ d.asked = None
      /\ d.interaction = None /\ d.decided = me.decided /\ d.text = None
      /\ \/ d.textAsked = bad /\ me.textAsked # None
         \/ d.textAsked = me.textAsked /\ (me.textAsked # None =>
                me.textAsked.status \in {"completed", "failed"})
  <2>1. CASE me.text # None
    <3>1. me.textAsked # None
      BY <2>1 DEF Serving, Texting
    <3>2. d = [v EXCEPT !.text = None, !.textAsked = bad]
      BY <1>2, <2>1, <3>1 DEF DroppedText, CancelledText
    <3> QED BY <1>2, <3>1, <3>2 DEF PersonFields
  <2>2. CASE me.text = None /\ me.textAsked # None /\ me.textAsked.status = "requested"
    <3>1. d = [v EXCEPT !.textAsked = bad]
      BY <1>2, <2>2 DEF DroppedText
    <3> QED BY <1>2, <2>2, <3>1 DEF PersonFields
  <2>3. CASE me.text = None /\ ~(me.textAsked # None /\ me.textAsked.status = "requested")
    <3>1. d = v
      BY <1>2, <2>3 DEF DroppedText
    <3> QED BY <1>2, <2>3, <3>1 DEF Serving, Texting
  <2> QED BY <2>1, <2>2, <2>3
<1> HIDE DEF d, bad
<1>6. /\ DOMAIN u = PersonFields /\ u.waits = "nothing" /\ u.action = None /\ u.asked = None
      /\ u.interaction = None /\ u.decided = d.decided /\ u.text = None
      /\ u.textAsked = d.textAsked /\ u.critical
  BY <1>5 DEF PersonFields
<1> HIDE DEF u
<1>7. Asking(u)
  BY <1>6 DEF Asking
<1>8. Texting(u)
  BY <1>3, <1>4, <1>5, <1>6 DEF Texting, Serving
<1>9. u.decided \in Nat
  BY <1>5, <1>6 DEF Serving
<1>10. Serving(u)
  BY <1>6, <1>7, <1>8, <1>9 DEF Serving
<1>11. Preempted(me) = u
  BY DEF Preempted, u, d, v, i
<1> QED BY <1>10, <1>11

\* A character takes up what it has decided, one of what its menu offers.
LEMMA DecidedServes ==
    ASSUME NoneIsNoRecord, NEW me, Serving(me), me.action = None, ~me.critical, NEW s, Said(s)
    PROVE  Serving([me EXCEPT !.action = s, !.decided = @ + 1, !.receipts = {}])
<1> DEFINE v == [me EXCEPT !.action = s, !.decided = @ + 1, !.receipts = {}]
<1>1. /\ DOMAIN v = PersonFields /\ v.waits = me.waits /\ v.action = s
      /\ v.asked = me.asked /\ v.interaction = me.interaction /\ v.critical = me.critical
      /\ v.textAsked = me.textAsked /\ v.text = me.text /\ v.decided = me.decided + 1
  BY DEF Serving, PersonFields
<1> HIDE DEF v
<1>2. Asking(v) /\ Texting(v)
  BY <1>1 DEF Serving, Asking, Texting
<1>3. Serving(v)
  BY <1>1, <1>2 DEF Serving
<1> QED BY <1>3 DEF v

-----------------------------------------------------------------------------
(* The steps.                                                              *)

\* Every character has the requests and executions of its plan, the room is sound,
\* and the menus offer what the tools can ask for.
Served == DOMAIN person = People /\ \A p \in People : Serving(person[p])

Offering == \A p \in People : \A s \in menu[p] : ToolCall(s)

HouseholdInvariant == Served /\ Sound(world) /\ Offering

LEMMA SetServes ==
    ASSUME Served, NEW p \in People, NEW new, Serving(new), Set(p, new)
    PROVE  Served'
BY DEF Served, Set

LEMMA PlanServes ==
    ASSUME NoneIsNoRecord, Served, NEW p \in People, PlanStep(p)
    PROVE  Served'
<1> DEFINE me == person[p]
           new == CASE me.waits = "interaction" -> Checked(me, "asked", "interaction")
                    [] me.waits = "text"        -> Checked(me, "textAsked", "text")
                    [] me.waits = "arrived"     -> Idle(me)
                    [] me.waits \in {"walk", "time"} -> me
                    [] me.waits = "nothing"     -> Started(me, p)
<1>1. Serving(me) /\ me.action # None
  BY DEF Served, PlanStep
<1>2. Set(p, new)
  BY DEF PlanStep
<1> HIDE DEF me
<1>3. CASE me.waits = "interaction"
  BY <1>1, <1>2, <1>3, CheckedServes, SetServes
<1>4. CASE me.waits = "text"
  BY <1>1, <1>2, <1>4, CheckedServes, SetServes
<1>5. CASE me.waits = "arrived"
  BY <1>1, <1>2, <1>5, IdleServes, SetServes
<1>6. CASE me.waits \in {"walk", "time"}
  BY <1>1, <1>2, <1>6, SetServes
<1>7. CASE me.waits = "nothing"
  BY <1>1, <1>2, <1>7, StartedServes, SetServes
<1>8. me.waits \in {"nothing", "interaction", "text", "walk", "time", "arrived"}
  BY <1>1 DEF Serving
<1> QED BY <1>3, <1>4, <1>5, <1>6, <1>7, <1>8

LEMMA AdvanceKeeps ==
    ASSUME NoneIsNoRecord, Served, Sound(world), NEW p \in People, NEW me, Serving(me),
           me.interaction # None, Advance(p, me)
    PROVE  Served' /\ Sound(world')
<1> DEFINE s == me.interaction.spec
           elapsed == me.interaction.elapsed + 1
<1>1. s.verb \in Interactions
  BY DEF Serving, Asking
<1>2. /\ Serving(CancelledInteraction(me))
      /\ Serving([me EXCEPT !.interaction.elapsed = elapsed])
      /\ Serving([me EXCEPT !.interaction = None, !.asked.status = "completed"])
  BY InteractionServes
<1>3. CASE \/ Set(p, CancelledInteraction(me)) /\ UNCHANGED world
           \/ Set(p, [me EXCEPT !.interaction.elapsed = elapsed]) /\ UNCHANGED world
  BY <1>2, <1>3, SetServes
<1>4. CASE /\ MayInteract(p, s) /\ world' = Commit(world, p, s)
           /\ Set(p, [me EXCEPT !.interaction = None, !.asked.status = "completed"])
  <2>1. Sound(Commit(world, p, s))
    BY <1>1, <1>4, CommitKeeps DEF MayInteract
  <2> QED BY <1>2, <1>4, <2>1, SetServes
<1> QED BY <1>3, <1>4 DEF Advance

LEMMA InteractionKeeps ==
    ASSUME NoneIsNoRecord, Served, Sound(world), NEW p \in People, InteractionStep(p)
    PROVE  Served' /\ Sound(world')
<1> DEFINE me == person[p]
<1>1. Serving(me)
  BY DEF Served
<1>2. CASE me.interaction # None
  BY <1>1, <1>2, AdvanceKeeps DEF InteractionStep
<1>3. CASE me.interaction = None /\ me.asked # None /\ me.asked.status = "requested"
  <2> DEFINE s == me.asked.spec
             u == [me EXCEPT !.asked.status = "running", !.interaction = [spec |-> s, elapsed |-> 0]]
  <2>1. Serving([me EXCEPT !.asked.status = "failed"]) /\ Serving(u) /\ u.interaction # None
    BY <1>1, <1>3, InteractionBegins
  <2>2. BeginInteraction(p)
    BY <1>3 DEF InteractionStep
  <2> HIDE DEF u
  <2>3. CASE Advance(p, u)
    BY <2>1, <2>3, AdvanceKeeps
  <2>4. CASE Set(p, [me EXCEPT !.asked.status = "failed"]) /\ UNCHANGED world
    BY <2>1, <2>4, SetServes
  <2> QED BY <2>2, <2>3, <2>4 DEF BeginInteraction, u
<1>4. CASE UNCHANGED <<world, person>>
  BY <1>4 DEF Served
<1> QED BY <1>2, <1>3, <1>4 DEF InteractionStep

LEMMA AdvanceTextServes ==
    ASSUME NoneIsNoRecord, Served, NEW p \in People, NEW me, Serving(me),
           me.text # None, AdvanceText(p, me)
    PROVE  Served'
<1> DEFINE s == me.text.spec
           elapsed == me.text.elapsed + 1
<1>1. /\ Serving(CancelledText(me)) /\ Serving([me EXCEPT !.text.elapsed = elapsed])
      /\ Serving(FinishedText(me))
      /\ Serving([FinishedText(me) EXCEPT !.receipts = @ \cup {me.text.receipt}])
  BY TextServes
<1>2. CASE \/ Set(p, CancelledText(me))
           \/ Set(p, [me EXCEPT !.text.elapsed = elapsed])
           \/ Set(p, FinishedText(me))
           \/ Set(p, [FinishedText(me) EXCEPT !.receipts = @ \cup {me.text.receipt}])
  BY <1>1, <1>2, SetServes
<1> QED BY <1>2 DEF AdvanceText, FinishText

LEMMA TextStepServes ==
    ASSUME NoneIsNoRecord, Served, NEW p \in People, TextStep(p)
    PROVE  Served'
<1> DEFINE me == person[p]
<1>1. Serving(me)
  BY DEF Served
<1>2. CASE me.text # None
  BY <1>1, <1>2, AdvanceTextServes DEF TextStep
<1>3. CASE me.text = None /\ me.textAsked # None /\ me.textAsked.status = "requested"
  <2> DEFINE s == me.textAsked.spec
             receipt == IF s.verb = "read" THEN Receipt(texts, p, s) ELSE None
             u == [me EXCEPT !.textAsked.status = "running",
                             !.text = [spec |-> s, elapsed |-> 0, receipt |-> receipt]]
  <2>1. BeginText(p)
    BY <1>3 DEF TextStep
  <2> HIDE DEF receipt
  <2>2. /\ Serving([me EXCEPT !.textAsked.status = "failed"]) /\ Serving(u)
        /\ u.text = [spec |-> s, elapsed |-> 0, receipt |-> receipt]
        /\ [spec |-> s, elapsed |-> 0, receipt |-> receipt] # None
    BY <1>1, <1>3, TextBegins
  <2> HIDE DEF u
  <2>3. CASE AdvanceText(p, u)
    BY <2>2, <2>3, AdvanceTextServes
  <2>4. CASE Set(p, [me EXCEPT !.textAsked.status = "failed"])
    BY <2>2, <2>4, SetServes
  <2> QED BY <2>1, <2>3, <2>4 DEF BeginText, u, receipt
<1>4. CASE UNCHANGED <<texts, person>>
  BY <1>4 DEF Served
<1> QED BY <1>2, <1>3, <1>4 DEF TextStep

LEMMA EffectServes ==
    ASSUME Served, NEW p \in People, EffectStep(p)
    PROVE  Served'
<1> DEFINE me == person[p]
           new == [me EXCEPT !.gear = Gear(p)]
<1>1. Serving(me) /\ Set(p, new)
  BY DEF Served, EffectStep
<1> HIDE DEF me
<1>2. /\ DOMAIN new = PersonFields /\ new.waits = me.waits /\ new.action = me.action
      /\ new.critical = me.critical /\ new.decided = me.decided /\ new.asked = me.asked
      /\ new.interaction = me.interaction /\ new.textAsked = me.textAsked /\ new.text = me.text
  BY <1>1 DEF Serving, PersonFields
<1> HIDE DEF new
<1>3. Serving(new)
  BY <1>1, <1>2, AsideServes
<1> QED BY <1>1, <1>3, SetServes

LEMMA TimedKeeps ==
    ASSUME Served, Sound(world), NEW p \in People, TimedStep(p)
    PROVE  Served' /\ Sound(world')
<1> DEFINE me == person[p]
           less == [me EXCEPT !.left = @ - 1]
           i == Idle(me)
           done == [i EXCEPT !.left = 0]
<1>1. Serving(me) /\ me.waits = "time"
  BY DEF Served, TimedStep
<1>2. /\ Set(p, less) \/ Set(p, done)
      /\ world' = world \/ world' = Drink(world, me.action.target)
  BY DEF TimedStep
<1> HIDE DEF me
<1>3. /\ DOMAIN less = PersonFields /\ less.waits = me.waits /\ less.action = me.action
      /\ less.critical = me.critical /\ less.decided = me.decided /\ less.asked = me.asked
      /\ less.interaction = me.interaction /\ less.textAsked = me.textAsked
      /\ less.text = me.text
  BY <1>1 DEF Serving, PersonFields
<1>4. Serving(i)
  BY <1>1, IdleServes
<1> HIDE DEF less, i
<1>5. /\ DOMAIN done = PersonFields /\ done.waits = i.waits /\ done.action = i.action
      /\ done.critical = i.critical /\ done.decided = i.decided /\ done.asked = i.asked
      /\ done.interaction = i.interaction /\ done.textAsked = i.textAsked
      /\ done.text = i.text
  BY <1>4 DEF Serving, PersonFields
<1> HIDE DEF done
<1>6. Serving(less) /\ Serving(done)
  BY <1>1, <1>3, <1>4, <1>5, AsideServes
<1>7. Served'
  BY <1>2, <1>6, SetServes
<1>8. \A x : Sound(Drink(world, x))
  BY TurningKeeps DEF Drink
<1> QED BY <1>2, <1>7, <1>8

LEMMA SurvivalServes ==
    ASSUME NoneIsNoRecord, Served, NEW p \in People, SurvivalStep(p)
    PROVE  Served'
<1> DEFINE me == person[p]
           calm == [me EXCEPT !.critical = FALSE]
<1>1. Serving(me)
  BY DEF Served
<1>2. \/ UNCHANGED person \/ Set(p, Preempted(me)) \/ Set(p, calm)
  BY DEF SurvivalStep
<1> HIDE DEF me
<1>3. /\ DOMAIN calm = PersonFields /\ calm.waits = me.waits /\ calm.action = me.action
      /\ ~calm.critical /\ calm.decided = me.decided /\ calm.asked = me.asked
      /\ calm.interaction = me.interaction /\ calm.textAsked = me.textAsked
      /\ calm.text = me.text
  BY <1>1 DEF Serving, PersonFields
<1> HIDE DEF calm
<1>4. Serving(calm)
  <2>1. Asking(calm) /\ Texting(calm)
    BY <1>1, <1>3 DEF Asking, Texting, Serving
  <2> QED BY <1>1, <1>3, <2>1 DEF Serving
<1>5. Serving(Preempted(me))
  BY <1>1, PreemptedServes
<1>6. CASE UNCHANGED person
  BY <1>6 DEF Served
<1> QED BY <1>2, <1>4, <1>5, <1>6, SetServes

LEMMA MovementKeeps ==
    ASSUME Served, Sound(world), NEW p \in People, MovementStep(p)
    PROVE  Served' /\ Sound(world')
<1> DEFINE me == person[p]
           there == [me EXCEPT !.waits = "arrived"]
<1>1. Serving(me) /\ me.waits = "walk"
  BY DEF Served, MovementStep
<1>2. /\ Set(p, Idle(me)) \/ Set(p, there)
      /\ world' = world \/ \E a : world' = Move(world, p, a)
  BY DEF MovementStep
<1> HIDE DEF me
<1>3. /\ DOMAIN there = PersonFields /\ there.waits = "arrived" /\ there.action = me.action
      /\ there.critical = me.critical /\ there.decided = me.decided /\ there.asked = me.asked
      /\ there.interaction = me.interaction /\ there.textAsked = me.textAsked
      /\ there.text = me.text
  BY <1>1 DEF Serving, PersonFields
<1> HIDE DEF there
<1>4. Serving(there)
  <2>1. Asking(there) /\ Texting(there)
    BY <1>1, <1>3 DEF Asking, Texting, Serving
  <2> QED BY <1>1, <1>3, <2>1 DEF Serving
<1>5. Serving(Idle(me))
  BY <1>1, IdleServes
<1>6. Served'
  BY <1>2, <1>4, <1>5, SetServes
<1>7. \A a : Sound(Move(world, p, a))
  BY TurningKeeps DEF Move
<1> QED BY <1>2, <1>6, <1>7

LEMMA PerceptionServes ==
    ASSUME Served, NEW p \in People, PerceptionStep(p)
    PROVE  Served'
<1> DEFINE me == person[p]
           now == Sight(p)
           new == [me EXCEPT !.sees = now, !.minds = MindedAll(@, me.sees, now)]
<1>1. Serving(me) /\ Set(p, new)
  BY DEF Served, PerceptionStep
<1> HIDE DEF me, now
<1>2. /\ DOMAIN new = PersonFields /\ new.waits = me.waits /\ new.action = me.action
      /\ new.critical = me.critical /\ new.decided = me.decided /\ new.asked = me.asked
      /\ new.interaction = me.interaction /\ new.textAsked = me.textAsked /\ new.text = me.text
  BY <1>1 DEF Serving, PersonFields
<1> HIDE DEF new
<1>3. Serving(new)
  BY <1>1, <1>2, AsideServes
<1> QED BY <1>1, <1>3, SetServes

LEMMA DecisionServes ==
    ASSUME NoneIsNoRecord, Served, Offering, NEW p \in People, DecisionStep(p)
    PROVE  Served'
<1> DEFINE me == person[p]
<1>1. Serving(me)
  BY DEF Served
<1>2. CASE UNCHANGED person
  BY <1>2 DEF Served
<1>3. ASSUME me.action = None, ~me.critical, NEW s \in Proposed(Observed(p), menu[p]),
             Set(p, [me EXCEPT !.action = s, !.decided = @ + 1, !.receipts = {}])
      PROVE  Served'
  <2>1. PICK t \in menu[p] : s = Stated(Observed(p), t)
    BY <1>3 DEF Proposed
  <2>2. Said(s)
    BY <2>1, StatedIsSaid DEF Offering
  <2>3. Serving([me EXCEPT !.action = s, !.decided = @ + 1, !.receipts = {}])
    BY <1>1, <1>3, <2>2, DecidedServes
  <2> QED BY <1>3, <2>3, SetServes
<1> QED BY <1>2, <1>3 DEF DecisionStep

\* Every step keeps the invariant of the household.
LEMMA HouseholdStep ==
    ASSUME NoneIsNoRecord, HouseholdInvariant, [Next]_vars
    PROVE  HouseholdInvariant'
<1>1. Served /\ Sound(world) /\ Offering
  BY DEF HouseholdInvariant
<1>2. CASE UNCHANGED <<world, person, menu>>
  BY <1>1, <1>2 DEF HouseholdInvariant, Served, Offering
<1>3. ASSUME NEW p \in People, PlanStep(p) PROVE HouseholdInvariant'
  BY <1>1, <1>3, PlanServes DEF HouseholdInvariant, Offering, PlanStep
<1>4. ASSUME NEW p \in People, InteractionStep(p) PROVE HouseholdInvariant'
  BY <1>1, <1>4, InteractionKeeps DEF HouseholdInvariant, Offering, InteractionStep
<1>5. ASSUME NEW p \in People, TextStep(p) PROVE HouseholdInvariant'
  BY <1>1, <1>5, TextStepServes DEF HouseholdInvariant, Offering, TextStep
<1>6. ASSUME NEW p \in People, EffectStep(p) PROVE HouseholdInvariant'
  BY <1>1, <1>6, EffectServes DEF HouseholdInvariant, Offering, EffectStep
<1>7. ASSUME NEW p \in People, TimedStep(p) PROVE HouseholdInvariant'
  BY <1>1, <1>7, TimedKeeps DEF HouseholdInvariant, Offering, TimedStep
<1>8. ASSUME NEW p \in People, SurvivalStep(p) PROVE HouseholdInvariant'
  BY <1>1, <1>8, SurvivalServes DEF HouseholdInvariant, Offering, SurvivalStep
<1>9. ASSUME NEW p \in People, MovementStep(p) PROVE HouseholdInvariant'
  BY <1>1, <1>9, MovementKeeps DEF HouseholdInvariant, Offering, MovementStep
<1>10. ASSUME NEW p \in People, PerceptionStep(p) PROVE HouseholdInvariant'
  BY <1>1, <1>10, PerceptionServes DEF HouseholdInvariant, Offering, PerceptionStep
<1>11. ASSUME NEW p \in People, DecisionStep(p) PROVE HouseholdInvariant'
  BY <1>1, <1>11, DecisionServes DEF HouseholdInvariant, Offering, DecisionStep
<1>12. NextSystem => UNCHANGED <<world, person, menu>>
  BY DEF NextSystem
<1>13. UNCHANGED vars => UNCHANGED <<world, person, menu>>
  BY DEF vars
<1> QED BY <1>2, <1>3, <1>4, <1>5, <1>6, <1>7, <1>8, <1>9, <1>10, <1>11, <1>12, <1>13 DEF Next

-----------------------------------------------------------------------------
(* The household.                                                          *)

LEMMA NewServes ==
    ASSUME NEW gear
    PROVE  Serving([NewPerson EXCEPT !.gear = gear])
<1> DEFINE v == [NewPerson EXCEPT !.gear = gear]
<1>1. /\ DOMAIN v = PersonFields /\ v.waits = "nothing" /\ v.action = None /\ ~v.critical
      /\ v.decided = 0 /\ v.asked = None /\ v.interaction = None
      /\ v.textAsked = None /\ v.text = None
  BY DEF NewPerson, PersonFields
<1> HIDE DEF v
<1>2. Serving(v)
  BY <1>1 DEF Serving, Asking, Texting
<1> QED BY <1>2 DEF v

IsSeq(s) == s \in Seq(Range(s))

BlockIds(a) == {Blocks(a)[i].id : i \in DOMAIN Blocks(a)}

\* Something in the registry has this id.
Known(r, x) ==
    \/ x \in DOMAIN r.artifacts
    \/ \E id \in DOMAIN r.artifacts : x \in BlockIds(r.artifacts[id])
    \/ \E c \in DOMAIN r.collections : x \in r.collections[c].members

\* What a scenario file can say of its things: relations of the six kinds between
\* what has a name, and a custodian.
Described(placed) ==
    /\ DOMAIN placed \subseteq Things
    /\ \A x \in DOMAIN placed :
          /\ placed[x].rel \in [kind : Slotted \cup {"ON_FLOOR", "ATTACHED_TO"}, parent : Ids,
                                slot : {None} \cup Ids \cup Nat]
          /\ placed[x].keeper \in Ids \cup {None}

\* And of its texts: none has an id that a run makes.
TextsDescribed(r) ==
    /\ DOMAIN r = {"artifacts", "collections", "unread"}
    /\ \A id \in DOMAIN r.artifacts :
          LET a == r.artifacts[id] IN
          /\ DOMAIN a = {"mode", "policy", "deleted", "history"}
          /\ IsSeq(a.history) /\ IsSeq(Blocks(a))
          /\ \A i \in DOMAIN Blocks(a) : DOMAIN Blocks(a)[i] = {"id", "revision", "gone"}
    /\ \A c \in DOMAIN r.collections :
          /\ {"kind", "members", "policy"} \subseteq DOMAIN r.collections[c]
          /\ IsFiniteSet(r.collections[c].members)
    /\ \A x : Known(r, x) => ~Made(x)

\* A scenario that build_registry accepts, and what a run makes of it; the menus
\* are those of the tools.
Scenario(cast, placed, people) ==
    /\ Described(placed) /\ TextsDescribed(cast.texts)
    /\ Accepted(placed, people, cast.texts)
    /\ cast.world = Materialized(placed, people)
    /\ \A p \in People : \A s \in cast.menu[p] : ToolCall(s)

\* The relations of an accepted scenario are those the model knows.
LEMMA RelationsAreSound ==
    ASSUME NEW placed, NEW people, NEW r, Described(placed), Accepted(placed, people, r)
    PROVE  LET rel == Furnished(placed).rel IN
           /\ rel \in [Entities -> Relations \cup {None}]
           /\ \A e \in Entities : rel[e] = IF e \in DOMAIN placed THEN placed[e].rel ELSE None
           /\ \A x \in DOMAIN placed : rel[x] # None
<1> DEFINE rel == Furnished(placed).rel
<1>1. /\ DOMAIN rel = Entities
      /\ \A e \in Entities : rel[e] = IF e \in DOMAIN placed THEN placed[e].rel ELSE None
      /\ rel = [e \in Entities |-> rel[e]]
  BY DEF Furnished
<1>2. /\ \A x \in DOMAIN placed : RelationDefined(placed[x].rel)
      /\ RelationsHold(rel, placed)
  BY DEF Accepted
<1> HIDE DEF rel
<1>3. ASSUME NEW x \in DOMAIN placed PROVE placed[x].rel \in Relations
  <2> DEFINE q == placed[x].rel
  <2>1. /\ q \in [kind : Slotted \cup {"ON_FLOOR", "ATTACHED_TO"}, parent : Ids,
                  slot : {None} \cup Ids \cup Nat]
        /\ x \in Entities
    BY DEF Described, Entities
  <2>2. rel[x] = q
    BY <1>1, <2>1
  <2>3. /\ q.kind = "ON_FLOOR" => q.slot = None /\ q.parent = "room"
        /\ q.kind \in Slotting => /\ q.parent \in Things
                                  /\ q.slot \in DOMAIN Object[q.parent].slots
    BY <1>2, <2>2 DEF RelationDefined, RelationsHold, Described
  <2>4. q = [kind |-> q.kind, parent |-> q.parent, slot |-> q.slot]
    BY <2>1
  <2> HIDE DEF q
  <2>5. CASE q.kind = "ON_FLOOR"
    <3>1. q \in [kind : {"ON_FLOOR"}, parent : {"room"}, slot : {None}]
      BY <2>1, <2>3, <2>5
    <3> QED BY <3>1 DEF Relations, q
  <2>6. CASE q.kind \in {"HELD_BY", "ATTACHED_TO"}
    <3>1. q \in [kind : {"HELD_BY", "ATTACHED_TO"}, parent : Ids, slot : {None} \cup Ids \cup Nat]
      BY <2>1, <2>6
    <3> QED BY <3>1 DEF Relations, q
  <2>7. CASE q.kind \in Slotting
    <3>1. Placed(q.kind, q.parent, q.slot) \in Relations
      BY <2>3, <2>7, PlacedInSlot
    <3> QED BY <2>4, <3>1 DEF Placed, q
  <2> QED BY <2>1, <2>5, <2>6, <2>7 DEF Slotted
<1>4. rel \in [Entities -> Relations \cup {None}]
  BY <1>1, <1>3
<1>5. ASSUME NEW x \in DOMAIN placed PROVE rel[x] # None
  <2>1. x \in Entities
    BY DEF Described, Entities
  <2>2. rel[x] = placed[x].rel
    BY <1>1, <2>1
  <2>3. None \notin Relations
    BY EntitiesAssumption
  <2> QED BY <1>3, <2>2, <2>3
<1> QED BY <1>1, <1>4, <1>5 DEF rel

\* What is in a hand is the one thing that a scenario puts there.
LEMMA OneInHand ==
    ASSUME NEW rel, HandsSuffice(rel), NEW p \in People, NEW h \in {"left", "right"}
    PROVE  /\ InHand(rel, p, h) \in Things \cup {None}
           /\ \A x \in Things : InHand(rel, p, h) = x <=>
                 /\ rel[x] # None /\ rel[x].kind = "HELD_BY"
                 /\ rel[x].parent = p /\ rel[x].slot \in {h, "both"}
<1> DEFINE held == {x \in Things : /\ rel[x] # None /\ rel[x].kind = "HELD_BY"
                                   /\ rel[x].parent = p /\ rel[x].slot \in {h, "both"}}
<1>1. InHand(rel, p, h) = IF held = {} THEN None ELSE CHOOSE x \in held : TRUE
  BY DEF InHand
<1>2. IsFiniteSet(held) /\ Cardinality(held) <= 1 /\ Cardinality(held) \in Nat
  <2>1. IsFiniteSet(Things)
    BY EntitiesAssumption, FS_Subset DEF Entities
  <2>2. IsFiniteSet(held)
    BY <2>1, FS_Subset
  <2>3. Cardinality(held) <= 1
    BY DEF HandsSuffice
  <2> QED BY <2>2, <2>3, FS_CardinalityType
<1>3. held \subseteq Things /\ None \notin Things
  BY EntitiesAssumption DEF Entities
<1>4. \A x \in Things : x \in held <=> /\ rel[x] # None /\ rel[x].kind = "HELD_BY"
                                       /\ rel[x].parent = p /\ rel[x].slot \in {h, "both"}
  OBVIOUS
<1> HIDE DEF held
<1>5. \A x, y \in held : x = y
  <2> SUFFICES ASSUME NEW x \in held, NEW y \in held, x # y
               PROVE  FALSE
    OBVIOUS
  <2>1. Cardinality({x}) = 1 /\ IsFiniteSet({x})
    BY FS_Singleton
  <2>2. Cardinality({x} \cup {y}) = 2 /\ IsFiniteSet({x} \cup {y})
    BY <2>1, FS_AddElement
  <2>3. Cardinality({x} \cup {y}) <= Cardinality(held)
    BY <1>2, FS_Subset
  <2> QED BY <1>2, <2>2, <2>3
<1>6. CASE held = {}
  BY <1>1, <1>3, <1>4, <1>6
<1>7. CASE held # {}
  <2>1. InHand(rel, p, h) \in held
    BY <1>1, <1>7
  <2> QED BY <1>3, <1>4, <1>5, <2>1
<1> QED BY <1>6, <1>7

\* The accounts of who has what agree when a run of an accepted scenario starts.
LEMMA RoomIsSound ==
    ASSUME NEW placed, NEW people, NEW r, Described(placed), Accepted(placed, people, r)
    PROVE  Sound(Materialized(placed, people))
<1> DEFINE w == Furnished(placed)
           v == Materialized(placed, people)
<1>1. /\ v.rel = w.rel /\ v.indexed = w.indexed \cup People /\ v.keeper = w.keeper
      /\ v.lent = w.lent /\ v.raised = w.raised
      /\ v.hands = [p \in People |-> [h \in {"left", "right"} |-> InHand(w.rel, p, h)]]
      /\ v.posture = [p \in People |-> [is |-> "STANDING", on |-> None]]
      /\ DOMAIN v = RoomFields
  BY DEF Materialized, Inhabited, RoomFields
<1>2. /\ w.indexed = {x \in DOMAIN placed : Exposed(placed[x])} /\ ~w.raised
      /\ w.keeper = [x \in Things |-> IF x \in DOMAIN placed THEN placed[x].keeper ELSE None]
      /\ w.lent = [x \in {y \in DOMAIN placed : placed[y].keeper # Keeper(y, placed[y].rel)} |->
                      placed[x].keeper]
  BY DEF Furnished
<1>3. /\ w.rel \in [Entities -> Relations \cup {None}]
      /\ \A e \in Entities : w.rel[e] = IF e \in DOMAIN placed THEN placed[e].rel ELSE None
      /\ \A x \in DOMAIN placed : w.rel[x] # None
  BY RelationsAreSound
<1>4. HandsSuffice(w.rel) /\ RelationsHold(w.rel, placed)
  BY DEF Accepted
<1> HIDE DEF w, v
<1>5. /\ DOMAIN placed \subseteq Things /\ People \cap Things = {}
      /\ \A x \in Things : x \in Entities
      /\ \A p \in People : p \in Entities
  BY EntitiesAssumption DEF Described, Entities
<1>6. WorldTyped(v)
  <2>1. v.hands \in [People -> [{"left", "right"} -> Things \cup {None}]]
    BY <1>1, <1>4, OneInHand
  <2>2. v.keeper \in [Things -> Ids \cup {None}]
    BY <1>1, <1>2, <1>5 DEF Described
  <2>3. v.posture \in [People -> [is : {"STANDING", "SITTING", "LYING"}, on : Things \cup {None}]]
    BY <1>1
  <2>4. v.indexed \subseteq Entities
    BY <1>1, <1>2, <1>5
  <2> QED BY <1>1, <1>3, <2>1, <2>2, <2>3, <2>4, Zenon DEF WorldTyped
<1>7. HandsAgree(v)
  <2> SUFFICES ASSUME NEW x \in Things, NEW p \in People, NEW h \in {"left", "right"}
               PROVE  v.hands[p][h] = x <=> HeldBy(v, x, p) /\ v.rel[x].slot \in {h, "both"}
    BY DEF HandsAgree
  <2>1. v.hands[p][h] = InHand(w.rel, p, h)
    BY <1>1
  <2> QED BY <1>1, <1>4, <2>1, OneInHand DEF HeldBy, Has
<1>8. KeepersAgree(v)
  <2> SUFFICES ASSUME NEW x \in Things
               PROVE  \/ v.keeper[x] = Keeper(x, v.rel[x])
                      \/ x \in DOMAIN v.lent /\ v.keeper[x] = v.lent[x]
    BY DEF KeepersAgree
  <2>1. CASE x \in DOMAIN placed
    BY <1>1, <1>2, <1>3, <1>5, <2>1
  <2>2. CASE x \notin DOMAIN placed
    BY <1>1, <1>2, <1>3, <1>5, <2>2 DEF Keeper
  <2> QED BY <2>1, <2>2
<1>9. IndexAgrees(v)
  <2> SUFFICES ASSUME NEW x \in Things, w.rel[x] # None
               PROVE  x \in v.indexed <=>
                         w.rel[x].kind \in {"ON_FLOOR", "ON_SUPPORT", "OCCUPIES_SLOT"}
    BY <1>1 DEF IndexAgrees
  <2>1. x \in DOMAIN placed /\ w.rel[x] = placed[x].rel
    BY <1>3, <1>5
  <2>2. x \in v.indexed <=> Exposed(placed[x])
    BY <1>1, <1>2, <1>5, <2>1
  <2>3. placed[x].rel.kind \in Slotted \cup {"ON_FLOOR", "ATTACHED_TO"}
    BY <2>1 DEF Described
  <2> QED BY <2>1, <2>2, <2>3 DEF Exposed, Slotted, Slotting
<1>10. PosturesAgree(v)
  <2>1. \A p \in People : v.rel[p] = None /\ v.posture[p] = Standing /\ v.posture[p].on = None
    BY <1>1, <1>3, <1>5 DEF Standing
  <2> QED BY <2>1 DEF PosturesAgree
<1>11. SlotsSuffice(v)
  <2> SUFFICES ASSUME NEW e \in Entities, Fills(v, e)
               PROVE  Cardinality(Filling(v, v.rel[e].parent, v.rel[e].slot))
                          <= Object[v.rel[e].parent].slots[v.rel[e].slot].room
    BY DEF SlotsSuffice
  <2> DEFINE d == v.rel[e].parent
             s == v.rel[e].slot
             with == {y \in DOMAIN placed : /\ w.rel[y].kind \in Slotting
                                            /\ w.rel[y].parent = d /\ w.rel[y].slot = s}
  <2>1. e \in DOMAIN placed /\ w.rel[e].kind \in Slotting
    BY <1>1, <1>3 DEF Fills, Slotting
  <2>2. Cardinality(with) <= Object[d].slots[s].room
    BY <1>1, <1>4, <2>1 DEF RelationsHold
  <2>3. Filling(v, d, s) = with
    <3>1. ASSUME NEW y \in Filling(v, d, s) PROVE y \in with
      BY <1>1, <1>3 DEF Filling, InSlot, Fills, Slotting
    <3>2. ASSUME NEW y \in with PROVE y \in Filling(v, d, s)
      BY <1>1, <1>3, <1>5 DEF Filling, InSlot, Fills, Slotting
    <3> HIDE DEF with
    <3> QED BY <3>1, <3>2
  <2> QED BY <2>2, <2>3
<1>12. Agreed(v)
  BY <1>1, <1>2, <1>7, <1>8, <1>9, <1>10, <1>11 DEF Agreed
<1> QED BY <1>6, <1>12 DEF Sound, v
LEMMA HouseholdStarts ==
    ASSUME NEW cast, NEW placed, NEW people, Scenario(cast, placed, people), Start(cast)
    PROVE  HouseholdInvariant
<1>1. Served
  BY NewServes DEF Start, Served
<1>2. Sound(world) /\ Offering
  BY RoomIsSound DEF Start, Scenario, Offering
<1> QED BY <1>1, <1>2 DEF HouseholdInvariant

\* In a household that starts from an accepted scenario, every character has at all times
\* the requests and executions that its plan waits for, the room's accounts of
\* who has what agree, and nobody takes up what no tool can ask for (plans.py,
\* interactions.py, text_actions.py, system1.py).
THEOREM HouseholdHolds ==
    ASSUME NoneIsNoRecord, NEW cast, NEW placed, NEW people, Scenario(cast, placed, people)
    PROVE  Start(cast) /\ [][Next]_vars => []HouseholdInvariant
<1>1. Start(cast) => HouseholdInvariant
  BY HouseholdStarts
<1>2. HouseholdInvariant /\ [Next]_vars => HouseholdInvariant'
  BY HouseholdStep
<1> QED BY <1>1, <1>2, PTL

\* The hands, the relations, the custody, the index, the postures and the slots
\* agree after every interaction, whoever takes, gives, puts, wears or sits
\* (interactions.py, _commit_*).
THEOREM BodiesAlwaysAgree ==
    ASSUME NoneIsNoRecord, NEW cast, NEW placed, NEW people, Scenario(cast, placed, people)
    PROVE  Start(cast) /\ [][Next]_vars => []BodiesAgree
<1>1. HouseholdInvariant => BodiesAgree
  BY DEF HouseholdInvariant, Sound, BodiesAgree
<1> QED BY <1>1, HouseholdHolds, PTL

\* No request of an interaction is left behind, and none is lost while the plan
\* waits for it, whichever of the plan, the interaction and System 1 ends it
\* (plans.py, interactions.py, system1.py).
THEOREM RequestsAlwaysServe ==
    ASSUME NoneIsNoRecord, NEW cast, NEW placed, NEW people, Scenario(cast, placed, people)
    PROVE  Start(cast) /\ [][Next]_vars => []RequestsServePlans
<1>1. HouseholdInvariant => RequestsServePlans
  <2> SUFFICES ASSUME HouseholdInvariant, NEW p \in People
               PROVE  LET me == person[p] IN
                      /\ (me.asked # None) <=> (me.waits = "interaction")
                      /\ me.interaction # None => me.asked # None /\ me.asked.spec = me.interaction.spec
                      /\ (me.interaction # None) <=> (me.asked # None /\ me.asked.status = "running")
                      /\ me.text # None => me.waits = "text" /\ me.textAsked.status = "running"
                      /\ me.waits # "nothing" => me.action # None
                      /\ me.critical => me.action = None
    BY DEF RequestsServePlans
  <2>1. Serving(person[p])
    BY DEF HouseholdInvariant, Served
  <2> QED BY <2>1 DEF Serving, Asking, Texting
<1> QED BY <1>1, HouseholdHolds, PTL

-----------------------------------------------------------------------------
(* The texts.                                                              *)

\* What appending makes of a sequence.
LEMMA Appended ==
    ASSUME NEW s, IsSeq(s), NEW e
    PROVE  /\ IsSeq(Append(s, e)) /\ Len(Append(s, e)) = Len(s) + 1 /\ Len(s) \in Nat
           /\ \A i \in 1..Len(s) : Append(s, e)[i] = s[i]
           /\ Append(s, e)[Len(s) + 1] = e
           /\ DOMAIN s = 1..Len(s) /\ DOMAIN Append(s, e) = 1..(Len(s) + 1)
<1> DEFINE S == Range(s) \cup {e}
           t == Append(s, e)
<1>1. s \in Seq(S) /\ e \in S
  BY DEF IsSeq
<1>2. /\ t \in Seq(S) /\ Len(t) = Len(s) + 1
      /\ \A i \in 1..Len(s) : t[i] = s[i]
      /\ t[Len(s) + 1] = e
  BY <1>1, AppendProperties
<1>3. Len(s) \in Nat /\ DOMAIN s = 1..Len(s) /\ DOMAIN t = 1..(Len(s) + 1)
  BY <1>1, <1>2
<1>4. t \in Seq(Range(t))
  <2> HIDE DEF t
  <2>1. t \in [1..Len(t) -> Range(t)] /\ Len(t) \in Nat
    BY <1>2, <1>3 DEF Range
  <2> QED BY <2>1
<1> QED BY <1>2, <1>3, <1>4 DEF IsSeq

\* The blocks of a revision are one sequence of blocks with ids of their own.
BlocksSound(bs) ==
    /\ IsSeq(bs)
    /\ \A i \in DOMAIN bs : /\ DOMAIN bs[i] = {"id", "revision", "gone"}
                            /\ \A j \in DOMAIN bs : bs[i].id = bs[j].id => i = j

ArtifactSound(a) ==
    /\ DOMAIN a = {"mode", "policy", "deleted", "history"}
    /\ IsSeq(a.history) /\ Len(a.history) > 0
    /\ BlocksSound(Blocks(a))
    /\ RevisionsFollow(a)

\* What a revision may change of the blocks before it.
Follows(mode, old, new) ==
    \A i \in DOMAIN old :
        /\ new[i].id = old[i].id
        /\ old[i].gone => new[i] = old[i]
        /\ mode = "append_only" => new[i] = old[i]

\* A revision that follows the latest one keeps an artifact whole.
LEMMA RevisedIsSound ==
    ASSUME NEW a, ArtifactSound(a), NEW bs, BlocksSound(bs), Follows(a.mode, Blocks(a), bs),
           a.mode # "immutable", NEW by, NEW v,
           DOMAIN v = DOMAIN a, v.mode = a.mode,
           v.history = Append(a.history, [blocks |-> bs, by |-> by, from |-> Len(a.history)])
    PROVE  ArtifactSound(v) /\ Blocks(v) = bs
<1> DEFINE new == [blocks |-> bs, by |-> by, from |-> Len(a.history)]
           n == Len(a.history)
<1>1. new.blocks = bs /\ new.from = n
  OBVIOUS
<1> HIDE DEF new
<1>2. /\ IsSeq(v.history) /\ Len(v.history) = n + 1 /\ n \in Nat /\ n > 0
      /\ \A i \in 1..n : v.history[i] = a.history[i]
      /\ v.history[n + 1] = new
  BY Appended DEF ArtifactSound, new
<1> HIDE DEF n
<1>3. Blocks(v) = bs
  BY <1>1, <1>2 DEF Blocks, Latest
<1>4. Blocks(a) = a.history[n].blocks
  BY DEF Blocks, Latest, n
<1>5. ASSUME NEW m \in 2..Len(v.history)
      PROVE  /\ v.history[m].from = m - 1
             /\ Follows(v.mode, v.history[m - 1].blocks, v.history[m].blocks)
  <2>1. CASE m = n + 1
    <3>1. m - 1 = n
      BY <1>2, <2>1
    <3>2. v.history[m - 1] = a.history[n] /\ v.history[m] = new
      BY <1>2, <2>1, <3>1
    <3> QED BY <1>1, <1>4, <3>1, <3>2
  <2>2. CASE m \in 2..n
    <3>1. m \in 1..n /\ m - 1 \in 1..n
      BY <1>2, <2>2
    <3>2. v.history[m - 1] = a.history[m - 1] /\ v.history[m] = a.history[m]
      BY <1>2, <3>1
    <3> QED BY <2>2, <3>2 DEF ArtifactSound, RevisionsFollow, Follows, n
  <2> QED BY <1>2, <1>5, <2>1, <2>2
<1>6. RevisionsFollow(v)
  BY <1>5 DEF RevisionsFollow, Follows
<1> QED BY <1>2, <1>3, <1>6 DEF ArtifactSound

\* Appending a block that is not there.
LEMMA AppendedBlock ==
    ASSUME NEW a, ArtifactSound(a), NEW id, id \notin BlockIds(a)
    PROVE  LET bs == Append(Blocks(a), NewBlock(id)) IN
           /\ BlocksSound(bs) /\ Follows(a.mode, Blocks(a), bs)
           /\ {bs[i].id : i \in DOMAIN bs} \subseteq BlockIds(a) \cup {id}
<1> DEFINE old == Blocks(a)
           b == NewBlock(id)
           bs == Append(old, b)
           n == Len(old)
<1>1. b.id = id /\ DOMAIN b = {"id", "revision", "gone"}
  BY DEF NewBlock
<1>2. BlocksSound(old) /\ \A i \in DOMAIN old : old[i].id # id
  BY DEF ArtifactSound, BlockIds
<1> HIDE DEF b
<1>3. /\ IsSeq(bs) /\ DOMAIN bs = 1..(n + 1) /\ DOMAIN old = 1..n /\ n \in Nat
      /\ \A i \in 1..n : bs[i] = old[i]
      /\ bs[n + 1] = b
  BY <1>2, Appended DEF BlocksSound
<1>4. BlockIds(a) = {old[i].id : i \in DOMAIN old}
  BY DEF BlockIds
<1> HIDE DEF old, bs, n
<1>5. BlocksSound(bs)
  BY <1>1, <1>2, <1>3 DEF BlocksSound
<1>6. Follows(a.mode, old, bs)
  BY <1>3 DEF Follows
<1>7. {bs[i].id : i \in DOMAIN bs} \subseteq BlockIds(a) \cup {id}
  BY <1>1, <1>3, <1>4
<1> QED BY <1>5, <1>6, <1>7 DEF bs, old, b

\* Blocks of which some are rewritten, each in its place.
LEMMA Rewritten ==
    ASSUME NEW old, BlocksSound(old), NEW bs, bs = [i \in DOMAIN old |-> bs[i]],
           \A i \in DOMAIN old : \/ bs[i] = old[i]
                                 \/ \E gone : bs[i] = Changed(old[i], gone)
    PROVE  /\ BlocksSound(bs) /\ DOMAIN bs = DOMAIN old
           /\ \A i \in DOMAIN old : bs[i].id = old[i].id
<1>1. DOMAIN bs = DOMAIN old
  OBVIOUS
<1>2. ASSUME NEW i \in DOMAIN old PROVE bs[i].id = old[i].id /\ DOMAIN bs[i] = DOMAIN old[i]
  BY DEF Changed, BlocksSound
<1>3. IsSeq(bs)
  <2>1. Len(old) \in Nat /\ DOMAIN old = 1..Len(old)
    BY DEF BlocksSound, IsSeq
  <2>2. bs \in [1..Len(old) -> Range(bs)]
    BY <1>1, <2>1 DEF Range
  <2> QED BY <2>1, <2>2 DEF IsSeq
<1> QED BY <1>1, <1>2, <1>3 DEF BlocksSound

LEMMA ChangedIsSound ==
    ASSUME NEW r, NEW p, NEW s, MayChangeBlock(r, p, s), s.verb # "append",
           ArtifactSound(r.artifacts[s.artifact])
    PROVE  LET a == r.artifacts[s.artifact]
               bs == ChangedBlocks(a, s)
           IN /\ BlocksSound(bs) /\ Follows(a.mode, Blocks(a), bs)
              /\ {bs[i].id : i \in DOMAIN bs} \subseteq BlockIds(a)
<1> DEFINE a == r.artifacts[s.artifact]
           old == Blocks(a)
           bs == ChangedBlocks(a, s)
<1>1. PICK i \in DOMAIN old : old[i].id = s.block /\ ~old[i].gone
  BY DEF MayChangeBlock, Position
<1>2. a.mode = "mutable"
  BY DEF MayChangeBlock, MayRevise
<1>3. /\ bs = [j \in DOMAIN old |-> bs[j]]
      /\ \A j \in DOMAIN old : IF old[j].id = s.block
                                 THEN bs[j] = Changed(old[j], s.verb = "delete")
                                 ELSE bs[j] = old[j]
  BY DEF ChangedBlocks
<1>4. BlocksSound(old) /\ BlockIds(a) = {old[j].id : j \in DOMAIN old}
  BY DEF ArtifactSound, BlockIds
<1> HIDE DEF old, bs, a
<1>5. \A j \in DOMAIN old : bs[j] = old[j] \/ \E gone : bs[j] = Changed(old[j], gone)
  BY <1>3
<1>6. /\ BlocksSound(bs) /\ DOMAIN bs = DOMAIN old
      /\ \A j \in DOMAIN old : bs[j].id = old[j].id
  BY <1>3, <1>4, <1>5, Rewritten
<1>7. \A j \in DOMAIN old : old[j].gone => bs[j] = old[j]
  BY <1>1, <1>3, <1>4 DEF BlocksSound
<1>8. Follows(a.mode, old, bs)
  BY <1>2, <1>6, <1>7 DEF Follows
<1> QED BY <1>4, <1>6, <1>8 DEF a, old, bs

LEMMA AllGoneIsSound ==
    ASSUME NEW a, ArtifactSound(a), a.mode = "mutable"
    PROVE  /\ BlocksSound(AllGone(a)) /\ Follows(a.mode, Blocks(a), AllGone(a))
           /\ {AllGone(a)[i].id : i \in DOMAIN AllGone(a)} \subseteq BlockIds(a)
<1> DEFINE old == Blocks(a)
           bs == AllGone(a)
<1>1. /\ bs = [j \in DOMAIN old |-> bs[j]]
      /\ \A j \in DOMAIN old : IF old[j].gone THEN bs[j] = old[j]
                                 ELSE bs[j] = Changed(old[j], TRUE)
  BY DEF AllGone
<1>2. BlocksSound(old) /\ BlockIds(a) = {old[j].id : j \in DOMAIN old}
  BY DEF ArtifactSound, BlockIds
<1> HIDE DEF old, bs
<1>3. \A j \in DOMAIN old : bs[j] = old[j] \/ \E gone : bs[j] = Changed(old[j], gone)
  BY <1>1
<1>4. /\ BlocksSound(bs) /\ DOMAIN bs = DOMAIN old
      /\ \A j \in DOMAIN old : bs[j].id = old[j].id
  BY <1>1, <1>2, <1>3, Rewritten
<1>5. Follows(a.mode, old, bs)
  BY <1>1, <1>4 DEF Follows
<1> QED BY <1>2, <1>4, <1>5 DEF old, bs

\* The collections: the messages that the run makes are where their senders kept
\* them too, and are counted at the address whose mailbox they are in.
CollectionsSound(r) ==
    /\ \A c \in DOMAIN r.collections :
          LET held == r.collections[c] IN
          /\ {"kind", "members", "policy"} \subseteq DOMAIN held
          /\ IsFiniteSet(held.members)
          /\ ByMail(held) => \A id \in held.members : Made(id) => Sent(r, id)
    /\ DOMAIN r.unread = DOMAIN Address
    /\ \A to \in DOMAIN Address :
          LET box == Address[to].mailbox IN
          /\ box \in DOMAIN r.collections
          /\ OwnMailbox(r, to) =>
                 r.unread[to] = Cardinality({id \in r.collections[box].members : Made(id)})

RegistrySound(r) ==
    /\ DOMAIN r = {"artifacts", "collections", "unread"}
    /\ \A id \in DOMAIN r.artifacts : ArtifactSound(r.artifacts[id])
    /\ CollectionsSound(r)

\* What a write keeps: a sound registry that knows one more id at most.
Kept(r, v, id) ==
    /\ RegistrySound(v)
    /\ \A x : Known(v, x) => Known(r, x) \/ x = id

LEMMA ReviseKeeps ==
    ASSUME NEW r, RegistrySound(r), NEW p, NEW s, MayRevise(r, p, s), NEW id,
           NEW bs, BlocksSound(bs),
           Follows(r.artifacts[s.artifact].mode, Blocks(r.artifacts[s.artifact]), bs),
           {bs[i].id : i \in DOMAIN bs} \subseteq BlockIds(r.artifacts[s.artifact]) \cup {id},
           NEW deleted
    PROVE  Kept(r, Revise(r, p, s, bs, deleted), id)
<1> DEFINE a == r.artifacts[s.artifact]
           revision == [blocks |-> bs, by |-> p, from |-> s.seen]
           b == [a EXCEPT !.history = Append(@, revision)]
           v == [b EXCEPT !.deleted = deleted]
           u == Revise(r, p, s, bs, deleted)
<1>1. s.artifact \in DOMAIN r.artifacts /\ a.mode # "immutable" /\ s.seen = Len(a.history)
  BY DEF MayRevise
<1>2. ArtifactSound(a) /\ CollectionsSound(r) /\ DOMAIN r = {"artifacts", "collections", "unread"}
  BY <1>1 DEF RegistrySound
<1>3. /\ DOMAIN u = DOMAIN r /\ DOMAIN u.artifacts = DOMAIN r.artifacts
      /\ u.artifacts[s.artifact] = v
      /\ \A other \in DOMAIN r.artifacts : other # s.artifact => u.artifacts[other] = r.artifacts[other]
      /\ u.collections = r.collections /\ u.unread = r.unread
  BY <1>1, <1>2 DEF Revise
<1> HIDE DEF u, revision, a
<1>4. /\ DOMAIN v = DOMAIN a /\ v.mode = a.mode
      /\ v.history = Append(a.history, revision)
  BY <1>2 DEF ArtifactSound
<1> HIDE DEF v
<1>5. v.history = Append(a.history, [blocks |-> bs, by |-> p, from |-> Len(a.history)])
  BY <1>1, <1>4 DEF revision
<1>6. ArtifactSound(v) /\ Blocks(v) = bs
  BY SMTT(30), <1>1, <1>2, <1>4, <1>5, RevisedIsSound DEF a
<1>7. CollectionsSound(u)
  BY <1>2, <1>3 DEF CollectionsSound, Sent, OwnMailbox, ByMail
<1>8. RegistrySound(u)
  BY <1>1, <1>2, <1>3, <1>6, <1>7 DEF RegistrySound
<1>9. BlockIds(v) \subseteq BlockIds(a) \cup {id}
  BY <1>6 DEF BlockIds, a
<1>10. ASSUME NEW x, Known(u, x) PROVE Known(r, x) \/ x = id
  <2>1. CASE x \in DOMAIN u.artifacts \/ \E c \in DOMAIN u.collections : x \in u.collections[c].members
    BY <1>3, <2>1 DEF Known
  <2>2. CASE \E other \in DOMAIN u.artifacts : x \in BlockIds(u.artifacts[other])
    <3>1. PICK other \in DOMAIN r.artifacts : x \in BlockIds(u.artifacts[other])
      BY <1>3, <2>2
    <3>2. CASE other = s.artifact
      <4>1. x \in BlockIds(r.artifacts[other]) \/ x = id
        BY <1>3, <1>9, <3>1, <3>2 DEF a
      <4> QED BY <4>1 DEF Known
    <3>3. CASE other # s.artifact
      <4>1. x \in BlockIds(r.artifacts[other])
        BY <1>3, <3>1, <3>3
      <4> QED BY <4>1 DEF Known
    <3> QED BY <3>2, <3>3
  <2> QED BY <1>10, <2>1, <2>2 DEF Known
<1> QED BY <1>8, <1>10 DEF Kept, u

\* A new artifact has one block, in its first revision.
LEMMA WrittenIsSound ==
    ASSUME NEW p, NEW id, NEW mode, NEW policy
    PROVE  /\ ArtifactSound(Written(p, id, mode, policy))
           /\ BlockIds(Written(p, id, mode, policy)) = {id}
<1> DEFINE bs == <<NewBlock(id)>>
           revision == [blocks |-> bs, by |-> p, from |-> 0]
           a == Written(p, id, mode, policy)
<1>1. /\ DOMAIN a = {"mode", "policy", "deleted", "history"} /\ a.history = <<revision>>
      /\ revision.blocks = bs
  BY DEF Written
<1>2. /\ IsSeq(bs) /\ DOMAIN bs = {1} /\ bs[1].id = id
      /\ DOMAIN bs[1] = {"id", "revision", "gone"}
  <2>1. bs[1] = NewBlock(id) /\ DOMAIN bs = {1}
    OBVIOUS
  <2>2. bs \in Seq({NewBlock(id)}) /\ Range(bs) = {NewBlock(id)}
    BY <2>1 DEF Range
  <2> QED BY <2>1, <2>2 DEF IsSeq, NewBlock
<1> HIDE DEF a, bs
<1>3. IsSeq(a.history) /\ Len(a.history) = 1 /\ a.history[1] = revision
  BY <1>1 DEF IsSeq, Range
<1>4. Blocks(a) = bs
  BY <1>1, <1>3 DEF Blocks, Latest
<1>5. BlocksSound(bs)
  BY <1>2 DEF BlocksSound
<1>6. RevisionsFollow(a)
  <2>1. 2..1 = {}
    OBVIOUS
  <2> QED BY <1>3, <2>1 DEF RevisionsFollow
<1>7. ArtifactSound(a)
  BY <1>1, <1>3, <1>4, <1>5, <1>6 DEF ArtifactSound
<1>8. BlockIds(a) = {id}
  BY <1>2, <1>4 DEF BlockIds
<1> QED BY <1>7, <1>8 DEF a

\* A new artifact beside the others, in collections that hold it or do not.
LEMMA JoinedKeeps ==
    ASSUME NEW r, RegistrySound(r), NEW id, NEW p, NEW mode, NEW policy, NEW v,
           DOMAIN v = DOMAIN r,
           v.artifacts = With(r.artifacts, id, Written(p, id, mode, policy)),
           CollectionsSound(v), DOMAIN v.collections = DOMAIN r.collections,
           \A c \in DOMAIN r.collections :
               v.collections[c].members \subseteq r.collections[c].members \cup {id}
    PROVE  Kept(r, v, id)
<1> DEFINE a == Written(p, id, mode, policy)
<1>1. ArtifactSound(a) /\ BlockIds(a) = {id}
  BY WrittenIsSound
<1>0. v.artifacts = With(r.artifacts, id, a)
  OBVIOUS
<1> HIDE DEF a
<1>2. /\ DOMAIN v.artifacts = DOMAIN r.artifacts \cup {id} /\ v.artifacts[id] = a
      /\ \A x \in DOMAIN r.artifacts : x # id => v.artifacts[x] = r.artifacts[x]
  BY <1>0 DEF With
<1>3. RegistrySound(v)
  BY <1>1, <1>2 DEF RegistrySound
<1>4. ASSUME NEW x, Known(v, x) PROVE Known(r, x) \/ x = id
  <2>1. CASE x \in DOMAIN v.artifacts
    BY <1>2, <2>1 DEF Known
  <2>2. CASE \E other \in DOMAIN v.artifacts : x \in BlockIds(v.artifacts[other])
    BY <1>1, <1>2, <2>2 DEF Known
  <2>3. CASE \E c \in DOMAIN v.collections : x \in v.collections[c].members
    BY <2>3 DEF Known
  <2> QED BY <1>4, <2>1, <2>2, <2>3 DEF Known
<1> QED BY <1>3, <1>4 DEF Kept

LEMMA JoinedParts ==
    ASSUME NEW held, {"kind", "members", "policy"} \subseteq DOMAIN held, NEW id
    PROVE  /\ DOMAIN Joined(held, id) = DOMAIN held
           /\ Joined(held, id).kind = held.kind /\ Joined(held, id).policy = held.policy
           /\ Joined(held, id).members = held.members \cup {id}
BY DEF Joined

LEMMA CreateKeeps ==
    ASSUME NEW r, RegistrySound(r), NEW p, NEW s, NEW c, MayCreate(r, p, s, c), NEW id
    PROVE  Kept(r, Create(r, p, s, c, id), id)
<1> DEFINE made == Endpoint[s.endpoint].created
           v == Create(r, p, s, c, id)
           old == r.collections
           new == v.collections
<1>1. /\ c \in DOMAIN old /\ CollectionsSound(r)
      /\ DOMAIN r = {"artifacts", "collections", "unread"}
      /\ Allowed(old[c].policy, "create", p)
  BY DEF MayCreate, RegistrySound
<1>2. /\ DOMAIN v = DOMAIN r /\ v.unread = r.unread
      /\ v.artifacts = With(r.artifacts, id, Written(p, id, made.mode, made.policy))
      /\ DOMAIN new = DOMAIN old /\ new[c] = Joined(old[c], id)
      /\ \A d \in DOMAIN old : d # c => new[d] = old[d]
  BY <1>1 DEF Create
<1> HIDE DEF v, made
<1>3. ASSUME NEW d \in DOMAIN old
      PROVE  /\ {"kind", "members", "policy"} \subseteq DOMAIN new[d]
             /\ new[d].kind = old[d].kind /\ new[d].policy = old[d].policy
             /\ IsFiniteSet(new[d].members)
             /\ old[d].members \subseteq new[d].members
             /\ new[d].members \subseteq old[d].members \cup {id}
             /\ ByMail(new[d]) <=> ByMail(old[d])
             /\ ByMail(old[d]) => new[d] = old[d]
  <2>1. {"kind", "members", "policy"} \subseteq DOMAIN old[d] /\ IsFiniteSet(old[d].members)
    BY <1>1 DEF CollectionsSound
  <2>2. CASE d = c
    <3>1. IsFiniteSet(old[d].members \cup {id})
      BY <2>1, FS_AddElement
    <3>2. ~ByMail(old[d])
      BY <1>1, <2>2 DEF ByMail, Allowed
    <3>3. new[d] = Joined(old[d], id)
      BY <1>2, <2>2
    <3> DEFINE j == Joined(old[d], id)
    <3>4. /\ DOMAIN j = DOMAIN old[d] /\ j.kind = old[d].kind /\ j.policy = old[d].policy
          /\ j.members = old[d].members \cup {id}
      BY <2>1, JoinedParts
    <3> HIDE DEF j
    <3> QED BY <2>1, <3>1, <3>2, <3>3, <3>4 DEF j, ByMail
  <2>3. CASE d # c
    BY <1>2, <2>1, <2>3
  <2> QED BY <2>2, <2>3
<1>4. ASSUME NEW x, Sent(r, x) PROVE Sent(v, x)
  BY <1>2, <1>3, <1>4 DEF Sent
<1>5. CollectionsSound(v)
  <2>1. ASSUME NEW d \in DOMAIN new
        PROVE  /\ {"kind", "members", "policy"} \subseteq DOMAIN new[d]
               /\ IsFiniteSet(new[d].members)
               /\ ByMail(new[d]) => \A x \in new[d].members : Made(x) => Sent(v, x)
    BY <1>1, <1>2, <1>3, <1>4 DEF CollectionsSound
  <2>2. DOMAIN v.unread = DOMAIN Address
    BY <1>1, <1>2 DEF CollectionsSound
  <2>3. ASSUME NEW to \in DOMAIN Address
        PROVE  LET box == Address[to].mailbox IN
               /\ box \in DOMAIN new
               /\ OwnMailbox(v, to) =>
                      v.unread[to] = Cardinality({x \in new[box].members : Made(x)})
    <3> DEFINE box == Address[to].mailbox
    <3>1. /\ box \in DOMAIN old
          /\ OwnMailbox(r, to) => r.unread[to] = Cardinality({x \in old[box].members : Made(x)})
      BY <1>1 DEF CollectionsSound
    <3>2. (ByMail(new[box]) <=> ByMail(old[box])) /\ (ByMail(old[box]) => new[box] = old[box])
      BY <1>3, <3>1
    <3>3. OwnMailbox(v, to) => OwnMailbox(r, to) /\ ByMail(old[box])
      BY <3>2 DEF OwnMailbox
    <3> QED BY <1>2, <3>1, <3>2, <3>3
  <2> QED BY <2>1, <2>2, <2>3 DEF CollectionsSound
<1>6. \A d \in DOMAIN old : new[d].members \subseteq old[d].members \cup {id}
  BY <1>3
<1>7. Kept(r, v, id)
  BY <1>2, <1>5, <1>6, JoinedKeeps
<1> QED BY <1>7 DEF v

LEMMA SendKeeps ==
    ASSUME NEW r, RegistrySound(r), NEW p, NEW s, NEW sent, MaySend(r, p, s, sent), NEW id,
           ~Known(r, id), Made(id)
    PROVE  Kept(r, Send(r, p, s, sent, id), id)
<1> DEFINE box == Address[s.to].mailbox
           v == Send(r, p, s, sent, id)
           old == r.collections
           new == v.collections
<1>1. /\ {sent, box} \subseteq DOMAIN old /\ CollectionsSound(r)
      /\ DOMAIN r = {"artifacts", "collections", "unread"}
      /\ old[sent].kind = "sent" /\ s.to \in DOMAIN Address
  BY DEF MaySend, RegistrySound
<1>2. DOMAIN r.unread = DOMAIN Address
  BY <1>1 DEF CollectionsSound
<1>3. /\ DOMAIN v = DOMAIN r
      /\ v.artifacts = With(r.artifacts, id, Written(p, id, "immutable", MessagePolicy(p, s.to)))
      /\ new = [c \in DOMAIN old |-> IF c \in {box, sent} THEN Joined(old[c], id) ELSE old[c]]
      /\ DOMAIN v.unread = DOMAIN Address /\ v.unread[s.to] = r.unread[s.to] + 1
      /\ \A to \in DOMAIN Address : to # s.to => v.unread[to] = r.unread[to]
  BY <1>1, <1>2 DEF Send
<1>4. DOMAIN new = DOMAIN old
  BY <1>3
<1>5. \A c \in DOMAIN old : IF c \in {box, sent} THEN new[c] = Joined(old[c], id) ELSE new[c] = old[c]
  BY <1>3
<1> HIDE DEF v, box
<1>6. ASSUME NEW d \in DOMAIN old
      PROVE  /\ {"kind", "members", "policy"} \subseteq DOMAIN new[d]
             /\ new[d].kind = old[d].kind /\ new[d].policy = old[d].policy
             /\ IsFiniteSet(new[d].members)
             /\ ByMail(new[d]) <=> ByMail(old[d])
             /\ d \in {box, sent} => new[d].members = old[d].members \cup {id}
             /\ d \notin {box, sent} => new[d].members = old[d].members
  <2>1. {"kind", "members", "policy"} \subseteq DOMAIN old[d] /\ IsFiniteSet(old[d].members)
    BY <1>1 DEF CollectionsSound
  <2>2. CASE d \in {box, sent}
    <3>1. IsFiniteSet(old[d].members \cup {id})
      BY <2>1, FS_AddElement
    <3>2. new[d] = Joined(old[d], id)
      BY <1>5, <2>2
    <3> DEFINE j == Joined(old[d], id)
    <3>3. /\ DOMAIN j = DOMAIN old[d] /\ j.kind = old[d].kind /\ j.policy = old[d].policy
          /\ j.members = old[d].members \cup {id}
      BY <2>1, JoinedParts
    <3> HIDE DEF j
    <3> QED BY <2>1, <2>2, <3>1, <3>2, <3>3 DEF j, ByMail
  <2>3. CASE d \notin {box, sent}
    BY <1>5, <2>1, <2>3
  <2> QED BY <2>2, <2>3
<1>7. ASSUME NEW x, Sent(r, x) PROVE Sent(v, x)
  <2>1. PICK d \in DOMAIN old : old[d].kind = "sent" /\ x \in old[d].members
    BY <1>7 DEF Sent
  <2>2. new[d].kind = "sent" /\ x \in new[d].members
    BY <1>6, <2>1
  <2> QED BY <1>4, <2>2 DEF Sent
<1>8. Sent(v, id)
  <2>1. new[sent].kind = "sent" /\ id \in new[sent].members
    BY <1>1, <1>6
  <2> QED BY <1>1, <1>4, <2>1 DEF Sent
<1>9. CollectionsSound(v)
  <2>1. ASSUME NEW d \in DOMAIN new
        PROVE  /\ {"kind", "members", "policy"} \subseteq DOMAIN new[d]
               /\ IsFiniteSet(new[d].members)
               /\ ByMail(new[d]) => \A x \in new[d].members : Made(x) => Sent(v, x)
    <3>1. ByMail(old[d]) => \A x \in old[d].members : Made(x) => Sent(v, x)
      BY <1>1, <1>4, <1>7, <2>1 DEF CollectionsSound
    <3>2. new[d].members \subseteq old[d].members \cup {id}
      BY <1>4, <1>6, <2>1
    <3> QED BY <1>4, <1>6, <1>8, <2>1, <3>1, <3>2
  <2>2. ASSUME NEW to \in DOMAIN Address
        PROVE  LET b == Address[to].mailbox IN
               /\ b \in DOMAIN new
               /\ OwnMailbox(v, to) =>
                      v.unread[to] = Cardinality({x \in new[b].members : Made(x)})
    <3> DEFINE b == Address[to].mailbox
               mine(held) == {x \in held.members : Made(x)}
    <3>1. /\ b \in DOMAIN old /\ IsFiniteSet(old[b].members)
          /\ OwnMailbox(r, to) => r.unread[to] = Cardinality(mine(old[b]))
      BY <1>1 DEF CollectionsSound
    <3>2. ByMail(new[b]) <=> ByMail(old[b])
      BY <1>6, <3>1
    <3>3. OwnMailbox(v, to) =>
              /\ OwnMailbox(r, to) /\ old[b].kind = "mailbox"
              /\ \A other \in DOMAIN Address : Address[other].mailbox = b => other = to
      BY <3>2 DEF OwnMailbox, ByMail
    <3>4. CASE to = s.to
      <4>1. b = box
        BY <3>4 DEF box
      <4>2. new[b].members = old[b].members \cup {id}
        BY <1>6, <3>1, <4>1
      <4>3. id \notin mine(old[b]) /\ mine(new[b]) = mine(old[b]) \cup {id}
        BY <3>1, <4>2 DEF Known
      <4>4. IsFiniteSet(mine(old[b]))
        BY <3>1, FS_Subset
      <4>5. Cardinality(mine(old[b]) \cup {id}) = Cardinality(mine(old[b])) + 1
        BY <4>3, <4>4, FS_AddElement
      <4>6. v.unread[to] = r.unread[to] + 1
        BY <1>3, <3>4
      <4> HIDE DEF mine, b
      <4>7. OwnMailbox(v, to) => v.unread[to] = Cardinality(mine(new[b]))
        BY <3>1, <3>3, <4>3, <4>5, <4>6
      <4> QED BY <1>4, <3>1, <4>7 DEF mine, b
    <3>5. CASE to # s.to
      <4>1. OwnMailbox(v, to) => b \notin {box, sent}
        BY <1>1, <3>3, <3>5 DEF box
      <4>2. OwnMailbox(v, to) => new[b].members = old[b].members
        BY <1>6, <3>1, <4>1
      <4>3. v.unread[to] = r.unread[to]
        BY <1>3, <3>5
      <4> QED BY <1>4, <3>1, <3>3, <4>2, <4>3
    <3> QED BY <3>4, <3>5
  <2> QED BY <1>3, <2>1, <2>2 DEF CollectionsSound
<1>10. \A d \in DOMAIN old : new[d].members \subseteq old[d].members \cup {id}
  BY <1>6
<1>11. Kept(r, v, id)
  BY <1>3, <1>4, <1>9, <1>10, JoinedKeeps
<1> QED BY <1>11 DEF v

\* A write that is not refused keeps the registry sound.
LEMMA WriteKeeps ==
    ASSUME NEW r, RegistrySound(r), NEW p, NEW s, MayWrite(r, p, s), s.verb \in Writing,
           NEW id, ~Known(r, id), Made(id)
    PROVE  Kept(r, Write(r, p, s, id), id)
<1> DEFINE of == Endpoint[s.endpoint].of
           a == r.artifacts[s.artifact]
<1>1. CASE s.verb = "create" /\ s.to # None
  <2>1. MaySend(r, p, s, of) /\ Write(r, p, s, id) = Send(r, p, s, of, id)
    BY <1>1 DEF MayWrite, Write
  <2> QED BY <1>1, <2>1, SendKeeps
<1>2. CASE s.verb = "create" /\ s.to = None
  <2>1. MayCreate(r, p, s, of) /\ Write(r, p, s, id) = Create(r, p, s, of, id)
    BY <1>2 DEF MayWrite, Write
  <2> QED BY <2>1, CreateKeeps
<1>3. CASE s.verb = "append"
  <2> DEFINE bs == Append(Blocks(a), NewBlock(id))
  <2>1. MayRevise(r, p, s) /\ Write(r, p, s, id) = Revise(r, p, s, bs, FALSE)
    BY <1>3 DEF MayWrite, Write
  <2>2. ArtifactSound(a) /\ id \notin BlockIds(a)
    BY <2>1 DEF MayRevise, RegistrySound, Known
  <2>3. /\ BlocksSound(bs) /\ Follows(a.mode, Blocks(a), bs)
        /\ {bs[i].id : i \in DOMAIN bs} \subseteq BlockIds(a) \cup {id}
    BY <2>2, AppendedBlock
  <2> HIDE DEF bs
  <2> QED BY <2>1, <2>3, ReviseKeeps
<1>4. CASE s.verb \in {"replace", "edit"} \/ (s.verb = "delete" /\ s.block # None)
  <2> DEFINE bs == ChangedBlocks(a, s)
  <2>1. MayChangeBlock(r, p, s) /\ Write(r, p, s, id) = Revise(r, p, s, bs, FALSE)
    BY <1>4 DEF MayWrite, Write
  <2>2. MayRevise(r, p, s) /\ ArtifactSound(a) /\ s.verb # "append"
    BY <1>4, <2>1 DEF MayChangeBlock, MayRevise, RegistrySound
  <2>3. /\ BlocksSound(bs) /\ Follows(a.mode, Blocks(a), bs)
        /\ {bs[i].id : i \in DOMAIN bs} \subseteq BlockIds(a)
    BY <2>1, <2>2, ChangedIsSound
  <2> HIDE DEF bs
  <2>4. {bs[i].id : i \in DOMAIN bs} \subseteq BlockIds(a) \cup {id}
    BY <2>3
  <2> QED BY <2>1, <2>2, <2>3, <2>4, ReviseKeeps
<1>5. CASE s.verb = "delete" /\ s.block = None
  <2> DEFINE bs == AllGone(a)
  <2>1. MayRevise(r, p, s) /\ Write(r, p, s, id) = Revise(r, p, s, bs, TRUE)
    BY <1>5 DEF MayWrite, Write
  <2>2. ArtifactSound(a) /\ a.mode = "mutable"
    BY <1>5, <2>1 DEF MayRevise, RegistrySound
  <2>3. /\ BlocksSound(bs) /\ Follows(a.mode, Blocks(a), bs)
        /\ {bs[i].id : i \in DOMAIN bs} \subseteq BlockIds(a)
    BY <2>2, AllGoneIsSound
  <2> HIDE DEF bs
  <2>4. {bs[i].id : i \in DOMAIN bs} \subseteq BlockIds(a) \cup {id}
    BY <2>3
  <2> QED BY <2>1, <2>3, <2>4, ReviseKeeps
<1> QED BY <1>1, <1>2, <1>3, <1>4, <1>5 DEF Writing

-----------------------------------------------------------------------------
(* What is written has an id of its own: the decision that it comes from.   *)

\* The latest decision may still write.
Unwritten(me) ==
    \/ me.action # None /\ me.waits = "nothing"
    \/ me.textAsked # None /\ me.textAsked.status \in {"requested", "running"}

Spent(me, k) == k < me.decided \/ (k = me.decided /\ ~Unwritten(me))

Onward(me, new) ==
    \/ new.decided = me.decided /\ (Unwritten(new) => Unwritten(me))
    \/ new.decided = me.decided + 1 /\ ~Unwritten(me)

Onwards == \A q \in People : Onward(person[q], person'[q])

LEMMA OnwardSpends ==
    ASSUME NEW me, Serving(me), NEW new, Onward(me, new), NEW k \in Nat, Spent(me, k)
    PROVE  Spent(new, k)
<1>1. me.decided \in Nat
  BY DEF Serving
<1> QED BY <1>1 DEF Onward, Spent

\* What leaves the plan and its request for a text alone.
LEMMA AsideOnward ==
    ASSUME NEW me, NEW new, new.waits = me.waits, new.action = me.action,
           new.textAsked = me.textAsked, new.decided = me.decided
    PROVE  Onward(me, new)
BY DEF Onward, Unwritten

LEMMA SetOnward ==
    ASSUME Served, NEW p \in People, NEW new, Onward(person[p], new), Set(p, new)
    PROVE  Onwards
<1>1. ASSUME NEW q \in People PROVE Onward(person[q], person'[q])
  <2>1. CASE q = p
    <3>1. person'[q] = new
      BY <2>1 DEF Set, Served
    <3> QED BY <2>1, <3>1
  <2>2. CASE q # p
    <3>1. person'[q] = person[q]
      BY <2>2 DEF Set, Served
    <3> QED BY <3>1 DEF Onward
  <2> QED BY <2>1, <2>2
<1> QED BY <1>1 DEF Onwards

LEMMA IdleOnward ==
    ASSUME NEW me, Serving(me)
    PROVE  Onward(me, Idle(me))
<1> DEFINE v == Idle(me)
<1>1. v.action = None /\ v.textAsked = me.textAsked /\ v.decided = me.decided
  BY DEF Idle, Serving, PersonFields
<1> HIDE DEF v
<1>2. Onward(me, v)
  BY <1>1 DEF Onward, Unwritten
<1> QED BY <1>2 DEF v

LEMMA PlanOnward ==
    ASSUME Served, NEW p \in People, PlanStep(p)
    PROVE  Onwards
<1> DEFINE me == person[p]
           new == CASE me.waits = "interaction" -> Checked(me, "asked", "interaction")
                    [] me.waits = "text"        -> Checked(me, "textAsked", "text")
                    [] me.waits = "arrived"     -> Idle(me)
                    [] me.waits \in {"walk", "time"} -> me
                    [] me.waits = "nothing"     -> Started(me, p)
           i == Idle(me)
           unasked == [i EXCEPT !.asked = None]
           untexted == [i EXCEPT !.textAsked = None]
<1>1. Serving(me) /\ me.action # None
  BY DEF Served, PlanStep
<1>2. Set(p, new)
  BY DEF PlanStep
<1>3. Onward(me, i) /\ Onward(me, me)
  BY <1>1, IdleOnward DEF Onward
<1>4. /\ DOMAIN i = PersonFields /\ i.action = None /\ i.decided = me.decided
      /\ i.textAsked = me.textAsked
  BY <1>1 DEF Idle, Serving, PersonFields
<1> HIDE DEF me, i
<1>5. /\ unasked.action = None /\ unasked.decided = me.decided
      /\ unasked.textAsked = me.textAsked
      /\ untexted.action = None /\ untexted.decided = me.decided
      /\ untexted.textAsked = None
  BY <1>4 DEF PersonFields
<1>6. Onward(me, unasked) /\ Onward(me, untexted)
  <2> HIDE DEF unasked, untexted
  <2> QED BY <1>5 DEF Onward, Unwritten
<1>7. CASE me.waits = "interaction"
  <2>1. Checked(me, "asked", "interaction") \in {i, me, unasked}
    BY DEF Checked, i
  <2> QED BY <1>2, <1>3, <1>6, <1>7, <2>1, SetOnward DEF me
<1>8. CASE me.waits = "text"
  <2>1. Checked(me, "textAsked", "text") \in {i, me, untexted}
    BY DEF Checked, i
  <2> QED BY <1>2, <1>3, <1>6, <1>8, <2>1, SetOnward DEF me
<1>9. CASE me.waits = "arrived"
  BY <1>2, <1>3, <1>9, SetOnward DEF me, i
<1>10. CASE me.waits \in {"walk", "time"}
  BY <1>2, <1>3, <1>10, SetOnward DEF me
<1>11. CASE me.waits = "nothing"
  <2>1. Unwritten(me)
    BY <1>1, <1>11 DEF Unwritten
  <2>2. Started(me, p).decided = me.decided
    BY <1>1 DEF Started, StartedInteraction, StartedText, StartedWalk, StartedTimed, Idle,
                Serving, PersonFields
  <2>3. Onward(me, Started(me, p))
    BY <2>1, <2>2 DEF Onward
  <2> QED BY <1>2, <1>11, <2>3, SetOnward DEF me
<1>12. me.waits \in {"nothing", "interaction", "text", "walk", "time", "arrived"}
  BY <1>1 DEF Serving
<1> QED BY <1>7, <1>8, <1>9, <1>10, <1>11, <1>12

LEMMA AdvanceOnward ==
    ASSUME Served, NEW p \in People, NEW me, DOMAIN me = PersonFields,
           Onward(person[p], me), Advance(p, me)
    PROVE  Onwards
<1>2. ASSUME NEW v, Set(p, v), v.waits = me.waits, v.action = me.action,
             v.textAsked = me.textAsked, v.decided = me.decided
      PROVE  Onwards
  <2>1. Onward(person[p], v)
    BY <1>2 DEF Onward, Unwritten
  <2> QED BY <1>2, <2>1, SetOnward
<1> DEFINE failed == CancelledInteraction(me)
           longer == [me EXCEPT !.interaction.elapsed = me.interaction.elapsed + 1]
           done == [me EXCEPT !.interaction = None, !.asked.status = "completed"]
<1>3. /\ failed.waits = me.waits /\ failed.action = me.action
      /\ failed.textAsked = me.textAsked /\ failed.decided = me.decided
  BY DEF CancelledInteraction, PersonFields
<1>4. /\ longer.waits = me.waits /\ longer.action = me.action
      /\ longer.textAsked = me.textAsked /\ longer.decided = me.decided
  BY DEF PersonFields
<1>5. /\ done.waits = me.waits /\ done.action = me.action
      /\ done.textAsked = me.textAsked /\ done.decided = me.decided
  BY DEF PersonFields
<1>6. Set(p, failed) \/ Set(p, longer) \/ Set(p, done)
  BY DEF Advance
<1> HIDE DEF failed, longer, done
<1> QED BY <1>2, <1>3, <1>4, <1>5, <1>6

LEMMA InteractionOnward ==
    ASSUME Served, NEW p \in People, InteractionStep(p)
    PROVE  Onwards
<1> DEFINE me == person[p]
           bad == [me EXCEPT !.asked.status = "failed"]
           begun == [me EXCEPT !.asked.status = "running",
                               !.interaction = [spec |-> me.asked.spec, elapsed |-> 0]]
<1>1. Serving(me)
  BY DEF Served
<1>2. CASE me.interaction # None
  BY <1>1, <1>2, AdvanceOnward DEF InteractionStep, Onward, Serving
<1>3. CASE me.interaction = None /\ me.asked # None /\ me.asked.status = "requested"
  <2>1. \/ Advance(p, begun)
        \/ Set(p, bad)
    BY <1>3 DEF InteractionStep, BeginInteraction
  <2>2. /\ bad.waits = me.waits /\ bad.action = me.action
        /\ bad.textAsked = me.textAsked /\ bad.decided = me.decided
    BY <1>1 DEF Serving, PersonFields
  <2>3. /\ begun.waits = me.waits /\ begun.action = me.action /\ DOMAIN begun = PersonFields
        /\ begun.textAsked = me.textAsked /\ begun.decided = me.decided
    BY <1>1 DEF Serving, PersonFields
  <2> HIDE DEF bad, begun
  <2>4. Onward(me, bad) /\ Onward(me, begun)
    BY <2>2, <2>3, AsideOnward
  <2>5. CASE Set(p, bad)
    BY <2>4, <2>5, SetOnward
  <2>6. CASE Advance(p, begun)
    BY <2>3, <2>4, <2>6, AdvanceOnward
  <2> QED BY <2>1, <2>5, <2>6
<1>4. CASE UNCHANGED <<world, person>>
  BY <1>4 DEF Onwards, Onward
<1> QED BY <1>2, <1>3, <1>4 DEF InteractionStep

\* The systems that write nothing, and change neither texts nor what asks for them.
LEMMA OthersOnward ==
    ASSUME Served, NEW p \in People,
           \/ EffectStep(p) \/ TimedStep(p) \/ MovementStep(p) \/ PerceptionStep(p)
    PROVE  Onwards
<1> DEFINE me == person[p]
           i == Idle(me)
           dressed == [me EXCEPT !.gear = Gear(p)]
           less == [me EXCEPT !.left = @ - 1]
           done == [i EXCEPT !.left = 0]
           there == [me EXCEPT !.waits = "arrived"]
           seeing == [me EXCEPT !.sees = Sight(p), !.minds = MindedAll(@, me.sees, Sight(p))]
<1>1. Serving(me)
  BY DEF Served
<1>2. CASE EffectStep(p)
  <2>1. /\ dressed.waits = me.waits /\ dressed.action = me.action
        /\ dressed.textAsked = me.textAsked /\ dressed.decided = me.decided
    BY <1>1 DEF Serving, PersonFields
  <2>2. Set(p, dressed)
    BY <1>2 DEF EffectStep
  <2> HIDE DEF dressed
  <2> QED BY <2>1, <2>2, AsideOnward, SetOnward
<1>3. CASE TimedStep(p)
  <2>1. /\ less.waits = me.waits /\ less.action = me.action
        /\ less.textAsked = me.textAsked /\ less.decided = me.decided
    BY <1>1 DEF Serving, PersonFields
  <2>2. Set(p, less) \/ Set(p, done)
    BY <1>3 DEF TimedStep
  <2>3. /\ DOMAIN i = PersonFields /\ i.waits = "nothing" /\ i.action = None
        /\ i.decided = me.decided /\ i.textAsked = me.textAsked
    BY <1>1 DEF Idle, Serving, PersonFields
  <2> HIDE DEF less, i
  <2>4. /\ done.action = None /\ done.decided = me.decided /\ done.textAsked = me.textAsked
    BY <2>3 DEF PersonFields
  <2> HIDE DEF done
  <2>5. Onward(me, less) /\ Onward(me, done)
    BY <2>1, <2>4 DEF Onward, Unwritten
  <2> QED BY <2>2, <2>5, SetOnward
<1>4. CASE MovementStep(p)
  <2>1. /\ there.waits = "arrived"
        /\ there.textAsked = me.textAsked /\ there.decided = me.decided
    BY <1>1 DEF Serving, PersonFields
  <2>2. Set(p, i) \/ Set(p, there)
    BY <1>4 DEF MovementStep
  <2>3. Onward(me, i)
    BY <1>1, IdleOnward
  <2> HIDE DEF there, i
  <2>4. Onward(me, there)
    BY <2>1 DEF Onward, Unwritten
  <2> QED BY <2>2, <2>3, <2>4, SetOnward
<1>5. CASE PerceptionStep(p)
  <2>1. /\ seeing.waits = me.waits /\ seeing.action = me.action
        /\ seeing.textAsked = me.textAsked /\ seeing.decided = me.decided
    BY <1>1 DEF Serving, PersonFields
  <2>2. Set(p, seeing)
    BY <1>5 DEF PerceptionStep
  <2> HIDE DEF seeing
  <2> QED BY <2>1, <2>2, AsideOnward, SetOnward
<1> QED BY <1>2, <1>3, <1>4, <1>5

LEMMA SurvivalOnward ==
    ASSUME Served, NEW p \in People, SurvivalStep(p)
    PROVE  Onwards
<1> DEFINE me == person[p]
           i == Idle(me)
           v == DroppedInteraction(i)
           d == DroppedText(v)
           u == [d EXCEPT !.critical = TRUE, !.left = 0]
           calm == [me EXCEPT !.critical = FALSE]
<1>1. Serving(me)
  BY DEF Served
<1>2. \/ UNCHANGED person \/ Set(p, u) \/ Set(p, calm)
  BY DEF SurvivalStep, Preempted
<1>3. /\ calm.waits = me.waits /\ calm.action = me.action
      /\ calm.textAsked = me.textAsked /\ calm.decided = me.decided
  BY <1>1 DEF Serving, PersonFields
<1>4. /\ DOMAIN i = PersonFields /\ i.action = None
      /\ i.textAsked = me.textAsked /\ i.text = me.text /\ i.decided = me.decided
  BY <1>1 DEF Idle, Serving, PersonFields
<1> HIDE DEF i, calm
<1>5. /\ DOMAIN v = PersonFields /\ v.action = None
      /\ v.textAsked = me.textAsked /\ v.text = me.text /\ v.decided = me.decided
  BY <1>4 DEF DroppedInteraction, PersonFields
<1> HIDE DEF v
<1>6. /\ DOMAIN d = PersonFields /\ d.action = None /\ d.decided = me.decided
      /\ \/ d.textAsked = me.textAsked
         \/ d.textAsked.status = "failed"
  <2>1. CASE me.text # None
    <3>1. me.textAsked # None /\ DOMAIN me.textAsked = {"spec", "status"}
      BY <1>1, <2>1 DEF Serving, Texting
    <3>2. d = [v EXCEPT !.text = None, !.textAsked = [me.textAsked EXCEPT !.status = "failed"]]
      BY <1>5, <2>1, <3>1 DEF DroppedText, CancelledText
    <3> QED BY <1>5, <3>1, <3>2 DEF PersonFields
  <2>2. CASE me.text = None /\ me.textAsked # None /\ me.textAsked.status = "requested"
    <3>1. DOMAIN me.textAsked = {"spec", "status"}
      BY <1>1, <2>2 DEF Serving, Texting
    <3>2. d = [v EXCEPT !.textAsked = [me.textAsked EXCEPT !.status = "failed"]]
      BY <1>5, <2>2 DEF DroppedText
    <3> QED BY <1>5, <3>1, <3>2 DEF PersonFields
  <2>3. CASE me.text = None /\ ~(me.textAsked # None /\ me.textAsked.status = "requested")
    BY <1>5, <2>3 DEF DroppedText
  <2> QED BY <2>1, <2>2, <2>3
<1> HIDE DEF d
<1>7. u.action = None /\ u.decided = d.decided /\ u.textAsked = d.textAsked
  BY <1>6 DEF PersonFields
<1> HIDE DEF u
<1>8. Onward(me, u) /\ Onward(me, calm)
  BY <1>3, <1>6, <1>7 DEF Onward, Unwritten
<1>9. CASE UNCHANGED person
  BY <1>9 DEF Onwards, Onward
<1> QED BY <1>2, <1>8, <1>9, SetOnward

LEMMA DecisionOnward ==
    ASSUME Served, NEW p \in People, DecisionStep(p)
    PROVE  Onwards
<1> DEFINE me == person[p]
<1>1. Serving(me)
  BY DEF Served
<1>2. CASE UNCHANGED person
  BY <1>2 DEF Onwards, Onward
<1>3. ASSUME me.action = None, NEW s,
             Set(p, [me EXCEPT !.action = s, !.decided = @ + 1, !.receipts = {}])
      PROVE  Onwards
  <2> DEFINE new == [me EXCEPT !.action = s, !.decided = @ + 1, !.receipts = {}]
  <2>1. new.decided = me.decided + 1
    BY <1>1 DEF Serving, PersonFields
  <2>2. ~Unwritten(me)
    BY <1>1, <1>3 DEF Unwritten, Serving, Texting
  <2> HIDE DEF new
  <2>3. Onward(me, new)
    BY <2>1, <2>2 DEF Onward
  <2> QED BY <1>3, <2>3, SetOnward DEF new
<1> QED BY <1>2, <1>3 DEF DecisionStep

\* A text action goes on without writing, or writes for the latest decision.
Writes(p) ==
    \E s : /\ s.verb \in Writing /\ MayWrite(texts, p, s)
           /\ texts' = Write(texts, p, s, <<p, person[p].decided>>)
           /\ Unwritten(person[p])
           /\ person'[p].decided = person[p].decided /\ ~Unwritten(person'[p])

LEMMA AdvanceTextOnward ==
    ASSUME Served, NEW p \in People, NEW me, Serving(me), me.text # None,
           Unwritten(person[p]), me.decided = person[p].decided, AdvanceText(p, me)
    PROVE  Onwards /\ (UNCHANGED texts \/ Writes(p))
<1> DEFINE failed == CancelledText(me)
           longer == [me EXCEPT !.text.elapsed = me.text.elapsed + 1]
           done == FinishedText(me)
           read == [done EXCEPT !.receipts = @ \cup {me.text.receipt}]
           s == me.text.spec
<1>1. /\ DOMAIN me = PersonFields /\ me.textAsked # None
      /\ DOMAIN me.textAsked = {"spec", "status"} /\ me.waits = "text"
      /\ Said(s) /\ s.verb \in Writing \cup {"read"}
  BY DEF Serving, Texting
<1>2. failed.decided = me.decided /\ longer.decided = me.decided
  BY <1>1 DEF CancelledText, PersonFields
<1>3. /\ DOMAIN done = PersonFields /\ done.decided = me.decided /\ done.waits = "text"
      /\ done.textAsked.status = "completed"
  BY <1>1 DEF FinishedText, PersonFields
<1>4. ~Unwritten(done)
  <2> HIDE DEF done
  <2> QED BY <1>3 DEF Unwritten
<1>5. read.decided = me.decided
  <2> HIDE DEF done
  <2> QED BY <1>3 DEF PersonFields
<1>6. \/ UNCHANGED texts /\ (Set(p, failed) \/ Set(p, longer) \/ Set(p, read))
      \/ /\ s.verb # "read" /\ MayWrite(texts, p, s) /\ Set(p, done)
         /\ texts' = Write(texts, p, s, <<p, me.decided>>)
  BY DEF AdvanceText, FinishText
<1> HIDE DEF failed, longer, read, done
<1>7. /\ Onward(person[p], failed) /\ Onward(person[p], longer) /\ Onward(person[p], read)
      /\ Onward(person[p], done)
  BY <1>2, <1>3, <1>5 DEF Onward
<1>8. CASE UNCHANGED texts /\ (Set(p, failed) \/ Set(p, longer) \/ Set(p, read))
  BY <1>7, <1>8, SetOnward
<1>9. CASE /\ s.verb # "read" /\ MayWrite(texts, p, s) /\ Set(p, done)
           /\ texts' = Write(texts, p, s, <<p, me.decided>>)
  <2>1. Onwards
    BY <1>7, <1>9, SetOnward
  <2>2. person'[p] = done
    BY <1>9 DEF Set, Served
  <2>3. s.verb \in Writing
    BY <1>1, <1>9
  <2>4. Writes(p)
    BY <1>3, <1>4, <1>9, <2>2, <2>3 DEF Writes
  <2> QED BY <2>1, <2>4
<1> QED BY <1>6, <1>8, <1>9

LEMMA TextStepOnward ==
    ASSUME NoneIsNoRecord, Served, NEW p \in People, TextStep(p)
    PROVE  Onwards /\ (UNCHANGED texts \/ Writes(p))
<1> DEFINE me == person[p]
<1>1. Serving(me)
  BY DEF Served
<1>2. CASE me.text # None
  <2>1. Unwritten(me)
    BY <1>1, <1>2 DEF Serving, Texting, Unwritten
  <2> QED BY <1>1, <1>2, <2>1, AdvanceTextOnward DEF TextStep
<1>3. CASE me.text = None /\ me.textAsked # None /\ me.textAsked.status = "requested"
  <2> DEFINE s == me.textAsked.spec
             receipt == IF s.verb = "read" THEN Receipt(texts, p, s) ELSE None
             bad == [me EXCEPT !.textAsked.status = "failed"]
             u == [me EXCEPT !.textAsked.status = "running",
                             !.text = [spec |-> s, elapsed |-> 0, receipt |-> receipt]]
  <2>1. AdvanceText(p, u) \/ (Set(p, bad) /\ UNCHANGED texts)
    BY <1>3 DEF TextStep, BeginText
  <2>2. Unwritten(me)
    BY <1>3 DEF Unwritten
  <2>3. bad.decided = me.decided
    BY <1>1 DEF Serving, PersonFields
  <2> HIDE DEF receipt
  <2>4. /\ Serving(u) /\ u.text = [spec |-> s, elapsed |-> 0, receipt |-> receipt]
        /\ [spec |-> s, elapsed |-> 0, receipt |-> receipt] # None
        /\ u.decided = me.decided
    BY <1>1, <1>3, TextBegins
  <2> HIDE DEF u, bad
  <2>5. CASE AdvanceText(p, u)
    BY <2>2, <2>4, <2>5, AdvanceTextOnward
  <2>6. CASE Set(p, bad) /\ UNCHANGED texts
    <3>1. Onward(me, bad)
      BY <2>2, <2>3 DEF Onward
    <3> QED BY <2>6, <3>1, SetOnward
  <2> QED BY <2>1, <2>5, <2>6
<1>4. CASE UNCHANGED <<texts, person>>
  BY <1>4 DEF Onwards, Onward
<1> QED BY <1>2, <1>3, <1>4 DEF TextStep

\* What a decision may still write is not there yet.
IdsSpent ==
    \A q \in People : \A k \in Nat : k = 0 \/ Known(texts, <<q, k>>) => Spent(person[q], k)

LettersInvariant == HouseholdInvariant /\ RegistrySound(texts) /\ IdsSpent

LEMMA WritesKeep ==
    ASSUME LettersInvariant, NEW p \in People, Writes(p), Onwards
    PROVE  RegistrySound(texts') /\ IdsSpent'
<1>1. /\ RegistrySound(texts) /\ IdsSpent /\ \A q \in People : Serving(person[q])
  BY DEF LettersInvariant, HouseholdInvariant, Served
<1> DEFINE me == person[p]
           id == <<p, me.decided>>
<1>2. PICK s : /\ s.verb \in Writing /\ MayWrite(texts, p, s)
               /\ texts' = Write(texts, p, s, id)
               /\ Unwritten(me)
               /\ person'[p].decided = me.decided /\ ~Unwritten(person'[p])
  BY DEF Writes
<1>3. me.decided \in Nat
  BY <1>1 DEF Serving
<1>4. ~Known(texts, id) /\ Made(id)
  <2>1. ~Spent(me, me.decided)
    BY <1>2, <1>3 DEF Spent
  <2>2. ~Known(texts, id) /\ me.decided # 0
    BY <1>1, <1>3, <2>1 DEF IdsSpent
  <2> QED BY <2>2 DEF Made
<1> HIDE DEF id
<1>5. Kept(texts, texts', id)
  BY <1>1, <1>2, <1>4, WriteKeeps
<1>6. ASSUME NEW q \in People, NEW k \in Nat, k = 0 \/ Known(texts', <<q, k>>)
      PROVE  Spent(person'[q], k)
  <2>1. CASE k = 0 \/ Known(texts, <<q, k>>)
    <3>1. Spent(person[q], k)
      BY <1>1, <2>1 DEF IdsSpent
    <3> QED BY <1>1, <3>1, OnwardSpends DEF Onwards
  <2>2. CASE <<q, k>> = id
    <3>1. q = p /\ k = me.decided
      BY <2>2 DEF id
    <3> QED BY <1>2, <3>1 DEF Spent
  <2> QED BY <1>5, <1>6, <2>1, <2>2 DEF Kept
<1>7. RegistrySound(texts')
  BY <1>5 DEF Kept
<1>8. IdsSpent'
  BY <1>6 DEF IdsSpent
<1> QED BY <1>7, <1>8

LEMMA OnwardsKeep ==
    ASSUME LettersInvariant, Onwards, UNCHANGED texts
    PROVE  RegistrySound(texts') /\ IdsSpent'
<1>1. /\ RegistrySound(texts) /\ IdsSpent /\ \A q \in People : Serving(person[q])
  BY DEF LettersInvariant, HouseholdInvariant, Served
<1>2. ASSUME NEW q \in People, NEW k \in Nat, k = 0 \/ Known(texts', <<q, k>>)
      PROVE  Spent(person'[q], k)
  <2>1. Spent(person[q], k)
    BY <1>1, <1>2 DEF IdsSpent
  <2> QED BY <1>1, <2>1, OnwardSpends DEF Onwards
<1>3. IdsSpent'
  BY <1>2 DEF IdsSpent
<1> QED BY <1>1, <1>3

LEMMA LettersStep ==
    ASSUME NoneIsNoRecord, LettersInvariant, [Next]_vars
    PROVE  LettersInvariant'
<1>1. HouseholdInvariant'
  BY HouseholdStep DEF LettersInvariant
<1>2. Served
  BY DEF LettersInvariant, HouseholdInvariant
<1>3. CASE UNCHANGED <<texts, person>>
  <2>1. Onwards
    BY <1>3 DEF Onwards, Onward
  <2> QED BY <1>1, <1>3, <2>1, OnwardsKeep DEF LettersInvariant
<1>4. ASSUME NEW p \in People, TextStep(p) PROVE LettersInvariant'
  <2>1. Onwards /\ (UNCHANGED texts \/ Writes(p))
    BY <1>2, <1>4, TextStepOnward
  <2>2. RegistrySound(texts') /\ IdsSpent'
    BY <2>1, OnwardsKeep, WritesKeep
  <2> QED BY <1>1, <2>2 DEF LettersInvariant
<1>5. ASSUME NEW p \in People,
             \/ PlanStep(p) \/ InteractionStep(p) \/ EffectStep(p) \/ TimedStep(p)
             \/ SurvivalStep(p) \/ MovementStep(p) \/ PerceptionStep(p) \/ DecisionStep(p)
      PROVE  LettersInvariant'
  <2>1. UNCHANGED texts
    BY <1>5 DEF PlanStep, InteractionStep, EffectStep, TimedStep, SurvivalStep, MovementStep,
                PerceptionStep, DecisionStep
  <2>2. Onwards
    BY <1>2, <1>5, PlanOnward, InteractionOnward, OthersOnward, SurvivalOnward, DecisionOnward
  <2>3. RegistrySound(texts') /\ IdsSpent'
    BY <2>1, <2>2, OnwardsKeep
  <2> QED BY <1>1, <2>3 DEF LettersInvariant
<1>6. NextSystem => UNCHANGED <<texts, person>>
  BY DEF NextSystem
<1>7. UNCHANGED vars => UNCHANGED <<texts, person>>
  BY DEF vars
<1> QED BY <1>3, <1>4, <1>5, <1>6, <1>7 DEF Next

LEMMA TextsAreSound ==
    ASSUME NEW r, TextsDescribed(r), TextsDefined(r)
    PROVE  RegistrySound(r)
<1>1. ASSUME NEW id \in DOMAIN r.artifacts PROVE ArtifactSound(r.artifacts[id])
  <2> DEFINE a == r.artifacts[id]
  <2>1. /\ DOMAIN a = {"mode", "policy", "deleted", "history"} /\ IsSeq(a.history)
        /\ IsSeq(Blocks(a)) /\ Len(a.history) = 1
        /\ \A i \in DOMAIN Blocks(a) : DOMAIN Blocks(a)[i] = {"id", "revision", "gone"}
        /\ \A i, j \in DOMAIN Blocks(a) : Blocks(a)[i].id = Blocks(a)[j].id => i = j
    BY DEF TextsDescribed, TextsDefined
  <2> HIDE DEF a
  <2>2. RevisionsFollow(a)
    <3>1. 2..1 = {}
      OBVIOUS
    <3> QED BY <2>1, <3>1 DEF RevisionsFollow
  <2>3. ArtifactSound(a)
    BY <2>1, <2>2 DEF ArtifactSound, BlocksSound
  <2> QED BY <2>3 DEF a
<1>2. CollectionsSound(r)
  <2>1. ASSUME NEW c \in DOMAIN r.collections
        PROVE  \A id \in r.collections[c].members : ~Made(id)
    BY DEF TextsDescribed, Known
  <2>2. ASSUME NEW to \in DOMAIN Address
        PROVE  LET box == Address[to].mailbox IN
               /\ box \in DOMAIN r.collections
               /\ r.unread[to] = Cardinality({id \in r.collections[box].members : Made(id)})
    <3>1. Address[to].mailbox \in DOMAIN r.collections /\ r.unread[to] = 0
      BY DEF TextsDefined
    <3>2. {id \in r.collections[Address[to].mailbox].members : Made(id)} = {}
      BY <2>1, <3>1
    <3> QED BY <3>1, <3>2, FS_EmptySet
  <2> QED BY <2>1, <2>2 DEF CollectionsSound, TextsDescribed, TextsDefined
<1> QED BY <1>1, <1>2 DEF RegistrySound, TextsDescribed

LEMMA LettersStart ==
    ASSUME NEW cast, NEW placed, NEW people, Scenario(cast, placed, people), Start(cast)
    PROVE  LettersInvariant
<1>1. HouseholdInvariant /\ RegistrySound(texts)
  BY HouseholdStarts, TextsAreSound DEF Scenario, Accepted, Start
<1>2. ASSUME NEW q \in People, NEW k \in Nat, k = 0 \/ Known(texts, <<q, k>>)
      PROVE  Spent(person[q], k)
  <2> DEFINE v == [NewPerson EXCEPT !.gear = Gear(q)]
  <2>1. person[q] = v
    BY DEF Start
  <2>2. v.decided = 0 /\ v.action = None /\ v.textAsked = None
    BY DEF NewPerson
  <2> HIDE DEF v
  <2>3. k = 0
    BY <1>2 DEF Start, Scenario, TextsDescribed, Made
  <2> QED BY <2>1, <2>2, <2>3 DEF Spent, Unwritten
<1> QED BY <1>1, <1>2 DEF LettersInvariant, IdsSpent

\* Nobody writes over what they have not seen, each revision keeps what the one
\* before it had, a message that a run sends is in the mailbox of its address and
\* kept by its sender, and an address with a mailbox of its own counts the messages
\* it was sent, whoever else writes while somebody is writing
\* (TextContentRegistry, text_actions.py).
THEOREM TextsStayWhole ==
    ASSUME NoneIsNoRecord, NEW cast, NEW placed, NEW people, Scenario(cast, placed, people)
    PROVE  Start(cast) /\ [][Next]_vars => []TextIsWhole
<1>1. Start(cast) => LettersInvariant
  BY LettersStart
<1>2. LettersInvariant /\ [Next]_vars => LettersInvariant'
  BY LettersStep
<1>3. LettersInvariant => TextIsWhole
  BY DEF LettersInvariant, RegistrySound, ArtifactSound, CollectionsSound, TextIsWhole, MailAgrees
<1> QED BY <1>1, <1>2, <1>3, PTL
=============================================================================
