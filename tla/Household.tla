------------------------------ MODULE Household ------------------------------
(***************************************************************************)
(* Characters who handle things and texts: the systems of one tick that      *)
(* serve INTERACT, READ_TEXT, WRITE_TEXT, READ, DRINK and NAVIGATE, in the   *)
(* order in which SystemExecutor runs them (plans.py 90, interactions.py    *)
(* 145, text_actions.py 146, effects.py 147, timed plan actions 165,         *)
(* system1.py 170, movement 200, perception 250), with decisions, on what     *)
(* each character observes, between two ticks.                               *)
(*                                                                         *)
(*   system  the system that is running, queue the characters it has still   *)
(*           to visit                                                        *)
(*   world   the things and bodies (PhysicalWorld)                           *)
(*   texts   the TextContentRegistry (TextContent)                           *)
(*   person  character -> drive, plan, requests, executions and gear         *)
(*   menu    character -> the actions its decisions choose from              *)
(***************************************************************************)
EXTENDS Observation

CONSTANTS
    Order,          \* the characters, in the order in which systems visit them
    Duration,       \* ticks of an interaction
    Decisions,      \* bound: decisions of a character
    Alarms          \* bound: activations of System 1

VARIABLES system, queue, world, texts, person, menu, alarms

vars == <<system, queue, world, texts, person, menu, alarms>>

\* Mutant: what is worn and carried is worked out before it changes hands.
EffectsFirst ==
    <<"plans", "effects", "interactions", "texts", "timed", "survival", "movement",
      "perception", "decisions">>

Systems ==
    <<"plans", "interactions", "texts", "effects", "timed", "survival", "movement",
      "perception", "decisions">>

\* The components that resolve_character_effects derives: what is worn, the
\* ranges of the senses with it, and the carried load.
Gear(p) ==
    [worn   |-> [s \in DOMAIN Equipment |->
                    {x \in Things : WornBy(world, x, p) /\ world.rel[x].slot = s}],
     senses |-> Senses({x \in Things : WornBy(world, x, p)}),
     load   |-> Carried(world, p)]

Sight(p) == Scan(world, p, person[p].gear.senses)

Turn(s, p) == system = s /\ queue # <<>> /\ p = queue[1] /\ queue' = Tail(queue)

Set(p, new) == person' = [person EXCEPT ![p] = new]

Those(who(_)) == SelectSeq(Order, who)

\* The characters that a system has to visit, executions before requests.
Round(s) ==
    CASE s = "plans"        -> Those(LAMBDA p : person[p].action # None)
      [] s = "interactions" -> Those(LAMBDA p : person[p].interaction # None)
                                 \o Those(LAMBDA p : person[p].interaction = None
                                                       /\ person[p].asked # None)
      [] s = "texts"        -> Those(LAMBDA p : person[p].text # None)
                                 \o Those(LAMBDA p : person[p].text = None
                                                       /\ person[p].textAsked # None)
      [] s = "effects"      -> Those(LAMBDA p : person[p].gear # Gear(p))
      [] s = "timed"        -> Those(LAMBDA p : person[p].waits = "time")
      [] s = "movement"     -> Those(LAMBDA p : person[p].waits = "walk")
      [] s = "perception"   -> Those(LAMBDA p : person[p].sees # Sight(p))
      [] s \in {"survival", "decisions"} -> Order

NextSystem ==
    LET i    == CHOOSE n \in DOMAIN Systems : Systems[n] = system
        next == Systems[(i % Len(Systems)) + 1]
    IN /\ queue = <<>>
       /\ system' = next /\ queue' = Round(next)
       /\ UNCHANGED <<world, texts, person, menu, alarms>>

-----------------------------------------------------------------------------
(* PlanExecutionSystem                                                     *)

Idle(me) == [me EXCEPT !.action = None, !.waits = "nothing"]

\* _check_interaction, _check_text: the request tells how it went.
Checked(me, request, execution) ==
    IF me[request] = None
      THEN IF me[execution] = None THEN Idle(me) ELSE me
    ELSE IF me[request].status \in {"failed", "completed"}
      THEN [Idle(me) EXCEPT ![request] = None]
    ELSE me

Requested(s) == [spec |-> s, status |-> "requested"]

StartedInteraction(me) ==
    IF me.asked # None THEN Idle(me)
    ELSE [me EXCEPT !.asked = Requested(me.action), !.waits = "interaction"]

StartedText(me) ==
    IF me.textAsked # None THEN Idle(me)
    ELSE [me EXCEPT !.textAsked = Requested(me.action), !.waits = "text"]

StartedWalk(me, p) ==
    IF world.posture[p].is # "STANDING" THEN Idle(me) ELSE [me EXCEPT !.waits = "walk"]

StartedTimed(me, p) ==
    IF ~MayEnjoy(world, p, me.action.verb, me.action.target) THEN Idle(me)
    ELSE [me EXCEPT !.waits = "time", !.left = me.action.ticks]

Started(me, p) ==
    LET verb == me.action.verb IN
    CASE verb \in Interactions      -> StartedInteraction(me)
      [] verb = "NAVIGATE"          -> StartedWalk(me, p)
      [] verb \in {"READ", "DRINK"} -> StartedTimed(me, p)
      [] OTHER                      -> StartedText(me)

PlanStep(p) ==
    /\ Turn("plans", p) /\ person[p].action # None
    /\ LET me == person[p] IN
       Set(p, CASE me.waits = "interaction" -> Checked(me, "asked", "interaction")
                [] me.waits = "text"        -> Checked(me, "textAsked", "text")
                [] me.waits = "arrived"     -> Idle(me)
                [] me.waits \in {"walk", "time"} -> me
                [] me.waits = "nothing"     -> Started(me, p))
    /\ UNCHANGED <<system, world, texts, menu, alarms>>

-----------------------------------------------------------------------------
(* InteractionExecutionSystem                                              *)

MayInteract(p, s) == ~person[p].critical /\ May(world, p, s)

\* _cancel: the execution goes, the request tells the plan.
CancelledInteraction(me) ==
    [me EXCEPT !.interaction = None,
               !.asked = IF @ = None THEN None ELSE [@ EXCEPT !.status = "failed"]]

Advance(p, me) ==
    LET s       == me.interaction.spec
        elapsed == me.interaction.elapsed + 1
    IN CASE ~MayInteract(p, s) ->
              Set(p, CancelledInteraction(me)) /\ UNCHANGED world
         [] MayInteract(p, s) /\ elapsed < Duration ->
              Set(p, [me EXCEPT !.interaction.elapsed = elapsed]) /\ UNCHANGED world
         [] MayInteract(p, s) /\ elapsed >= Duration /\ Collides(world, s) ->
              Set(p, CancelledInteraction(me)) /\ UNCHANGED world
         [] OTHER ->
              /\ world' = Commit(world, p, s)
              /\ Set(p, [me EXCEPT !.interaction = None, !.asked.status = "completed"])

BeginInteraction(p) ==
    LET me == person[p]
        s  == me.asked.spec
    IN IF MayInteract(p, s)
         THEN Advance(p, [me EXCEPT !.asked.status = "running",
                                    !.interaction = [spec |-> s, elapsed |-> 0]])
         ELSE Set(p, [me EXCEPT !.asked.status = "failed"]) /\ UNCHANGED world

InteractionStep(p) ==
    /\ Turn("interactions", p)
    /\ LET me == person[p] IN
       CASE me.interaction # None -> Advance(p, me)
         [] me.interaction = None /\ me.asked # None /\ me.asked.status = "requested" ->
              BeginInteraction(p)
         [] OTHER -> UNCHANGED <<world, person>>
    /\ UNCHANGED <<system, texts, menu, alarms>>

-----------------------------------------------------------------------------
(* TextActionExecutionSystem                                               *)

MayUseText(p, s) ==
    ~person[p].critical /\ Reaches(world, p, s.endpoint) /\ Offered(texts, s)

CancelledText(me) ==
    [me EXCEPT !.text = None,
               !.textAsked = IF @ = None THEN None ELSE [@ EXCEPT !.status = "failed"]]

FinishedText(me) == [me EXCEPT !.text = None, !.textAsked.status = "completed"]

FinishText(p, me) ==
    LET s == me.text.spec IN
    IF s.verb = "read"
      THEN /\ Set(p, [FinishedText(me) EXCEPT !.receipts = @ \cup {me.text.receipt}])
           /\ UNCHANGED texts
    ELSE IF MayWrite(texts, p, s)
      THEN texts' = Write(texts, p, s, <<p, me.decided>>) /\ Set(p, FinishedText(me))
    ELSE Set(p, CancelledText(me)) /\ UNCHANGED texts

AdvanceText(p, me) ==
    LET elapsed == me.text.elapsed + 1 IN
    CASE ~MayUseText(p, me.text.spec) -> Set(p, CancelledText(me)) /\ UNCHANGED texts
      [] MayUseText(p, me.text.spec) /\ elapsed < me.text.spec.ticks ->
           Set(p, [me EXCEPT !.text.elapsed = elapsed]) /\ UNCHANGED texts
      [] OTHER -> FinishText(p, me)

BeginText(p) ==
    LET me == person[p]
        s  == me.textAsked.spec
    IN IF MayUseText(p, s) /\ (s.verb = "read" => MayRead(texts, p, s))
         THEN AdvanceText(p, [me EXCEPT
                  !.textAsked.status = "running",
                  !.text = [spec |-> s, elapsed |-> 0,
                            receipt |-> IF s.verb = "read" THEN Receipt(texts, p, s) ELSE None]])
         ELSE Set(p, [me EXCEPT !.textAsked.status = "failed"]) /\ UNCHANGED texts

TextStep(p) ==
    /\ Turn("texts", p)
    /\ LET me == person[p] IN
       CASE me.text # None -> AdvanceText(p, me)
         [] me.text = None /\ me.textAsked # None /\ me.textAsked.status = "requested" ->
              BeginText(p)
         [] OTHER -> UNCHANGED <<texts, person>>
    /\ UNCHANGED <<system, world, menu, alarms>>

-----------------------------------------------------------------------------
(* CharacterEffectResolutionSystem                                         *)

EffectStep(p) ==
    /\ Turn("effects", p)
    /\ Set(p, [person[p] EXCEPT !.gear = Gear(p)])
    /\ UNCHANGED <<system, world, texts, menu, alarms>>

-----------------------------------------------------------------------------
(* TimedPlanActionSystem: reading for pleasure, drinking.                   *)

TimedStep(p) ==
    /\ Turn("timed", p) /\ person[p].waits = "time"
    /\ LET me == person[p] IN
       IF me.left > 1 THEN Set(p, [me EXCEPT !.left = @ - 1]) /\ UNCHANGED world
       ELSE /\ Set(p, [Idle(me) EXCEPT !.left = 0])
            /\ world' = IF me.action.verb = "DRINK"
                              /\ MayEnjoy(world, p, "DRINK", me.action.target)
                          THEN Drink(world, me.action.target) ELSE world
    /\ UNCHANGED <<system, texts, menu, alarms>>

-----------------------------------------------------------------------------
(* System1ArbitrationSystem: a need becomes critical, and is met.           *)

\* Mutant: _clear_interaction_request is not called.
DroppedExecution(me) == [me EXCEPT !.interaction = None]

\* cancel_interaction and _clear_interaction_request
DroppedInteraction(me) == [me EXCEPT !.interaction = None, !.asked = None]

\* cancel_text_action
DroppedText(me) ==
    IF me.text # None THEN CancelledText(me)
    ELSE IF me.textAsked # None /\ me.textAsked.status = "requested"
      THEN [me EXCEPT !.textAsked.status = "failed"]
    ELSE me

Preempted(me) ==
    [DroppedText(DroppedInteraction(Idle(me))) EXCEPT !.critical = TRUE, !.left = 0]

SurvivalStep(p) ==
    /\ Turn("survival", p)
    /\ \/ UNCHANGED <<person, alarms>>
       \/ /\ ~person[p].critical /\ alarms < Alarms
          /\ Set(p, Preempted(person[p])) /\ alarms' = alarms + 1
       \/ /\ person[p].critical
          /\ Set(p, [person[p] EXCEPT !.critical = FALSE]) /\ UNCHANGED alarms
    /\ UNCHANGED <<system, world, texts, menu>>

-----------------------------------------------------------------------------
(* Walking.                                                                *)

Approaches(p, x) ==
    {a \in Range(world.approach[x]) :
        Cells(p, a) \subseteq 1..Width /\ CanPlace(world, Cells(p, a), {p})}

MovementStep(p) ==
    /\ Turn("movement", p) /\ person[p].waits = "walk"
    /\ LET free == Approaches(p, person[p].action.target) IN
       IF free = {} THEN Set(p, Idle(person[p])) /\ UNCHANGED world
       ELSE /\ \E a \in free : world' = Move(world, p, a)
            /\ Set(p, [person[p] EXCEPT !.waits = "arrived"])
    /\ UNCHANGED <<system, texts, menu, alarms>>

-----------------------------------------------------------------------------
(* PerceptionSystem, and what the characters decide.                         *)

PerceptionStep(p) ==
    /\ Turn("perception", p)
    /\ LET me == person[p]
           now == Sight(p)
       IN Set(p, [me EXCEPT !.sees = now, !.minds = MindedAll(@, me.sees, now)])
    /\ UNCHANGED <<system, world, texts, menu, alarms>>

Observed(p) == Observation(world, texts, p, person[p].sees)

DecisionStep(p) ==
    /\ Turn("decisions", p)
    /\ LET me == person[p] IN
       \/ UNCHANGED person
       \/ /\ me.action = None /\ ~me.critical /\ me.decided < Decisions
          /\ \E s \in Proposed(Observed(p), menu[p]) :
                Set(p, [me EXCEPT !.action = s, !.decided = @ + 1, !.receipts = {}])
    /\ UNCHANGED <<system, world, texts, menu, alarms>>

-----------------------------------------------------------------------------
Standing == [is |-> "STANDING", on |-> None]

NewPerson ==
    [critical |-> FALSE, action |-> None, waits |-> "nothing", left |-> 0,
     asked |-> None, interaction |-> None, textAsked |-> None, text |-> None,
     receipts |-> {}, decided |-> 0, sees |-> Nothing, minds |-> Nothing,
     gear |-> [worn |-> [s \in DOMAIN Equipment |-> {}], senses |-> Senses({}), load |-> 0]]

Start(cast) ==
    /\ system = "decisions" /\ queue = <<>> /\ alarms = cast.alarms
    /\ world = cast.world /\ texts = cast.texts /\ menu = cast.menu
    /\ person = [p \in People |-> [NewPerson EXCEPT !.gear = Gear(p)]]

Next ==
    \/ NextSystem
    \/ \E p \in People :
          \/ PlanStep(p) \/ InteractionStep(p) \/ TextStep(p) \/ EffectStep(p)
          \/ TimedStep(p) \/ SurvivalStep(p) \/ MovementStep(p) \/ PerceptionStep(p)
          \/ DecisionStep(p)

-----------------------------------------------------------------------------
(* The places of Belongings.                                               *)

Hands == {<<"hands", p>> : p \in People}

Slots == UNION {{<<"slot", d, s>> : s \in DOMAIN Object[d].slots} : d \in Things}

Places == {<<"floor">>} \cup Hands \cup Slots \cup {<<"worn", p, s>> : p \in People, s \in DOMAIN Equipment}

RoomOf ==
    [pl \in Places |->
        CASE pl[1] = "floor" -> Cardinality(Entities) [] pl[1] = "hands" -> 2
          [] pl[1] = "worn"  -> Equipment[pl[3]]      [] pl[1] = "slot"  -> Object[pl[2]].slots[pl[3]].room]

OwnerOf == [pl \in Places |-> IF Len(pl) > 1 THEN pl[2] ELSE "room"]

SizeOf == [e \in Entities |-> IF e \in People THEN 1 ELSE Grip(e)]

SeatPlaces == {pl \in Slots : "OCCUPIES_SLOT" \in Object[pl[2]].slots[pl[3]].takes}

PlacesOf(e) ==
    LET r == world.rel[e] IN
    {<<"hands", p>> : p \in {q \in People : e \in Range(world.hands[q])}}
      \cup CASE r = None                            -> {<<"floor">>}
             [] r # None /\ r.kind = "ON_FLOOR"    -> {<<"floor">>}
             [] r # None /\ r.kind = "HELD_BY"     -> {}
             [] r # None /\ r.kind = "ATTACHED_TO" -> {<<"worn", r.parent, r.slot>>}
             [] OTHER                              -> {<<"slot", r.parent, r.slot>>}

Shutting == {pl \in Slots : Object[pl[2]].opens /\ "IN_CONTAINER" \in Object[pl[2]].slots[pl[3]].takes}

Abstract == INSTANCE Belongings
    WITH Room  <- RoomOf, Size <- SizeOf, Owner <- OwnerOf,
         Inner <- Shutting, Seats <- SeatPlaces,
         place <- [e \in Entities |-> PlacesOf(e)],
         shut  <- {x \in Things : Object[x].opens /\ x \notin world.open}

-----------------------------------------------------------------------------
(* Properties.                                                             *)

\* The interactions implement Belongings: whoever takes, gives, puts, wears,
\* opens or sits, each thing is in one place, changes it through somebody's
\* hands within what the place takes, and never through what is shut.
ImplementsBelongings == Abstract!Spec

HandsAgree(w) ==
    \A x \in Things, p \in People, h \in {"left", "right"} :
        w.hands[p][h] = x <=> HeldBy(w, x, p) /\ w.rel[x].slot \in {h, "both"}

\* The things that their definitions put in the custody of p, who does not have them.
Owed(w, p) == {x \in DOMAIN w.lent : w.lent[x] = p}

\* A thing is in the custody of who has it, or still where its definition puts it.
KeepersAgree(w) ==
    \A x \in Things :
        \/ w.keeper[x] = Keeper(x, w.rel[x])
        \/ x \in DOMAIN w.lent /\ w.keeper[x] = w.lent[x]

IndexAgrees(w) ==
    \A x \in Things : w.rel[x] # None =>
        (x \in w.indexed <=> w.rel[x].kind \in {"ON_FLOOR", "ON_SUPPORT", "OCCUPIES_SLOT"})

PosturesAgree(w) ==
    \A p \in People :
        /\ w.posture[p].on # None => Has(w, p, "OCCUPIES_SLOT", w.posture[p].on)
        /\ w.posture[p] = Standing <=> w.rel[p] = None

\* What is on a support, in a container or in a seat, and fills its slot.
Fills(w, e) == w.rel[e] # None /\ w.rel[e].kind \in {"ON_SUPPORT", "IN_CONTAINER", "OCCUPIES_SLOT"}

Filling(w, d, s) == {e \in InSlot(w, d, s) : Fills(w, e)}

SlotsSuffice(w) ==
    \A e \in Entities :
        LET r == w.rel[e] IN
        Fills(w, e)
        => Cardinality(Filling(w, r.parent, r.slot)) <= Object[r.parent].slots[r.slot].room

Agreed(w) ==
    /\ ~w.raised
    /\ HandsAgree(w) /\ KeepersAgree(w) /\ IndexAgrees(w) /\ PosturesAgree(w)
    /\ SlotsSuffice(w)

\* The five accounts of who has what agree: the hands of a character, the
\* relation and the custody of a thing, the spatial index, the posture of a
\* body and the room of every slot.  Each interaction updates them one after
\* the other (interactions.py, _commit_*).  A scenario may leave a thing in the
\* custody of who does not have it, and there it stays until somebody takes it.
BodiesAgree == Agreed(world)

\* Each revision follows the one before it: only what was there and not gone is
\* changed, and what may only be appended to keeps all it had.
RevisionsFollow(a) ==
    /\ \A n \in 2..Len(a.history) :
          LET old == a.history[n - 1].blocks
              new == a.history[n].blocks
          IN /\ a.history[n].from = n - 1
             /\ \A i \in DOMAIN old :
                  /\ new[i].id = old[i].id
                  /\ old[i].gone => new[i] = old[i]
                  /\ a.mode = "append_only" => new[i] = old[i]
    /\ a.mode = "immutable" => Len(a.history) = 1

Sent(r, id) ==
    \E c \in DOMAIN r.collections : r.collections[c].kind = "sent" /\ id \in r.collections[c].members

\* The scenario's ids end in 0, and those of what the run writes in the number of
\* the decision to write it.
Made(id) == id[2] # 0

\* Only mail comes into this collection: nobody may create a text in it.
ByMail(held) ==
    held.kind = "mailbox" /\ ("create" \in DOMAIN held.policy => held.policy["create"] = {})

\* The mailbox of this address is the mailbox of no other, and only mail comes in.
OwnMailbox(r, to) ==
    /\ ByMail(r.collections[Address[to].mailbox])
    /\ \A other \in DOMAIN Address : Address[other].mailbox = Address[to].mailbox => other = to

MailAgrees(r) ==
    /\ \A to \in DOMAIN Address : OwnMailbox(r, to) =>
          r.unread[to] = Cardinality({id \in r.collections[Address[to].mailbox].members : Made(id)})
    /\ \A c \in DOMAIN r.collections : ByMail(r.collections[c]) =>
          \A id \in r.collections[c].members : Made(id) => Sent(r, id)

\* Nobody writes over what they have not seen, nothing of a text is lost but
\* what its writer took away, and a message that the run sends is in two mailboxes
\* and is counted once, where a mailbox is one address's and takes nothing but mail
\* (TextContentRegistry; the writing takes ticks, and others write too).
TextIsWhole ==
    /\ \A id \in DOMAIN texts.artifacts : RevisionsFollow(texts.artifacts[id])
    /\ MailAgrees(texts)

\* The request and the execution of an interaction exist exactly while the plan
\* waits for them: the plan, the interaction and the survival system each remove
\* them (plans.py, interactions.py, system1.py), and one left behind would make
\* every later INTERACT of the character fail.
RequestsServePlans ==
    \A p \in People :
        LET me == person[p] IN
        /\ (me.asked # None) <=> (me.waits = "interaction")
        /\ me.interaction # None => me.asked # None /\ me.asked.spec = me.interaction.spec
        /\ (me.interaction # None) <=> (me.asked # None /\ me.asked.status = "running")
        /\ me.text # None => me.waits = "text" /\ me.textAsked.status = "running"
        /\ me.waits # "nothing" => me.action # None
        /\ me.critical => me.action = None

\* A text action that System 1 interrupts ends, and the character may read and
\* write again: no request stays that no plan waits for.
TextRequestsServePlans ==
    \A p \in People : person[p].textAsked # None => person[p].waits = "text"
=============================================================================
