------------------------ MODULE CharacterTickProofs ------------------------
(***************************************************************************)
(* For any number of characters, rooms, stations and drives: every action  *)
(* ends once, a plan waits for the work that is there, System 1 owns the   *)
(* body while it corrects, what a character shows has a cause and no       *)
(* station is overbooked.                                                  *)
(*                                                                         *)
(* The argument: all but the last speak of one character, and each system  *)
(* turns a sound character into a sound one, helper by helper.  The        *)
(* stations are shared; an occupation or an aim is checked against the     *)
(* others in the iteration that takes it, and every other iteration only   *)
(* gives up what the character has.                                        *)
(***************************************************************************)
EXTENDS CharacterTick, TLAPS, SequenceTheorems, FiniteSetTheorems, WellFoundedInduction

\* Apart from the plan and its story, the same character.
Rest(c, d) ==
    /\ d.at = c.at /\ d.nav = c.nav /\ d.goal = c.goal /\ d.walking = c.walking
    /\ d.activity = c.activity /\ d.drive = c.drive /\ d.request = c.request
    /\ d.execution = c.execution /\ d.zone = c.zone /\ d.raised = c.raised
    /\ d.arrived = c.arrived

\* The actions ids end, each with one event, and the others go on.
Ending(c, d, ids) ==
    /\ DOMAIN d.story = DOMAIN c.story
    /\ \A id \in DOMAIN c.story \ ids : Ends(d, id) = Ends(c, id)
    /\ \A id \in DOMAIN c.story \intersect ids :
         Ends(d, id) # {} /\ (Ends(c, id) = {} => Cardinality(Ends(d, id)) <= 1)

\* What one iteration, or a part of it, may do to the actions of a character.
Lives(c, d) ==
    /\ DOMAIN c.story \subseteq DOMAIN d.story
    /\ \A id \in DOMAIN c.story : Ends(c, id) # {} => Ends(d, id) # {}
    /\ \A id \in LiveIds(c) :
         \/ id \in LiveIds(d) \/ Ends(d, id) # {}
         \/ SurvivalNavigation(c) /\ id = c.plan.current.id
    /\ SurvivalNavigation(d) =>
         \/ d.plan.current.id \notin DOMAIN c.story
         \/ SurvivalNavigation(c) /\ d.plan.current.id = c.plan.current.id

-----------------------------------------------------------------------------
(* Plans and their stories.                                                *)

\* The fields of a character.
LEMMA Fields ==
    ASSUME NEW c \in Characters
    PROVE  /\ c.plan \in Plans /\ c.story \in Seq(Seq(Events)) /\ c.at \in Places
           /\ c.nav \in Navigations /\ c.goal \in Places \union {None} /\ c.walking \in BOOLEAN
           /\ c.activity \in Shows /\ c.drive \in Controls
           /\ c.request \in Requests \union {None} /\ c.execution \in Executions \union {None}
           /\ c.zone \in [Drives -> Zones] /\ c.raised \in BOOLEAN /\ c.arrived \in BOOLEAN
BY DEF Characters

LEMMA PlanFields ==
    ASSUME NEW c \in Characters
    PROVE  /\ c.plan.open \in BOOLEAN /\ c.plan.queue \in Seq(Actions)
           /\ c.plan.current \in Actions \union {None} /\ c.plan.timer \in 0..Duration
           /\ c.plan.before \in Shown /\ c.plan.waiting \in {"no", "affordance"}
           /\ c.plan.current = None \/ c.plan.current.id \in Nat
BY Fields DEF Plans, Actions

LEMMA TellIs ==
    ASSUME NEW c \in Characters, NEW ids, NEW event \in Events
    PROVE  LET d == Tell(c, ids, event) IN
           /\ d \in Characters /\ d.plan = c.plan /\ Rest(c, d)
           /\ event \in Terminal => Ending(c, d, ids)
           /\ event \notin Terminal => Ending(c, d, {})
<1> DEFINE d == Tell(c, ids, event)
           story == [i \in DOMAIN c.story |-> IF i \in ids THEN Append(c.story[i], event)
                                                           ELSE c.story[i]]
<1>1. c.story \in Seq(Seq(Events))
  BY Fields
<1>2. \A i \in DOMAIN c.story :
          c.story[i] \in Seq(Events) /\ Append(c.story[i], event) \in Seq(Events)
  BY <1>1
<1>3. story \in Seq(Seq(Events)) /\ DOMAIN story = DOMAIN c.story
  <2>1. DOMAIN c.story = 1..Len(c.story) /\ Len(c.story) \in Nat
    BY <1>1
  <2>2. story \in [1..Len(c.story) -> Seq(Events)]
    BY <1>2, <2>1
  <2> QED BY <2>1, <2>2
<1>4. d = [c EXCEPT !.story = story]
  BY DEF Tell
<1> HIDE DEF story, d
<1>5. d \in Characters /\ d.plan = c.plan /\ d.story = story /\ Rest(c, d)
  BY <1>3, <1>4 DEF Characters, Rest
<1>6. ASSUME NEW id \in DOMAIN c.story, id \notin ids PROVE Ends(d, id) = Ends(c, id)
  BY <1>5, <1>6 DEF Ends, story
<1>7. ASSUME NEW id \in DOMAIN c.story, id \in ids
      PROVE  Ends(d, id) = IF event \in Terminal THEN Ends(c, id) \union {Len(c.story[id]) + 1}
                                                 ELSE Ends(c, id)
  <2> DEFINE w == c.story[id]
             v == Append(w, event)
  <2>1. d.story[id] = v
    BY <1>5, <1>7 DEF story
  <2>2. /\ Len(v) = Len(w) + 1 /\ Len(w) \in Nat
        /\ DOMAIN w = 1..Len(w) /\ DOMAIN v = 1..Len(v)
        /\ v[Len(w) + 1] = event /\ \A n \in 1..Len(w) : v[n] = w[n]
    BY <1>2, <1>7
  <2> HIDE DEF w, v
  <2>3. DOMAIN v = DOMAIN w \union {Len(w) + 1}
    BY <2>2
  <2>4. {n \in DOMAIN v : v[n] \in Terminal} =
          IF event \in Terminal THEN {n \in DOMAIN w : w[n] \in Terminal} \union {Len(w) + 1}
                                ELSE {n \in DOMAIN w : w[n] \in Terminal}
    BY <2>2, <2>3
  <2> QED BY <2>1, <2>4 DEF Ends, w, v
<1>8. ASSUME event \in Terminal PROVE Ending(c, d, ids)
  <2>1. ASSUME NEW id \in DOMAIN c.story \intersect ids
        PROVE  Ends(d, id) # {} /\ (Ends(c, id) = {} => Cardinality(Ends(d, id)) <= 1)
    <3>1. Ends(d, id) = Ends(c, id) \union {Len(c.story[id]) + 1}
      BY <1>7, <1>8, <2>1
    <3>2. Cardinality({Len(c.story[id]) + 1}) = 1
      BY FS_Singleton
    <3>3. Ends(c, id) = {} => Ends(d, id) = {Len(c.story[id]) + 1}
      BY <3>1
    <3>4. Ends(d, id) # {}
      BY <3>1
    <3>5. Ends(c, id) = {} => Cardinality(Ends(d, id)) = 1
      BY <3>2, <3>3
    <3> HIDE DEF d
    <3> QED BY <3>4, <3>5
  <2> QED BY <1>3, <1>5, <1>6, <2>1 DEF Ending
<1>9. ASSUME event \notin Terminal PROVE Ending(c, d, {})
  BY <1>3, <1>5, <1>6, <1>7, <1>9 DEF Ending
<1> QED BY <1>5, <1>8, <1>9 DEF d

\* Another plan, the same story.
LEMMA ReplanIs ==
    ASSUME NEW c \in Characters, NEW plan \in Plans
    PROVE  LET d == [c EXCEPT !.plan = plan] IN
           /\ d \in Characters /\ d.plan = plan /\ d.story = c.story /\ Rest(c, d)
           /\ \A b, ids : Ending(b, c, ids) => Ending(b, d, ids)
<1> DEFINE d == [c EXCEPT !.plan = plan]
<1>1. d \in Characters /\ d.plan = plan /\ d.story = c.story /\ Rest(c, d)
  BY DEF Characters, Rest
<1> HIDE DEF d
<1>2. \A id : Ends(d, id) = Ends(c, id)
  BY <1>1 DEF Ends
<1>3. \A b, ids : Ending(b, c, ids) => Ending(b, d, ids)
  BY <1>1, <1>2 DEF Ending
<1> QED BY <1>1, <1>3 DEF d

LEMMA EmptyPlanIs ==
    /\ EmptyPlan \in Plans /\ EmptyPlan.queue = <<>> /\ EmptyPlan.current = None
    /\ EmptyPlan.timer = 0 /\ EmptyPlan.waiting = "no" /\ EmptyPlan.before = "NONE"
BY BoundsAssumption DEF EmptyPlan, Plans, Shown

\* The plan without its current action.
LEMMA EndCurrentIs ==
    ASSUME NEW c \in Characters, NEW event \in Terminal
    PROVE  LET d == EndCurrent(c, event) IN
           /\ d \in Characters /\ Rest(c, d) /\ Ending(c, d, CurrentIds(c))
           /\ d.plan = [EmptyPlan EXCEPT !.open = c.plan.open, !.queue = c.plan.queue]
<1> DEFINE t == Tell(c, CurrentIds(c), event)
           plan == [EmptyPlan EXCEPT !.open = c.plan.open, !.queue = c.plan.queue]
<1>1. t \in Characters /\ Rest(c, t) /\ Ending(c, t, CurrentIds(c))
  BY TellIs DEF Events
<1>2. plan \in Plans
  BY PlanFields, EmptyPlanIs DEF Plans
<1>3. EndCurrent(c, event) = [t EXCEPT !.plan = plan]
  BY DEF EndCurrent
<1> HIDE DEF t
<1>4. LET d == [t EXCEPT !.plan = plan] IN
      d \in Characters /\ d.plan = plan /\ Rest(t, d) /\ Ending(c, d, CurrentIds(c))
  <2> HIDE DEF plan
  <2> QED BY <1>1, <1>2, ReplanIs
<1> QED BY <1>1, <1>3, <1>4 DEF Rest

LEMMA ClearIs ==
    ASSUME NEW c \in Characters
    PROVE  LET d == ClearPlanLineage(c) IN
           /\ d \in Characters /\ d.plan = EmptyPlan /\ Rest(c, d)
           /\ Ending(c, d, CurrentIds(c) \union QueuedIds(c))
<1> DEFINE ids == CurrentIds(c) \union QueuedIds(c)
           t == Tell(c, ids, "cancelled")
<1>1. t \in Characters /\ Rest(c, t) /\ Ending(c, t, ids)
  BY TellIs DEF Events, Terminal
<1>2. ClearPlanLineage(c) = [t EXCEPT !.plan = EmptyPlan]
  BY DEF ClearPlanLineage
<1> HIDE DEF t, ids
<1>3. LET d == [t EXCEPT !.plan = EmptyPlan] IN
      d \in Characters /\ d.plan = EmptyPlan /\ Rest(t, d) /\ Ending(c, d, ids)
  BY <1>1, EmptyPlanIs, ReplanIs
<1> QED BY <1>1, <1>2, <1>3 DEF Rest, ids

LEMMA CompleteIs ==
    ASSUME NEW c \in Characters
    PROVE  LET d == CompletePlanAction(c) IN
           /\ d \in Characters /\ Rest(c, d) /\ Ending(c, d, CurrentIds(c))
           /\ d.plan.queue = c.plan.queue /\ d.plan.current = None
           /\ d.plan.timer = 0 /\ d.plan.waiting = "no" /\ d.plan.before = "NONE"
<1> DEFINE e == EndCurrent(c, "completed")
           open == c.plan.queue # <<>>
           plan == [e.plan EXCEPT !.open = open]
<1>1. /\ e \in Characters /\ Rest(c, e) /\ Ending(c, e, CurrentIds(c))
      /\ e.plan = [EmptyPlan EXCEPT !.open = c.plan.open, !.queue = c.plan.queue]
  BY EndCurrentIs DEF Terminal
<1>2. /\ e.plan.queue = c.plan.queue /\ e.plan.current = None
      /\ e.plan.timer = 0 /\ e.plan.waiting = "no" /\ e.plan.before = "NONE"
  BY <1>1 DEF EmptyPlan
<1>3. CompletePlanAction(c) = [e EXCEPT !.plan = plan]
  BY DEF CompletePlanAction
<1>4. open \in BOOLEAN
  OBVIOUS
<1> HIDE DEF e, open
<1>5. /\ plan \in Plans /\ plan.queue = e.plan.queue /\ plan.current = e.plan.current
      /\ plan.timer = e.plan.timer /\ plan.waiting = e.plan.waiting
      /\ plan.before = e.plan.before
  BY <1>1, <1>4, Fields DEF Plans
<1> HIDE DEF plan
<1>6. LET d == [e EXCEPT !.plan = plan] IN
      d \in Characters /\ d.plan = plan /\ Rest(e, d) /\ Ending(c, d, CurrentIds(c))
  BY <1>1, <1>5, ReplanIs
<1> QED BY <1>1, <1>2, <1>3, <1>5, <1>6 DEF Rest

LEMMA FailIs ==
    ASSUME NEW c \in Characters, CurrentIds(c) \intersect QueuedIds(c) = {}
    PROVE  LET d == FailPlanAction(c) IN
           /\ d \in Characters /\ d.plan = EmptyPlan /\ Rest(c, d)
           /\ Ending(c, d, CurrentIds(c) \union QueuedIds(c))
<1> DEFINE e == EndCurrent(c, "failed")
           d == ClearPlanLineage(e)
<1>1. /\ e \in Characters /\ Rest(c, e) /\ Ending(c, e, CurrentIds(c))
      /\ e.plan = [EmptyPlan EXCEPT !.open = c.plan.open, !.queue = c.plan.queue]
  BY EndCurrentIs DEF Terminal
<1>2. e.plan.queue = c.plan.queue /\ e.plan.current = None
  BY <1>1 DEF EmptyPlan
<1>3. CurrentIds(e) = {} /\ QueuedIds(e) = QueuedIds(c)
  BY <1>2 DEF CurrentIds, QueuedIds
<1> HIDE DEF e
<1>4. /\ d \in Characters /\ d.plan = EmptyPlan /\ Rest(e, d)
      /\ Ending(e, d, QueuedIds(c))
  BY <1>1, <1>3, ClearIs
<1>5. d = FailPlanAction(c)
  BY DEF FailPlanAction, e
<1> HIDE DEF d
<1>6. Ending(c, d, CurrentIds(c) \union QueuedIds(c))
  BY <1>1, <1>4 DEF Ending
<1> QED BY <1>1, <1>4, <1>5, <1>6 DEF Rest

\* The next action of a plan becomes the current one.
LEMMA TakeIs ==
    ASSUME NEW c \in Characters, c.plan.queue # <<>>
    PROVE  LET d == TakeNext(c)
               plan == [c.plan EXCEPT !.current = Head(c.plan.queue), !.queue = Tail(@)] IN
           /\ d \in Characters /\ Rest(c, d) /\ d.story = c.story
           /\ d.plan = plan
           /\ d.plan.current = Head(c.plan.queue) /\ d.plan.current \in Actions
           /\ d.plan.queue = Tail(c.plan.queue)
           /\ d.plan.timer = c.plan.timer /\ d.plan.waiting = c.plan.waiting
           /\ d.plan.before = c.plan.before
<1> DEFINE h == Head(c.plan.queue)
           t == Tail(c.plan.queue)
           plan == [c.plan EXCEPT !.current = h, !.queue = t]
           d == TakeNext(c)
<1>1. h \in Actions /\ t \in Seq(Actions)
  <2> DEFINE q == c.plan.queue
  <2>1. q \in Seq(Actions) /\ q # <<>>
    BY PlanFields
  <2> HIDE DEF q
  <2>2. Head(q) \in Actions /\ Tail(q) \in Seq(Actions)
    BY <2>1, HeadTailProperties
  <2> QED BY <2>2 DEF q
<1>2. d = [c EXCEPT !.plan = plan]
  <2>1. plan = [c.plan EXCEPT !.current = Head(c.plan.queue), !.queue = Tail(@)]
    BY Fields DEF Plans
  <2> QED BY <2>1 DEF TakeNext
<1>3. [c.plan EXCEPT !.current = Head(c.plan.queue), !.queue = Tail(@)] = plan
  BY Fields DEF Plans
<1> HIDE DEF h, t
<1>4. /\ plan \in Plans /\ plan.current = h /\ plan.queue = t /\ plan.timer = c.plan.timer
      /\ plan.waiting = c.plan.waiting /\ plan.before = c.plan.before
  BY <1>1, Fields DEF Plans
<1> HIDE DEF plan
<1>5. d \in Characters /\ d.plan = plan /\ d.story = c.story /\ Rest(c, d)
  BY <1>2, <1>4, ReplanIs
<1> HIDE DEF d
<1> QED BY <1>1, <1>3, <1>4, <1>5 DEF d, h, t

\* One more action, which nobody has told the end of.
Announced(c, d) ==
    /\ DOMAIN d.story = DOMAIN c.story \union {Len(c.story) + 1}
    /\ Len(c.story) + 1 \notin DOMAIN c.story
    /\ \A id \in DOMAIN c.story : Ends(d, id) = Ends(c, id)
    /\ Ends(d, Len(c.story) + 1) = {}

LEMMA AnnounceIs ==
    ASSUME NEW c \in Characters
    PROVE  LET d == Announce(c) IN
           /\ d \in Characters /\ d.plan = c.plan /\ Rest(c, d) /\ Announced(c, d)
           /\ Len(c.story) \in Nat
<1> DEFINE d == Announce(c)
           w == c.story
           v == Append(w, <<"queued">>)
<1>1. w \in Seq(Seq(Events)) /\ <<"queued">> \in Seq(Events)
  BY Fields DEF Events
<1>2. d = [c EXCEPT !.story = v]
  BY DEF Announce
<1>3. v \in Seq(Seq(Events))
  BY <1>1
<1>4. /\ Len(v) = Len(w) + 1 /\ Len(w) \in Nat
      /\ DOMAIN w = 1..Len(w) /\ DOMAIN v = 1..Len(v)
      /\ v[Len(w) + 1] = <<"queued">> /\ \A n \in 1..Len(w) : v[n] = w[n]
  BY <1>1
<1> HIDE DEF v
<1>5. d \in Characters /\ d.plan = c.plan /\ Rest(c, d) /\ d.story = v
  BY <1>2, <1>3 DEF Characters, Rest
<1> HIDE DEF d
<1>6. DOMAIN v = DOMAIN w \union {Len(w) + 1} /\ Len(w) + 1 \notin DOMAIN w
  BY <1>4
<1>7. \A id \in DOMAIN w : Ends(d, id) = Ends(c, id)
  BY <1>4, <1>5 DEF Ends
<1>8. Ends(d, Len(w) + 1) = {}
  <2>1. d.story[Len(w) + 1] = <<"queued">>
    BY <1>4, <1>5
  <2>2. \A n \in DOMAIN <<"queued">> : <<"queued">>[n] \notin Terminal
    BY DEF Terminal
  <2> QED BY <2>1, <2>2 DEF Ends
<1> QED BY <1>4, <1>5, <1>6, <1>7, <1>8 DEF Announced, d

\* What is needed of the ids to go from one part of an iteration to the next.
LEMMA LivesOn ==
    ASSUME NEW c, NEW d, NEW e, LiveIds(c) \subseteq DOMAIN c.story, Lives(c, d), Lives(d, e)
    PROVE  Lives(c, e)
<1>1. DOMAIN c.story \subseteq DOMAIN e.story
  BY DEF Lives
<1>2. \A id \in DOMAIN c.story : Ends(c, id) # {} => Ends(e, id) # {}
  BY DEF Lives
<1>3. ASSUME NEW id \in LiveIds(c)
      PROVE  \/ id \in LiveIds(e) \/ Ends(e, id) # {}
             \/ SurvivalNavigation(c) /\ id = c.plan.current.id
  <2>1. CASE Ends(d, id) # {}
    BY <2>1 DEF Lives
  <2>2. CASE id \in LiveIds(d)
    BY <2>2 DEF Lives
  <2> QED BY <2>1, <2>2 DEF Lives
<1>4. SurvivalNavigation(e) =>
        \/ e.plan.current.id \notin DOMAIN c.story
        \/ SurvivalNavigation(c) /\ e.plan.current.id = c.plan.current.id
  BY DEF Lives
<1> QED BY <1>1, <1>2, <1>3, <1>4 DEF Lives

\* The iteration leaves what the character does to a station alone.
Steady(c, d) == Lives(c, d) /\ d.drive = c.drive /\ d.execution = c.execution

LEMMA SteadyOn ==
    ASSUME NEW c, NEW d, NEW e, LiveIds(c) \subseteq DOMAIN c.story, Steady(c, d), Steady(d, e)
    PROVE  Steady(c, e)
BY LivesOn DEF Steady

\* Some live actions end and the others live on.
LEMMA SomeEnd ==
    ASSUME NEW c, NEW d, LifeSound(c), NEW S, S \subseteq LiveIds(c), Ending(c, d, S),
           LiveIds(d) = LiveIds(c) \ S, Distinct(d),
           SurvivalNavigation(d) => /\ SurvivalNavigation(c)
                                    /\ d.plan.current.id = c.plan.current.id
    PROVE  LifeSound(d) /\ Lives(c, d)
<1>1. \A id \in DOMAIN d.story : Cardinality(Ends(d, id)) <= 1
  <2> TAKE id \in DOMAIN d.story
  <2>1. CASE id \in S
    BY <2>1 DEF LifeSound, Ending
  <2>2. CASE id \notin S
    BY <2>2 DEF LifeSound, Ending
  <2> QED BY <2>1, <2>2
<1>2. \A id \in LiveIds(d) : id \in DOMAIN d.story /\ Ends(d, id) = {}
  BY DEF LifeSound, Ending
<1>3. \A id \in DOMAIN c.story : Ends(c, id) # {} => Ends(d, id) # {}
  BY DEF LifeSound, Ending
<1>4. \A id \in LiveIds(c) : id \in LiveIds(d) \/ Ends(d, id) # {}
  BY DEF LifeSound, Ending
<1>5. DOMAIN d.story = DOMAIN c.story
  BY DEF Ending
<1> QED BY <1>1, <1>2, <1>3, <1>4, <1>5 DEF LifeSound, Lives

\* The same live actions in the same places.
LEMMA NoneEnd ==
    ASSUME NEW c, NEW d, LifeSound(c), d.story = c.story \/ Ending(c, d, {}),
           d.plan.current = c.plan.current, d.plan.queue = c.plan.queue,
           d.drive.correction = c.drive.correction
    PROVE  LifeSound(d) /\ Lives(c, d)
<1>1. Ending(c, d, {})
  BY DEF Ending, Ends
<1>2. /\ CurrentIds(d) = CurrentIds(c) /\ QueuedIds(d) = QueuedIds(c)
      /\ LiveIds(d) = LiveIds(c)
  BY DEF CurrentIds, QueuedIds, LiveIds
<1>3. Distinct(d)
  BY <1>2 DEF LifeSound, Distinct
<1>4. SurvivalNavigation(d) <=> SurvivalNavigation(c)
  BY DEF SurvivalNavigation
<1> QED BY <1>1, <1>2, <1>3, <1>4, SomeEnd

\* A live action more.
LEMMA OneMore ==
    ASSUME NEW c, NEW d, LifeSound(c), Announced(c, d), Distinct(d),
           LiveIds(d) = LiveIds(c) \union {Len(c.story) + 1},
           SurvivalNavigation(d) =>
             \/ d.plan.current.id = Len(c.story) + 1
             \/ SurvivalNavigation(c) /\ d.plan.current.id = c.plan.current.id
    PROVE  LifeSound(d) /\ Lives(c, d)
<1>1. Cardinality({}) = 0
  BY FS_EmptySet
<1>2. \A id \in DOMAIN d.story : Cardinality(Ends(d, id)) <= 1
  <2> TAKE id \in DOMAIN d.story
  <2>1. CASE id = Len(c.story) + 1
    <3>1. Ends(d, id) = {}
      BY <2>1 DEF Announced
    <3> QED BY <1>1, <3>1
  <2>2. CASE id # Len(c.story) + 1
    BY <2>2 DEF LifeSound, Announced
  <2> QED BY <2>1, <2>2
<1>3. \A id \in LiveIds(d) : id \in DOMAIN d.story /\ Ends(d, id) = {}
  BY DEF LifeSound, Announced
<1> QED BY <1>2, <1>3 DEF LifeSound, Lives, Announced

\* The plan ends; what System 1 corrects goes on.
LEMMA PlanEnds ==
    ASSUME NEW c, NEW d, LifeSound(c), d.plan.current = None, d.plan.queue = <<>>,
           d.drive.correction = c.drive.correction,
           Ending(c, d, CurrentIds(c) \union QueuedIds(c))
    PROVE  LifeSound(d) /\ Lives(c, d)
<1>1. CurrentIds(d) = {} /\ QueuedIds(d) = {}
  BY DEF CurrentIds, QueuedIds
<1>2. LiveIds(d) = LiveIds(c) \ (CurrentIds(c) \union QueuedIds(c))
  BY <1>1 DEF LiveIds, LifeSound, Distinct
<1>3. Distinct(d)
  BY <1>1 DEF Distinct
<1>4. ~SurvivalNavigation(d)
  BY DEF SurvivalNavigation
<1>5. CurrentIds(c) \union QueuedIds(c) \subseteq LiveIds(c)
  BY DEF LiveIds
<1> QED BY <1>2, <1>3, <1>4, <1>5, SomeEnd

\* The current action ends; what is queued and what System 1 corrects go on.
LEMMA CurrentEnds ==
    ASSUME NEW c, NEW d, LifeSound(c), d.plan.current = None, d.plan.queue = c.plan.queue,
           d.drive.correction = c.drive.correction, Ending(c, d, CurrentIds(c))
    PROVE  LifeSound(d) /\ Lives(c, d)
<1>1. CurrentIds(d) = {} /\ QueuedIds(d) = QueuedIds(c)
  BY DEF CurrentIds, QueuedIds
<1>2. LiveIds(d) = LiveIds(c) \ CurrentIds(c)
  BY <1>1 DEF LiveIds, LifeSound, Distinct
<1>3. Distinct(d)
  BY <1>1 DEF LifeSound, Distinct
<1>4. ~SurvivalNavigation(d)
  BY DEF SurvivalNavigation
<1>5. CurrentIds(c) \subseteq LiveIds(c)
  BY DEF LiveIds
<1> QED BY <1>2, <1>3, <1>4, <1>5, SomeEnd

-----------------------------------------------------------------------------
(* The end of a plan or of its current action.                             *)

\* No work of the plan is left, so that it may end.
Freed(c) ==
    /\ c \in Characters /\ LifeSound(c) /\ DriveSound(c)
    /\ c.request = None /\ (c.execution # None => c.execution.source = "system1")
    /\ \A i \in DOMAIN c.plan.queue : c.plan.queue[i].origin = "plan"
    /\ c.walking => c.goal # None
    /\ c.goal # None => c.at # c.goal /\ RoomOf[c.at] = RoomOf[c.goal]
    /\ c.drive.state = "NORMAL" => c.goal = None
    /\ \/ c.activity.current \in Calm
       \/ c.execution # None /\ c.activity.current = c.execution.act
    /\ c.activity.override =>
         \/ c.activity.before \in Calm \union {"NONE"}
         \/ c.execution # None /\ c.activity.before = c.execution.act
    /\ c.execution # None => c.execution.before \in Calm

\* What the end of a plan leaves.
LEMMA PlanGone ==
    ASSUME NEW c, Freed(c), NEW d \in Characters, LifeSound(d), Rest(c, d),
           d.plan.current = None, d.plan.timer = 0, d.plan.waiting = "no",
           d.plan.queue \in {<<>>, c.plan.queue}
    PROVE  Sound(d)
<1>1. ~SurvivalNavigation(d)
  BY DEF SurvivalNavigation
<1>2. PlanSound(d)
  BY <1>1 DEF PlanSound, Freed
<1>3. RequestSound(d)
  BY DEF RequestSound, Freed, Rest
<1>4. DriveSound(d)
  BY DEF DriveSound, Freed, Rest
<1>5. MoveSound(d)
  BY DEF MoveSound, Freed, Rest
<1>6. ActivitySound(d)
  BY DEF ActivitySound, Freed, Rest
<1> QED BY <1>2, <1>3, <1>4, <1>5, <1>6 DEF Sound

LEMMA FailSoundly ==
    ASSUME NEW c, Freed(c)
    PROVE  LET d == FailPlanAction(c) IN
           /\ Sound(d) /\ Steady(c, d) /\ Rest(c, d)
           /\ d.plan.current = None /\ d.plan.queue = <<>>
<1> DEFINE d == FailPlanAction(c)
<1>1. c \in Characters /\ LifeSound(c) /\ CurrentIds(c) \intersect QueuedIds(c) = {}
  BY DEF Freed, LifeSound, Distinct
<1>2. /\ d \in Characters /\ d.plan = EmptyPlan /\ Rest(c, d)
      /\ Ending(c, d, CurrentIds(c) \union QueuedIds(c))
  BY <1>1, FailIs
<1> HIDE DEF d
<1>3. /\ d.plan.current = None /\ d.plan.queue = <<>> /\ d.plan.timer = 0
      /\ d.plan.waiting = "no" /\ d.drive.correction = c.drive.correction
  BY <1>2, EmptyPlanIs DEF Rest
<1>4. LifeSound(d) /\ Lives(c, d)
  BY <1>1, <1>2, <1>3, PlanEnds
<1>5. Sound(d)
  BY <1>2, <1>3, <1>4, PlanGone
<1> QED BY <1>2, <1>3, <1>4, <1>5 DEF d, Rest, Steady

LEMMA CompleteSoundly ==
    ASSUME NEW c, Freed(c)
    PROVE  LET d == CompletePlanAction(c) IN
           /\ Sound(d) /\ Steady(c, d) /\ Rest(c, d)
           /\ d.plan.current = None /\ d.plan.queue = c.plan.queue
<1> DEFINE d == CompletePlanAction(c)
<1>1. c \in Characters /\ LifeSound(c)
  BY DEF Freed
<1>2. /\ d \in Characters /\ Rest(c, d) /\ Ending(c, d, CurrentIds(c))
      /\ d.plan.queue = c.plan.queue /\ d.plan.current = None
      /\ d.plan.timer = 0 /\ d.plan.waiting = "no"
  BY <1>1, CompleteIs
<1> HIDE DEF d
<1>3. d.drive.correction = c.drive.correction
  BY <1>2 DEF Rest
<1>4. LifeSound(d) /\ Lives(c, d)
  BY <1>1, <1>2, <1>3, CurrentEnds
<1>5. Sound(d)
  BY <1>2, <1>4, PlanGone
<1> QED BY <1>2, <1>4, <1>5 DEF d, Rest, Steady

\* A sound character whose plan waits for nothing and walks nowhere.
LEMMA MayEnd ==
    ASSUME NEW c, Sound(c), c.plan.waiting = "no", c.plan.timer = 0,
           c.drive.state = "NORMAL" => c.goal = None
    PROVE  Freed(c)
<1>1. c.request = None /\ (c.execution # None => c.execution.source = "system1")
  <2>1. c.request = None
    BY DEF Sound, RequestSound
  <2>2. c.execution # None => c.execution.source \in {"plan", "system1"}
    BY DEF Sound, Characters, Executions
  <2> QED BY <2>1, <2>2 DEF Sound, RequestSound
<1>2. /\ c \in Characters /\ LifeSound(c) /\ DriveSound(c)
      /\ \A i \in DOMAIN c.plan.queue : c.plan.queue[i].origin = "plan"
  BY DEF Sound, PlanSound
<1>3. /\ c.walking => c.goal # None
      /\ c.goal # None => c.at # c.goal /\ RoomOf[c.at] = RoomOf[c.goal]
  BY DEF Sound, MoveSound
<1>4. /\ \/ c.activity.current \in Calm
         \/ c.execution # None /\ c.activity.current = c.execution.act
      /\ c.activity.override =>
           \/ c.activity.before \in Calm \union {"NONE"}
           \/ c.execution # None /\ c.activity.before = c.execution.act
      /\ c.execution # None => c.execution.before \in Calm
  BY DEF Sound, ActivitySound
<1> QED BY <1>1, <1>2, <1>3, <1>4 DEF Freed

-----------------------------------------------------------------------------
(* Navigation.                                                             *)

\* Nothing but the way the body moves is different.
LEMMA SameWork ==
    ASSUME NEW c, Sound(c), NEW d \in Characters, d.plan = c.plan, d.story = c.story,
           d.activity = c.activity, d.drive = c.drive, d.request = c.request,
           d.execution = c.execution
    PROVE  /\ Steady(c, d) /\ LifeSound(d) /\ PlanSound(d) /\ RequestSound(d) /\ DriveSound(d)
           /\ ActivitySound(d)
           /\ MoveSound(d) => Sound(d)
<1>1. LifeSound(d) /\ Lives(c, d)
  BY NoneEnd DEF Sound
<1>2. PlanSound(d)
  BY DEF Sound, PlanSound, SurvivalNavigation
<1>3. RequestSound(d)
  BY DEF Sound, RequestSound
<1>4. DriveSound(d)
  BY DEF Sound, DriveSound, SurvivalNavigation
<1>5. ActivitySound(d)
  BY DEF Sound, ActivitySound
<1> QED BY <1>1, <1>2, <1>3, <1>4, <1>5 DEF Sound, Steady

LEMMA NavigationIs ==
    ASSUME NEW n \in Navigations
    PROVE  /\ n.status \in Statuses /\ n.target \in Targets /\ n.route \in Seq(Primitives)
           /\ n.route # <<>> => /\ Tail(n.route) \in Seq(Primitives)
                                /\ Head(n.route).kind \in {"move", "cross"}
                                /\ Head(n.route).to \in Places
<1>1. n.status \in Statuses /\ n.target \in Targets /\ n.route \in Seq(Primitives)
  BY DEF Navigations
<1>2. ASSUME n.route # <<>>
      PROVE  /\ Tail(n.route) \in Seq(Primitives)
             /\ Head(n.route).kind \in {"move", "cross"} /\ Head(n.route).to \in Places
  <2> DEFINE q == n.route
  <2>1. q \in Seq(Primitives) /\ q # <<>>
    BY <1>1, <1>2
  <2> HIDE DEF q
  <2>2. Head(q) \in Primitives /\ Tail(q) \in Seq(Primitives)
    BY <2>1, HeadTailProperties
  <2> QED BY <2>2 DEF Primitives, q
<1> QED BY <1>1, <1>2

\* The character navigates another way.
Steered(c, status, route) ==
    [c EXCEPT !.nav = [c.nav EXCEPT !.status = status, !.route = route]]

LEMMA SteeredIs ==
    ASSUME NEW c \in Characters, NEW status \in Statuses, NEW route \in Seq(Primitives)
    PROVE  LET d == Steered(c, status, route) IN
           /\ d \in Characters
           /\ d.nav.status = status /\ d.nav.route = route /\ d.nav.target = c.nav.target
           /\ d.plan = c.plan /\ d.story = c.story /\ d.at = c.at
           /\ d.goal = c.goal /\ d.walking = c.walking /\ d.activity = c.activity
           /\ d.drive = c.drive /\ d.request = c.request /\ d.execution = c.execution
           /\ d.zone = c.zone /\ d.raised = c.raised /\ d.arrived = c.arrived
<1> DEFINE n == [c.nav EXCEPT !.status = status, !.route = route]
<1>1. /\ n \in Navigations /\ n.status = status /\ n.route = route /\ n.target = c.nav.target
  BY Fields DEF Navigations
<1> HIDE DEF n
<1>2. Steered(c, status, route) = [c EXCEPT !.nav = n]
  BY DEF Steered, n
<1> QED BY <1>1, <1>2 DEF Characters

\* What setting one of the two fields is.
LEMMA Steering ==
    ASSUME NEW c \in Characters
    PROVE  /\ \A status : [c EXCEPT !.nav.status = status] = Steered(c, status, c.nav.route)
           /\ PassPrimitive(c) = Steered(c, c.nav.status, Tail(c.nav.route))
<1>1. c.nav \in Navigations
  BY Fields
<1>2. \A status : [c.nav EXCEPT !.status = status]
                    = [c.nav EXCEPT !.status = status, !.route = c.nav.route]
  BY <1>1 DEF Navigations
<1>3. \A route : [c.nav EXCEPT !.route = route]
                    = [c.nav EXCEPT !.status = c.nav.status, !.route = route]
  BY <1>1 DEF Navigations
<1>4. \A status : [c EXCEPT !.nav.status = status] = [c EXCEPT !.nav = [c.nav EXCEPT !.status = status]]
  OBVIOUS
<1>5. PassPrimitive(c) = [c EXCEPT !.nav = [c.nav EXCEPT !.route = Tail(c.nav.route)]]
  BY DEF PassPrimitive
<1> QED BY <1>2, <1>3, <1>4, <1>5 DEF Steered

LEMMA Resteered ==
    ASSUME NEW c, Sound(c), NEW status \in Statuses, NEW route \in Seq(Primitives),
           c.drive.state = "NORMAL" /\ c.goal # None =>
              status = "NAVIGATING" /\ route = c.nav.route
    PROVE  LET d == Steered(c, status, route) IN
           /\ Sound(d) /\ Steady(c, d) /\ d.plan = c.plan /\ d.drive = c.drive
           /\ d.goal = c.goal /\ d.nav.status = status
<1> DEFINE d == Steered(c, status, route)
<1>1. /\ d \in Characters /\ d.nav.status = status /\ d.nav.route = route
      /\ d.plan = c.plan /\ d.story = c.story /\ d.at = c.at
      /\ d.goal = c.goal /\ d.walking = c.walking /\ d.activity = c.activity
      /\ d.drive = c.drive /\ d.request = c.request /\ d.execution = c.execution
  BY SteeredIs DEF Sound
<1> HIDE DEF d
<1>2. MoveSound(d)
  BY <1>1 DEF Sound, MoveSound
<1>3. Sound(d) /\ Steady(c, d)
  BY <1>1, <1>2, SameWork
<1> QED BY <1>1, <1>3 DEF d

\* A plan that navigates waits for nothing.
LEMMA NavigatingPlan ==
    ASSUME NEW c, Sound(c), c.plan.current # None => c.plan.current.act = "NAVIGATE"
    PROVE  c.plan.waiting = "no" /\ c.plan.timer = 0
<1>1. "NAVIGATE" \notin Corrective \union Activities
  BY ActsAssumption
<1>2. c.plan.timer \in Nat /\ c.plan.waiting \in {"no", "affordance"}
  BY PlanFields DEF Sound
<1> QED BY <1>1, <1>2 DEF Sound, PlanSound

Steers(c) ==
    c.nav.status = "NAVIGATING" => c.plan.current # None /\ c.plan.current.act = "NAVIGATE"

LEMMA NavigationFails ==
    ASSUME NEW c, Sound(c), c.plan.current # None => c.plan.current.act = "NAVIGATE",
           c.drive.state = "NORMAL" => c.goal = None
    PROVE  LET d == FailNavigation(c) IN
           Sound(d) /\ Steady(c, d) /\ d.nav.status = "FAILED" /\ d.drive = c.drive
<1> DEFINE e == Steered(c, "FAILED", c.nav.route)
           d == FailPlanAction(e)
<1>1. c \in Characters /\ c.nav.route \in Seq(Primitives) /\ "FAILED" \in Statuses
  BY Fields, NavigationIs DEF Sound, Statuses
<1>2. FailNavigation(c) = d
  BY <1>1, Steering DEF FailNavigation
<1> HIDE DEF e
<1>3. /\ Sound(e) /\ Steady(c, e) /\ e.plan = c.plan /\ e.drive = c.drive
      /\ e.goal = c.goal /\ e.nav.status = "FAILED"
  BY <1>1, Resteered DEF e
<1>4. e.plan.waiting = "no" /\ e.plan.timer = 0
  BY <1>3, NavigatingPlan
<1>5. Freed(e)
  BY <1>3, <1>4, MayEnd
<1>6. Sound(d) /\ Steady(e, d) /\ Rest(e, d)
  BY <1>5, FailSoundly
<1> HIDE DEF d
<1>7. Steady(c, d)
  BY <1>3, <1>6, SteadyOn DEF Sound, LifeSound
<1> QED BY <1>2, <1>3, <1>6, <1>7 DEF Rest

LEMMA ArrivesSoundly ==
    ASSUME NEW c, Sound(c), c.plan.current # None => c.plan.current.act = "NAVIGATE",
           c.drive.state = "NORMAL" => c.goal = None
    PROVE  LET d == Arrive(c) IN Sound(d) /\ Steady(c, d) /\ d.nav.status = "ARRIVED"
<1> DEFINE n == [c.nav EXCEPT !.status = "ARRIVED"]
           e == [c EXCEPT !.nav = n, !.arrived = TRUE]
           d == CompletePlanAction(e)
<1>1. c \in Characters /\ n \in Navigations /\ n.status = "ARRIVED"
  BY Fields DEF Sound, Navigations, Statuses
<1>2. [c EXCEPT !.nav.status = "ARRIVED", !.arrived = TRUE] = e
  OBVIOUS
<1>3. Arrive(c) = d
  BY <1>2 DEF Arrive
<1> HIDE DEF n
<1>4. /\ e \in Characters /\ e.nav = n /\ e.plan = c.plan /\ e.story = c.story /\ e.at = c.at
      /\ e.goal = c.goal /\ e.walking = c.walking /\ e.activity = c.activity
      /\ e.drive = c.drive /\ e.request = c.request /\ e.execution = c.execution
  BY <1>1 DEF Characters
<1> HIDE DEF e
<1>5. MoveSound(e)
  BY <1>4 DEF Sound, MoveSound
<1>6. Sound(e) /\ Steady(c, e)
  BY <1>4, <1>5, SameWork
<1>7. e.plan.waiting = "no" /\ e.plan.timer = 0
  BY <1>4, <1>6, NavigatingPlan
<1>8. Freed(e)
  BY <1>4, <1>6, <1>7, MayEnd
<1>9. Sound(d) /\ Steady(e, d) /\ Rest(e, d)
  BY <1>8, CompleteSoundly
<1> HIDE DEF d
<1>10. Steady(c, d)
  BY <1>6, <1>9, SteadyOn DEF Sound, LifeSound
<1> QED BY <1>1, <1>3, <1>4, <1>9, <1>10 DEF Rest

\* One iteration of the loop over a route.
LEMMA NextPrimitiveSound ==
    ASSUME NEW c, Sound(c), Steers(c), NEW open
    PROVE  LET d == NextPrimitive(c, open) IN Sound(d) /\ Steady(c, d) /\ Steers(d)
<1> DEFINE p == Head(c.nav.route)
           d == NextPrimitive(c, open)
           good == Sound(d) /\ Steady(c, d) /\ Steers(d)
<1>1. /\ c \in Characters /\ MoveSound(c) /\ c.nav \in Navigations
      /\ c.nav.route \in Seq(Primitives) /\ c.nav.status \in Statuses
  BY Fields, NavigationIs DEF Sound
<1>2. Steady(c, c)
  BY NoneEnd DEF Sound, Steady
<1>3. ASSUME d = c PROVE good
  BY <1>2, <1>3, Zenon
<1>4. c.nav.status = "NAVIGATING" => (c.plan.current # None => c.plan.current.act = "NAVIGATE")
  BY DEF Steers
<1>5. ASSUME /\ c.nav.status = "NAVIGATING" /\ (c.drive.state = "NORMAL" => c.goal = None)
             /\ d = FailNavigation(c) \/ d = Arrive(c)
      PROVE  good
  BY <1>4, <1>5, NavigationFails, ArrivesSoundly DEF Steers
<1>6. ASSUME c.nav.status = "NAVIGATING", NEW e \in Characters,
             e.plan = c.plan, e.story = c.story, e.activity = c.activity, e.drive = c.drive,
             e.request = c.request, e.execution = c.execution, MoveSound(e)
      PROVE  Sound(e) /\ Steady(c, e) /\ Steers(e)
  BY <1>6, SameWork DEF Steers
<1>7. ASSUME c.nav.status = "NAVIGATING", c.nav.route # <<>>
      PROVE  /\ p.kind \in {"move", "cross"} /\ p.to \in Places
             /\ Tail(c.nav.route) \in Seq(Primitives)
  BY <1>1, <1>7, NavigationIs
<1>8. ASSUME c.nav.status = "NAVIGATING" /\ c.nav.route # <<>> /\ p.kind = "cross" /\ d = Cross(c, p)
      PROVE  good
  <2> DEFINE to == p.to
             s == Steered(c, c.nav.status, Tail(c.nav.route))
             e == [s EXCEPT !.at = to, !.goal = None, !.walking = FALSE]
  <2>1. d = e
    BY <1>1, <1>8, Steering DEF Cross
  <2>2. to \in Places
    BY <1>7, <1>8
  <2>3. /\ s \in Characters /\ s.plan = c.plan /\ s.story = c.story /\ s.activity = c.activity
        /\ s.drive = c.drive /\ s.request = c.request /\ s.execution = c.execution
    BY <1>1, <1>7, <1>8, SteeredIs
  <2> HIDE DEF s, to
  <2>4. /\ e \in Characters /\ e.plan = c.plan /\ e.story = c.story
        /\ e.goal = None /\ e.walking = FALSE /\ e.activity = c.activity
        /\ e.drive = c.drive /\ e.request = c.request /\ e.execution = c.execution
    BY <2>2, <2>3 DEF Characters
  <2> HIDE DEF e
  <2>5. MoveSound(e)
    BY <2>4 DEF MoveSound
  <2> QED BY <1>6, <1>8, <2>1, <2>4, <2>5
<1>9. ASSUME /\ c.nav.status = "NAVIGATING" /\ c.nav.route # <<>> /\ p.kind # "cross"
             /\ c.at = p.to /\ d = PassPrimitive(c)
      PROVE  good
  <2> DEFINE s == Steered(c, c.nav.status, Tail(c.nav.route))
  <2>1. d = s
    BY <1>1, <1>9, Steering
  <2>2. c.drive.state = "NORMAL" => c.goal = None
    BY <1>1, <1>9 DEF MoveSound
  <2>3. Sound(s) /\ Steady(c, s) /\ s.plan = c.plan
    BY <1>1, <1>7, <1>9, <2>2, Resteered
  <2> HIDE DEF s
  <2> QED BY <1>9, <2>1, <2>3 DEF Steers
<1>10. ASSUME /\ c.nav.status = "NAVIGATING" /\ c.nav.route # <<>> /\ p.kind # "cross"
              /\ c.at # p.to /\ RoomOf[c.at] = RoomOf[p.to] /\ c.goal = None
              /\ d = [c EXCEPT !.goal = p.to, !.walking = FALSE]
      PROVE  good
  <2> DEFINE to == p.to
             e == [c EXCEPT !.goal = to, !.walking = FALSE]
  <2>1. d = e
    BY <1>10, Zenon
  <2>2. /\ to \in Places /\ c.at # to /\ RoomOf[c.at] = RoomOf[to]
        /\ to = Head(c.nav.route).to /\ Head(c.nav.route).kind = "move"
    BY <1>7, <1>10
  <2> HIDE DEF to
  <2>3. /\ e \in Characters /\ e.plan = c.plan /\ e.story = c.story /\ e.at = c.at
        /\ e.nav = c.nav
        /\ e.goal = to /\ e.walking = FALSE /\ e.activity = c.activity
        /\ e.drive = c.drive /\ e.request = c.request /\ e.execution = c.execution
    BY <1>1, <2>2 DEF Characters
  <2> HIDE DEF e
  <2>4. MoveSound(e)
    BY <1>10, <2>2, <2>3 DEF MoveSound, Steers
  <2>5. Sound(e) /\ Steady(c, e) /\ Steers(e)
    BY <1>6, <1>10, <2>3, <2>4
  <2> HIDE DEF d
  <2> QED BY <2>1, <2>5
<1>11. ASSUME c.nav.status = "NAVIGATING", c.drive.state = "NORMAL", c.goal # None
       PROVE  /\ c.nav.route # <<>> /\ p.kind = "move" /\ p.to = c.goal /\ c.at # c.goal
              /\ RoomOf[c.at] = RoomOf[c.goal]
  BY <1>1, <1>11 DEF MoveSound
<1>12. \/ d = c
       \/ /\ c.nav.status = "NAVIGATING"
          /\ \/ c.nav.route = <<>> /\ d = Arrive(c)
             \/ c.nav.route # <<>> /\ p.kind = "cross" /\ d \in {FailNavigation(c), Cross(c, p)}
             \/ /\ c.nav.route # <<>> /\ p.kind # "cross"
                /\ \/ c.at = p.to /\ d = PassPrimitive(c)
                   \/ /\ c.at # p.to /\ d = FailNavigation(c)
                      /\ RoomOf[c.at] # RoomOf[p.to] \/ c.goal \notin {None, p.to}
                   \/ /\ c.at # p.to /\ RoomOf[c.at] = RoomOf[p.to] /\ c.goal = None
                      /\ d = [c EXCEPT !.goal = p.to, !.walking = FALSE]
  BY Zenon DEF NextPrimitive
<1> HIDE DEF d, p
<1>13. \/ d = c
       \/ /\ c.nav.status = "NAVIGATING" /\ (c.drive.state = "NORMAL" => c.goal = None)
          /\ d = FailNavigation(c) \/ d = Arrive(c)
       \/ /\ c.nav.status = "NAVIGATING" /\ c.nav.route # <<>> /\ p.kind = "cross"
          /\ d = Cross(c, p)
       \/ /\ c.nav.status = "NAVIGATING" /\ c.nav.route # <<>> /\ p.kind # "cross"
          /\ c.at = p.to /\ d = PassPrimitive(c)
       \/ /\ c.nav.status = "NAVIGATING" /\ c.nav.route # <<>> /\ p.kind # "cross"
          /\ c.at # p.to /\ RoomOf[c.at] = RoomOf[p.to] /\ c.goal = None
          /\ d = [c EXCEPT !.goal = p.to, !.walking = FALSE]
  BY <1>11, <1>12
<1>14. good
  BY <1>3, <1>5, <1>8, <1>9, <1>10, <1>13
<1> QED BY <1>14, Zenon DEF d

LEMMA FollowsSoundly ==
    ASSUME NEW c, Sound(c), Steers(c), NEW open
    PROVE  Sound(FollowRoute(c, open)) /\ Steady(c, FollowRoute(c, open))
<1> DEFINE c1 == NextPrimitive(c, open)
           c2 == NextPrimitive(c1, open)
           c3 == NextPrimitive(c2, open)
           c4 == NextPrimitive(c3, open)
<1>1. Sound(c1) /\ Steady(c, c1) /\ Steers(c1)
  BY NextPrimitiveSound
<1>2. FollowRoute(c, open) = c4
  BY DEF FollowRoute
<1> HIDE DEF c1
<1>3. Sound(c2) /\ Steady(c1, c2) /\ Steers(c2)
  BY <1>1, NextPrimitiveSound
<1> HIDE DEF c2
<1>4. Sound(c3) /\ Steady(c2, c3) /\ Steers(c3)
  BY <1>3, NextPrimitiveSound
<1> HIDE DEF c3
<1>5. Sound(c4) /\ Steady(c3, c4) /\ Steers(c4)
  BY <1>4, NextPrimitiveSound
<1> HIDE DEF c4
<1>6. LiveIds(c) \subseteq DOMAIN c.story
  BY DEF Sound, LifeSound
<1>7. Steady(c, c2)
  BY <1>1, <1>3, <1>6, SteadyOn
<1>8. Steady(c, c3)
  BY <1>4, <1>6, <1>7, SteadyOn
<1>9. Steady(c, c4)
  BY <1>5, <1>6, <1>8, SteadyOn
<1> QED BY <1>2, <1>5, <1>9

LEMMA AdvancesSoundly ==
    ASSUME NEW c, Sound(c), c.plan.current # None, c.plan.current.act = "NAVIGATE", NEW open
    PROVE  Sound(AdvanceNavigation(c, open)) /\ Steady(c, AdvanceNavigation(c, open))
<1> DEFINE e == Steered(c, "NAVIGATING", c.nav.route)
<1>1. c \in Characters /\ c.nav.route \in Seq(Primitives) /\ "NAVIGATING" \in Statuses
  BY Fields, NavigationIs DEF Sound, Statuses, Moving
<1>2. CASE c.nav.status = "FAILED"
  <2>1. AdvanceNavigation(c, open) = FailPlanAction(c)
    BY <1>2 DEF AdvanceNavigation
  <2>2. c.drive.state = "NORMAL" => c.goal = None
    BY <1>2 DEF Sound, MoveSound
  <2>3. Freed(c)
    BY <2>2, NavigatingPlan, MayEnd
  <2> QED BY <2>1, <2>3, FailSoundly
<1>3. CASE c.nav.status \in {"PLANNED", "NAVIGATING"}
  <2>1. AdvanceNavigation(c, open) = FollowRoute(e, open)
    BY <1>1, <1>3, Steering DEF AdvanceNavigation
  <2>2. Sound(e) /\ Steady(c, e) /\ e.plan = c.plan
    BY <1>1, Resteered
  <2> HIDE DEF e
  <2>3. Steers(e)
    BY <2>2 DEF Steers
  <2>4. Sound(FollowRoute(e, open)) /\ Steady(e, FollowRoute(e, open))
    BY <2>2, <2>3, FollowsSoundly
  <2>5. Steady(c, FollowRoute(e, open))
    BY <2>2, <2>4, SteadyOn DEF Sound, LifeSound
  <2> QED BY <2>1, <2>4, <2>5
<1>4. CASE c.nav.status \notin {"FAILED", "PLANNED", "NAVIGATING"}
  <2>1. AdvanceNavigation(c, open) = c
    BY <1>4 DEF AdvanceNavigation
  <2>2. Steady(c, c)
    BY NoneEnd DEF Sound, Steady
  <2> QED BY <2>1, <2>2
<1> QED BY <1>2, <1>3, <1>4

LEMMA PlansSoundly ==
    ASSUME NEW c, Sound(c), NEW route \in Seq(Primitives)
    PROVE  LET d == PlanNavigation(c, route) IN Sound(d) /\ Steady(c, d)
<1> DEFINE d == PlanNavigation(c, route)
           s == IF route = <<>> THEN "FAILED" ELSE "PLANNED"
           e == Steered(c, s, route)
<1>1. c \in Characters /\ c.nav \in Navigations /\ s \in Statuses
  BY Fields DEF Sound, Statuses, Moving
<1>2. CASE d = c
  <2>1. Steady(c, c)
    BY NoneEnd DEF Sound, Steady
  <2> QED BY <1>2, <2>1, Zenon
<1>3. CASE c.nav.status = "REQUESTED" /\ d # c
  <2>1. d = [c EXCEPT !.nav.route = route, !.nav.status = s]
    BY <1>3 DEF PlanNavigation
  <2>2. [c.nav EXCEPT !.route = route, !.status = s] = [c.nav EXCEPT !.status = s, !.route = route]
    BY <1>1 DEF Navigations
  <2>3. d = [c EXCEPT !.nav = [c.nav EXCEPT !.route = route, !.status = s]]
    BY <2>1
  <2>4. d = e
    BY <2>2, <2>3 DEF Steered
  <2>5. c.drive.state = "NORMAL" => c.goal = None
    BY <1>3 DEF Sound, MoveSound
  <2> HIDE DEF d, s
  <2>6. Sound(e) /\ Steady(c, e)
    BY <1>1, <2>5, Resteered
  <2> HIDE DEF e
  <2>7. Sound(d) /\ Steady(c, d)
    BY <2>4, <2>6
  <2> QED BY <2>7, Zenon DEF d
<1>4. c.nav.status # "REQUESTED" => d = c
  BY DEF PlanNavigation
<1> QED BY <1>2, <1>3, <1>4

\* A request to navigate, to a character that walks nowhere of its own will.
LEMMA RequestsSoundly ==
    ASSUME NEW c, Sound(c), NEW s \in Targets, c.drive.state = "NORMAL" => c.goal = None
    PROVE  LET d == RequestNavigation(c, s) IN
           Sound(d) /\ Steady(c, d) /\ d.plan = c.plan /\ d.drive = c.drive
           /\ d.nav.status = "REQUESTED" /\ d.story = c.story
<1> DEFINE n == [status |-> "REQUESTED", target |-> s, route |-> <<>>]
           d == [c EXCEPT !.nav = n]
<1>1. n \in Navigations /\ n.status = "REQUESTED" /\ c \in Characters
  BY DEF Navigations, Statuses, Moving, Sound
<1>2. RequestNavigation(c, s) = d
  BY DEF RequestNavigation
<1> HIDE DEF n
<1>3. /\ d \in Characters /\ d.nav = n /\ d.plan = c.plan /\ d.story = c.story /\ d.at = c.at
      /\ d.goal = c.goal /\ d.walking = c.walking /\ d.activity = c.activity
      /\ d.drive = c.drive /\ d.request = c.request /\ d.execution = c.execution
  BY <1>1 DEF Characters
<1> HIDE DEF d
<1>4. MoveSound(d)
  BY <1>3 DEF Sound, MoveSound
<1>5. Sound(d) /\ Steady(c, d)
  BY <1>3, <1>4, SameWork
<1> QED BY <1>1, <1>2, <1>3, <1>5

-----------------------------------------------------------------------------
(* Plan execution.                                                         *)

\* The ids of a plan whose next action has become the current one.
LEMMA TakenIds ==
    ASSUME NEW c \in Characters, LifeSound(c), c.plan.current = None, c.plan.queue # <<>>,
           NEW d, d.plan.current = Head(c.plan.queue), d.plan.current # None,
           d.plan.queue = Tail(c.plan.queue), d.drive.correction = c.drive.correction
    PROVE  LiveIds(d) = LiveIds(c) /\ Distinct(d)
<1> DEFINE q == c.plan.queue
           h == Head(q)
           t == Tail(q)
<1>1. q \in Seq(Actions) /\ q # <<>>
  BY PlanFields
<1> HIDE DEF q
<1>2. /\ Len(q) \in Nat /\ Len(q) >= 1 /\ DOMAIN q = 1..Len(q) /\ h = q[1]
      /\ DOMAIN t = 1..(Len(q) - 1) /\ \A i \in 1..(Len(q) - 1) : t[i] = q[i + 1]
  <2>1. Len(t) = Len(q) - 1 /\ \A i \in 1..Len(t) : t[i] = q[i + 1]
    BY <1>1, HeadTailProperties
  <2>2. Len(q) \in Nat /\ Len(q) >= 1 /\ DOMAIN q = 1..Len(q) /\ h = q[1]
    BY <1>1, EmptySeq
  <2>3. t \in Seq(Actions)
    BY <1>1, HeadTailProperties
  <2>4. DOMAIN t = 1..Len(t)
    BY <2>3
  <2> QED BY <2>1, <2>2, <2>4
<1> HIDE DEF h, t
<1>4. {q[i].id : i \in DOMAIN q} = {h.id} \union {t[i].id : i \in DOMAIN t}
  <2>1. \A i \in DOMAIN q : i = 1 \/ (i - 1 \in DOMAIN t /\ t[i - 1] = q[i])
    BY <1>2
  <2>2. 1 \in DOMAIN q /\ \A i \in DOMAIN t : i + 1 \in DOMAIN q /\ t[i] = q[i + 1]
    BY <1>2
  <2>3. ASSUME NEW i \in DOMAIN q
        PROVE  q[i].id \in {h.id} \union {t[k].id : k \in DOMAIN t}
    BY <1>2, <2>1
  <2>4. ASSUME NEW i \in DOMAIN t PROVE t[i].id \in {q[k].id : k \in DOMAIN q}
    BY <2>2
  <2>5. h.id \in {q[k].id : k \in DOMAIN q}
    BY <1>2, <2>2
  <2> QED BY <2>3, <2>4, <2>5
<1>5. d.plan.current = h /\ d.plan.queue = t
  BY DEF h, t, q
<1>6. CurrentIds(d) = {h.id} /\ QueuedIds(d) = {t[i].id : i \in DOMAIN t}
  BY <1>5 DEF CurrentIds, QueuedIds
<1>7. CurrentIds(c) = {} /\ QueuedIds(c) = {q[i].id : i \in DOMAIN q}
  BY DEF CurrentIds, QueuedIds, q
<1>8. \A i, j \in DOMAIN q : q[i].id = q[j].id => i = j
  BY DEF LifeSound, Distinct, q
<1>9. \A i, j \in DOMAIN t : t[i].id = t[j].id => i = j
  <2> TAKE i, j \in DOMAIN t
  <2>1. i \in Int /\ j \in Int /\ i + 1 \in DOMAIN q /\ j + 1 \in DOMAIN q
        /\ t[i] = q[i + 1] /\ t[j] = q[j + 1]
    BY <1>2
  <2>2. t[i].id = t[j].id => i + 1 = j + 1
    BY <1>8, <2>1
  <2> QED BY <2>1, <2>2
<1>10. h.id \notin {t[i].id : i \in DOMAIN t}
  <2> SUFFICES ASSUME NEW i \in DOMAIN t, h.id = t[i].id PROVE FALSE
    OBVIOUS
  <2>1. i \in Nat /\ i >= 1 /\ i + 1 \in DOMAIN q /\ 1 \in DOMAIN q /\ t[i] = q[i + 1]
    BY <1>2
  <2>2. i + 1 = 1
    BY <1>2, <1>8, <2>1
  <2> QED BY <2>1, <2>2
<1>11. LiveIds(d) = LiveIds(c)
  BY <1>4, <1>6, <1>7 DEF LiveIds
<1>12. d.drive.correction # None =>
         d.drive.correction.id \notin CurrentIds(d) \union QueuedIds(d)
  BY <1>4, <1>6, <1>7 DEF LifeSound, Distinct
<1>13. \A i, j \in DOMAIN d.plan.queue : d.plan.queue[i].id = d.plan.queue[j].id => i = j
  BY <1>5, <1>9
<1>14. CurrentIds(d) \intersect QueuedIds(d) = {}
  BY <1>6, <1>10
<1> QED BY <1>11, <1>12, <1>13, <1>14 DEF Distinct

\* A sound character in the normal state whose plan has no current action.
LEMMA AtEase ==
    ASSUME NEW c, Sound(c), c.drive.state = "NORMAL", c.plan.current = None
    PROVE  /\ c.request = None /\ c.execution = None /\ c.goal = None /\ ~c.walking
           /\ c.plan.waiting = "no" /\ c.plan.timer = 0 /\ c.activity.current \in Calm
           /\ c.drive.correction = None
<1>1. c.plan.waiting = "no" /\ c.plan.timer = 0
  BY DEF Sound, PlanSound
<1>2. c.request = None
  BY <1>1 DEF Sound, RequestSound
<1>3. c.execution = None
  BY <1>2 DEF Sound, RequestSound, DriveSound
<1>4. c.goal = None /\ ~c.walking
  BY DEF Sound, MoveSound
<1>5. c.activity.current \in Calm
  BY <1>1, <1>3 DEF Sound, ActivitySound
<1> QED BY <1>1, <1>2, <1>3, <1>4, <1>5 DEF Sound, DriveSound

LEMMA TakesSoundly ==
    ASSUME NEW c, Sound(c), c.drive.state = "NORMAL", c.plan.current = None, c.plan.queue # <<>>
    PROVE  LET t == TakeNext(c)
               e == Tell(t, {t.plan.current.id}, "started") IN
           /\ Sound(e) /\ Steady(c, e)
           /\ e.drive.state = "NORMAL" /\ e.plan.current \in Actions /\ e.plan.current # None
           /\ e.plan.waiting = "no" /\ e.plan.timer = 0
           /\ e.request = None /\ e.execution = None /\ e.goal = None
           /\ e.activity.current \in Calm
<1> DEFINE t == TakeNext(c)
           e == Tell(t, {t.plan.current.id}, "started")
<1>1. c \in Characters /\ LifeSound(c)
  BY DEF Sound
<1>2. /\ t \in Characters /\ Rest(c, t) /\ t.story = c.story
      /\ t.plan.current = Head(c.plan.queue) /\ t.plan.current \in Actions
      /\ t.plan.queue = Tail(c.plan.queue)
      /\ t.plan.timer = c.plan.timer /\ t.plan.waiting = c.plan.waiting
      /\ t.plan.before = c.plan.before
  BY <1>1, TakeIs
<1> HIDE DEF t
<1>3. /\ e \in Characters /\ e.plan = t.plan /\ Rest(t, e) /\ Ending(t, e, {})
  BY <1>2, TellIs DEF Events, Terminal
<1> HIDE DEF e
<1>4. t.plan.current # None
  BY <1>2, NoneAssumption
<1>5. LiveIds(e) = LiveIds(c) /\ Distinct(e)
  BY <1>1, <1>2, <1>3, <1>4, TakenIds DEF Rest
<1>6. e.plan.current.origin = "plan" /\ \A i \in DOMAIN e.plan.queue : e.plan.queue[i].origin = "plan"
  <2> DEFINE q == c.plan.queue
  <2>1. q \in Seq(Actions) /\ q # <<>> /\ \A i \in DOMAIN q : q[i].origin = "plan"
    BY <1>1, PlanFields DEF Sound, PlanSound
  <2> HIDE DEF q
  <2>2. Len(Tail(q)) = Len(q) - 1 /\ (\A i \in 1..Len(Tail(q)) : Tail(q)[i] = q[i + 1])
        /\ Tail(q) \in Seq(Actions)
    BY <2>1, HeadTailProperties
  <2>3. Len(q) \in Nat /\ Len(q) >= 1 /\ DOMAIN q = 1..Len(q) /\ Head(q) = q[1]
    BY <2>1, EmptySeq
  <2>4. \A i \in DOMAIN Tail(q) : Tail(q)[i].origin = "plan"
    <3>1. DOMAIN Tail(q) = 1..Len(Tail(q))
      BY <2>2
    <3> TAKE i \in DOMAIN Tail(q)
    <3>2. i + 1 \in DOMAIN q /\ Tail(q)[i] = q[i + 1]
      BY <2>2, <2>3, <3>1
    <3> QED BY <2>1, <3>2
  <2>5. Head(q).origin = "plan"
    BY <2>1, <2>3
  <2> QED BY <1>2, <1>3, <2>4, <2>5 DEF q
<1>7. ~SurvivalNavigation(e)
  BY <1>6 DEF SurvivalNavigation
<1>8. Ending(c, e, {})
  BY <1>2, <1>3 DEF Ending, Ends
<1>9. LifeSound(e) /\ Lives(c, e)
  BY <1>1, <1>5, <1>7, <1>8, SomeEnd
<1>10. /\ e.request = None /\ e.execution = None /\ e.goal = None /\ ~e.walking
       /\ e.plan.waiting = "no" /\ e.plan.timer = 0 /\ e.activity.current \in Calm
       /\ e.drive = c.drive /\ e.activity = c.activity /\ e.plan.current # None
  BY <1>2, <1>3, <1>4, AtEase DEF Rest
<1>11. PlanSound(e)
  BY <1>6, <1>7, <1>10 DEF PlanSound
<1>12. RequestSound(e)
  BY <1>10 DEF RequestSound
<1>13. DriveSound(e)
  BY <1>10 DEF Sound, DriveSound
<1>14. MoveSound(e)
  BY <1>10 DEF MoveSound
<1>15. ActivitySound(e)
  <2>1. c.execution = None /\ ActivitySound(c)
    BY AtEase DEF Sound
  <2> QED BY <1>10, <2>1 DEF ActivitySound
<1>16. Sound(e)
  BY <1>3, <1>9, <1>11, <1>12, <1>13, <1>14, <1>15 DEF Sound
<1> QED BY <1>2, <1>3, <1>9, <1>10, <1>16 DEF e, t, Rest, Steady

\* A character whose action has just been taken from its plan.
Begun(e) ==
    /\ Sound(e)
    /\ e.drive.state = "NORMAL" /\ e.plan.current \in Actions /\ e.plan.current # None
    /\ e.plan.waiting = "no" /\ e.plan.timer = 0
    /\ e.request = None /\ e.execution = None /\ e.goal = None
    /\ e.activity.current \in Calm

LEMMA StartsNavigation ==
    ASSUME NEW e, Begun(e), e.plan.current.act = "NAVIGATE", NEW open, NEW valid
    PROVE  LET d == StartNavigation(e, open, valid) IN Sound(d) /\ Steady(e, d)
<1> DEFINE s == e.plan.current.target
           r == RequestNavigation(e, s)
           d == StartNavigation(e, open, valid)
<1>1. Sound(e) /\ s \in Targets
  BY DEF Begun, Actions
<1>2. Sound(FailPlanAction(e)) /\ Steady(e, FailPlanAction(e))
  BY MayEnd, FailSoundly DEF Begun
<1>3. /\ Sound(r) /\ Steady(e, r) /\ r.plan = e.plan
  <2> HIDE DEF s
  <2> QED BY <1>1, RequestsSoundly DEF Begun
<1>4. Steady(e, e)
  BY NoneEnd DEF Begun, Sound, Steady
<1>5. \A x : x \in {e, r} => Sound(x) /\ Steady(e, x) /\ x.plan = e.plan
  BY <1>1, <1>3, <1>4
<1>6. \A x : x \in {e, r} =>
         Sound(AdvanceNavigation(x, open)) /\ Steady(e, AdvanceNavigation(x, open))
  <2> SUFFICES ASSUME NEW x, x \in {e, r}
               PROVE  Sound(AdvanceNavigation(x, open)) /\ Steady(e, AdvanceNavigation(x, open))
    OBVIOUS
  <2>1. Sound(x) /\ Steady(e, x) /\ x.plan.current # None /\ x.plan.current.act = "NAVIGATE"
    BY <1>5 DEF Begun
  <2> DEFINE y == AdvanceNavigation(x, open)
  <2>2. Sound(y) /\ Steady(x, y)
    BY <2>1, AdvancesSoundly
  <2> HIDE DEF y
  <2>3. Steady(e, y)
    BY <1>1, <2>1, <2>2, SteadyOn DEF Sound, LifeSound
  <2> QED BY <2>2, <2>3 DEF y
<1> HIDE DEF r
<1>7. \/ d = FailPlanAction(e)
      \/ \E x : x \in {e, r} /\ d \in {x, AdvanceNavigation(x, open)}
  BY Zenon DEF StartNavigation, r
<1> HIDE DEF d
<1>8. Sound(d) /\ Steady(e, d)
  BY <1>2, <1>5, <1>6, <1>7
<1> QED BY <1>8, Zenon DEF d

LEMMA StartsActivity ==
    ASSUME NEW e, Begun(e), e.plan.current.act \in Activities, NEW valid
    PROVE  LET d == StartActivity(e, valid) IN Sound(d) /\ Steady(e, d)
<1> DEFINE d == StartActivity(e, valid)
<1>1. CASE ~valid
  <2>1. d = FailPlanAction(e)
    BY <1>1 DEF StartActivity
  <2>2. Sound(FailPlanAction(e)) /\ Steady(e, FailPlanAction(e))
    BY MayEnd, FailSoundly DEF Begun
  <2> QED BY <2>1, <2>2
<1>2. CASE valid
  <2> DEFINE plan == [e.plan EXCEPT !.before = e.activity.current, !.timer = Duration]
             show == [current |-> e.plan.current.act, before |-> "NONE", override |-> FALSE]
             f == [e EXCEPT !.plan = plan, !.activity = show]
  <2>1. e \in Characters /\ e.activity \in Shows /\ e.plan \in Plans
    BY Fields DEF Begun, Sound
  <2>2. d = f
    <3>1. \A x, y, z : [e EXCEPT !.plan.before = x, !.plan.timer = y, !.activity = z]
                       = [e EXCEPT !.plan = [e.plan EXCEPT !.before = x, !.timer = y],
                                   !.activity = z]
      BY <2>1 DEF Characters, Plans
    <3>2. show = Showing(e.plan.current.act)
      BY DEF Showing
    <3> HIDE DEF show
    <3>3. d = [e EXCEPT !.plan.before = e.activity.current, !.plan.timer = Duration,
                        !.activity = show]
      BY <1>2, <3>2 DEF StartActivity
    <3> QED BY ZenonT(40), <3>1, <3>3
  <2>3. show \in Shows /\ show.current = e.plan.current.act /\ show.override = FALSE
    BY DEF Begun, Shows, Shown, Acts
  <2>30. e.activity.current \in Shown /\ Duration \in 0..Duration
    BY <2>1, BoundsAssumption DEF Shows
  <2>4. /\ plan \in Plans /\ plan.before = e.activity.current /\ plan.timer = Duration
        /\ plan.current = e.plan.current /\ plan.queue = e.plan.queue
        /\ plan.waiting = e.plan.waiting
    BY <2>1, <2>30 DEF Plans
  <2> HIDE DEF plan, show
  <2>5. /\ f \in Characters /\ f.plan = plan /\ f.activity = show
        /\ f.story = e.story /\ f.at = e.at /\ f.nav = e.nav
        /\ f.goal = e.goal /\ f.walking = e.walking
        /\ f.drive = e.drive /\ f.request = e.request /\ f.execution = e.execution
    BY <2>1, <2>3, <2>4 DEF Characters
  <2> HIDE DEF f
  <2>6. LifeSound(f) /\ Lives(e, f)
    BY <2>4, <2>5, NoneEnd DEF Begun, Sound
  <2>7. Duration > 0
    BY BoundsAssumption
  <2>8. ~SurvivalNavigation(f)
    BY <2>4, <2>5, ActsAssumption DEF Begun, SurvivalNavigation
  <2>9. PlanSound(f)
    BY <2>4, <2>5, <2>8 DEF Begun, Sound, PlanSound
  <2>10. RequestSound(f) /\ DriveSound(f)
    BY <2>4, <2>5 DEF Begun, Sound, RequestSound, DriveSound
  <2>11. MoveSound(f)
    BY <2>5 DEF Begun, Sound, MoveSound
  <2>12. ActivitySound(f)
    BY <2>3, <2>4, <2>5, <2>7 DEF Begun, ActivitySound
  <2> HIDE DEF d
  <2> QED BY <2>2, <2>5, <2>6, <2>9, <2>10, <2>11, <2>12 DEF Sound, d, Steady
<1> QED BY <1>1, <1>2

LEMMA StartsAffordance ==
    ASSUME NEW e, Begun(e), e.plan.current.act \notin Activities \union {"NAVIGATE"}
    PROVE  LET d == StartAffordanceAction(e) IN Sound(d) /\ Steady(e, d)
<1> DEFINE d == StartAffordanceAction(e)
<1>1. CASE Serving(e) = {}
  <2>1. d = FailPlanAction(e)
    BY <1>1 DEF StartAffordanceAction
  <2>2. Sound(FailPlanAction(e)) /\ Steady(e, FailPlanAction(e))
    BY MayEnd, FailSoundly DEF Begun
  <2> QED BY <2>1, <2>2
<1>2. CASE Serving(e) # {}
  <2> DEFINE s == CHOOSE s \in Serving(e) : TRUE
             plan == [e.plan EXCEPT !.waiting = "affordance"]
             r == [station |-> s, act |-> e.plan.current.act, id |-> e.plan.current.id,
                   status |-> "requested"]
             f == [e EXCEPT !.plan = plan, !.request = r]
  <2>1. e \in Characters /\ e.plan \in Plans
    BY Fields DEF Begun, Sound
  <2>2. d = f
    BY <1>2 DEF StartAffordanceAction, Begun
  <2>3. s \in Stations
    BY <1>2 DEF Serving
  <2>4. e.plan.current.act \in Corrective /\ e.plan.current.id \in Nat
    BY DEF Begun, Actions, Acts
  <2> HIDE DEF s
  <2>5. r \in Requests /\ r.id = e.plan.current.id /\ r.status = "requested" /\ r # None
    BY <2>3, <2>4, NoneAssumption DEF Requests
  <2>6. /\ plan \in Plans /\ plan.waiting = "affordance" /\ plan.timer = e.plan.timer
        /\ plan.current = e.plan.current /\ plan.queue = e.plan.queue
        /\ plan.before = e.plan.before
    BY <2>1 DEF Plans
  <2> HIDE DEF plan, r
  <2>7. /\ f \in Characters /\ f.plan = plan /\ f.request = r
        /\ f.story = e.story /\ f.at = e.at /\ f.nav = e.nav
        /\ f.goal = e.goal /\ f.walking = e.walking /\ f.activity = e.activity
        /\ f.drive = e.drive /\ f.execution = e.execution
    BY <2>1, <2>5, <2>6 DEF Characters
  <2> HIDE DEF f
  <2>8. LifeSound(f) /\ Lives(e, f)
    BY <2>6, <2>7, NoneEnd DEF Begun, Sound
  <2>9. ~SurvivalNavigation(f)
    BY <2>6, <2>7 DEF SurvivalNavigation
  <2>10. PlanSound(f)
    BY <2>4, <2>6, <2>7, <2>9 DEF Begun, Sound, PlanSound
  <2>11. RequestSound(f)
    BY <2>5, <2>6, <2>7 DEF Begun, RequestSound
  <2>12. DriveSound(f)
    BY <2>6, <2>7 DEF Begun, Sound, DriveSound
  <2>13. MoveSound(f)
    BY <2>7 DEF Begun, Sound, MoveSound
  <2>14. ActivitySound(f)
    BY <2>6, <2>7 DEF Begun, Sound, ActivitySound
  <2> HIDE DEF d
  <2> QED BY <2>2, <2>7, <2>8, <2>10, <2>11, <2>12, <2>13, <2>14 DEF Sound, d, Steady
<1> QED BY <1>1, <1>2

\* The plan takes its next action.
LEMMA StartsNext ==
    ASSUME NEW c, Sound(c), c.drive.state = "NORMAL", c.plan.current = None,
           c.plan.queue # <<>>, NEW open, NEW valid
    PROVE  LET d == StartPlanAction(TakeNext(c), open, valid) IN Sound(d) /\ Steady(c, d)
<1> DEFINE t == TakeNext(c)
           e == Tell(t, {t.plan.current.id}, "started")
           d == StartPlanAction(t, open, valid)
<1>1. Begun(e) /\ Steady(c, e) /\ e.plan = t.plan
  <2>1. t \in Characters
    BY TakeIs DEF Sound
  <2>2. Begun(e) /\ Steady(c, e)
    BY TakesSoundly DEF Begun
  <2> HIDE DEF t
  <2>3. e.plan = t.plan
    BY <2>1, TellIs DEF Events
  <2> QED BY <2>2, <2>3
<1> HIDE DEF t
<1>2. \/ e.plan.current.act = "NAVIGATE" /\ d = StartNavigation(e, open, valid)
      \/ e.plan.current.act \in Activities /\ d = StartActivity(e, valid)
      \/ e.plan.current.act \notin Activities \union {"NAVIGATE"} /\ d = StartAffordanceAction(e)
  <2>1. "NAVIGATE" \notin Activities
    BY ActsAssumption
  <2> QED BY <1>1, <2>1 DEF StartPlanAction
<1> HIDE DEF e, d
<1>3. Sound(d) /\ Steady(e, d)
  BY <1>1, <1>2, StartsNavigation, StartsActivity, StartsAffordance
<1>4. Steady(c, d)
  BY <1>1, <1>3, SteadyOn DEF Sound, LifeSound
<1> QED BY <1>3, <1>4 DEF d, t

\* The plan sees what has become of its request.
LEMMA ChecksSoundly ==
    ASSUME NEW c, Sound(c), c.drive.state = "NORMAL", c.plan.waiting = "affordance"
    PROVE  LET d == CheckAffordance(c) IN
           Sound(d) /\ Steady(c, d) /\ d.drive.state = "NORMAL"
<1> DEFINE e == [c EXCEPT !.request = None]
           d == CheckAffordance(c)
<1>1. c \in Characters /\ c.request # None
  BY DEF Sound, RequestSound
<1>2. /\ e \in Characters /\ e.request = None /\ e.plan = c.plan /\ e.story = c.story
      /\ e.at = c.at /\ e.nav = c.nav /\ e.goal = c.goal /\ e.walking = c.walking
      /\ e.activity = c.activity /\ e.drive = c.drive /\ e.execution = c.execution
  BY <1>1 DEF Characters
<1>3. LifeSound(e) /\ Steady(c, e)
  <2>1. LifeSound(e) /\ Lives(c, e)
    <3> HIDE DEF e
    <3> QED BY <1>2, NoneEnd DEF Sound
  <2> QED BY <1>2, <2>1 DEF Steady
<1>4. \/ c.request.status = "failed" /\ d = FailPlanAction(e)
      \/ c.request.status = "completed" /\ d = CompletePlanAction(e)
      \/ d = c
  BY <1>1 DEF CheckAffordance
<1>5. ASSUME c.request.status \in {"failed", "completed"} PROVE Freed(e)
  <2> HIDE DEF e
  <2>1. c.execution = None
    BY <1>5 DEF Sound, RequestSound, DriveSound
  <2>2. c.goal = None
    <3>1. c.plan.current.act # "NAVIGATE"
      BY ActsAssumption DEF Sound, PlanSound
    <3> QED BY <3>1 DEF Sound, MoveSound
  <2>3. c.plan.timer = 0
    <3>1. c.plan.timer \in Nat
      BY <1>1, PlanFields
    <3> QED BY <3>1 DEF Sound, PlanSound
  <2>4. DriveSound(e)
    BY <1>2 DEF Sound, DriveSound
  <2>5. \A i \in DOMAIN e.plan.queue : e.plan.queue[i].origin = "plan"
    BY <1>2 DEF Sound, PlanSound
  <2>6. /\ e.walking => e.goal # None
        /\ e.goal # None => e.at # e.goal /\ RoomOf[e.at] = RoomOf[e.goal]
    BY <1>2 DEF Sound, MoveSound
  <2>7. /\ e.activity.current \in Calm
        /\ e.activity.override => e.activity.before \in Calm \union {"NONE"}
    BY <1>2, <2>1, <2>3 DEF Sound, ActivitySound
  <2> QED BY <1>2, <1>3, <2>1, <2>2, <2>4, <2>5, <2>6, <2>7 DEF Freed
<1> HIDE DEF e, d
<1>6. ASSUME c.request.status \in {"failed", "completed"},
             d \in {FailPlanAction(e), CompletePlanAction(e)}
      PROVE  Sound(d) /\ Steady(c, d) /\ d.drive.state = "NORMAL"
  <2>1. Sound(d) /\ Steady(e, d) /\ Rest(e, d)
    BY <1>5, <1>6, FailSoundly, CompleteSoundly
  <2>2. Steady(c, d)
    BY <1>3, <2>1, SteadyOn DEF Sound, LifeSound
  <2> QED BY <1>2, <2>1, <2>2 DEF Rest
<1>7. Steady(c, c)
  BY NoneEnd DEF Sound, Steady
<1>8. Sound(d) /\ Steady(c, d) /\ d.drive.state = "NORMAL"
  BY <1>4, <1>6, <1>7
<1> QED BY <1>8 DEF d

LEMMA ExecutesSoundly ==
    ASSUME NEW c, Sound(c), NEW open, NEW valid
    PROVE  LET d == ExecutePlan(c, open, valid) IN Sound(d) /\ Steady(c, d)
<1> DEFINE d == ExecutePlan(c, open, valid)
           k == IF c.plan.waiting = "affordance" THEN CheckAffordance(c) ELSE c
<1>1. Steady(c, c)
  BY NoneEnd DEF Sound, Steady
<1>2. \/ d = c
      \/ /\ c.plan.current # None /\ c.plan.current.act = "NAVIGATE"
         /\ d = AdvanceNavigation(c, open)
      \/ /\ c.drive.state = "NORMAL"
         /\ \/ d = k
            \/ /\ k.plan.current = None /\ k.plan.queue # <<>>
               /\ d = StartPlanAction(TakeNext(k), open, valid)
  BY Zenon DEF ExecutePlan, SurvivalNavigation
<1>3. ASSUME c.drive.state = "NORMAL"
      PROVE  Sound(k) /\ Steady(c, k) /\ k.drive.state = "NORMAL"
  BY <1>1, <1>3, ChecksSoundly
<1> HIDE DEF k, d
<1>4. ASSUME c.drive.state = "NORMAL", k.plan.current = None, k.plan.queue # <<>>,
             d = StartPlanAction(TakeNext(k), open, valid)
      PROVE  Sound(d) /\ Steady(c, d)
  <2>1. Sound(k) /\ Steady(c, k) /\ k.drive.state = "NORMAL"
    BY <1>3, <1>4
  <2>2. Sound(d) /\ Steady(k, d)
    BY <1>4, <2>1, StartsNext
  <2> QED BY <2>1, <2>2, SteadyOn DEF Sound, LifeSound
<1>5. Sound(d) /\ Steady(c, d)
  BY <1>1, <1>2, <1>3, <1>4, AdvancesSoundly
<1> QED BY <1>5 DEF d

-----------------------------------------------------------------------------
(* The rest of an iteration of a body.                                     *)

LEMMA PathsSoundly ==
    ASSUME NEW c, Sound(c), NEW found \in BOOLEAN
    PROVE  LET d == FindPath(c, found) IN Sound(d) /\ Steady(c, d)
<1> DEFINE d == FindPath(c, found)
           e == [c EXCEPT !.walking = found]
<1>1. c \in Characters /\ Steady(c, c)
  BY NoneEnd DEF Sound, Steady
<1>2. d = c \/ (c.goal # None /\ d = e)
  BY Zenon DEF FindPath, Sound, MoveSound
<1>3. /\ e \in Characters /\ e.walking = found
      /\ e.plan = c.plan /\ e.story = c.story /\ e.at = c.at /\ e.nav = c.nav
      /\ e.goal = c.goal /\ e.activity = c.activity
      /\ e.drive = c.drive /\ e.request = c.request /\ e.execution = c.execution
  BY <1>1 DEF Characters
<1> HIDE DEF d, e
<1>4. c.goal # None => MoveSound(e)
  BY <1>3 DEF Sound, MoveSound
<1>5. c.goal # None => Sound(e) /\ Steady(c, e)
  BY <1>3, <1>4, SameWork
<1>6. Sound(d) /\ Steady(c, d)
  BY <1>1, <1>2, <1>5
<1> QED BY <1>6 DEF d

\* Another activity is shown.
LEMMA ShowsSoundly ==
    ASSUME NEW c, Sound(c), NEW show \in Shows, ActivitySound([c EXCEPT !.activity = show])
    PROVE  LET d == [c EXCEPT !.activity = show] IN Sound(d) /\ Steady(c, d)
<1> DEFINE d == [c EXCEPT !.activity = show]
<1>1. /\ d \in Characters /\ d.walking = c.walking
      /\ d.plan = c.plan /\ d.story = c.story /\ d.at = c.at /\ d.nav = c.nav
      /\ d.goal = c.goal /\ d.drive = c.drive /\ d.request = c.request
      /\ d.execution = c.execution
  BY DEF Sound, Characters
<1>2. ActivitySound(d)
  OBVIOUS
<1> HIDE DEF d
<1>3. LifeSound(d) /\ Lives(c, d)
  BY <1>1, NoneEnd DEF Sound
<1>4. PlanSound(d)
  BY <1>1 DEF Sound, PlanSound, SurvivalNavigation
<1>5. RequestSound(d)
  BY <1>1 DEF Sound, RequestSound
<1>6. DriveSound(d)
  BY <1>1 DEF Sound, DriveSound, SurvivalNavigation
<1>7. MoveSound(d)
  BY <1>1 DEF Sound, MoveSound
<1> QED BY <1>1, <1>2, <1>3, <1>4, <1>5, <1>6, <1>7 DEF Sound, d, Steady

\* Whoever walks navigates, and a plan that navigates runs no activity.
LEMMA WalksWithoutTimer ==
    ASSUME NEW c, Sound(c), c.walking
    PROVE  c.plan.timer = 0
<1>1. c.goal # None
  BY DEF Sound, MoveSound
<1>2. c.plan.current # None => c.plan.current.act = "NAVIGATE"
  <2>1. CASE c.drive.state = "NORMAL"
    BY <1>1, <2>1 DEF Sound, MoveSound
  <2>2. CASE c.drive.state # "NORMAL"
    BY <2>2 DEF Sound, DriveSound, SurvivalNavigation
  <2> QED BY <2>1, <2>2
<1> QED BY <1>2, NavigatingPlan

LEMMA MovementShown ==
    ASSUME NEW c, Sound(c)
    PROVE  LET d == ShowMovement(c) IN Sound(d) /\ Steady(c, d)
<1> DEFINE d == ShowMovement(c)
           on == [current |-> "WALKING", before |-> c.activity.current, override |-> TRUE]
           was == IF c.activity.before = "NONE" THEN "IDLE" ELSE c.activity.before
           off == Showing(was)
           e(show) == [c EXCEPT !.activity = show]
<1>1. c \in Characters /\ c.activity \in Shows /\ Steady(c, c)
  BY NoneEnd, Fields DEF Sound, Steady
<1>2. \/ c.walking /\ ~c.activity.override /\ d = e(on)
      \/ ~c.walking /\ c.activity.override /\ d = e(off)
      \/ d = c
  BY DEF ShowMovement
<1>3. on \in Shows /\ on.current \in Calm /\ on.before = c.activity.current /\ on.override
  BY <1>1 DEF Shows, Shown, Calm
<1>4. was \in Shown /\ (was = c.activity.before \/ was \in Calm)
  BY <1>1 DEF Shows, Shown, Calm
<1>5. off \in Shows /\ off.current = was /\ ~off.override
  <2> HIDE DEF was
  <2> QED BY <1>4 DEF Showing, Shows, Shown
<1>6. ASSUME NEW show \in Shows
      PROVE  /\ e(show).activity = show /\ e(show).plan = c.plan
             /\ e(show).execution = c.execution
  BY <1>1 DEF Characters
<1>50. c.activity.override => was \in Calm \/ (c.execution # None /\ was = c.execution.act)
  BY DEF Sound, ActivitySound, Calm
<1> HIDE DEF d, on, was, off
<1>7. ASSUME c.walking, d = e(on) PROVE Sound(d) /\ Steady(c, d)
  <2>1. c.plan.timer = 0
    BY <1>7, WalksWithoutTimer
  <2> DEFINE f == e(on)
  <2>2. f.activity = on /\ f.plan = c.plan /\ f.execution = c.execution
    BY <1>3, <1>6
  <2> HIDE DEF f
  <2>3. ActivitySound(f)
    BY <1>3, <2>1, <2>2 DEF Sound, ActivitySound
  <2> QED BY <1>3, <1>7, <2>3, ShowsSoundly DEF f
<1>8. ASSUME c.activity.override, d = e(off) PROVE Sound(d) /\ Steady(c, d)
  <2> DEFINE f == e(off)
  <2>2. f.activity = off /\ f.plan = c.plan /\ f.execution = c.execution
    BY <1>5, <1>6
  <2> HIDE DEF f
  <2>3. ActivitySound(f)
    BY <1>5, <1>50, <1>8, <2>2 DEF Sound, ActivitySound
  <2> QED BY <1>5, <1>8, <2>3, ShowsSoundly DEF f
<1>9. Sound(d) /\ Steady(c, d)
  BY <1>1, <1>2, <1>7, <1>8
<1> QED BY <1>9 DEF d

LEMMA ZoneSoundly ==
    ASSUME NEW c, Sound(c), NEW zone \in [Drives -> Zones]
    PROVE  LET d == [c EXCEPT !.zone = zone] IN
           Sound(d) /\ Steady(c, d) /\ d.drive = c.drive /\ d.execution = c.execution
<1> DEFINE d == [c EXCEPT !.zone = zone]
<1>1. /\ d \in Characters /\ d.walking = c.walking
      /\ d.plan = c.plan /\ d.story = c.story /\ d.at = c.at /\ d.nav = c.nav
      /\ d.goal = c.goal /\ d.activity = c.activity /\ d.drive = c.drive
      /\ d.request = c.request /\ d.execution = c.execution
  BY DEF Sound, Characters
<1> HIDE DEF d
<1>2. MoveSound(d)
  BY <1>1 DEF Sound, MoveSound
<1> QED BY <1>1, <1>2, SameWork DEF d

\* An activity that is over.
LEMMA ActivityEnds ==
    ASSUME NEW c, Sound(c), c.drive.state = "NORMAL", c.plan.current # None, c.plan.timer # 0
    PROVE  LET d == RestoreActivity(c, c.plan.before) IN
           Freed(d) /\ Steady(c, d) /\ d.drive = c.drive
<1> DEFINE was == IF c.plan.before = "NONE" THEN "IDLE" ELSE c.plan.before
           show == [c.activity EXCEPT !.current = was]
           d == [c EXCEPT !.activity = show]
<1>1. RestoreActivity(c, c.plan.before) = d
  BY DEF RestoreActivity
<1>2. c \in Characters /\ c.activity \in Shows /\ c.plan.timer > 0
  BY Fields, PlanFields DEF Sound
<1>3. was \in Calm /\ was \in Shown
  BY <1>2 DEF Sound, PlanSound, Calm, Shown
<1> HIDE DEF was
<1>4. show \in Shows /\ show.current = was /\ show.override = c.activity.override
  BY <1>2, <1>3 DEF Shows
<1> HIDE DEF show
<1>5. /\ d \in Characters /\ d.walking = c.walking /\ d.activity = show
      /\ d.plan = c.plan /\ d.story = c.story /\ d.at = c.at /\ d.nav = c.nav
      /\ d.goal = c.goal /\ d.drive = c.drive /\ d.request = c.request
      /\ d.execution = c.execution
  BY <1>2, <1>4 DEF Characters
<1> HIDE DEF d
<1>6. LifeSound(d) /\ Lives(c, d)
  BY <1>5, NoneEnd DEF Sound
<1>7. DriveSound(d)
  BY <1>5 DEF Sound, DriveSound, SurvivalNavigation
<1>8. c.plan.waiting = "no" /\ c.plan.current.act \in Activities
  BY <1>2 DEF Sound, PlanSound
<1>9. c.request = None /\ c.execution = None
  BY <1>8 DEF Sound, RequestSound, DriveSound
<1>10. c.goal = None
  BY <1>8, ActsAssumption DEF Sound, MoveSound
<1>11. ~c.walking
  BY <1>10 DEF Sound, MoveSound
<1>12. c.activity.override => FALSE
  BY <1>2 DEF Sound, ActivitySound
<1>13. \A i \in DOMAIN d.plan.queue : d.plan.queue[i].origin = "plan"
  BY <1>5 DEF Sound, PlanSound
<1>14. Freed(d)
  BY <1>3, <1>4, <1>5, <1>6, <1>7, <1>9, <1>10, <1>11, <1>12, <1>13 DEF Freed
<1> QED BY <1>1, <1>5, <1>6, <1>14 DEF Steady

LEMMA CountsSoundly ==
    ASSUME NEW c, Sound(c), NEW valid
    PROVE  LET d == CountDown(c, valid) IN Sound(d) /\ Steady(c, d)
<1> DEFINE d == CountDown(c, valid)
           plan == [c.plan EXCEPT !.timer = @ - 1]
           e == [c EXCEPT !.plan = plan]
           f == RestoreActivity(c, c.plan.before)
<1>1. c \in Characters /\ Steady(c, c)
  BY NoneEnd DEF Sound, Steady
<1>2. \/ d = c
      \/ /\ c.drive.state = "NORMAL" /\ c.plan.current # None /\ c.plan.timer # 0
         /\ \/ c.plan.timer > 1 /\ d = [c EXCEPT !.plan.timer = @ - 1]
            \/ d \in {CompletePlanAction(f), FailPlanAction(f)}
  BY Zenon DEF CountDown
<1>3. [c EXCEPT !.plan.timer = @ - 1] = e
  OBVIOUS
<1>4. ASSUME c.plan.timer > 1 PROVE Sound(e) /\ Steady(c, e)
  <2>1. c.plan.timer - 1 \in 0..Duration /\ c.plan.timer - 1 > 0
    BY <1>1, <1>4, PlanFields, BoundsAssumption
  <2>2. /\ plan \in Plans /\ plan.timer > 0 /\ plan.current = c.plan.current
        /\ plan.queue = c.plan.queue /\ plan.waiting = c.plan.waiting
        /\ plan.before = c.plan.before
    <3> DEFINE n == c.plan.timer - 1
    <3>1. plan = [c.plan EXCEPT !.timer = n]
      OBVIOUS
    <3> HIDE DEF n, plan
    <3>2. n \in 0..Duration /\ n > 0
      BY <2>1 DEF n
    <3> QED BY <1>1, <3>1, <3>2, Fields DEF Plans
  <2> HIDE DEF plan
  <2>3. e \in Characters /\ e.plan = plan /\ e.story = c.story /\ Rest(c, e)
    BY <1>1, <2>2, ReplanIs
  <2> HIDE DEF e
  <2>4. LifeSound(e) /\ Lives(c, e)
    BY <2>2, <2>3, NoneEnd DEF Sound, Rest
  <2>5. PlanSound(e)
    <3>1. c.plan.timer > 0 /\ c.plan.timer # 0
      BY <1>1, <1>4, PlanFields
    <3>2. SurvivalNavigation(e) <=> SurvivalNavigation(c)
      BY <2>2, <2>3 DEF SurvivalNavigation
    <3> QED BY <2>2, <2>3, <3>1, <3>2 DEF Sound, PlanSound
  <2>6. RequestSound(e)
    BY <2>2, <2>3 DEF Sound, RequestSound, Rest
  <2>7. DriveSound(e)
    BY <2>2, <2>3 DEF Sound, DriveSound, SurvivalNavigation, Rest
  <2>8. MoveSound(e)
    BY <2>2, <2>3 DEF Sound, MoveSound, Rest
  <2>9. ActivitySound(e)
    <3>1. ActivitySound(c) /\ ~c.activity.override
      BY <1>4 DEF Sound, ActivitySound
    <3> QED BY <2>2, <2>3, <3>1 DEF ActivitySound, Rest
  <2> QED BY <2>3, <2>4, <2>5, <2>6, <2>7, <2>8, <2>9 DEF Sound, Rest, Steady
<1> HIDE DEF d, e, f
<1>5. ASSUME c.drive.state = "NORMAL", c.plan.current # None, c.plan.timer # 0,
             d \in {CompletePlanAction(f), FailPlanAction(f)}
      PROVE  Sound(d) /\ Steady(c, d)
  <2>1. Freed(f) /\ Steady(c, f)
    BY <1>5, ActivityEnds DEF f
  <2>2. Sound(d) /\ Steady(f, d)
    BY <1>5, <2>1, CompleteSoundly, FailSoundly
  <2> QED BY <2>1, <2>2, SteadyOn DEF Sound, LifeSound
<1>6. Sound(d) /\ Steady(c, d)
  BY <1>1, <1>2, <1>3, <1>4, <1>5
<1> QED BY <1>6 DEF d

LEMMA RoutesAreRoutes ==
    ASSUME NEW c \in Characters, NEW route \in RoutesOf(c)
    PROVE  route \in Seq(Primitives)
<1>1. \A p, q \in Places :
        /\ [kind |-> "move", from |-> p, to |-> q] \in Primitives
        /\ [kind |-> "cross", from |-> p, to |-> q] \in Primitives
  BY DEF Primitives
<1>2. \A s \in Stations : Approaches[s] \subseteq Places
  BY PlacesAssumption
<1>3. c.at \in Places /\ c.nav.target \in Targets
  BY Fields, NavigationIs
<1>4. \A x, y, z \in Primitives : <<x>> \in Seq(Primitives) /\ <<x, y, z>> \in Seq(Primitives)
  OBVIOUS
<1>5. CASE route = <<>>
  <2>1. <<>> \in Seq(Primitives)
    OBVIOUS
  <2> QED BY <1>5, <2>1, Zenon
<1>6. CASE c.nav.target # None /\ route \in Routes(c.at, c.nav.target)
  <2> DEFINE p == c.at
             s == c.nav.target
  <2>1. p \in Places /\ s \in Stations
    BY <1>3, <1>6 DEF Targets
  <2> HIDE DEF p, s
  <2>2. \/ \E q \in Approaches[s] : route = <<[kind |-> "move", from |-> p, to |-> q]>>
        \/ \E y \in Portals, q \in Approaches[s] :
             route = <<[kind |-> "move", from |-> p, to |-> y[1]],
                       [kind |-> "cross", from |-> y[1], to |-> y[2]],
                       [kind |-> "move", from |-> y[2], to |-> q]>>
    BY <1>6 DEF Routes, p, s
  <2>3. \A y \in Portals : y[1] \in Places /\ y[2] \in Places
    BY PlacesAssumption
  <2>4. ASSUME NEW q \in Approaches[s], route = <<[kind |-> "move", from |-> p, to |-> q]>>
        PROVE  route \in Seq(Primitives)
    <3>1. [kind |-> "move", from |-> p, to |-> q] \in Primitives
      BY <1>1, <1>2, <2>1
    <3> QED BY <1>4, <2>4, <3>1, Zenon
  <2>5. ASSUME NEW y \in Portals, NEW q \in Approaches[s],
               route = <<[kind |-> "move", from |-> p, to |-> y[1]],
                         [kind |-> "cross", from |-> y[1], to |-> y[2]],
                         [kind |-> "move", from |-> y[2], to |-> q]>>
        PROVE  route \in Seq(Primitives)
    <3>1. /\ [kind |-> "move", from |-> p, to |-> y[1]] \in Primitives
          /\ [kind |-> "cross", from |-> y[1], to |-> y[2]] \in Primitives
          /\ [kind |-> "move", from |-> y[2], to |-> q] \in Primitives
      BY <1>1, <1>2, <2>1, <2>3
    <3> QED BY <1>4, <2>5, <3>1, Zenon
  <2> QED BY <2>2, <2>4, <2>5
<1> QED BY <1>5, <1>6 DEF RoutesOf

\* Orders 85 to 165: a body in one iteration.
LEMMA LivesSoundly ==
    ASSUME NEW c, Sound(c), NEW route \in Seq(Primitives), NEW open, NEW valid,
           NEW found \in BOOLEAN, NEW zone \in [Drives -> Zones]
    PROVE  LET d == LiveThrough(c, route, open, valid, found, zone) IN Sound(d) /\ Steady(c, d)
<1> DEFINE c1 == PlanNavigation(c, route)
           c2 == ExecutePlan(c1, open, valid)
           c3 == FindPath(c2, found)
           c4 == ShowMovement(c3)
           c5 == [c4 EXCEPT !.zone = zone]
           c6 == CountDown(c5, valid)
<1>1. Sound(c1) /\ Steady(c, c1)
  BY PlansSoundly
<1>2. LiveThrough(c, route, open, valid, found, zone) = c6
  BY DEF LiveThrough
<1> HIDE DEF c1
<1>3. Sound(c2) /\ Steady(c1, c2)
  BY <1>1, ExecutesSoundly
<1> HIDE DEF c2
<1>4. Sound(c3) /\ Steady(c2, c3)
  BY <1>3, PathsSoundly
<1> HIDE DEF c3
<1>5. Sound(c4) /\ Steady(c3, c4)
  BY <1>4, MovementShown
<1> HIDE DEF c4
<1>6. Sound(c5) /\ Steady(c4, c5)
  BY <1>5, ZoneSoundly
<1> HIDE DEF c5
<1>7. Sound(c6) /\ Steady(c5, c6)
  BY <1>6, CountsSoundly
<1> HIDE DEF c6
<1>8. LiveIds(c) \subseteq DOMAIN c.story
  BY DEF Sound, LifeSound
<1>9. Steady(c, c2)
  BY <1>1, <1>3, <1>8, SteadyOn
<1>10. Steady(c, c3)
  BY <1>4, <1>8, <1>9, SteadyOn
<1>11. Steady(c, c4)
  BY <1>5, <1>8, <1>10, SteadyOn
<1>12. Steady(c, c5)
  BY <1>6, <1>8, <1>11, SteadyOn
<1>13. Steady(c, c6)
  BY <1>7, <1>8, <1>12, SteadyOn
<1> QED BY <1>2, <1>7, <1>13

-----------------------------------------------------------------------------
(* The end of an affordance.                                               *)

\* Apart from the activity, the request and the execution, the same character.
Stays(c, d) ==
    /\ d.plan = c.plan /\ d.story = c.story /\ d.at = c.at /\ d.nav = c.nav
    /\ d.goal = c.goal /\ d.walking = c.walking /\ d.drive = c.drive
    /\ d.zone = c.zone /\ d.raised = c.raised /\ d.arrived = c.arrived

LEMMA RestoredIs ==
    ASSUME NEW c \in Characters, c.execution # None, c.execution.before \in Calm
    PROVE  LET d == RestoreAfter(c) IN
           /\ d \in Characters /\ d.execution = None /\ d.request = c.request
           /\ d.activity.current \in Calm /\ ~d.activity.override /\ Stays(c, d)
<1> DEFINE was == IF c.execution.before = "NONE" THEN "IDLE" ELSE c.execution.before
           show == [c.activity EXCEPT !.current = was, !.before = "NONE", !.override = FALSE]
           d == [c EXCEPT !.activity = show, !.execution = None]
<1>1. RestoreAfter(c) = d
  <2>1. \A x : [[c EXCEPT !.activity.current = x] EXCEPT
                  !.activity.before = "NONE", !.activity.override = FALSE, !.execution = None]
               = [c EXCEPT !.activity = [c.activity EXCEPT !.current = x, !.before = "NONE",
                                                            !.override = FALSE],
                           !.execution = None]
    BY DEF Characters, Shows
  <2> QED BY <2>1 DEF RestoreAfter, RestoreActivity
<1>2. c.activity \in Shows /\ was \in Shown /\ was \in Calm /\ "NONE" \in Shown
  BY Fields DEF Calm, Shown
<1> HIDE DEF was
<1>3. show \in Shows /\ show.current = was /\ show.override = FALSE
  BY <1>2 DEF Shows
<1> HIDE DEF show
<1>4. d \in Characters /\ d.execution = None /\ d.request = c.request /\ d.activity = show
  BY <1>3 DEF Characters
<1>5. Stays(c, d)
  BY DEF Characters, Stays
<1> QED BY <1>1, <1>2, <1>3, <1>4, <1>5

LEMMA CancelledIs ==
    ASSUME NEW c \in Characters, c.execution # None => c.execution.before \in Calm
    PROVE  LET d == CancelAffordance(c) IN
           /\ d \in Characters /\ d.execution = None /\ Stays(c, d)
           /\ IF c.execution = None THEN d = c
              ELSE /\ d.activity.current \in Calm /\ ~d.activity.override
                   /\ IF c.execution.source = "plan" /\ c.request # None
                        THEN /\ d.request # None /\ d.request.id = c.request.id
                             /\ d.request.status = "failed"
                        ELSE d.request = c.request
<1> DEFINE d == CancelAffordance(c)
           r == RestoreAfter(c)
<1>1. CASE c.execution = None
  <2>1. d = c
    BY <1>1 DEF CancelAffordance
  <2> HIDE DEF d
  <2> QED BY <1>1, <2>1 DEF Stays, d
<1>2. CASE c.execution # None
  <2>1. /\ r \in Characters /\ r.execution = None /\ r.request = c.request
        /\ r.activity.current \in Calm /\ ~r.activity.override /\ Stays(c, r)
    BY <1>2, RestoredIs
  <2> DEFINE q == IF c.execution.source = "plan" /\ c.request # None
                    THEN [c.request EXCEPT !.status = "failed"] ELSE c.request
  <2>2. d = [r EXCEPT !.request = q]
    <3> HIDE DEF r
    <3>1. d = [r EXCEPT !.request = IF c.execution.source = "plan" /\ r.request # None
                                      THEN [r.request EXCEPT !.status = "failed"] ELSE r.request]
      BY <1>2 DEF CancelAffordance, r
    <3> QED BY <2>1, <3>1
  <2>3. /\ q \in Requests \union {None}
        /\ IF c.execution.source = "plan" /\ c.request # None
             THEN q # None /\ q.id = c.request.id /\ q.status = "failed"
             ELSE q = c.request
    <3>1. CASE c.execution.source = "plan" /\ c.request # None
      <4>1. q = [c.request EXCEPT !.status = "failed"] /\ c.request \in Requests
        BY <3>1, Fields
      <4> HIDE DEF q
      <4>2. q \in Requests /\ q.id = c.request.id /\ q.status = "failed"
        BY <4>1 DEF Requests
      <4> QED BY <3>1, <4>2, NoneAssumption
    <3>2. CASE ~(c.execution.source = "plan" /\ c.request # None)
      BY <3>2, Fields
    <3> QED BY <3>1, <3>2
  <2> HIDE DEF q, r
  <2>4. /\ d \in Characters /\ d.execution = None /\ d.request = q
        /\ d.activity = r.activity
    BY <2>1, <2>2, <2>3 DEF Characters
  <2>5. Stays(c, d)
    BY <2>1, <2>2 DEF Stays, Characters
  <2> HIDE DEF d
  <2> QED BY <1>2, <2>1, <2>3, <2>4, <2>5 DEF d
<1> QED BY <1>1, <1>2

\* A cancelled affordance fails the request of a plan.
LEMMA CancelsSoundly ==
    ASSUME NEW c, Sound(c)
    PROVE  LET d == CancelAffordance(c) IN
           /\ Sound(d) /\ Lives(c, d) /\ d.execution = None /\ Stays(c, d)
<1> DEFINE d == CancelAffordance(c)
<1>1. c \in Characters /\ (c.execution # None => c.execution.before \in Calm)
  BY DEF Sound, ActivitySound
<1>2. /\ d \in Characters /\ d.execution = None /\ Stays(c, d)
      /\ IF c.execution = None THEN d = c
         ELSE /\ d.activity.current \in Calm /\ ~d.activity.override
              /\ IF c.execution.source = "plan" /\ c.request # None
                   THEN /\ d.request # None /\ d.request.id = c.request.id
                        /\ d.request.status = "failed"
                   ELSE d.request = c.request
  BY <1>1, CancelledIs
<1> HIDE DEF d
<1>3. LifeSound(d) /\ Lives(c, d)
  BY <1>2, NoneEnd DEF Sound, Stays
<1>4. CASE c.execution = None
  BY <1>2, <1>3, <1>4 DEF d
<1>5. CASE c.execution # None
  <2>1. PlanSound(d)
    BY <1>2 DEF Sound, PlanSound, SurvivalNavigation, Stays
  <2>2. RequestSound(d)
    BY <1>2, <1>5 DEF Sound, RequestSound, Stays
  <2>3. DriveSound(d)
    BY <1>2, <1>5 DEF Sound, DriveSound, SurvivalNavigation, RequestSound, Stays
  <2>4. MoveSound(d)
    BY <1>2 DEF Sound, MoveSound, Stays
  <2>5. ActivitySound(d)
    BY <1>2, <1>5 DEF ActivitySound
  <2> QED BY <1>2, <1>3, <2>1, <2>2, <2>3, <2>4, <2>5 DEF Sound, d
<1> QED BY <1>4, <1>5

-----------------------------------------------------------------------------
(* The drives of System 1.                                                 *)

\* Some live actions end, one is new and the others live on.
LEMMA NewWork ==
    ASSUME NEW c, NEW e, NEW d, LifeSound(c), NEW S, S \subseteq LiveIds(c),
           Ending(c, e, S), Announced(e, d), Distinct(d),
           LiveIds(d) \subseteq (LiveIds(c) \ S) \union {Len(e.story) + 1},
           \A id \in LiveIds(c) \ S :
              id \in LiveIds(d) \/ (SurvivalNavigation(c) /\ id = c.plan.current.id),
           SurvivalNavigation(d) =>
             \/ d.plan.current.id = Len(e.story) + 1
             \/ SurvivalNavigation(c) /\ d.plan.current.id = c.plan.current.id
    PROVE  LifeSound(d) /\ Lives(c, d)
<1> DEFINE new == Len(e.story) + 1
<1>1. /\ DOMAIN e.story = DOMAIN c.story /\ DOMAIN d.story = DOMAIN c.story \union {new}
      /\ new \notin DOMAIN c.story /\ Ends(d, new) = {}
      /\ \A id \in DOMAIN c.story : Ends(d, id) = Ends(e, id)
  BY DEF Ending, Announced
<1>2. Cardinality({}) = 0
  BY FS_EmptySet
<1> HIDE DEF new
<1>3. \A id \in DOMAIN d.story : Cardinality(Ends(d, id)) <= 1
  <2> TAKE id \in DOMAIN d.story
  <2>1. CASE id = new
    <3>1. Ends(d, id) = {}
      BY <1>1, <2>1
    <3> QED BY <1>2, <3>1
  <2>2. CASE id \in S /\ id # new
    BY <1>1, <2>2 DEF LifeSound, Ending
  <2>3. CASE id \notin S /\ id # new
    BY <1>1, <2>3 DEF LifeSound, Ending
  <2> QED BY <2>1, <2>2, <2>3
<1>4. \A id \in LiveIds(d) : id \in DOMAIN d.story /\ Ends(d, id) = {}
  <2> TAKE id \in LiveIds(d)
  <2>1. CASE id = new
    BY <1>1, <2>1
  <2>2. CASE id \in LiveIds(c) \ S
    BY <1>1, <2>2 DEF LifeSound, Ending
  <2> QED BY <2>1, <2>2 DEF new
<1>5. \A id \in DOMAIN c.story : Ends(c, id) # {} => Ends(d, id) # {}
  BY <1>1 DEF Ending
<1>6. \A id \in LiveIds(c) :
         \/ id \in LiveIds(d) \/ Ends(d, id) # {}
         \/ SurvivalNavigation(c) /\ id = c.plan.current.id
  BY <1>1 DEF LifeSound, Ending
<1>7. SurvivalNavigation(d) =>
         \/ d.plan.current.id \notin DOMAIN c.story
         \/ SurvivalNavigation(c) /\ d.plan.current.id = c.plan.current.id
  BY <1>1 DEF new
<1> QED BY <1>1, <1>3, <1>4, <1>5, <1>6, <1>7 DEF LifeSound, Lives

\* Apart from the plan, the story, the navigation and the activity, the same.
LEMMA DropIs ==
    ASSUME NEW c \in Characters
    PROVE  LET d == DropPlan(c) IN
           /\ d \in Characters /\ d.plan = EmptyPlan
           /\ Ending(c, d, CurrentIds(c) \union QueuedIds(c))
           /\ d.at = c.at /\ d.goal = c.goal /\ d.walking = c.walking /\ d.drive = c.drive
           /\ d.request = c.request /\ d.execution = c.execution /\ d.zone = c.zone
           /\ d.activity = IF PlanIdle(c) THEN c.activity ELSE Idle
<1> DEFINE n == [c.nav EXCEPT !.status = IF @ \in Moving THEN "INTERRUPTED" ELSE @]
           e == [c EXCEPT !.nav = n]
           f == ClearPlanLineage(e)
           show == IF PlanIdle(c) THEN c.activity ELSE Idle
           d == [f EXCEPT !.activity = show]
<1>1. n \in Navigations
  BY Fields DEF Navigations, Statuses
<1>2. e = [c EXCEPT !.nav.status = IF @ \in Moving THEN "INTERRUPTED" ELSE @]
  OBVIOUS
<1> HIDE DEF n
<1>3. /\ e \in Characters /\ e.plan = c.plan /\ e.story = c.story /\ e.at = c.at
      /\ e.goal = c.goal /\ e.walking = c.walking /\ e.activity = c.activity
      /\ e.drive = c.drive /\ e.request = c.request /\ e.execution = c.execution
      /\ e.zone = c.zone
  BY <1>1 DEF Characters
<1>4. DropPlan(c) = [f EXCEPT !.activity = IF PlanIdle(c) THEN @ ELSE Idle]
  BY <1>2 DEF DropPlan
<1> HIDE DEF e
<1>5. /\ f \in Characters /\ f.plan = EmptyPlan /\ Rest(e, f)
      /\ Ending(e, f, CurrentIds(e) \union QueuedIds(e))
  BY <1>3, ClearIs
<1> HIDE DEF f
<1>6. CurrentIds(e) = CurrentIds(c) /\ QueuedIds(e) = QueuedIds(c)
  BY <1>3 DEF CurrentIds, QueuedIds
<1>7. show \in Shows /\ DropPlan(c) = d
  <2>1. Idle \in Shows
    BY DEF Idle, Showing, Shows, Shown
  <2>2. f.activity = c.activity
    BY <1>3, <1>5 DEF Rest
  <2> QED BY <1>4, <2>1, <2>2, Fields
<1> HIDE DEF show
<1>8. /\ d \in Characters /\ d.plan = f.plan /\ d.story = f.story /\ d.at = f.at
      /\ d.goal = f.goal /\ d.walking = f.walking /\ d.activity = show
      /\ d.drive = f.drive /\ d.request = f.request /\ d.execution = f.execution
      /\ d.zone = f.zone
  BY <1>5, <1>7 DEF Characters
<1> HIDE DEF d
<1>9. Ending(c, d, CurrentIds(c) \union QueuedIds(c))
  <2> DEFINE ids == CurrentIds(c) \union QueuedIds(c)
  <2>1. Ending(e, f, ids)
    BY <1>5, <1>6
  <2>2. \A id : Ends(d, id) = Ends(f, id) /\ Ends(e, id) = Ends(c, id)
    BY <1>3, <1>8 DEF Ends
  <2> HIDE DEF ids
  <2>3. Ending(c, d, ids)
    BY <1>3, <1>8, <2>1, <2>2 DEF Ending
  <2> QED BY <2>3 DEF ids
<1> QED BY <1>3, <1>5, <1>7, <1>8, <1>9 DEF Rest, show

LEMMA WalkIs ==
    ASSUME NEW c \in Characters
    PROVE  LET d == ClearMovement(c) IN
           /\ d \in Characters /\ d.goal = None /\ d.walking = FALSE
           /\ d.plan = c.plan /\ d.story = c.story /\ d.at = c.at /\ d.nav = c.nav
           /\ d.activity = c.activity /\ d.drive = c.drive /\ d.request = c.request
           /\ d.execution = c.execution /\ d.zone = c.zone
BY DEF ClearMovement, Characters

\* The fields of the drive a character has.
LEMMA ControlIs ==
    ASSUME NEW c \in Characters, NEW drive \in Controls
    PROVE  LET d == [c EXCEPT !.drive = drive] IN
           /\ d \in Characters /\ d.drive = drive /\ d.goal = c.goal /\ d.walking = c.walking
           /\ d.plan = c.plan /\ d.story = c.story /\ d.at = c.at /\ d.nav = c.nav
           /\ d.activity = c.activity /\ d.request = c.request
           /\ d.execution = c.execution /\ d.zone = c.zone
BY DEF Characters

LEMMA CorrectionIs ==
    ASSUME NEW c \in Characters, NEW x \in Drives
    PROVE  LET d == NewCorrection(c, x) IN
           /\ d \in Characters /\ Announced(c, d)
           /\ d.drive.state = c.drive.state /\ d.drive.active = x
           /\ d.drive.target = c.drive.target /\ d.drive.correction # None
           /\ d.drive.correction.id = Len(c.story) + 1
           /\ d.goal = c.goal /\ d.walking = c.walking
           /\ d.plan = c.plan /\ d.at = c.at /\ d.nav = c.nav
           /\ d.activity = c.activity /\ d.request = c.request
           /\ d.execution = c.execution /\ d.zone = c.zone
<1> DEFINE e == Announce(c)
           new == NewAction(c, Corrects[x], None, "system1")
           drive == [e.drive EXCEPT !.active = x, !.started = FALSE, !.correction = new]
           d == [e EXCEPT !.drive = drive]
<1>1. NewCorrection(c, x) = d
  BY DEF NewCorrection
<1>2. /\ e \in Characters /\ e.plan = c.plan /\ Rest(c, e) /\ Announced(c, e)
      /\ Len(c.story) \in Nat
  BY AnnounceIs
<1>3. new \in Actions /\ new.id = Len(c.story) + 1
  BY <1>2 DEF NewAction, Actions, Acts, Corrective, Targets
<1> HIDE DEF e, new
<1>4. e.drive \in Controls /\ e.drive = c.drive
  BY <1>2, Fields DEF Rest
<1>5. /\ drive \in Controls /\ drive.state = c.drive.state /\ drive.active = x
      /\ drive.target = c.drive.target /\ drive.correction = new
  BY <1>3, <1>4 DEF Controls
<1> HIDE DEF drive
<1>6. /\ d \in Characters /\ d.drive = drive /\ d.goal = e.goal /\ d.walking = e.walking
      /\ d.plan = e.plan /\ d.story = e.story /\ d.at = e.at /\ d.nav = e.nav
      /\ d.activity = e.activity /\ d.request = e.request
      /\ d.execution = e.execution /\ d.zone = e.zone
  BY <1>2, <1>5, ControlIs
<1> HIDE DEF d
<1>7. Announced(c, d)
  BY <1>2, <1>6 DEF Announced, Ends
<1>8. new # None
  BY <1>3, NoneAssumption
<1> QED BY <1>1, <1>2, <1>3, <1>5, <1>6, <1>7, <1>8 DEF Rest

\* Outside the normal state a plan is empty or the way to the correction.
LEMMA ClearsSoundly ==
    ASSUME NEW c, Sound(c), c.drive.state # "NORMAL"
    PROVE  LET d == ClearPlan(c) IN Sound(d) /\ Steady(c, d) /\ d.at = c.at
<1> DEFINE d == DropPlan(c)
<1>1. CASE SurvivalNavigation(c)
  BY <1>1, NoneEnd DEF ClearPlan, Sound, Steady
<1>2. CASE ~SurvivalNavigation(c)
  <2>1. ClearPlan(c) = d
    BY <1>2 DEF ClearPlan
  <2>2. PlanIdle(c) /\ c \in Characters
    BY <1>2 DEF Sound, DriveSound, PlanIdle
  <2>3. /\ d \in Characters /\ d.plan = EmptyPlan
        /\ Ending(c, d, CurrentIds(c) \union QueuedIds(c))
        /\ d.at = c.at /\ d.goal = c.goal /\ d.walking = c.walking /\ d.drive = c.drive
        /\ d.request = c.request /\ d.execution = c.execution /\ d.activity = c.activity
    BY <2>2, DropIs
  <2> HIDE DEF d
  <2>4. /\ d.plan.current = None /\ d.plan.queue = <<>> /\ d.plan.timer = 0
        /\ d.plan.waiting = "no"
    BY <2>3, EmptyPlanIs
  <2>5. LifeSound(d) /\ Lives(c, d)
    BY <2>3, <2>4, PlanEnds DEF Sound
  <2>6. PlanSound(d)
    BY <2>4 DEF PlanSound, SurvivalNavigation
  <2>7. c.request = None /\ c.plan.current = None /\ c.plan.timer = 0
    BY <2>2 DEF PlanIdle, Sound, DriveSound, PlanSound
  <2>8. RequestSound(d)
    BY <2>3, <2>4, <2>7 DEF Sound, RequestSound
  <2>9. DriveSound(d)
    BY <2>3, <2>4 DEF Sound, DriveSound
  <2>10. MoveSound(d)
    BY <2>3 DEF Sound, MoveSound
  <2>11. ActivitySound(d)
    BY <2>3, <2>4, <2>7 DEF Sound, ActivitySound
  <2> QED BY <2>1, <2>3, <2>5, <2>6, <2>8, <2>9, <2>10, <2>11 DEF Sound, Steady
<1> QED BY <1>1, <1>2

\* System 1 gives the body back.
LEMMA ResolvesSoundly ==
    ASSUME NEW c, Sound(c), c.drive.state # "NORMAL", c.execution = None
    PROVE  LET d == ResolveSystem1(c) IN
           Sound(d) /\ Lives(c, d) /\ d.drive = Normal /\ d.execution = None
<1> DEFINE w == ClearMovement(c)
           S == {c.drive.correction.id}
           t == Tell(w, S, "completed")
           d == [t EXCEPT !.drive = Normal]
<1>1. c \in Characters /\ LifeSound(c) /\ c.drive.correction # None
  BY DEF Sound, DriveSound
<1>2. /\ w \in Characters /\ w.goal = None /\ w.walking = FALSE /\ w.plan = c.plan
      /\ w.story = c.story /\ w.activity = c.activity /\ w.drive = c.drive
      /\ w.request = c.request /\ w.execution = c.execution
  BY <1>1, WalkIs
<1>3. ResolveSystem1(c) = d
  BY <1>2 DEF ResolveSystem1
<1> HIDE DEF w, S
<1>4. t \in Characters /\ t.plan = w.plan /\ Rest(w, t) /\ Ending(w, t, S)
  BY <1>2, TellIs DEF Events, Terminal
<1> HIDE DEF t
<1>5. Normal \in Controls /\ Normal.state = "NORMAL" /\ Normal.active = None
      /\ Normal.target = None /\ Normal.correction = None
  BY DEF Normal, Controls, DriveStates, Targets
<1>6. /\ d \in Characters /\ d.drive = Normal /\ d.goal = t.goal /\ d.walking = t.walking
      /\ d.plan = t.plan /\ d.story = t.story /\ d.activity = t.activity
      /\ d.request = t.request /\ d.execution = t.execution
  BY <1>4, <1>5, ControlIs
<1> HIDE DEF d
<1>7. /\ d.goal = None /\ d.walking = FALSE /\ d.plan = c.plan /\ d.activity = c.activity
      /\ d.request = None /\ d.execution = None /\ c.request = None
  BY <1>2, <1>4, <1>6 DEF Rest, Sound, DriveSound
<1>8. Ending(c, d, S)
  BY <1>2, <1>4, <1>6 DEF Ending, Ends
<1>9. CurrentIds(d) = CurrentIds(c) /\ QueuedIds(d) = QueuedIds(c)
  BY <1>7 DEF CurrentIds, QueuedIds
<1>10. S \subseteq LiveIds(c) /\ LiveIds(d) = LiveIds(c) \ S
  BY <1>1, <1>5, <1>6, <1>9 DEF LiveIds, LifeSound, Distinct, S
<1>11. Distinct(d)
  BY <1>1, <1>5, <1>6, <1>7, <1>9 DEF LifeSound, Distinct
<1>12. SurvivalNavigation(d) <=> SurvivalNavigation(c)
  BY <1>7 DEF SurvivalNavigation
<1>13. LifeSound(d) /\ Lives(c, d)
  BY <1>1, <1>7, <1>8, <1>10, <1>11, <1>12, SomeEnd
<1>14. PlanSound(d)
  BY <1>7, <1>12 DEF Sound, PlanSound
<1>15. RequestSound(d)
  BY <1>7 DEF Sound, RequestSound
<1>16. DriveSound(d)
  BY <1>5, <1>6, <1>7 DEF DriveSound
<1>17. MoveSound(d)
  BY <1>7 DEF MoveSound
<1>18. ActivitySound(d)
  BY <1>7 DEF Sound, ActivitySound
<1> QED BY <1>3, <1>6, <1>7, <1>13, <1>14, <1>15, <1>16, <1>17, <1>18 DEF Sound

\* A critical drive takes the body of a character in the normal state.
LEMMA ActivatesSoundly ==
    ASSUME NEW c, Sound(c), c.drive.state = "NORMAL", NEW x \in Drives
    PROVE  LET d == ActivateSystem1(c, x) IN
           /\ Sound(d) /\ Lives(c, d) /\ d.drive.state # "NORMAL"
           /\ d.execution = None /\ d.drive.target = None
<1> DEFINE p == ClearPlan(c)
           w == ClearMovement(p)
           k == CancelAffordance(w)
           e == [k EXCEPT !.request = None, !.activity = Idle]
           drive == [e.drive EXCEPT !.state = "PREEMPTING"]
           t == [e EXCEPT !.drive = drive]
           d == NewCorrection(t, x)
           S == IF SurvivalNavigation(c) THEN {} ELSE CurrentIds(c) \union QueuedIds(c)
<1>1. /\ c \in Characters /\ LifeSound(c) /\ PlanSound(c) /\ DriveSound(c)
      /\ c.execution # None => c.execution.before \in Calm
  BY DEF Sound, ActivitySound
<1>2. /\ p \in Characters /\ Ending(c, p, S) /\ p.drive = c.drive /\ p.execution = c.execution
      /\ SurvivalNavigation(c) => p.plan = c.plan
      /\ ~SurvivalNavigation(c) => p.plan = EmptyPlan
  <2>1. CASE SurvivalNavigation(c)
    BY <1>1, <2>1 DEF ClearPlan, Ending
  <2>2. CASE ~SurvivalNavigation(c)
    <3>1. p = DropPlan(c)
      BY <2>2 DEF ClearPlan
    <3> QED BY <1>1, <2>2, <3>1, DropIs
  <2> QED BY <2>1, <2>2
<1>3. ActivateSystem1(c, x) = d
  BY DEF ActivateSystem1, Transition
<1> HIDE DEF p, S
<1>4. /\ w \in Characters /\ w.goal = None /\ w.walking = FALSE /\ w.plan = p.plan
      /\ w.story = p.story /\ w.drive = p.drive /\ w.execution = p.execution
  BY <1>2, WalkIs
<1> HIDE DEF w
<1>5. k \in Characters /\ k.execution = None /\ Stays(w, k)
  BY <1>1, <1>2, <1>4, CancelledIs
<1> HIDE DEF k
<1>6. /\ e \in Characters /\ e.request = None /\ e.activity = Idle /\ e.plan = k.plan
      /\ e.story = k.story /\ e.drive = k.drive /\ e.execution = k.execution
      /\ e.goal = k.goal /\ e.walking = k.walking
  BY <1>5 DEF Characters, Idle, Showing, Shows, Shown
<1> HIDE DEF e
<1>7. drive \in Controls /\ drive.state = "PREEMPTING" /\ drive.target = e.drive.target
  BY SMTT(30), <1>6, Fields DEF Controls, DriveStates
<1> HIDE DEF drive
<1>8. /\ t \in Characters /\ t.drive = drive /\ t.goal = e.goal /\ t.walking = e.walking
      /\ t.plan = e.plan /\ t.story = e.story /\ t.activity = e.activity
      /\ t.request = e.request /\ t.execution = e.execution
  BY <1>6, <1>7, ControlIs
<1> HIDE DEF t
<1>9. /\ d \in Characters /\ Announced(t, d)
      /\ d.drive.state = t.drive.state /\ d.drive.active = x
      /\ d.drive.target = t.drive.target /\ d.drive.correction # None
      /\ d.drive.correction.id = Len(t.story) + 1
      /\ d.goal = t.goal /\ d.walking = t.walking /\ d.plan = t.plan
      /\ d.activity = t.activity /\ d.request = t.request /\ d.execution = t.execution
  BY <1>8, CorrectionIs
<1> HIDE DEF d
<1>10. /\ d.plan = p.plan /\ d.goal = None /\ d.walking = FALSE /\ d.activity = Idle
       /\ d.request = None /\ d.execution = None /\ d.drive.state = "PREEMPTING"
       /\ d.drive.target = None
  BY <1>1, <1>2, <1>4, <1>5, <1>6, <1>7, <1>8, <1>9 DEF Stays, DriveSound
<1>11. t.story = p.story /\ Ending(c, t, S)
  BY <1>2, <1>4, <1>5, <1>6, <1>8 DEF Stays, Ending, Ends
<1>12. d.plan.queue = <<>> /\ QueuedIds(d) = {}
  BY <1>1, <1>2, <1>10, EmptyPlanIs DEF PlanSound, QueuedIds
<1>13. CurrentIds(d) = CurrentIds(c) \ S /\ QueuedIds(c) \subseteq S \union QueuedIds(d)
  <2>1. CASE SurvivalNavigation(c)
    BY <1>1, <1>2, <1>10, <1>12, <2>1 DEF CurrentIds, QueuedIds, S, PlanSound
  <2>2. CASE ~SurvivalNavigation(c)
    BY <1>2, <1>10, <2>2, EmptyPlanIs DEF CurrentIds, S
  <2> QED BY <2>1, <2>2
<1>14. /\ LiveIds(c) = CurrentIds(c) \union QueuedIds(c) /\ S \subseteq LiveIds(c)
       /\ LiveIds(d) = CurrentIds(d) \union {Len(t.story) + 1}
  BY <1>1, <1>9, <1>12 DEF LiveIds, S, DriveSound
<1>15. Len(t.story) + 1 \notin CurrentIds(d)
  BY <1>1, <1>9, <1>11, <1>13, <1>14 DEF Announced, LifeSound, Ending
<1>16. Distinct(d)
  BY <1>9, <1>12, <1>15 DEF Distinct
<1>17. SurvivalNavigation(d) =>
          SurvivalNavigation(c) /\ d.plan.current.id = c.plan.current.id
  BY <1>2, <1>10, EmptyPlanIs DEF SurvivalNavigation
<1>18. /\ LiveIds(d) \subseteq (LiveIds(c) \ S) \union {Len(t.story) + 1}
       /\ \A id \in LiveIds(c) \ S : id \in LiveIds(d)
  BY <1>12, <1>13, <1>14
<1>19. LifeSound(d) /\ Lives(c, d)
  BY <1>1, <1>9, <1>11, <1>14, <1>16, <1>17, <1>18, NewWork
<1>20. d.plan.waiting = "no" /\ d.plan.timer = 0
  <2>1. CASE SurvivalNavigation(c)
    BY <1>2, <1>10, <2>1, NavigatingPlan DEF SurvivalNavigation
  <2>2. CASE ~SurvivalNavigation(c)
    BY <1>2, <1>10, <2>2, EmptyPlanIs
  <2> QED BY <2>1, <2>2
<1>21. d.plan.current = None \/ SurvivalNavigation(d)
  BY <1>2, <1>10, EmptyPlanIs DEF SurvivalNavigation
<1>22. PlanSound(d)
  BY <1>12, <1>20 DEF PlanSound
<1>23. RequestSound(d)
  BY <1>10, <1>20 DEF RequestSound
<1>24. DriveSound(d)
  <2>1. x # None
    BY NoneAssumption
  <2> QED BY <1>9, <1>10, <1>12, <1>21, <2>1 DEF DriveSound
<1>25. MoveSound(d)
  BY <1>10 DEF MoveSound
<1>26. ActivitySound(d)
  BY <1>10 DEF ActivitySound, Idle, Showing, Calm
<1> QED BY <1>3, <1>9, <1>10, <1>19, <1>22, <1>23, <1>24, <1>25, <1>26 DEF Sound

\* A more critical drive takes the body from another.
LEMMA ChangesSoundly ==
    ASSUME NEW c, Sound(c), c.drive.state # "NORMAL", NEW x \in Drives
    PROVE  LET d == ChangeDrive(c, x) IN
           /\ Sound(d) /\ Lives(c, d) /\ d.drive.state # "NORMAL"
           /\ d.execution = None /\ d.drive.target = None
<1> DEFINE p == DropPlan(c)
           I == {c.drive.correction.id}
           t == Tell(p, I, "cancelled")
           k == CancelAffordance(t)
           w == ClearMovement(k)
           drive == [w.drive EXCEPT !.target = None, !.place = None]
           e == [w EXCEPT !.request = None, !.drive = drive]
           d == NewCorrection(e, x)
           P == CurrentIds(c) \union QueuedIds(c)
<1>1. /\ c \in Characters /\ LifeSound(c) /\ PlanSound(c) /\ DriveSound(c) /\ Distinct(c)
      /\ c.execution # None => c.execution.before \in Calm
  BY DEF Sound, ActivitySound, LifeSound
<1>2. /\ p \in Characters /\ p.plan = EmptyPlan /\ Ending(c, p, P) /\ p.drive = c.drive
      /\ p.request = c.request /\ p.execution = c.execution
      /\ p.activity = IF PlanIdle(c) THEN c.activity ELSE Idle
  BY <1>1, DropIs
<1>3. ChangeDrive(c, x) = d
  <2>1. \A v : [v EXCEPT !.request = None, !.drive.target = None, !.drive.place = None]
               = [v EXCEPT !.request = None,
                           !.drive = [v.drive EXCEPT !.target = None, !.place = None]]
    OBVIOUS
  <2> QED BY <2>1 DEF ChangeDrive
<1> HIDE DEF p, P, I
<1>4. t \in Characters /\ t.plan = p.plan /\ Rest(p, t) /\ Ending(p, t, I)
  BY <1>2, TellIs DEF Events, Terminal
<1> HIDE DEF t
<1>5. /\ t.plan = EmptyPlan /\ t.drive = c.drive /\ t.request = None /\ t.execution = c.execution
      /\ t.activity = IF PlanIdle(c) THEN c.activity ELSE Idle
  BY <1>1, <1>2, <1>4 DEF Rest, DriveSound
<1>6. /\ k \in Characters /\ k.execution = None /\ Stays(t, k)
      /\ IF c.execution = None THEN k = t
         ELSE k.activity.current \in Calm /\ ~k.activity.override
  BY <1>1, <1>4, <1>5, CancelledIs
<1> HIDE DEF k
<1>7. /\ w \in Characters /\ w.goal = None /\ w.walking = FALSE /\ w.plan = k.plan
      /\ w.story = k.story /\ w.activity = k.activity /\ w.drive = k.drive
      /\ w.execution = k.execution
  BY <1>6, WalkIs
<1> HIDE DEF w
<1>8. drive \in Controls /\ drive.state = w.drive.state /\ drive.target = None
  BY <1>7, Fields DEF Controls, Targets
<1> HIDE DEF drive
<1>9. /\ e \in Characters /\ e.drive = drive /\ e.goal = w.goal /\ e.walking = w.walking
      /\ e.plan = w.plan /\ e.story = w.story /\ e.activity = w.activity
      /\ e.request = None /\ e.execution = w.execution
  BY <1>7, <1>8 DEF Characters
<1> HIDE DEF e
<1>10. /\ d \in Characters /\ Announced(e, d)
       /\ d.drive.state = e.drive.state /\ d.drive.active = x
       /\ d.drive.target = e.drive.target /\ d.drive.correction # None
       /\ d.drive.correction.id = Len(e.story) + 1
       /\ d.goal = e.goal /\ d.walking = e.walking /\ d.plan = e.plan
       /\ d.activity = e.activity /\ d.request = e.request /\ d.execution = e.execution
  BY <1>9, CorrectionIs
<1> HIDE DEF d
<1>11. /\ d.plan = EmptyPlan /\ d.goal = None /\ d.walking = FALSE /\ d.activity = k.activity
       /\ d.request = None /\ d.execution = None /\ d.drive.state = c.drive.state
       /\ d.drive.target = None
  BY <1>5, <1>6, <1>7, <1>8, <1>9, <1>10 DEF Stays
<1>12. e.story = t.story /\ P \intersect I = {} /\ LiveIds(c) = P \union I
  BY <1>1, <1>6, <1>7, <1>9 DEF Stays, Distinct, DriveSound, LiveIds, P, I
<1>13. Ending(c, e, LiveIds(c))
  <2>1. \A id : Ends(e, id) = Ends(t, id)
    BY <1>12 DEF Ends
  <2>2. DOMAIN e.story = DOMAIN c.story
    BY <1>2, <1>4, <1>12 DEF Ending
  <2>3. ASSUME NEW id \in DOMAIN c.story, id \in LiveIds(c)
        PROVE  Ends(e, id) # {} /\ (Ends(c, id) = {} => Cardinality(Ends(e, id)) <= 1)
    <3>1. CASE id \in P
      BY <1>2, <1>4, <1>12, <2>1, <2>3, <3>1 DEF Ending
    <3>2. CASE id \in I
      BY <1>2, <1>4, <1>12, <2>1, <2>3, <3>2 DEF Ending
    <3> QED BY <1>12, <2>3, <3>1, <3>2
  <2>4. ASSUME NEW id \in DOMAIN c.story, id \notin LiveIds(c)
        PROVE  Ends(e, id) = Ends(c, id)
    BY <1>2, <1>4, <1>12, <2>1, <2>4 DEF Ending
  <2> QED BY <2>2, <2>3, <2>4 DEF Ending
<1>14. /\ d.plan.queue = <<>> /\ d.plan.current = None /\ d.plan.waiting = "no"
       /\ d.plan.timer = 0
  BY <1>11, EmptyPlanIs
<1>15. CurrentIds(d) = {} /\ QueuedIds(d) = {} /\ LiveIds(d) = {Len(e.story) + 1}
  BY <1>10, <1>14 DEF CurrentIds, QueuedIds, LiveIds
<1>16. Distinct(d) /\ ~SurvivalNavigation(d)
  BY <1>14, <1>15 DEF Distinct, SurvivalNavigation
<1>17. LifeSound(d) /\ Lives(c, d)
  <2> DEFINE S == LiveIds(c)
  <2>1. S \subseteq LiveIds(c) /\ Ending(c, e, S)
    BY <1>13
  <2>2. LiveIds(d) \subseteq (LiveIds(c) \ S) \union {Len(e.story) + 1}
    BY <1>15
  <2>3. \A id \in LiveIds(c) \ S : FALSE
    OBVIOUS
  <2> HIDE DEF S
  <2> QED BY <1>1, <1>10, <1>16, <2>1, <2>2, <2>3, NewWork
<1>18. PlanSound(d)
  BY <1>14, <1>16 DEF PlanSound
<1>19. RequestSound(d)
  BY <1>11, <1>14 DEF RequestSound
<1>20. DriveSound(d)
  <2>1. x # None
    BY NoneAssumption
  <2> QED BY <1>10, <1>11, <1>14, <2>1 DEF DriveSound
<1>21. MoveSound(d)
  BY <1>11 DEF MoveSound
<1>22. ActivitySound(d)
  <2>1. CASE c.execution # None
    BY <1>6, <1>11, <2>1 DEF ActivitySound
  <2>2. CASE c.execution = None /\ PlanIdle(c)
    <3>1. c.plan.timer = 0
      BY <1>1, <2>2 DEF PlanIdle, PlanSound
    <3> QED BY <1>5, <1>6, <1>11, <1>14, <2>2, <3>1 DEF Sound, ActivitySound
  <2>3. CASE c.execution = None /\ ~PlanIdle(c)
    BY <1>5, <1>6, <1>11, <2>3 DEF ActivitySound, Idle, Showing, Calm
  <2> QED BY <2>1, <2>2, <2>3
<1> QED BY <1>3, <1>10, <1>11, <1>17, <1>18, <1>19, <1>20, <1>21, <1>22 DEF Sound

\* The drive goes on in another state or to another target.
LEMMA RedrivenSoundly ==
    ASSUME NEW c, Sound(c), c.drive.state # "NORMAL", NEW drive \in Controls,
           drive.state # "NORMAL", drive.active = c.drive.active,
           drive.correction = c.drive.correction,
           c.execution # None => drive.target = c.drive.target
    PROVE  LET d == [c EXCEPT !.drive = drive] IN
           /\ Sound(d) /\ Lives(c, d) /\ d.drive = drive /\ d.execution = c.execution
           /\ d.at = c.at /\ d.plan = c.plan /\ d.goal = c.goal
<1> DEFINE d == [c EXCEPT !.drive = drive]
<1>1. /\ d \in Characters /\ d.drive = drive /\ d.goal = c.goal /\ d.walking = c.walking
      /\ d.plan = c.plan /\ d.story = c.story /\ d.at = c.at /\ d.nav = c.nav
      /\ d.activity = c.activity /\ d.request = c.request /\ d.execution = c.execution
  BY ControlIs DEF Sound
<1> HIDE DEF d
<1>2. LifeSound(d) /\ Lives(c, d)
  BY <1>1, NoneEnd DEF Sound
<1>3. SurvivalNavigation(d) <=> SurvivalNavigation(c)
  BY <1>1 DEF SurvivalNavigation
<1>4. PlanSound(d)
  BY <1>1, <1>3 DEF Sound, PlanSound
<1>5. RequestSound(d)
  BY <1>1 DEF Sound, RequestSound
<1>6. DriveSound(d)
  BY <1>1, <1>3 DEF Sound, DriveSound
<1>7. MoveSound(d)
  BY <1>1 DEF Sound, MoveSound
<1>8. ActivitySound(d)
  BY <1>1 DEF Sound, ActivitySound
<1> QED BY <1>1, <1>2, <1>4, <1>5, <1>6, <1>7, <1>8 DEF Sound, d

LEMMA TransitionsSoundly ==
    ASSUME NEW c, Sound(c), c.drive.state # "NORMAL",
           NEW state \in DriveStates \ {"NORMAL"}
    PROVE  LET d == Transition(c, state) IN
           /\ Sound(d) /\ Lives(c, d) /\ d.drive.state # "NORMAL"
           /\ d.drive.target = c.drive.target /\ d.execution = c.execution
<1> DEFINE drive == [c.drive EXCEPT !.state = state]
           d == [c EXCEPT !.drive = drive]
<1>1. Transition(c, state) = d
  BY DEF Transition
<1>2. /\ drive \in Controls /\ drive.state = state /\ drive.active = c.drive.active
      /\ drive.correction = c.drive.correction /\ drive.target = c.drive.target
  BY Fields DEF Sound, Controls
<1> HIDE DEF drive
<1>3. Sound(d) /\ Lives(c, d) /\ d.drive = drive /\ d.execution = c.execution
  BY <1>2, RedrivenSoundly
<1> QED BY <1>1, <1>2, <1>3

LEMMA StopsSoundly ==
    ASSUME NEW c, Sound(c)
    PROVE  LET d == ClearMovement(c) IN
           /\ Sound(d) /\ Steady(c, d) /\ d.at = c.at /\ d.goal = None /\ d.plan = c.plan
           /\ d.story = c.story
<1> DEFINE d == ClearMovement(c)
<1>1. /\ d \in Characters /\ d.goal = None /\ d.walking = FALSE
      /\ d.plan = c.plan /\ d.story = c.story /\ d.at = c.at /\ d.nav = c.nav
      /\ d.activity = c.activity /\ d.drive = c.drive /\ d.request = c.request
      /\ d.execution = c.execution
  BY WalkIs DEF Sound
<1> HIDE DEF d
<1>2. MoveSound(d)
  BY <1>1 DEF MoveSound
<1> QED BY <1>1, <1>2, SameWork DEF d

\* A survival goal in the room.
LEMMA GoesSoundly ==
    ASSUME NEW c, Sound(c), c.drive.state # "NORMAL", NEW p \in Places, c.at # p,
           RoomOf[c.at] = RoomOf[p]
    PROVE  LET d == [c EXCEPT !.goal = p, !.walking = FALSE] IN
           Sound(d) /\ Steady(c, d)
<1> DEFINE d == [c EXCEPT !.goal = p, !.walking = FALSE]
<1>1. /\ d \in Characters /\ d.goal = p /\ d.walking = FALSE
      /\ d.plan = c.plan /\ d.story = c.story /\ d.at = c.at /\ d.nav = c.nav
      /\ d.activity = c.activity /\ d.drive = c.drive /\ d.request = c.request
      /\ d.execution = c.execution
  BY DEF Sound, Characters
<1> HIDE DEF d
<1>2. MoveSound(d)
  BY <1>1 DEF MoveSound
<1> QED BY <1>1, <1>2, SameWork DEF d

\* An event that ends nothing.
LEMMA TellsSoundly ==
    ASSUME NEW c, Sound(c), NEW ids
    PROVE  LET d == Tell(c, ids, "started") IN
           /\ Sound(d) /\ Steady(c, d) /\ d.at = c.at /\ d.plan = c.plan
<1> DEFINE d == Tell(c, ids, "started")
<1>1. d \in Characters /\ d.plan = c.plan /\ Rest(c, d) /\ Ending(c, d, {})
  BY TellIs DEF Sound, Events, Terminal
<1> HIDE DEF d
<1>2. LifeSound(d) /\ Lives(c, d)
  BY <1>1, NoneEnd DEF Sound, Rest
<1>3. SurvivalNavigation(d) <=> SurvivalNavigation(c)
  BY <1>1 DEF SurvivalNavigation
<1>4. PlanSound(d)
  BY <1>1, <1>3 DEF Sound, PlanSound
<1>5. RequestSound(d)
  BY <1>1 DEF Sound, RequestSound, Rest
<1>6. DriveSound(d)
  BY <1>1, <1>3 DEF Sound, DriveSound, Rest
<1>7. MoveSound(d)
  BY <1>1 DEF Sound, MoveSound, Rest
<1>8. ActivitySound(d)
  BY <1>1 DEF Sound, ActivitySound, Rest
<1>9. Steady(c, d) /\ d.at = c.at
  BY <1>1, <1>2 DEF Steady, Rest
<1> QED BY <1>1, <1>2, <1>4, <1>5, <1>6, <1>7, <1>8, <1>9 DEF Sound, d

LEMMA AimsSoundly ==
    ASSUME NEW c, Sound(c), c.drive.state # "NORMAL", NEW s \in Stations, NEW p \in Places
    PROVE  LET d == AimAt(c, s, p) IN
           /\ Sound(d) /\ Lives(c, d) /\ d.drive.state # "NORMAL" /\ d.drive.target = s
           /\ d.execution \in {None, c.execution} /\ d.at = c.at
<1> DEFINE k == CancelAffordance(c)
           told == IF c.drive.started THEN k ELSE Tell(k, {c.drive.correction.id}, "started")
           drive == [told.drive EXCEPT !.target = s, !.place = p, !.started = TRUE]
           d == [told EXCEPT !.drive = drive]
<1>1. CASE c.drive.target = s /\ c.drive.place = p
  BY <1>1, NoneEnd DEF AimAt, Sound
<1>2. CASE ~(c.drive.target = s /\ c.drive.place = p)
  <2>1. AimAt(c, s, p) = d
    BY <1>2 DEF AimAt
  <2>2. /\ Sound(k) /\ Lives(c, k) /\ k.execution = None /\ k.drive = c.drive /\ k.at = c.at
    BY CancelsSoundly DEF Stays
  <2> HIDE DEF k
  <2>3. /\ Sound(told) /\ Lives(c, told) /\ told.execution = None /\ told.drive = c.drive
        /\ told.at = c.at
    <3>1. CASE c.drive.started
      BY <2>2, <3>1
    <3>2. CASE ~c.drive.started
      <4> DEFINE t == Tell(k, {c.drive.correction.id}, "started")
      <4>1. Sound(t) /\ Steady(k, t) /\ t.at = k.at
        BY <2>2, TellsSoundly
      <4>2. told = t
        BY <3>2
      <4> HIDE DEF t, told
      <4>3. Lives(c, t)
        BY <2>2, <4>1, LivesOn DEF Steady, Sound, LifeSound
      <4> QED BY <2>2, <4>1, <4>2, <4>3 DEF Steady
    <3> QED BY <3>1, <3>2
  <2> HIDE DEF told
  <2>4. told.drive \in Controls
    BY <2>3, Fields DEF Sound
  <2>5. /\ drive \in Controls /\ drive.state = c.drive.state /\ drive.active = c.drive.active
        /\ drive.correction = c.drive.correction /\ drive.target = s
    BY <2>3, <2>4 DEF Controls, Targets
  <2> HIDE DEF drive
  <2>6. Sound(d) /\ Lives(told, d) /\ d.drive = drive /\ d.execution = None /\ d.at = c.at
    BY <2>3, <2>5, RedrivenSoundly
  <2> HIDE DEF d
  <2>7. Lives(c, d)
    BY <2>3, <2>6, LivesOn DEF Sound, LifeSound
  <2> QED BY <2>1, <2>5, <2>6, <2>7
<1> QED BY <1>1, <1>2

\* One action more at the end of the plan.
LEMMA QueueIs ==
    ASSUME NEW c \in Characters, NEW act \in Acts, NEW target \in Targets,
           NEW origin \in {"plan", "system1"}
    PROVE  LET d == QueueAction(c, act, target, origin)
               new == NewAction(c, act, target, origin) IN
           /\ d \in Characters /\ Rest(c, d) /\ Announced(c, d)
           /\ new \in Actions /\ new.id = Len(c.story) + 1
           /\ new.act = act /\ new.origin = origin
           /\ d.plan.queue = Append(c.plan.queue, new) /\ d.plan.current = c.plan.current
           /\ d.plan.timer = c.plan.timer /\ d.plan.waiting = c.plan.waiting
<1> DEFINE e == Announce(c)
           new == NewAction(c, act, target, origin)
           queue == Append(c.plan.queue, new)
           plan == [e.plan EXCEPT !.open = TRUE, !.queue = queue]
           d == [e EXCEPT !.plan = plan]
<1>1. /\ e \in Characters /\ e.plan = c.plan /\ Rest(c, e) /\ Announced(c, e)
      /\ Len(c.story) \in Nat
  BY AnnounceIs
<1>2. QueueAction(c, act, target, origin) = d
  <2>1. QueueAction(c, act, target, origin)
          = [e EXCEPT !.plan = [e.plan EXCEPT !.open = TRUE, !.queue = Append(e.plan.queue, new)]]
    BY DEF QueueAction
  <2> QED BY <1>1, <2>1
<1>3. /\ new \in Actions /\ new.id = Len(c.story) + 1
      /\ new.act = act /\ new.origin = origin
  BY <1>1 DEF NewAction, Actions
<1> HIDE DEF e, new
<1>4. queue \in Seq(Actions) /\ c.plan \in Plans
  BY <1>3, PlanFields, Fields
<1> HIDE DEF queue
<1>5. /\ plan \in Plans /\ plan.queue = queue /\ plan.current = c.plan.current
      /\ plan.timer = c.plan.timer /\ plan.waiting = c.plan.waiting
  BY <1>1, <1>4 DEF Plans
<1> HIDE DEF plan
<1>6. d \in Characters /\ d.plan = plan /\ d.story = e.story /\ Rest(e, d)
  BY <1>1, <1>5, ReplanIs
<1> HIDE DEF d
<1>7. Rest(c, d)
  BY <1>1, <1>6 DEF Rest
<1>8. Announced(c, d)
  BY <1>1, <1>6 DEF Announced, Ends
<1> QED BY <1>2, <1>3, <1>5, <1>6, <1>7, <1>8 DEF queue, new

LEMMA NavigatesSoundly ==
    ASSUME NEW c, Sound(c), c.drive.state # "NORMAL", NEW s \in Stations
    PROVE  LET d == NavigateToCorrection(c, s) IN
           /\ Sound(d) /\ Lives(c, d) /\ d.drive.state # "NORMAL"
           /\ d.drive.target = c.drive.target /\ d.execution = c.execution
<1> DEFINE w == ClearMovement(c)
           new == NewAction(w, "NAVIGATE", s, "system1")
           q == QueueAction(w, "NAVIGATE", s, "system1")
           t == TakeNext(q)
           r == RequestNavigation(t, s)
           d == NavigateToCorrection(c, s)
           good(x) == /\ Sound(x) /\ Lives(c, x) /\ x.drive.state # "NORMAL"
                      /\ x.drive.target = c.drive.target /\ x.execution = c.execution
<1>1. \/ d = Transition(c, "NAVIGATING_TO_CORRECTION")
      \/ d = Transition(c, "BLOCKED_SURVIVAL")
      \/ d = Transition(r, "NAVIGATING_TO_CORRECTION")
  BY Zenon DEF NavigateToCorrection
<1>2. {"NAVIGATING_TO_CORRECTION", "BLOCKED_SURVIVAL"} \subseteq DriveStates \ {"NORMAL"}
  BY DEF DriveStates
<1>3. good(Transition(c, "NAVIGATING_TO_CORRECTION")) /\ good(Transition(c, "BLOCKED_SURVIVAL"))
  BY <1>2, TransitionsSoundly
<1>4. /\ Sound(w) /\ Steady(c, w) /\ w.goal = None /\ w.plan = c.plan /\ w.story = c.story
  BY StopsSoundly
<1> HIDE DEF w
<1>5. /\ w \in Characters /\ w.plan.queue = <<>> /\ w.drive = c.drive /\ w.execution = c.execution
      /\ w.request = None /\ (w.plan.current = None \/ SurvivalNavigation(w))
      /\ LifeSound(w) /\ w.drive.correction # None /\ Lives(c, w)
  BY <1>4 DEF Sound, DriveSound, Steady
<1>6. w.plan.waiting = "no" /\ w.plan.timer = 0
  BY <1>4, <1>5, NavigatingPlan DEF SurvivalNavigation
<1>7. /\ q \in Characters /\ Rest(w, q) /\ Announced(w, q)
      /\ new \in Actions /\ new.id = Len(w.story) + 1
      /\ new.act = "NAVIGATE" /\ new.origin = "system1"
      /\ q.plan.queue = Append(w.plan.queue, new)
      /\ q.plan.timer = w.plan.timer /\ q.plan.waiting = w.plan.waiting
  <2>1. "NAVIGATE" \in Acts /\ s \in Targets
    BY DEF Acts, Targets
  <2> QED BY <1>5, <2>1, QueueIs
<1> HIDE DEF new
<1> HIDE DEF q
<1>8. /\ q.plan.queue # <<>> /\ Head(q.plan.queue) = new /\ Tail(q.plan.queue) = <<>>
  <2>1. Append(<<>>, new) = <<new>>
    OBVIOUS
  <2>2. q.plan.queue = <<new>>
    BY <1>5, <1>7, <2>1, Zenon
  <2>3. <<new>> # <<>> /\ Head(<<new>>) = new /\ Tail(<<new>>) = <<>>
    OBVIOUS
  <2> QED BY <2>2, <2>3, Zenon
<1>9. /\ t \in Characters /\ Rest(q, t) /\ t.story = q.story /\ t.plan.current = new
      /\ t.plan.queue = <<>> /\ t.plan.timer = 0 /\ t.plan.waiting = "no"
  BY <1>6, <1>7, <1>8, TakeIs
<1> HIDE DEF t
<1>10. /\ t.drive = w.drive /\ t.execution = w.execution /\ t.request = None /\ t.goal = None
       /\ t.at = w.at /\ t.nav = w.nav /\ t.walking = w.walking /\ t.activity = w.activity
  BY <1>4, <1>5, <1>7, <1>9 DEF Rest
<1>11. Announced(w, t) /\ Ending(w, w, {})
  BY <1>7, <1>9 DEF Announced, Ends, Ending
<1>12. new # None /\ SurvivalNavigation(t)
  BY <1>7, <1>9, NoneAssumption DEF SurvivalNavigation
<1>13. CurrentIds(t) = {Len(w.story) + 1} /\ QueuedIds(t) = {} /\ QueuedIds(w) = {}
  BY <1>5, <1>7, <1>9, <1>12 DEF CurrentIds, QueuedIds
<1>14. /\ LiveIds(w) = CurrentIds(w) \union {w.drive.correction.id}
       /\ LiveIds(t) = {Len(w.story) + 1, w.drive.correction.id}
  BY <1>5, <1>10, <1>13 DEF LiveIds
<1>15. w.drive.correction.id # Len(w.story) + 1
  BY <1>5, <1>11, <1>14 DEF LifeSound, Announced
<1>16. Distinct(t)
  BY <1>9, <1>10, <1>13, <1>15 DEF Distinct
<1>17. LifeSound(t) /\ Lives(w, t)
  <2>1. {} \subseteq LiveIds(w)
    OBVIOUS
  <2>2. LiveIds(t) \subseteq (LiveIds(w) \ {}) \union {Len(w.story) + 1}
    BY <1>14
  <2>3. \A id \in LiveIds(w) \ {} :
           id \in LiveIds(t) \/ (SurvivalNavigation(w) /\ id = w.plan.current.id)
    BY <1>5, <1>14 DEF CurrentIds
  <2>4. t.plan.current.id = Len(w.story) + 1
    BY <1>7, <1>9
  <2> QED BY <1>5, <1>11, <1>16, <2>1, <2>2, <2>3, <2>4, NewWork
<1>18. PlanSound(t)
  BY <1>9, <1>12 DEF PlanSound
<1>19. RequestSound(t)
  BY <1>4, <1>5, <1>9, <1>10 DEF Sound, RequestSound
<1>20. DriveSound(t)
  BY <1>4, <1>5, <1>9, <1>10, <1>12 DEF Sound, DriveSound
<1>21. MoveSound(t)
  BY <1>4, <1>10 DEF Sound, MoveSound
<1>22. ActivitySound(t)
  BY <1>4, <1>6, <1>9, <1>10 DEF Sound, ActivitySound
<1>23. Sound(t) /\ Lives(c, t)
  <2>1. Sound(t)
    BY <1>9, <1>17, <1>18, <1>19, <1>20, <1>21, <1>22 DEF Sound
  <2>2. Lives(c, t)
    BY <1>5, <1>17, LivesOn DEF Sound, LifeSound
  <2> QED BY <2>1, <2>2
<1>24. Sound(r) /\ Steady(t, r)
  <2>1. s \in Targets
    BY DEF Targets
  <2>2. t.drive.state # "NORMAL"
    BY <1>5, <1>10
  <2> QED BY <1>23, <2>1, <2>2, RequestsSoundly
<1> HIDE DEF r
<1>25. /\ Lives(c, r) /\ r.drive = c.drive /\ r.execution = c.execution
  BY <1>5, <1>10, <1>23, <1>24, LivesOn DEF Steady, Sound, LifeSound
<1> DEFINE u == Transition(r, "NAVIGATING_TO_CORRECTION")
<1>26. /\ Sound(u) /\ Lives(r, u) /\ u.drive.state # "NORMAL"
       /\ u.drive.target = r.drive.target /\ u.execution = r.execution
  BY <1>2, <1>24, <1>25, TransitionsSoundly
<1> HIDE DEF u
<1>27. Lives(c, u)
  BY <1>25, <1>26, LivesOn DEF Sound, LifeSound
<1>28. good(u)
  BY <1>25, <1>26, <1>27
<1> HIDE DEF d
<1>29. good(d)
  BY <1>1, <1>3, <1>28 DEF u
<1> QED BY <1>29 DEF d

LEMMA PursuesSoundly ==
    ASSUME NEW c, Sound(c), c.drive.state # "NORMAL", NEW nearest,
           nearest = None \/ (nearest[1] \in Stations /\ nearest[2] \in Places)
    PROVE  LET d == Pursue(c, nearest) IN
           /\ Sound(d) /\ Lives(c, d) /\ d.drive.state # "NORMAL"
           /\ d.execution \in {None, c.execution}
           /\ d.drive.target = None \/ (nearest # None /\ d.drive.target = nearest[1])
<1> DEFINE d == Pursue(c, nearest)
           p == nearest[2]
           s == nearest[1]
           a == AimAt(c, s, p)
<1>1. CASE nearest = None
  <2> DEFINE k == CancelAffordance(c)
             w == ClearMovement(k)
             drive == [w.drive EXCEPT !.target = None, !.place = None, !.state = "BLOCKED_SURVIVAL"]
             u == [w EXCEPT !.drive = drive]
  <2>1. d = u
    <3> HIDE DEF w
    <3>1. Transition([w EXCEPT !.drive.target = None, !.drive.place = None], "BLOCKED_SURVIVAL")
            = [w EXCEPT !.drive = [[w.drive EXCEPT !.target = None, !.place = None]
                                      EXCEPT !.state = "BLOCKED_SURVIVAL"]]
      BY DEF Transition
    <3>2. [[w.drive EXCEPT !.target = None, !.place = None] EXCEPT !.state = "BLOCKED_SURVIVAL"]
            = drive
      OBVIOUS
    <3>3. d = Transition([w EXCEPT !.drive.target = None, !.drive.place = None],
                         "BLOCKED_SURVIVAL")
      BY <1>1 DEF Pursue, w
    <3> QED BY <3>1, <3>2, <3>3
  <2>2. Sound(k) /\ Lives(c, k) /\ k.execution = None /\ k.drive = c.drive
    BY CancelsSoundly DEF Stays
  <2> HIDE DEF k
  <2>3. Sound(w) /\ Steady(k, w)
    BY <2>2, StopsSoundly
  <2> HIDE DEF w
  <2>4. Sound(w) /\ Lives(c, w) /\ w.execution = None /\ w.drive = c.drive
    BY <2>2, <2>3, LivesOn DEF Steady, Sound, LifeSound
  <2>5. w.drive \in Controls
    BY <2>4, Fields DEF Sound
  <2>6. /\ drive \in Controls /\ drive.state = "BLOCKED_SURVIVAL"
        /\ drive.active = w.drive.active
        /\ drive.correction = w.drive.correction /\ drive.target = None
    BY <2>5 DEF Controls, Targets, DriveStates
  <2> HIDE DEF drive
  <2>7. Sound(u) /\ Lives(w, u) /\ u.drive = drive /\ u.execution = None
    BY <2>4, <2>6, RedrivenSoundly
  <2> HIDE DEF u
  <2>8. Lives(c, u)
    BY <2>4, <2>7, LivesOn DEF Sound, LifeSound
  <2> HIDE DEF d
  <2>9. /\ Sound(d) /\ Lives(c, d) /\ d.drive.state # "NORMAL" /\ d.execution = None
        /\ d.drive.target = None
    BY <2>1, <2>6, <2>7, <2>8
  <2> QED BY <2>9 DEF d
<1>2. CASE nearest # None
  <2> DEFINE g == [a EXCEPT !.goal = p, !.walking = FALSE]
             u == IF c.goal = p THEN a ELSE g
             good(x) == /\ Sound(x) /\ Lives(a, x) /\ x.drive.state # "NORMAL"
                        /\ x.execution = a.execution /\ x.drive.target = a.drive.target
  <2>1. /\ Sound(a) /\ Lives(c, a) /\ a.drive.state # "NORMAL" /\ a.drive.target = s
        /\ a.execution \in {None, c.execution} /\ a.at = c.at /\ s \in Stations /\ p \in Places
    BY <1>2, AimsSoundly
  <2>2. \/ d = NavigateToCorrection(a, s)
        \/ d = Transition(ClearMovement(a), "EXECUTING_CORRECTION")
        \/ /\ RoomOf[p] = RoomOf[c.at] /\ c.at # p
           /\ d = Transition(u, "NAVIGATING_TO_CORRECTION")
    BY <1>2, Zenon DEF Pursue
  <2>3. {"NAVIGATING_TO_CORRECTION", "EXECUTING_CORRECTION"} \subseteq DriveStates \ {"NORMAL"}
    BY DEF DriveStates
  <2> HIDE DEF a, d, s, p
  <2>4. good(NavigateToCorrection(a, s))
    BY <2>1, NavigatesSoundly
  <2>5. ASSUME NEW x, Sound(x), Steady(a, x), NEW state \in DriveStates \ {"NORMAL"}
        PROVE  good(Transition(x, state))
    <3> DEFINE y == Transition(x, state)
    <3>1. x.drive.state # "NORMAL"
      BY <2>1, <2>5 DEF Steady
    <3>2. /\ Sound(y) /\ Lives(x, y) /\ y.drive.state # "NORMAL"
          /\ y.drive.target = x.drive.target /\ y.execution = x.execution
      BY <2>5, <3>1, TransitionsSoundly
    <3> HIDE DEF y
    <3>3. Lives(a, y)
      BY <2>1, <2>5, <3>2, LivesOn DEF Steady, Sound, LifeSound
    <3>4. good(y)
      BY <2>5, <3>2, <3>3 DEF Steady
    <3> QED BY <3>4 DEF y
  <2>6. good(Transition(ClearMovement(a), "EXECUTING_CORRECTION"))
    BY <2>1, <2>3, <2>5, StopsSoundly
  <2>7. RoomOf[p] = RoomOf[c.at] /\ c.at # p => Sound(u) /\ Steady(a, u)
    <3>1. CASE c.goal = p
      BY <2>1, <3>1, NoneEnd DEF Sound, Steady
    <3>2. CASE c.goal # p
      BY <2>1, <3>2, GoesSoundly
    <3> QED BY <3>1, <3>2
  <2> HIDE DEF u
  <2>8. good(d)
    BY <2>2, <2>3, <2>4, <2>5, <2>6, <2>7
  <2>9. Lives(c, d)
    BY <2>1, <2>8, LivesOn DEF Sound, LifeSound
  <2> QED BY <1>2, <2>1, <2>8, <2>9 DEF d, s
<1> QED BY <1>1, <1>2

LEMMA NearestIs ==
    ASSUME available \subseteq Stations, NEW a, NEW c \in Characters, NEW n \in Nearest(a, c)
    PROVE  \/ n = None
           \/ /\ n[1] \in Candidates(a, c.drive.active) /\ n[1] \in Stations /\ n[2] \in Places
<1> DEFINE near == Candidates(a, c.drive.active)
<1>1. near \subseteq Stations
  BY DEF Candidates
<1>2. \/ n = None
      \/ \E s \in near : n = <<s, c.at>>
      \/ \E s \in near : \E p \in Approaches[s] : n = <<s, p>>
  BY DEF Nearest
<1> HIDE DEF near
<1>3. c.at \in Places /\ \A s \in Stations : Approaches[s] \subseteq Places
  BY Fields, PlacesAssumption
<1>4. n # None => n[1] \in near /\ n[1] \in Stations /\ n[2] \in Places
  BY <1>1, <1>2, <1>3
<1> QED BY <1>4 DEF near

\* The station has room for one more, of those who use it or aim at it.
Room(s, a) ==
    s \in Stations /\ Cardinality(Users(s, a)) + Cardinality(Reserved(s, a)) < Capacity[s]

\* Arbitration keeps, gives up or takes a station that has room.
LEMMA ArbitratesSoundly ==
    ASSUME available \subseteq Stations, NEW a, NEW c, Sound(c), NEW d \in Arbitrated(a, c)
    PROVE  /\ Sound(d) /\ Lives(c, d) /\ d.execution \in {None, c.execution}
           /\ d.drive.target \in {None, c.drive.target} \/ Room(d.drive.target, a)
<1> DEFINE b == ClearPlan(c)
           good(x) == /\ Sound(x) /\ Lives(c, x) /\ x.execution \in {None, c.execution}
                      /\ x.drive.target \in {None, c.drive.target} \/ Room(x.drive.target, a)
           base(x) == /\ Sound(x) /\ Lives(c, x) /\ x.drive.state # "NORMAL"
                      /\ x.execution \in {None, c.execution}
<1>1. Lives(c, c) /\ c \in Characters
  BY NoneEnd DEF Sound
<1>2. ASSUME NEW e, base(e), NEW n \in Nearest(a, e) PROVE good(Pursue(e, n))
  <2> DEFINE x == Pursue(e, n)
  <2>1. /\ n = None \/ (n[1] \in Candidates(a, e.drive.active) /\ n[1] \in Stations
                          /\ n[2] \in Places)
    BY <1>2, NearestIs DEF Sound
  <2>2. /\ Sound(x) /\ Lives(e, x) /\ x.execution \in {None, e.execution}
        /\ x.drive.target = None \/ (n # None /\ x.drive.target = n[1])
    BY <1>2, <2>1, PursuesSoundly
  <2>3. n # None => Room(n[1], a)
    BY <2>1 DEF Candidates, Room
  <2> HIDE DEF x
  <2>4. Lives(c, x)
    BY <1>2, <2>2, LivesOn DEF Sound, LifeSound
  <2>5. good(x)
    BY <1>2, <2>2, <2>3, <2>4
  <2> QED BY <2>5 DEF x
<1>3. ASSUME c.drive.state = "NORMAL" PROVE good(d)
  <2>1. \/ d = c
        \/ \E x \in Drives : \E n \in Nearest(a, ActivateSystem1(c, x)) :
             d = Pursue(ActivateSystem1(c, x), n)
    BY <1>3 DEF Arbitrated, Critical
  <2>2. \A x \in Drives : base(ActivateSystem1(c, x))
    BY <1>3, ActivatesSoundly
  <2>3. good(c)
    BY <1>1
  <2> HIDE DEF good, base
  <2> QED BY <1>2, <2>1, <2>2, <2>3
<1>4. ASSUME c.drive.state # "NORMAL" PROVE good(d)
  <2>1. /\ Sound(b) /\ Lives(c, b) /\ b.drive = c.drive /\ b.execution = c.execution
        /\ b.drive.state # "NORMAL"
    BY <1>4, ClearsSoundly DEF Steady
  <2>2. \/ \E x \in Drives : \E n \in Nearest(a, ChangeDrive(b, x)) :
             d = Pursue(ChangeDrive(b, x), n)
        \/ \E n \in Nearest(a, b) : d = Pursue(b, n)
        \/ d = b
        \/ c.execution = None /\ d = ResolveSystem1(b)
    <3> HIDE DEF b
    <3>1. CASE Critical(c) # {}
      <4>1. \E x \in Drives :
              LET e == IF x = c.drive.active THEN b ELSE ChangeDrive(b, x)
              IN \E n \in Nearest(a, e) : d = Pursue(e, n)
        BY <1>4, <3>1 DEF Arbitrated, Critical, b
      <4> QED BY <4>1
    <3>2. CASE Critical(c) = {} /\ c.zone[c.drive.active] # "recovered"
      BY <1>4, <3>2 DEF Arbitrated, b
    <3>3. CASE Critical(c) = {} /\ c.zone[c.drive.active] = "recovered"
      BY <1>4, <3>3 DEF Arbitrated, b
    <3> QED BY <3>1, <3>2, <3>3
  <2> HIDE DEF b
  <2>3. base(b) /\ good(b)
    BY <2>1
  <2>4. ASSUME NEW x \in Drives PROVE base(ChangeDrive(b, x))
    <3> DEFINE e == ChangeDrive(b, x)
    <3>1. Sound(e) /\ Lives(b, e) /\ e.drive.state # "NORMAL" /\ e.execution = None
      BY <2>1, ChangesSoundly
    <3> HIDE DEF e
    <3>2. Lives(c, e)
      BY <2>1, <3>1, LivesOn DEF Sound, LifeSound
    <3>3. base(e)
      BY <3>1, <3>2
    <3> QED BY <3>3 DEF e
  <2>5. ASSUME c.execution = None PROVE good(ResolveSystem1(b))
    <3> DEFINE e == ResolveSystem1(b)
    <3>1. Sound(e) /\ Lives(b, e) /\ e.drive = Normal /\ e.execution = None
      BY <2>1, <2>5, ResolvesSoundly
    <3> HIDE DEF e
    <3>2. Lives(c, e)
      BY <2>1, <3>1, LivesOn DEF Sound, LifeSound
    <3>3. good(e)
      BY <3>1, <3>2 DEF Normal
    <3> QED BY <3>3 DEF e
  <2> HIDE DEF good, base
  <2> QED BY <1>2, <2>2, <2>3, <2>4, <2>5
<1> QED BY <1>3, <1>4

-----------------------------------------------------------------------------
(* Affordance execution.                                                   *)

\* A request or an execution is another; the plan and the drive are the same.
LEMMA CompletesSoundly ==
    ASSUME NEW c, Sound(c), c.execution # None
    PROVE  LET d == CompleteAffordance(c) IN
           /\ Sound(d) /\ Lives(c, d) /\ d.execution = None
           /\ d.drive.target \in {None, c.drive.target}
<1> DEFINE r == RestoreAfter(c)
           q == [c.request EXCEPT !.status = "completed"]
           e == [r EXCEPT !.request = q]
           d == CompleteAffordance(c)
           good(x) == /\ Sound(x) /\ Lives(c, x) /\ x.execution = None
                      /\ x.drive.target \in {None, c.drive.target}
<1>1. c \in Characters /\ c.execution.before \in Calm /\ c.execution.source \in {"plan", "system1"}
  BY DEF Sound, ActivitySound, Characters, Executions
<1>2. /\ r \in Characters /\ r.execution = None /\ r.request = c.request
      /\ r.activity.current \in Calm /\ ~r.activity.override /\ Stays(c, r)
  BY <1>1, RestoredIs
<1>3. \/ c.execution.source = "plan" /\ c.request # None /\ d = [r EXCEPT !.request.status = "completed"]
      \/ c.execution.source = "plan" /\ c.request = None
      \/ c.execution.source # "plan" /\ d \in {r, ResolveSystem1(r)}
  BY DEF CompleteAffordance
<1> HIDE DEF r
<1>4. CASE c.execution.source = "plan"
  <2>1. c.request # None /\ c.request \in Requests /\ c.drive.state = "NORMAL"
    BY <1>1, <1>4, Fields DEF Sound, RequestSound, DriveSound
  <2>2. d = e
    BY <1>2, <1>3, <1>4, <2>1
  <2>3. q \in Requests /\ q.id = c.request.id /\ q.status = "completed" /\ q # None
    <3>1. q \in Requests /\ q.id = c.request.id /\ q.status = "completed"
      BY <2>1 DEF Requests
    <3> HIDE DEF q
    <3> QED BY <3>1, NoneAssumption
  <2> HIDE DEF q
  <2>4. /\ e \in Characters /\ e.execution = None /\ e.request = q /\ e.activity = r.activity
        /\ Stays(c, e)
    BY <1>2, <2>3 DEF Characters, Stays
  <2> HIDE DEF e
  <2>5. LifeSound(e) /\ Lives(c, e)
    BY <2>4, NoneEnd DEF Sound, Stays
  <2>6. PlanSound(e)
    BY <2>4 DEF Sound, PlanSound, SurvivalNavigation, Stays
  <2>7. RequestSound(e)
    BY <2>1, <2>3, <2>4 DEF Sound, RequestSound, Stays
  <2>8. DriveSound(e)
    BY <2>1, <2>4 DEF Sound, DriveSound, Stays
  <2>9. MoveSound(e)
    BY <2>4 DEF Sound, MoveSound, Stays
  <2>10. ActivitySound(e)
    BY <1>2, <2>4 DEF ActivitySound
  <2>11. good(e)
    BY <2>4, <2>5, <2>6, <2>7, <2>8, <2>9, <2>10 DEF Sound, Stays
  <2> HIDE DEF good, d
  <2> QED BY <2>2, <2>11 DEF d, good
<1>5. CASE c.execution.source # "plan"
  <2>1. c.drive.state # "NORMAL" /\ c.request = None
    BY <1>5 DEF Sound, DriveSound
  <2>2. LifeSound(r) /\ Lives(c, r)
    BY <1>2, NoneEnd DEF Sound, Stays
  <2>3. PlanSound(r)
    BY <1>2 DEF Sound, PlanSound, SurvivalNavigation, Stays
  <2>4. RequestSound(r)
    BY <1>2, <1>5, <2>1 DEF Sound, RequestSound, Stays
  <2>5. DriveSound(r)
    BY <1>2 DEF Sound, DriveSound, SurvivalNavigation, Stays
  <2>6. MoveSound(r)
    BY <1>2 DEF Sound, MoveSound, Stays
  <2>7. ActivitySound(r)
    BY <1>2 DEF ActivitySound
  <2>8. good(r)
    BY <1>2, <2>2, <2>3, <2>4, <2>5, <2>6, <2>7 DEF Sound, Stays
  <2> DEFINE x == ResolveSystem1(r)
  <2>9. Sound(x) /\ Lives(r, x) /\ x.drive = Normal /\ x.execution = None
    BY <1>2, <2>1, <2>8, ResolvesSoundly DEF Stays
  <2> HIDE DEF x
  <2>10. Lives(c, x)
    BY <2>2, <2>9, LivesOn DEF Sound, LifeSound
  <2>11. good(x)
    BY <2>9, <2>10 DEF Normal
  <2> HIDE DEF good, d
  <2> QED BY <1>3, <1>5, <2>8, <2>11 DEF d, good, x
<1> QED BY <1>4, <1>5

LEMMA ExecutionIs ==
    ASSUME NEW x \in Executions
    PROVE  /\ x.station \in Stations /\ x.act \in Corrective /\ x.left \in 1..Duration
           /\ x.source \in {"plan", "system1"} /\ x.before \in Shown /\ x.id \in Nat
BY DEF Executions

\* How long an affordance still lasts does not matter to its end.
LEMMA LastTick ==
    ASSUME NEW c \in Characters, c.execution # None, NEW n
    PROVE  LET x == [c.execution EXCEPT !.left = n] IN
           CompleteAffordance([c EXCEPT !.execution = x]) = CompleteAffordance(c)
<1> DEFINE x == [c.execution EXCEPT !.left = n]
           e == [c EXCEPT !.execution = x]
<1>1. c.execution \in Executions
  BY Fields
<1>2. x.before = c.execution.before /\ x.source = c.execution.source
  BY <1>1 DEF Executions
<1> HIDE DEF x
<1>3. /\ e.execution = x /\ e.request = c.request /\ e.drive = c.drive /\ e.zone = c.zone
      /\ e.activity = c.activity
  BY DEF Characters
<1>4. RestoreAfter(e) = RestoreAfter(c)
  <2>1. \A y, z : [[[c EXCEPT !.execution = x] EXCEPT !.activity = y] EXCEPT !.execution = z]
                  = [[c EXCEPT !.activity = y] EXCEPT !.execution = z]
    BY DEF Characters
  <2> DEFINE was == IF c.execution.before = "NONE" THEN "IDLE" ELSE c.execution.before
             show == [[[c.activity EXCEPT !.current = was] EXCEPT !.before = "NONE"]
                          EXCEPT !.override = FALSE]
  <2>2. RestoreAfter(c) = [[c EXCEPT !.activity = show] EXCEPT !.execution = None]
    BY DEF RestoreAfter, RestoreActivity, Characters
  <2>3. RestoreAfter(e) = [[e EXCEPT !.activity = show] EXCEPT !.execution = None]
    BY <1>2, <1>3 DEF RestoreAfter, RestoreActivity, Characters
  <2> HIDE DEF show
  <2> QED BY <2>1, <2>2, <2>3
<1> HIDE DEF e
<1> QED BY <1>2, <1>3, <1>4 DEF CompleteAffordance, e, x

\* The execution of the same affordance goes on.
LEMMA GoesOnSoundly ==
    ASSUME NEW c, Sound(c), c.execution # None, NEW n \in 1..Duration
    PROVE  LET x == [c.execution EXCEPT !.left = n]
               d == [c EXCEPT !.execution = x] IN
           /\ Sound(d) /\ Lives(c, d) /\ d.drive = c.drive
           /\ d.execution # None /\ d.execution.station = c.execution.station
<1> DEFINE x == [c.execution EXCEPT !.left = n]
           d == [c EXCEPT !.execution = x]
<1>1. c.execution \in Executions
  BY Fields DEF Sound
<1>2. /\ x \in Executions /\ x.before = c.execution.before /\ x.source = c.execution.source
      /\ x.station = c.execution.station /\ x.act = c.execution.act /\ x.id = c.execution.id
  BY <1>1 DEF Executions
<1>3. x # None
  BY <1>2, NoneAssumption
<1> HIDE DEF x
<1>4. /\ d \in Characters /\ d.execution = x /\ d.walking = c.walking /\ d.request = c.request
      /\ d.plan = c.plan /\ d.story = c.story /\ d.at = c.at /\ d.nav = c.nav
      /\ d.goal = c.goal /\ d.activity = c.activity /\ d.drive = c.drive
  BY <1>2 DEF Sound, Characters
<1> HIDE DEF d
<1>5. LifeSound(d) /\ Lives(c, d)
  BY <1>4, NoneEnd DEF Sound
<1>6. PlanSound(d)
  BY <1>4 DEF Sound, PlanSound, SurvivalNavigation
<1>7. RequestSound(d)
  BY <1>2, <1>3, <1>4 DEF Sound, RequestSound
<1>8. DriveSound(d)
  BY <1>2, <1>3, <1>4 DEF Sound, DriveSound, SurvivalNavigation
<1>9. MoveSound(d)
  BY <1>4 DEF Sound, MoveSound
<1>10. ActivitySound(d)
  BY <1>2, <1>3, <1>4 DEF Sound, ActivitySound
<1> QED BY <1>2, <1>3, <1>4, <1>5, <1>6, <1>7, <1>8, <1>9, <1>10 DEF Sound, d, x

LEMMA RaisesSoundly ==
    ASSUME NEW c, Sound(c), NEW raised \in BOOLEAN, NEW arrived \in BOOLEAN
    PROVE  LET d == [c EXCEPT !.arrived = arrived, !.raised = raised] IN
           /\ Sound(d) /\ Steady(c, d)
           /\ d.plan = c.plan /\ d.story = c.story /\ d.raised = raised
<1> DEFINE d == [c EXCEPT !.arrived = arrived, !.raised = raised]
<1>1. /\ d \in Characters /\ d.walking = c.walking /\ d.raised = raised
      /\ d.plan = c.plan /\ d.story = c.story /\ d.at = c.at /\ d.nav = c.nav
      /\ d.goal = c.goal /\ d.activity = c.activity /\ d.drive = c.drive
      /\ d.request = c.request /\ d.execution = c.execution
  BY DEF Sound, Characters
<1> HIDE DEF d
<1>2. MoveSound(d)
  BY <1>1 DEF Sound, MoveSound
<1> QED BY <1>1, <1>2, SameWork DEF d

\* An execution that is advanced stays at its station or ends.
LEMMA AdvancedSoundly ==
    ASSUME NEW a, NEW c, Sound(c), c.execution # None, NEW d \in Advanced(a, c)
    PROVE  /\ Sound(d) /\ Lives(c, d)
           /\ d.execution # None => d.execution.station = c.execution.station
           /\ d.drive.target \in {None, c.drive.target}
<1> DEFINE good(x) == /\ Sound(x) /\ Lives(c, x)
                      /\ x.execution # None => x.execution.station = c.execution.station
                      /\ x.drive.target \in {None, c.drive.target}
           m == c.execution.left - 1
           e(zone) == [c EXCEPT !.zone = zone]
           f(zone) == [e(zone) EXCEPT !.execution = [e(zone).execution EXCEPT !.left = m]]
<1>1. /\ c \in Characters /\ c.execution \in Executions /\ c.execution.left \in 1..Duration
      /\ Duration \in Nat
  BY Fields, ExecutionIs, BoundsAssumption DEF Sound
<1>2. ASSUME d = [c EXCEPT !.raised = TRUE] PROVE good(d)
  <2>1. c.arrived \in BOOLEAN
    BY <1>1, Fields
  <2> DEFINE x == [c EXCEPT !.arrived = c.arrived, !.raised = TRUE]
  <2>2. d = x
    BY <1>1, <1>2 DEF Characters
  <2>3. Sound(x) /\ Steady(c, x)
    BY <2>1, RaisesSoundly
  <2> HIDE DEF x
  <2> QED BY <2>2, <2>3 DEF Steady
<1>3. ASSUME d = CancelAffordance(c) PROVE good(d)
  <2> DEFINE x == CancelAffordance(c)
  <2>1. Sound(x) /\ Lives(c, x) /\ x.execution = None /\ Stays(c, x)
    BY CancelsSoundly
  <2> HIDE DEF x
  <2>2. good(x)
    BY <2>1 DEF Stays
  <2> HIDE DEF good
  <2> QED BY <1>3, <2>2 DEF x
<1>4. ASSUME NEW zone \in [Drives -> Zones]
      PROVE  /\ m \in 1..Duration => good(f(zone))
             /\ f(zone).execution.left = m
             /\ good(CompleteAffordance(f(zone)))
  <2> DEFINE z == e(zone)
             x == [z.execution EXCEPT !.left = m]
             g == [z EXCEPT !.execution = x]
  <2>1. Sound(z) /\ Lives(c, z) /\ z.drive = c.drive /\ z.execution = c.execution
    BY <1>4, ZoneSoundly DEF Steady
  <2>2. f(zone) = g
    OBVIOUS
  <2>3. z.execution \in Executions /\ z \in Characters
    BY <1>1, <2>1 DEF Sound
  <2> HIDE DEF z
  <2>4. ASSUME m \in 1..Duration PROVE good(g)
    <3> HIDE DEF m
    <3>1. /\ Sound(g) /\ Lives(z, g) /\ g.drive = z.drive
          /\ g.execution # None /\ g.execution.station = z.execution.station
      BY <2>1, <2>4, GoesOnSoundly
    <3> HIDE DEF g
    <3>2. Lives(c, g)
      BY <2>1, <3>1, LivesOn DEF Sound, LifeSound
    <3> QED BY <2>1, <3>1, <3>2
  <2>5. g.execution.left = m
    <3> HIDE DEF m
    <3>1. x.left = m
      BY <2>3 DEF Executions
    <3> HIDE DEF x
    <3> QED BY <2>3, <3>1 DEF Characters
  <2>6. CompleteAffordance(g) = CompleteAffordance(z)
    BY <2>1, <2>3, LastTick
  <2> DEFINE k == CompleteAffordance(z)
  <2>7. /\ Sound(k) /\ Lives(z, k) /\ k.execution = None
        /\ k.drive.target \in {None, z.drive.target}
    BY <2>1, CompletesSoundly
  <2> HIDE DEF k, g
  <2>8. Lives(c, k)
    BY <2>1, <2>7, LivesOn DEF Sound, LifeSound
  <2>9. good(k)
    BY <2>1, <2>7, <2>8
  <2> HIDE DEF good
  <2>10. good(CompleteAffordance(g))
    BY <2>6, <2>9 DEF k
  <2> HIDE DEF f, e
  <2> QED BY <2>2, <2>4, <2>5, <2>10
<1>5. \/ d = [c EXCEPT !.raised = TRUE]
      \/ d = CancelAffordance(c)
      \/ \E zone \in [Drives -> Zones] :
            LET y == [c EXCEPT !.zone = zone, !.execution.left = @ - 1]
            IN d = IF Spent(y.execution) THEN CompleteAffordance(y) ELSE y
  BY DEF Advanced, Improved
<1>6. \A zone : [c EXCEPT !.zone = zone, !.execution.left = @ - 1] = f(zone)
  <2>1. \A zone : e(zone).execution = c.execution
    BY <1>1 DEF Characters
  <2>2. \A zone : [c EXCEPT !.zone = zone, !.execution.left = @ - 1]
                  = [e(zone) EXCEPT !.execution = [c.execution EXCEPT !.left = m]]
    BY <1>1 DEF Characters
  <2> QED BY <2>1, <2>2
<1>7. m # 0 => m \in 1..Duration
  BY <1>1
<1> HIDE DEF m, e, f, good
<1>8. good(d)
  <2>1. CASE \E zone \in [Drives -> Zones] :
                d = IF Spent(f(zone).execution) THEN CompleteAffordance(f(zone)) ELSE f(zone)
    <3> PICK zone \in [Drives -> Zones] :
                d = IF Spent(f(zone).execution) THEN CompleteAffordance(f(zone)) ELSE f(zone)
      BY <2>1
    <3>1. Spent(f(zone).execution) <=> m = 0
      BY <1>4 DEF Spent
    <3> QED BY <1>4, <1>7, <3>1
  <2> QED BY <1>2, <1>3, <1>5, <1>6, <2>1
<1> QED BY <1>8 DEF good

\* What a character that takes a station is.
OccupiedFor(c, d, s, act, source, id) ==
    /\ d \in Characters /\ d.execution # None
    /\ d.execution.station = s /\ d.execution.act = act /\ d.execution.source = source
    /\ d.execution.id = id /\ d.execution.before = c.activity.current
    /\ d.activity.current = act /\ d.activity.override = FALSE
    /\ d.request = c.request /\ Stays(c, d)

LEMMA OccupyIs ==
    ASSUME NEW c \in Characters, c.execution = None, NEW s \in Stations, NEW act \in Corrective,
           NEW source \in {"plan", "system1"}, NEW id \in Nat, NEW n \in 1..Duration
    PROVE  OccupiedFor(c, Occupy(c, s, act, source, id, n), s, act, source, id)
<1> DEFINE x == [station |-> s, act |-> act, left |-> n, source |-> source,
                 before |-> c.activity.current, id |-> id]
           show == Showing(act)
           d == [c EXCEPT !.activity = show, !.execution = x]
<1>1. Occupy(c, s, act, source, id, n) = d
  BY DEF Occupy
<1>2. c.activity.current \in Shown
  BY Fields DEF Shows
<1>3. /\ x \in Executions /\ x # None
      /\ x.station = s /\ x.act = act /\ x.source = source
      /\ x.id = id /\ x.before = c.activity.current
  <2>1. x \in Executions
    BY <1>2 DEF Executions
  <2> HIDE DEF x
  <2>2. x # None
    BY <2>1, NoneAssumption
  <2> QED BY <2>1, <2>2 DEF x
<1>4. show \in Shows /\ show.current = act /\ show.override = FALSE
  BY DEF Showing, Shows, Shown, Acts
<1> HIDE DEF x, show
<1>5. d \in Characters /\ d.execution = x /\ d.activity = show /\ d.request = c.request
  BY <1>3, <1>4 DEF Characters
<1>6. Stays(c, d)
  BY DEF Characters, Stays
<1> HIDE DEF d
<1> QED BY <1>1, <1>3, <1>4, <1>5, <1>6 DEF OccupiedFor

\* A station that is taken may be one more user's.
Taken(s, a) == s \in Stations /\ Cardinality(Users(s, a)) < Capacity[s]

LEMMA CorrectsSoundly ==
    ASSUME available \subseteq Stations, NEW a, NEW c, Sound(c),
           c.drive.state = "EXECUTING_CORRECTION", c.execution = None, NEW d \in Corrected(a, c)
    PROVE  /\ Sound(d) /\ Lives(c, d) /\ d.drive.target \in {None, c.drive.target}
           /\ d.execution # None => Taken(d.execution.station, a)
<1> DEFINE s == c.drive.target
           act == Corrects[c.drive.active]
           id == c.drive.correction.id
           o(n) == Occupy(c, s, act, "system1", id, n)
<1>1. /\ c \in Characters /\ c.drive.active # None /\ c.drive.correction # None
      /\ c.request = None
      /\ c.plan.current = None \/ SurvivalNavigation(c)
  BY DEF Sound, DriveSound
<1>2. act \in Corrective /\ id \in Nat
  <2>1. c.drive.active \in Drives /\ c.drive.correction \in Actions
    BY <1>1, Fields DEF Controls
  <2> QED BY <2>1 DEF Corrective, Actions
<1>3. c.plan.waiting = "no" /\ c.plan.timer = 0
  BY <1>1, NavigatingPlan DEF SurvivalNavigation
<1>4. c.activity.current \in Calm
  BY <1>3 DEF Sound, ActivitySound
<1>5. \/ d = c
      \/ s \in Stations /\ Taken(s, a) /\ \E n \in 1..Duration : d \in Advanced(a, o(n))
  BY DEF Corrected, Usable, Taken
<1>6. ASSUME s \in Stations, NEW n \in 1..Duration
      PROVE  /\ Sound(o(n)) /\ Lives(c, o(n)) /\ o(n).drive = c.drive
             /\ o(n).execution # None /\ o(n).execution.station = s
  <2> DEFINE e == o(n)
  <2> HIDE DEF s, act, id
  <2>1. /\ e \in Characters /\ e.execution # None
        /\ e.execution.station = s /\ e.execution.act = act /\ e.execution.source = "system1"
        /\ e.execution.id = id /\ e.execution.before = c.activity.current
        /\ e.activity.current = act /\ e.activity.override = FALSE
        /\ e.request = c.request /\ Stays(c, e)
    <3>1. OccupiedFor(c, e, s, act, "system1", id)
      BY <1>1, <1>2, <1>6, OccupyIs
    <3> QED BY <3>1 DEF OccupiedFor
  <2> HIDE DEF e
  <2>2. LifeSound(e) /\ Lives(c, e)
    BY <2>1, NoneEnd DEF Sound, Stays
  <2>3. SurvivalNavigation(e) <=> SurvivalNavigation(c)
    BY <2>1 DEF SurvivalNavigation, Stays
  <2>4. PlanSound(e)
    BY <2>1, <2>3 DEF Sound, PlanSound, Stays
  <2>5. RequestSound(e)
    BY <1>1, <1>3, <2>1 DEF RequestSound, Stays
  <2>6. DriveSound(e)
    BY <2>1, <2>3 DEF Sound, DriveSound, Stays, s, id
  <2>7. MoveSound(e)
    BY <2>1 DEF Sound, MoveSound, Stays
  <2>8. ActivitySound(e)
    BY <1>4, <2>1 DEF ActivitySound
  <2>9. Sound(e)
    BY <2>1, <2>2, <2>4, <2>5, <2>6, <2>7, <2>8 DEF Sound
  <2> QED BY <2>1, <2>2, <2>9 DEF e, Stays
<1>7. Lives(c, c)
  BY NoneEnd DEF Sound
<1>8. CASE d = c
  BY <1>7, <1>8
<1>9. CASE s \in Stations /\ Taken(s, a) /\ \E n \in 1..Duration : d \in Advanced(a, o(n))
  <2> PICK n \in 1..Duration : d \in Advanced(a, o(n))
    BY <1>9
  <2> DEFINE e == o(n)
  <2>1. /\ Sound(e) /\ Lives(c, e) /\ e.drive = c.drive
        /\ e.execution # None /\ e.execution.station = s
    BY <1>6, <1>9
  <2>2. d \in Advanced(a, e)
    OBVIOUS
  <2> HIDE DEF e
  <2>3. /\ Sound(d) /\ Lives(e, d)
        /\ d.execution # None => d.execution.station = e.execution.station
        /\ d.drive.target \in {None, e.drive.target}
    BY <2>1, <2>2, AdvancedSoundly
  <2>4. Lives(c, d)
    BY <2>1, <2>3, LivesOn DEF Sound, LifeSound
  <2> QED BY <1>9, <2>1, <2>3, <2>4
<1> QED BY <1>5, <1>8, <1>9

LEMMA ServesSoundly ==
    ASSUME available \subseteq Stations, NEW a, NEW c, Sound(c),
           c.request # None, c.request.status = "requested", c.execution = None,
           NEW d \in Served(a, c)
    PROVE  /\ Sound(d) /\ Lives(c, d) /\ d.drive.target \in {None, c.drive.target}
           /\ d.execution # None => Taken(d.execution.station, a)
<1> DEFINE r == c.request
           asked(status) == [r EXCEPT !.status = status]
           s == r.station
           act == r.act
           id == r.id
           o(n) == Occupy(c, s, act, "plan", id, n)
           e(n) == [o(n) EXCEPT !.request = asked("running")]
           f == [c EXCEPT !.request = asked("failed")]
<1>1. /\ c \in Characters /\ r \in Requests /\ s \in Stations /\ act \in Corrective
      /\ id \in Nat /\ r.id = id
  BY Fields DEF Sound, Requests
<1>2. c.drive.state = "NORMAL" /\ c.plan.waiting = "affordance" /\ c.plan.timer = 0
  <2>1. c.plan.timer \in Nat
    BY <1>1, PlanFields
  <2> QED BY <2>1 DEF Sound, DriveSound, RequestSound, PlanSound
<1>3. c.activity.current \in Calm
  BY <1>2 DEF Sound, ActivitySound
<1>4. \A status \in {"running", "failed"} :
         /\ asked(status) \in Requests /\ asked(status) # None
         /\ asked(status).status = status /\ asked(status).id = id
  <2> TAKE status \in {"running", "failed"}
  <2> DEFINE q == asked(status)
  <2>1. q \in Requests /\ q.status = status /\ q.id = id
    BY <1>1 DEF Requests
  <2> HIDE DEF q
  <2>2. q # None
    BY <2>1, NoneAssumption
  <2> QED BY <2>1, <2>2 DEF q
<1>6. \/ d = [c EXCEPT !.request.status = "failed"]
      \/ /\ Taken(s, a)
         /\ \E n \in 1..Duration : d \in Advanced(a, [o(n) EXCEPT !.request.status = "running"])
  BY <1>1 DEF Served, Usable, Taken
<1> HIDE DEF s, act, id
<1>5. ASSUME NEW n \in 1..Duration
      PROVE  /\ o(n) \in Characters /\ o(n).execution # None
             /\ o(n).execution.station = s /\ o(n).execution.act = act
             /\ o(n).execution.source = "plan"
             /\ o(n).execution.id = id /\ o(n).execution.before = c.activity.current
             /\ o(n).activity.current = act /\ o(n).activity.override = FALSE
             /\ o(n).request = c.request /\ Stays(c, o(n))
  <2>1. OccupiedFor(c, o(n), s, act, "plan", id)
    BY <1>1, <1>5, OccupyIs
  <2> QED BY <2>1 DEF OccupiedFor
<1>7. [c EXCEPT !.request.status = "failed"] = f
  OBVIOUS
<1>8. \A n \in 1..Duration : [o(n) EXCEPT !.request.status = "running"] = e(n)
  BY <1>5
<1>9. ASSUME NEW n \in 1..Duration
      PROVE  /\ Sound(e(n)) /\ Lives(c, e(n)) /\ e(n).drive = c.drive
             /\ e(n).execution # None /\ e(n).execution.station = s
  <2> DEFINE k == o(n)
             q == asked("running")
             x == [k EXCEPT !.request = q]
  <2>1. /\ k \in Characters /\ k.execution # None
        /\ k.execution.station = s /\ k.execution.act = act
        /\ k.execution.source = "plan"
        /\ k.execution.id = id /\ k.execution.before = c.activity.current
        /\ k.activity.current = act /\ k.activity.override = FALSE
        /\ Stays(c, k)
    BY <1>5
  <2>2. q \in Requests /\ q # None /\ q.status = "running" /\ q.id = id
    BY <1>4
  <2> HIDE DEF k, q
  <2>3. /\ x \in Characters /\ x.execution = k.execution /\ x.activity = k.activity
        /\ x.request = q
    BY <2>1, <2>2 DEF Characters
  <2>4. Stays(c, x)
    BY <2>1 DEF Characters, Stays
  <2> HIDE DEF x
  <2>5. LifeSound(x) /\ Lives(c, x)
    BY <2>4, NoneEnd DEF Sound, Stays
  <2>6. PlanSound(x)
    BY <2>4 DEF Sound, PlanSound, SurvivalNavigation, Stays
  <2>7. RequestSound(x)
    BY <1>1, <1>2, <2>1, <2>2, <2>3, <2>4 DEF Sound, RequestSound, Stays
  <2>8. DriveSound(x)
    BY <1>2, <2>1, <2>3, <2>4 DEF Sound, DriveSound, Stays
  <2>9. MoveSound(x)
    BY <2>4 DEF Sound, MoveSound, Stays
  <2>10. ActivitySound(x)
    BY <1>3, <2>1, <2>3 DEF ActivitySound
  <2>11. Sound(x)
    BY <2>3, <2>5, <2>6, <2>7, <2>8, <2>9, <2>10 DEF Sound
  <2> QED BY <2>1, <2>3, <2>4, <2>5, <2>11 DEF x, k, q, Stays
<1>10. Sound(f) /\ Lives(c, f) /\ f.drive = c.drive /\ f.execution = None
  <2> DEFINE q == asked("failed")
             x == [c EXCEPT !.request = q]
  <2>1. q \in Requests /\ q # None /\ q.status = "failed" /\ q.id = id
    BY <1>4
  <2> HIDE DEF q
  <2>2. /\ x \in Characters /\ x.execution = None /\ x.activity = c.activity /\ x.request = q
    BY <1>1, <2>1 DEF Characters
  <2>3. Stays(c, x)
    BY <1>1 DEF Characters, Stays
  <2> HIDE DEF x
  <2>4. LifeSound(x) /\ Lives(c, x)
    BY <2>3, NoneEnd DEF Sound, Stays
  <2>5. PlanSound(x)
    BY <2>3 DEF Sound, PlanSound, SurvivalNavigation, Stays
  <2>6. RequestSound(x)
    BY <1>1, <1>2, <2>1, <2>2, <2>3 DEF Sound, RequestSound, Stays
  <2>7. DriveSound(x)
    BY <1>2, <2>2, <2>3 DEF Sound, DriveSound, Stays
  <2>8. MoveSound(x)
    BY <2>3 DEF Sound, MoveSound, Stays
  <2>9. ActivitySound(x)
    BY <2>2, <2>3 DEF Sound, ActivitySound, Stays
  <2>10. Sound(x)
    BY <2>2, <2>4, <2>5, <2>6, <2>7, <2>8, <2>9 DEF Sound
  <2> QED BY <2>2, <2>3, <2>4, <2>10 DEF x, q, Stays
<1> HIDE DEF f, e, o, asked, r
<1>11. CASE d = f
  BY <1>10, <1>11
<1>12. CASE Taken(s, a) /\ \E n \in 1..Duration : d \in Advanced(a, e(n))
  <2> PICK n \in 1..Duration : d \in Advanced(a, e(n))
    BY <1>12
  <2> DEFINE x == e(n)
  <2>1. /\ Sound(x) /\ Lives(c, x) /\ x.drive = c.drive
        /\ x.execution # None /\ x.execution.station = s
    BY <1>9
  <2> HIDE DEF x
  <2>2. /\ Sound(d) /\ Lives(x, d)
        /\ d.execution # None => d.execution.station = x.execution.station
        /\ d.drive.target \in {None, x.drive.target}
    BY <2>1, AdvancedSoundly DEF x
  <2>3. Lives(c, d)
    BY <2>1, <2>2, LivesOn DEF Sound, LifeSound
  <2> QED BY <1>12, <2>1, <2>2, <2>3
<1> QED BY <1>6, <1>7, <1>8, <1>11, <1>12

-----------------------------------------------------------------------------
(* Movement and the choice.                                                *)

LEMMA MovesSoundly ==
    ASSUME NEW c, Sound(c), NEW d \in Moved(c)
    PROVE  Sound(d) /\ Steady(c, d)
<1>1. c \in Characters /\ Steady(c, c)
  BY NoneEnd DEF Sound, Steady
<1>2. ASSUME NEW at \in Places, NEW goal \in Places \union {None}, NEW walking \in BOOLEAN,
             walking => goal # None,
             goal \in {None, c.goal},
             goal # None => at # goal /\ RoomOf[at] = RoomOf[c.at]
      PROVE  LET e == [c EXCEPT !.at = at, !.goal = goal, !.walking = walking] IN
             Sound(e) /\ Steady(c, e)
  <2> DEFINE e == [c EXCEPT !.at = at, !.goal = goal, !.walking = walking]
  <2>1. /\ e \in Characters /\ e.walking = walking /\ e.at = at /\ e.goal = goal
        /\ e.plan = c.plan /\ e.story = c.story /\ e.nav = c.nav
        /\ e.activity = c.activity /\ e.drive = c.drive /\ e.request = c.request
        /\ e.execution = c.execution
    BY <1>1 DEF Characters
  <2> HIDE DEF e
  <2>2. MoveSound(e)
    BY <1>2, <2>1 DEF Sound, MoveSound
  <2>3. Sound(e) /\ Steady(c, e)
    BY <2>1, <2>2, SameWork
  <2> QED BY <2>3 DEF e
<1>3. CASE d = c
  BY <1>1, <1>3
<1>4. CASE c.walking /\ d # c
  <2>1. /\ c.at \in Places /\ c.goal \in Places /\ c.goal # None
        /\ c.at # c.goal /\ RoomOf[c.at] = RoomOf[c.goal]
    BY <1>1, <1>4, Fields DEF Sound, MoveSound
  <2>2. \/ d = [c EXCEPT !.at = c.at, !.goal = c.goal, !.walking = FALSE]
        \/ d = [c EXCEPT !.at = c.goal, !.goal = None, !.walking = FALSE]
        \/ \E q \in Places : /\ RoomOf[q] = RoomOf[c.at] /\ q # c.goal
                             /\ d = [c EXCEPT !.at = q, !.goal = c.goal, !.walking = TRUE]
    <3>1. /\ [c EXCEPT !.walking = FALSE] = [c EXCEPT !.at = c.at, !.goal = c.goal, !.walking = FALSE]
          /\ \A q : [c EXCEPT !.at = q] = [c EXCEPT !.at = q, !.goal = c.goal, !.walking = TRUE]
      BY <1>1, <1>4 DEF Characters
    <3>2. CompletePath([c EXCEPT !.at = c.goal]) =
            [c EXCEPT !.at = c.goal, !.goal = None, !.walking = FALSE]
      BY DEF CompletePath
    <3>3. \/ d \in {[c EXCEPT !.walking = FALSE], CompletePath([c EXCEPT !.at = c.goal])}
          \/ \E q \in {q \in Places : RoomOf[q] = RoomOf[c.at] /\ q # c.goal} :
                d = [c EXCEPT !.at = q]
      BY <1>4, Zenon DEF Moved
    <3> DEFINE f == [c EXCEPT !.walking = FALSE]
               g == CompletePath([c EXCEPT !.at = c.goal])
               f2 == [c EXCEPT !.at = c.at, !.goal = c.goal, !.walking = FALSE]
               g2 == [c EXCEPT !.at = c.goal, !.goal = None, !.walking = FALSE]
               h(q) == [c EXCEPT !.at = q]
               h2(q) == [c EXCEPT !.at = q, !.goal = c.goal, !.walking = TRUE]
    <3>4. d = f \/ d = g \/ \E q \in Places : RoomOf[q] = RoomOf[c.at] /\ q # c.goal /\ d = h(q)
      BY <3>3
    <3>5. f = f2 /\ g = g2 /\ \A q : h(q) = h2(q)
      BY <3>1, <3>2, Zenon
    <3> HIDE DEF f, g, f2, g2, h, h2
    <3>6. d = f2 \/ d = g2 \/ \E q \in Places : RoomOf[q] = RoomOf[c.at] /\ q # c.goal /\ d = h2(q)
      BY <3>4, <3>5
    <3> QED BY <3>6, Zenon DEF f2, g2, h2
  <2>3. CASE d = [c EXCEPT !.at = c.at, !.goal = c.goal, !.walking = FALSE]
    BY <1>2, <2>1, <2>3
  <2>4. CASE d = [c EXCEPT !.at = c.goal, !.goal = None, !.walking = FALSE]
    BY <1>2, <2>1, <2>4
  <2>5. CASE \E q \in Places : /\ RoomOf[q] = RoomOf[c.at] /\ q # c.goal
                               /\ d = [c EXCEPT !.at = q, !.goal = c.goal, !.walking = TRUE]
    <3> PICK q \in Places : /\ RoomOf[q] = RoomOf[c.at] /\ q # c.goal
                            /\ d = [c EXCEPT !.at = q, !.goal = c.goal, !.walking = TRUE]
      BY <2>5
    <3> DEFINE goal == c.goal
               walks == TRUE
    <3>1. /\ goal \in Places \union {None} /\ goal \in {None, c.goal} /\ goal # None /\ q # goal
          /\ walks \in BOOLEAN /\ RoomOf[q] = RoomOf[c.at]
      BY <2>1
    <3>2. d = [c EXCEPT !.at = q, !.goal = goal, !.walking = walks]
      OBVIOUS
    <3> HIDE DEF goal, walks
    <3>3. LET e == [c EXCEPT !.at = q, !.goal = goal, !.walking = walks] IN
          Sound(e) /\ Steady(c, e)
      BY <1>2, <3>1
    <3> QED BY <3>2, <3>3
  <2> QED BY <2>2, <2>3, <2>4, <2>5
<1> QED BY <1>3, <1>4 DEF Moved

\* A decision queues an action in an empty plan.
LEMMA QueuesSoundly ==
    ASSUME NEW c, Sound(c), PlanIdle(c), c.drive.state = "NORMAL",
           NEW act \in Acts, NEW target \in Targets
    PROVE  LET d == QueueAction(c, act, target, "plan") IN
           Sound(d) /\ Steady(c, d) /\ d.goal = None
<1> DEFINE new == NewAction(c, act, target, "plan")
           d == QueueAction(c, act, target, "plan")
<1>1. c \in Characters /\ c.plan.current = None /\ c.plan.queue = <<>> /\ LifeSound(c)
  BY DEF Sound, PlanIdle
<1>2. /\ c.request = None /\ c.execution = None /\ c.goal = None /\ ~c.walking
      /\ c.plan.waiting = "no" /\ c.plan.timer = 0 /\ c.activity.current \in Calm
      /\ c.drive.correction = None
  BY <1>1, AtEase
<1>3. /\ d \in Characters /\ Rest(c, d) /\ Announced(c, d)
      /\ new \in Actions /\ new.id = Len(c.story) + 1
      /\ new.act = act /\ new.origin = "plan"
      /\ d.plan.queue = Append(c.plan.queue, new) /\ d.plan.current = c.plan.current
      /\ d.plan.timer = c.plan.timer /\ d.plan.waiting = c.plan.waiting
  BY <1>1, QueueIs
<1> HIDE DEF new, d
<1>4. d.plan.queue = <<new>>
  <2>1. Append(<<>>, new) = <<new>>
    OBVIOUS
  <2> QED BY <1>1, <1>3, <2>1, Zenon
<1>5. DOMAIN d.plan.queue = {1} /\ d.plan.queue[1] = new
  <2>1. DOMAIN <<new>> = {1} /\ <<new>>[1] = new
    OBVIOUS
  <2> QED BY <1>4, <2>1, Zenon
<1>6. /\ QueuedIds(d) = {Len(c.story) + 1} /\ CurrentIds(d) = {}
  BY <1>1, <1>3, <1>5 DEF QueuedIds, CurrentIds
<1>7. LiveIds(c) = {}
  <2>1. QueuedIds(c) = {}
    BY <1>1 DEF QueuedIds
  <2> QED BY <1>1, <1>2, <2>1 DEF LiveIds, CurrentIds
<1>8. d.drive.correction = None /\ d.drive = c.drive /\ d.execution = c.execution
  BY <1>2, <1>3 DEF Rest
<1>9. LiveIds(d) = {Len(c.story) + 1}
  BY <1>6, <1>8 DEF LiveIds
<1>10. Distinct(d)
  BY <1>5, <1>6, <1>8 DEF Distinct
<1>11. Ending(c, c, {})
  BY DEF Ending
<1>12. ~SurvivalNavigation(d)
  BY <1>1, <1>3 DEF SurvivalNavigation
<1>13. LifeSound(d) /\ Lives(c, d)
  BY <1>1, <1>3, <1>7, <1>9, <1>10, <1>11, <1>12, NewWork
<1>14. PlanSound(d)
  BY <1>1, <1>2, <1>3, <1>5, <1>12 DEF PlanSound
<1>15. RequestSound(d)
  BY <1>2, <1>3 DEF RequestSound, Rest
<1>16. DriveSound(d)
  BY <1>2, <1>3 DEF Sound, DriveSound, Rest
<1>17. MoveSound(d) /\ d.goal = None
  BY <1>2, <1>3 DEF MoveSound, Rest
<1>18. ActivitySound(d)
  BY <1>2, <1>3 DEF Sound, ActivitySound, Rest
<1>19. Sound(d) /\ Steady(c, d) /\ d.goal = None
  BY <1>3, <1>8, <1>13, <1>14, <1>15, <1>16, <1>17, <1>18 DEF Sound, Steady
<1> QED BY <1>19 DEF d

\* Orders 200, 240 and 310.
LEMMA SettlesSoundly ==
    ASSUME NEW a \in Agents, NEW c, Sound(c), NEW d \in Settled(a, c)
    PROVE  Sound(d) /\ Steady(c, d)
<1>1. PICK m \in Moved(c) : d \in Decided(a, Learned(m))
  BY DEF Settled
<1>2. Sound(m) /\ Steady(c, m)
  BY <1>1, MovesSoundly
<1> DEFINE l == Learned(m)
<1>3. Sound(l) /\ Steady(m, l)
  <2> DEFINE arrived == FALSE
             raised == m.raised \/ (m.arrived /\ m.nav.status # "ARRIVED")
  <2>1. m.raised \in BOOLEAN /\ m.arrived \in BOOLEAN
    BY <1>2, Fields DEF Sound
  <2>2. arrived \in BOOLEAN /\ raised \in BOOLEAN
    BY <2>1
  <2>3. l = [m EXCEPT !.arrived = arrived, !.raised = raised]
    BY DEF Learned
  <2> HIDE DEF arrived, raised, l
  <2> QED BY <1>2, <2>2, <2>3, RaisesSoundly
<1>4. d \in Decided(a, l)
  BY <1>1
<1> HIDE DEF l
<1>5. Sound(d) /\ Steady(l, d)
  <2>1. CASE d = l
    BY <1>3, <2>1, NoneEnd DEF Sound, Steady
  <2>2. CASE /\ PlanIdle(l) /\ l.drive.state = "NORMAL"
             /\ \E choice \in Menu[a] : d = Choose(l, choice)
    <3> PICK choice \in Menu[a] : d = Choose(l, choice)
      BY <2>2
    <3> DEFINE act == choice[1]
               target == choice[2]
               q == QueueAction(l, act, target, "plan")
    <3>1. act \in Acts /\ target \in Targets
      BY ScriptsAssumption
    <3>2. d = IF act = "NAVIGATE" THEN RequestNavigation(q, target) ELSE q
      BY DEF Choose
    <3> HIDE DEF act, target
    <3>3. Sound(q) /\ Steady(l, q) /\ q.goal = None
      BY <1>3, <2>2, <3>1, QueuesSoundly
    <3> HIDE DEF q
    <3> DEFINE r == RequestNavigation(q, target)
    <3>4. Sound(r) /\ Steady(q, r)
      BY <3>1, <3>3, RequestsSoundly
    <3> HIDE DEF r
    <3>5. Steady(l, r)
      BY <1>3, <3>3, <3>4, SteadyOn DEF Sound, LifeSound
    <3> QED BY <3>2, <3>3, <3>4, <3>5 DEF r
  <2> QED BY <1>4, <2>1, <2>2 DEF Decided
<1>6. Steady(c, l)
  BY <1>2, <1>3, SteadyOn DEF Sound, LifeSound
<1> QED BY <1>5, <1>6, SteadyOn DEF Sound, LifeSound

-----------------------------------------------------------------------------
(* The schedule and the stations.                                          *)

\* Integration leaves every meter in a zone.
LEMMA DriftedIs ==
    ASSUME NEW c \in Characters, NEW zone \in Drifted(c)
    PROVE  zone \in [Drives -> Zones]
<1>1. c.zone \in [Drives -> Zones]
  BY Fields
<1>2. CASE zone = c.zone
  BY <1>1, <1>2
<1>3. CASE \E x \in Drives \X Zones : zone = [c.zone EXCEPT ![x[1]] = x[2]]
  BY <1>1, <1>3
<1> QED BY <1>2, <1>3 DEF Drifted

LEMMA BodySoundly ==
    ASSUME NEW a, NEW c, Sound(c), NEW d \in Lived(a, c)
    PROVE  Sound(d) /\ Steady(c, d)
<1>1. PICK x \in RoutesOf(c) \X BOOLEAN \X BOOLEAN \X BOOLEAN \X Drifted(c) :
              d = LiveThrough(c, x[1], x[2], x[3], x[4], x[5])
  BY DEF Lived
<1> DEFINE route == x[1]
           open == x[2]
           valid == x[3]
           found == x[4]
           zone == x[5]
<1>2. route \in RoutesOf(c) /\ found \in BOOLEAN /\ zone \in Drifted(c)
  OBVIOUS
<1>3. d = LiveThrough(c, route, open, valid, found, zone)
  BY <1>1
<1> HIDE DEF route, open, valid, found, zone
<1>4. route \in Seq(Primitives) /\ zone \in [Drives -> Zones]
  BY <1>2, RoutesAreRoutes, DriftedIs DEF Sound
<1> QED BY <1>2, <1>3, <1>4, LivesSoundly

Less == {ss \in Nat \X Nat : ss[1] < ss[2]}

LEMMA LessIsWellFounded == IsWellFoundedOn(Less, Nat)
BY NatLessThanWellFounded DEF OpToRel, Less

LEMMA LeastExists ==
    ASSUME NEW S \in SUBSET Nat, S # {}
    PROVE  \E x \in S : \A y \in S : x <= y
<1>1. PICK x \in S : \A y \in S : ~ (<<y, x>> \in Less)
  BY LessIsWellFounded, WFMin
<1>2. \A y \in S : ~ (y < x)
  BY <1>1 DEF Less
<1> QED BY <1>2

LEMMA AgentsAreNumbers ==
    /\ N \in Nat /\ N >= 1 /\ Agents = 1..N /\ IsFiniteSet(Agents)
    /\ Turns = 1..(6 * N) /\ Turns \subseteq Nat /\ 0 \notin Turns
<1>1. N \in Nat /\ Agents = 1..N
  BY AgentsAssumption, FS_CardinalityType DEF N
<1>2. N >= 1
  BY <1>1, AgentsAssumption
<1>3. Turns = 1..(6 * N)
  BY DEF Turns, Phases
<1> QED BY <1>1, <1>2, <1>3, AgentsAssumption

LEMMA TurnsAreOfAgents ==
    ASSUME NEW n \in Turns
    PROVE  AgentOf(n) \in Agents
<1>1. (n - 1) % N \in 0..(N - 1)
  BY AgentsAreNumbers
<1> QED BY <1>1, AgentsAreNumbers DEF AgentOf

\* A tick starts with the first body.
LEMMA FirstIsDue == 1 \in Turns /\ \A cs, done : Due(cs, done, 1)
<1>1. 1 \in Turns
  BY AgentsAreNumbers
<1>2. (1 - 1) \div N = 0
  BY AgentsAreNumbers
<1>3. PhaseOf(1) = "body"
  BY <1>2 DEF PhaseOf, Phases
<1> QED BY <1>1, <1>3 DEF Due

LEMMA NextTurnIs ==
    ASSUME NEW cs, NEW done
    PROVE  LET next == NextTurn(cs, done) IN
           next \in Turns \union {0} /\ (next # 0 => Due(cs, done, next))
<1> DEFINE later == {n \in Turns : n > turn /\ Due(cs, done, n)}
           next == NextTurn(cs, done)
<1>1. next = IF later = {} THEN 0 ELSE CHOOSE n \in later : \A m \in later : n <= m
  BY DEF NextTurn
<1>2. later \in SUBSET Nat
  BY AgentsAreNumbers
<1>3. later # {} => next \in later
  <2> HIDE DEF later, next
  <2>1. later # {} => \E n \in later : \A m \in later : n <= m
    BY <1>2, LeastExists
  <2> QED BY <1>1, <2>1
<1> QED BY <1>1, <1>3

\* Those who use a station and those who are sent to it.
UsersOf(s) == {a \in Agents : character[a].execution # None /\ character[a].execution.station = s}
SentTo(s) == {a \in Agents : character[a].drive.target = s}

\* A set without a, and what a adds to it.
LEMMA OneMoreUser ==
    ASSUME NEW S, NEW T \in SUBSET Agents, NEW a \in Agents, S \subseteq T \union {a},
           NEW n \in Nat, Cardinality(T) < n
    PROVE  Cardinality(S) <= n
<1>1. IsFiniteSet(T)
  BY AgentsAreNumbers, FS_Subset
<1>2. /\ IsFiniteSet(T \union {a})
      /\ Cardinality(T \union {a}) <= Cardinality(T) + 1 /\ Cardinality(T) \in Nat
  <2>1. Cardinality(T) \in Nat
    BY <1>1, FS_CardinalityType
  <2>2. /\ IsFiniteSet(T \union {a})
        /\ Cardinality(T \union {a}) = IF a \in T THEN Cardinality(T) ELSE Cardinality(T) + 1
    BY <1>1, FS_AddElement
  <2> QED BY <2>1, <2>2
<1>3. Cardinality(S) <= Cardinality(T \union {a}) /\ IsFiniteSet(S)
  BY <1>2, FS_Subset
<1>4. Cardinality(S) \in Nat /\ Cardinality(T \union {a}) \in Nat
  BY <1>2, <1>3, FS_CardinalityType
<1> QED BY <1>2, <1>3, <1>4

LEMMA NoMoreUsers ==
    ASSUME NEW T \in SUBSET Agents, NEW S \in SUBSET T, NEW n \in Nat, Cardinality(T) <= n
    PROVE  Cardinality(S) <= n
<1>1. IsFiniteSet(T)
  BY AgentsAreNumbers, FS_Subset
<1>2. IsFiniteSet(S) /\ Cardinality(S) <= Cardinality(T)
  BY <1>1, FS_Subset
<1> QED BY <1>1, <1>2, FS_CardinalityType

\* A step of one character that gives up, keeps or takes a station.
LEMMA BooksSoundly ==
    ASSUME \A b \in Agents : Sound(character[b]), NoDoubleBooking,
           NEW a \in Agents, NEW d, character' = [character EXCEPT ![a] = d],
           character = [b \in Agents |-> character[b]],
           \/ d.execution = None
           \/ /\ character[a].execution # None
              /\ d.execution.station = character[a].execution.station
           \/ Taken(d.execution.station, a),
           d.drive.target \in {None, character[a].drive.target} \/ Room(d.drive.target, a)
    PROVE  NoDoubleBooking'
<1>1. character'[a] = d /\ \A b \in Agents \ {a} : character'[b] = character[b]
  OBVIOUS
<1>2. \A s \in Stations : Capacity[s] \in Nat /\ s # None
  BY PlacesAssumption, NoneAssumption
<1>3. \A s \in Stations :
        /\ Cardinality(UsersOf(s)) <= Capacity[s] /\ Cardinality(SentTo(s)) <= Capacity[s]
        /\ UsersOf(s) \subseteq Agents /\ SentTo(s) \subseteq Agents
        /\ Users(s, a) \subseteq Agents /\ Reserved(s, a) \subseteq Agents
  BY DEF NoDoubleBooking, StationsNeverOverbooked, TargetsNeverOverbooked, UsersOf, SentTo,
         Users, Reserved
<1>4. ASSUME NEW s \in Stations
      PROVE  Cardinality({b \in Agents : /\ character'[b].execution # None
                                         /\ character'[b].execution.station = s}) <= Capacity[s]
  <2> DEFINE S == {b \in Agents : character'[b].execution # None
                                  /\ character'[b].execution.station = s}
  <2>1. ASSUME S \subseteq UsersOf(s) PROVE Cardinality(S) <= Capacity[s]
    <3> HIDE DEF S
    <3> QED BY <1>2, <1>3, <2>1, NoMoreUsers
  <2>2. ASSUME Taken(s, a), S \subseteq Users(s, a) \union {a} PROVE Cardinality(S) <= Capacity[s]
    <3> HIDE DEF S
    <3> QED BY <1>2, <1>3, <2>2, OneMoreUser DEF Taken
  <2>3. S \subseteq UsersOf(s) \union {a} /\ S \subseteq Users(s, a) \union {a}
    BY <1>1 DEF UsersOf, Users
  <2>4. a \in S => a \in UsersOf(s) \/ Taken(s, a)
    BY <1>1 DEF UsersOf
  <2>5. S \subseteq UsersOf(s) \/ (Taken(s, a) /\ S \subseteq Users(s, a) \union {a})
    BY <2>3, <2>4
  <2> QED BY <2>1, <2>2, <2>5
<1>5. ASSUME NEW s \in Stations
      PROVE  Cardinality({b \in Agents : character'[b].drive.target = s}) <= Capacity[s]
  <2> DEFINE S == {b \in Agents : character'[b].drive.target = s}
             T == Users(s, a) \union Reserved(s, a)
  <2>1. ASSUME S \subseteq SentTo(s) PROVE Cardinality(S) <= Capacity[s]
    <3> HIDE DEF S
    <3> QED BY <1>2, <1>3, <2>1, NoMoreUsers
  <2>2. S \subseteq T \union {a}
    <3> SUFFICES ASSUME NEW b \in Agents \ {a}, character[b].drive.target = s
                 PROVE  b \in T
      BY <1>1
    <3>1. CASE character[b].execution = None
      BY <3>1 DEF Reserved
    <3>2. CASE character[b].execution # None
      <4>1. character[b].execution.station = s
        BY <1>2, <3>2 DEF Sound, DriveSound
      <4> QED BY <3>2, <4>1 DEF Users
    <3> QED BY <3>1, <3>2
  <2>3. ASSUME Room(s, a) PROVE Cardinality(S) <= Capacity[s]
    <3> DEFINE m == Cardinality(Users(s, a))
               n == Cardinality(Reserved(s, a))
    <3>1. T \subseteq Agents /\ IsFiniteSet(Users(s, a)) /\ IsFiniteSet(Reserved(s, a))
      BY <1>3, AgentsAreNumbers, FS_Subset
    <3>2. Cardinality(T) = m + n - Cardinality(Users(s, a) \intersect Reserved(s, a))
      BY <3>1, FS_Union
    <3>3. IsFiniteSet(Users(s, a) \intersect Reserved(s, a))
      BY <3>1, FS_Subset
    <3>4. m \in Nat /\ n \in Nat /\ Cardinality(Users(s, a) \intersect Reserved(s, a)) \in Nat
      BY <3>1, <3>3, FS_CardinalityType
    <3> HIDE DEF S
    <3>5. Cardinality(T) < Capacity[s]
      BY <1>2, <2>3, <3>2, <3>4 DEF Room
    <3> HIDE DEF T
    <3> QED BY <1>2, <2>2, <3>1, <3>5, OneMoreUser
  <2>4. S \subseteq SentTo(s) \/ Room(s, a)
    BY <1>1, <1>2 DEF SentTo
  <2> QED BY <2>1, <2>3, <2>4
<1> QED BY <1>4, <1>5 DEF NoDoubleBooking, StationsNeverOverbooked, TargetsNeverOverbooked

-----------------------------------------------------------------------------
(* The steps.                                                              *)

\* An iteration that turns its character into a sound one, books no station
\* that is full and is followed by the next that is due.
LEMMA IterationKeeps ==
    ASSUME BodiesInvariant, turn # 0, NEW d, Sound(d), Lives(character[AgentOf(turn)], d),
           character' = [character EXCEPT ![AgentOf(turn)] = d],
           \/ d.execution = None
           \/ /\ character[AgentOf(turn)].execution # None
              /\ d.execution.station = character[AgentOf(turn)].execution.station
           \/ Taken(d.execution.station, AgentOf(turn)),
           \/ d.drive.target \in {None, character[AgentOf(turn)].drive.target}
           \/ Room(d.drive.target, AgentOf(turn)),
           available' = available,
           advanced' \in {advanced, advanced \union {AgentOf(turn)}},
           turn' = NextTurn(character', advanced')
    PROVE  /\ BodiesInvariant'
           /\ \A b \in Agents : Lives(character[b], character'[b])
<1> DEFINE a == AgentOf(turn)
<1>1. /\ character = [b \in Agents |-> character[b]] /\ NoDoubleBooking
      /\ \A b \in Agents : Sound(character[b])
      /\ available \subseteq Stations /\ advanced \subseteq Agents /\ turn \in Turns
  BY DEF BodiesInvariant, Scheduled
<1>2. a \in Agents
  BY <1>1, TurnsAreOfAgents
<1>3. character'[a] = d /\ \A b \in Agents \ {a} : character'[b] = character[b]
  BY <1>1, <1>2
<1>4. character' = [b \in Agents |-> character'[b]]
  BY <1>1, <1>2
<1>5. \A b \in Agents : Sound(character'[b])
  BY <1>1, <1>3
<1>6. \A b \in Agents : Lives(character[b], character'[b])
  BY <1>1, <1>3, NoneEnd DEF Sound
<1>7. NoDoubleBooking'
  <2> HIDE DEF a
  <2> QED BY <1>1, <1>2, BooksSoundly DEF a
<1>8. Scheduled'
  <2>1. turn' \in Turns \union {0} /\ (turn' # 0 => Due(character', advanced', turn'))
    BY NextTurnIs
  <2> QED BY <1>1, <1>2, <2>1 DEF Scheduled
<1> QED BY <1>4, <1>5, <1>6, <1>7, <1>8 DEF BodiesInvariant

\* A character whose stations stay.
LEMMA SteadyKeeps ==
    ASSUME BodiesInvariant, turn # 0, NEW d, Sound(d), Steady(character[AgentOf(turn)], d),
           character' = [character EXCEPT ![AgentOf(turn)] = d],
           available' = available, advanced' = advanced,
           turn' = NextTurn(character', advanced')
    PROVE  /\ BodiesInvariant'
           /\ \A b \in Agents : Lives(character[b], character'[b])
BY IterationKeeps DEF Steady

\* What an iteration starts from.
LEMMA TurnSound ==
    ASSUME BodiesInvariant, turn # 0
    PROVE  /\ AgentOf(turn) \in Agents /\ Sound(character[AgentOf(turn)])
           /\ available \subseteq Stations /\ Due(character, advanced, turn)
BY TurnsAreOfAgents DEF BodiesInvariant, Scheduled

LEMMA LiveKeeps ==
    ASSUME BodiesInvariant, Live
    PROVE  BodiesInvariant' /\ \A b \in Agents : Lives(character[b], character'[b])
<1> DEFINE a == AgentOf(turn)
<1>1. /\ turn # 0 /\ available' = available /\ advanced' = advanced
      /\ turn' = NextTurn(character', advanced')
      /\ \E d \in Lived(a, character[a]) : character' = [character EXCEPT ![a] = d]
  BY DEF Live, Iterate
<1>2. PICK d \in Lived(a, character[a]) : character' = [character EXCEPT ![a] = d]
  BY <1>1
<1>3. Sound(d) /\ Steady(character[a], d)
  BY <1>1, TurnSound, BodySoundly
<1> QED BY <1>1, <1>2, <1>3, SteadyKeeps

LEMMA SettleKeeps ==
    ASSUME BodiesInvariant, Settle
    PROVE  BodiesInvariant' /\ \A b \in Agents : Lives(character[b], character'[b])
<1> DEFINE a == AgentOf(turn)
<1>1. /\ turn # 0 /\ available' = available /\ advanced' = advanced
      /\ turn' = NextTurn(character', advanced')
      /\ \E d \in Settled(a, character[a]) : character' = [character EXCEPT ![a] = d]
  BY DEF Settle, Iterate
<1>2. PICK d \in Settled(a, character[a]) : character' = [character EXCEPT ![a] = d]
  BY <1>1
<1>3. Sound(d) /\ Steady(character[a], d)
  BY <1>1, TurnSound, SettlesSoundly
<1> QED BY <1>1, <1>2, <1>3, SteadyKeeps

LEMMA ArbitrateKeeps ==
    ASSUME BodiesInvariant, Arbitrate
    PROVE  BodiesInvariant' /\ \A b \in Agents : Lives(character[b], character'[b])
<1> DEFINE a == AgentOf(turn)
<1>1. /\ turn # 0 /\ available' = available /\ advanced' = advanced
      /\ turn' = NextTurn(character', advanced')
      /\ \E d \in Arbitrated(a, character[a]) : character' = [character EXCEPT ![a] = d]
  BY DEF Arbitrate, Iterate
<1>2. PICK d \in Arbitrated(a, character[a]) : character' = [character EXCEPT ![a] = d]
  BY <1>1
<1>3. /\ Sound(d) /\ Lives(character[a], d) /\ d.execution \in {None, character[a].execution}
      /\ d.drive.target \in {None, character[a].drive.target} \/ Room(d.drive.target, a)
  BY <1>1, TurnSound, ArbitratesSoundly
<1>4. \/ d.execution = None
      \/ /\ character[a].execution # None
         /\ d.execution.station = character[a].execution.station
  BY <1>3
<1> QED BY <1>1, <1>2, <1>3, <1>4, IterationKeeps

LEMMA AdvanceKeeps ==
    ASSUME BodiesInvariant, Advance
    PROVE  BodiesInvariant' /\ \A b \in Agents : Lives(character[b], character'[b])
<1> DEFINE a == AgentOf(turn)
<1>1. /\ turn # 0 /\ available' = available /\ advanced' = advanced \union {a}
      /\ turn' = NextTurn(character', advanced') /\ PhaseOf(turn) = "advance"
      /\ \E d \in Advanced(a, character[a]) : character' = [character EXCEPT ![a] = d]
  BY DEF Advance, Iterate
<1>2. PICK d \in Advanced(a, character[a]) : character' = [character EXCEPT ![a] = d]
  BY <1>1
<1>3. Sound(character[a]) /\ character[a].execution # None
  BY <1>1, TurnSound DEF Due
<1>4. /\ Sound(d) /\ Lives(character[a], d)
      /\ d.execution # None => d.execution.station = character[a].execution.station
      /\ d.drive.target \in {None, character[a].drive.target}
  BY <1>3, AdvancedSoundly
<1> QED BY <1>1, <1>2, <1>3, <1>4, IterationKeeps

LEMMA CorrectKeeps ==
    ASSUME BodiesInvariant, Correct
    PROVE  BodiesInvariant' /\ \A b \in Agents : Lives(character[b], character'[b])
<1> DEFINE a == AgentOf(turn)
<1>1. /\ turn # 0 /\ available' = available /\ advanced' = advanced
      /\ turn' = NextTurn(character', advanced') /\ PhaseOf(turn) = "correct"
      /\ \E d \in Corrected(a, character[a]) : character' = [character EXCEPT ![a] = d]
  BY DEF Correct, Iterate
<1>2. PICK d \in Corrected(a, character[a]) : character' = [character EXCEPT ![a] = d]
  BY <1>1
<1>3. /\ Sound(character[a]) /\ available \subseteq Stations
      /\ character[a].drive.state = "EXECUTING_CORRECTION" /\ character[a].execution = None
  BY <1>1, TurnSound DEF Due
<1>4. /\ Sound(d) /\ Lives(character[a], d) /\ d.drive.target \in {None, character[a].drive.target}
      /\ d.execution # None => Taken(d.execution.station, a)
  BY <1>3, CorrectsSoundly
<1> QED BY <1>1, <1>2, <1>4, IterationKeeps

LEMMA ServeKeeps ==
    ASSUME BodiesInvariant, Serve
    PROVE  BodiesInvariant' /\ \A b \in Agents : Lives(character[b], character'[b])
<1> DEFINE a == AgentOf(turn)
<1>1. /\ turn # 0 /\ available' = available /\ advanced' = advanced
      /\ turn' = NextTurn(character', advanced') /\ PhaseOf(turn) = "serve"
      /\ \E d \in Served(a, character[a]) : character' = [character EXCEPT ![a] = d]
  BY DEF Serve, Iterate
<1>2. PICK d \in Served(a, character[a]) : character' = [character EXCEPT ![a] = d]
  BY <1>1
<1>3. /\ Sound(character[a]) /\ available \subseteq Stations /\ character[a].request # None
      /\ character[a].request.status = "requested" /\ character[a].execution = None
  BY <1>1, TurnSound DEF Due
<1>4. /\ Sound(d) /\ Lives(character[a], d) /\ d.drive.target \in {None, character[a].drive.target}
      /\ d.execution # None => Taken(d.execution.station, a)
  BY <1>3, ServesSoundly
<1> QED BY <1>1, <1>2, <1>4, IterationKeeps

\* The start of a tick and a stutter change no character.
LEMMA OthersKeep ==
    ASSUME BodiesInvariant, character' = character,
           BeginTick \/ UNCHANGED vars
    PROVE  BodiesInvariant' /\ \A b \in Agents : Lives(character[b], character'[b])
<1>1. \A b \in Agents : Lives(character[b], character'[b])
  BY NoneEnd DEF BodiesInvariant, Sound
<1>2. NoDoubleBooking'
  BY DEF BodiesInvariant, NoDoubleBooking, StationsNeverOverbooked, TargetsNeverOverbooked
<1>3. Scheduled'
  <2>1. CASE BeginTick
    <3>1. available' \subseteq Stations /\ turn' = 1 /\ advanced' = {}
      BY <2>1 DEF BeginTick, BodiesInvariant, Scheduled
    <3> QED BY <3>1, FirstIsDue DEF Scheduled
  <2>2. CASE UNCHANGED vars
    BY <2>2 DEF vars, BodiesInvariant, Scheduled
  <2> QED BY <2>1, <2>2
<1> QED BY <1>1, <1>2, <1>3 DEF BodiesInvariant

LEMMA NextKeeps ==
    ASSUME BodiesInvariant, [Next]_vars
    PROVE  BodiesInvariant' /\ \A b \in Agents : Lives(character[b], character'[b])
<1>1. CASE BeginTick
  BY <1>1, OthersKeep DEF BeginTick
<1>2. CASE UNCHANGED vars
  BY <1>2, OthersKeep DEF vars
<1> QED BY <1>1, <1>2, LiveKeeps, ArbitrateKeeps, AdvanceKeeps, CorrectKeeps, ServeKeeps,
           SettleKeeps DEF Next

-----------------------------------------------------------------------------
(* The start.                                                              *)

LEMMA NewbornSound ==
    ASSUME NEW p \in Places, NEW zone \in [Drives -> Zones], NEW script \in Seq(Acts \X Targets)
    PROVE  LET d == Scripted(Newborn(p, zone), script) IN
           Sound(d) /\ d.execution = None /\ d.drive.target = None
<1> DEFINE queue == [i \in DOMAIN script |->
                       [id |-> i, act |-> script[i][1], target |-> script[i][2],
                        origin |-> "plan"]]
           story == [i \in DOMAIN script |-> <<"queued">>]
           open == script # <<>>
           b == Newborn(p, zone)
           plan == [b.plan EXCEPT !.open = open, !.queue = queue]
           q == [b EXCEPT !.plan = plan, !.story = story]
           d == Scripted(Newborn(p, zone), script)
<1>1. PICK n \in Nat : DOMAIN script = 1..n
  BY LenProperties
<1>2. \A i \in DOMAIN script : script[i] \in Acts \X Targets
  BY <1>1, ElementOfSeq, LenProperties
<1>3. queue \in Seq(Actions) /\ \A i \in DOMAIN queue : queue[i].id = i /\ queue[i].origin = "plan"
  <2>1. \A i \in 1..n : queue[i] \in Actions
    BY <1>1, <1>2 DEF Actions
  <2>2. queue = [i \in 1..n |-> queue[i]]
    BY <1>1
  <2>3. \A i \in DOMAIN queue : queue[i].id = i /\ queue[i].origin = "plan"
    OBVIOUS
  <2> HIDE DEF queue
  <2>4. queue \in [1..n -> Actions]
    BY <2>1, <2>2
  <2> QED BY <2>3, <2>4 DEF Seq
<1>4. DOMAIN queue = DOMAIN script /\ DOMAIN story = DOMAIN script
  OBVIOUS
<1>5. story \in Seq(Seq(Events)) /\ \A i \in DOMAIN story : story[i] = <<"queued">>
  <2>1. <<"queued">> \in Seq(Events)
    BY DEF Events
  <2>2. \A i \in DOMAIN story : story[i] = <<"queued">>
    OBVIOUS
  <2>3. story = [i \in 1..n |-> story[i]]
    BY <1>1
  <2> HIDE DEF story
  <2>4. story \in [1..n -> Seq(Events)]
    BY <1>1, <1>4, <2>1, <2>2, <2>3, Zenon
  <2> QED BY <2>2, <2>4 DEF Seq
<1>6. /\ EmptyPlan \in Plans /\ EmptyPlan.current = None
      /\ EmptyPlan.timer = 0 /\ EmptyPlan.waiting = "no"
  <2>1. FALSE \in BOOLEAN /\ 0 \in 0..Duration /\ "NONE" \in Shown /\ "no" \in {"no", "affordance"}
    BY BoundsAssumption DEF Shown
  <2>2. <<>> \in Seq(Actions)
    OBVIOUS
  <2> QED BY <2>1, <2>2 DEF EmptyPlan, Plans
<1>7. Idle \in Shows /\ Idle.current = "IDLE" /\ Idle.override = FALSE
  BY DEF Idle, Showing, Shows, Shown
<1>8. /\ Normal \in Controls /\ Normal.state = "NORMAL" /\ Normal.active = None
      /\ Normal.target = None /\ Normal.correction = None
  BY DEF Normal, Controls, DriveStates, Targets
<1>9. Nowhere \in Navigations
  <2>1. <<>> \in Seq(Primitives)
    OBVIOUS
  <2> QED BY <2>1 DEF Nowhere, Navigations, Statuses, Targets
<1>10. /\ b \in Characters /\ b.plan = EmptyPlan /\ b.goal = None /\ b.walking = FALSE
       /\ b.activity = Idle /\ b.drive = Normal /\ b.request = None /\ b.execution = None
  <2>1. <<>> \in Seq(Seq(Events))
    OBVIOUS
  <2> QED BY <1>6, <1>7, <1>8, <1>9, <2>1 DEF Newborn, Characters
<1>11. d = q \/ (script # <<>> /\ d = RequestNavigation(q, Head(script)[2]))
  <2> DEFINE c == [b EXCEPT !.plan.open = open, !.plan.queue = queue, !.story = story]
  <2>1. d = IF script # <<>> /\ Head(script)[1] = "NAVIGATE"
              THEN RequestNavigation(c, Head(script)[2]) ELSE c
    BY Zenon DEF Scripted
  <2> HIDE DEF b, d, open, queue, story
  <2>2. c = q
    BY <1>10 DEF Characters
  <2> HIDE DEF c, q
  <2> QED BY <2>1, <2>2
<1>12. open \in BOOLEAN
  OBVIOUS
<1> HIDE DEF queue, story, b, open
<1>13. /\ plan \in Plans /\ plan.queue = queue /\ plan.current = None
        /\ plan.timer = 0 /\ plan.waiting = "no"
  BY <1>3, <1>6, <1>10, <1>12 DEF Plans
<1> HIDE DEF plan
<1>14. /\ q \in Characters /\ q.plan = plan /\ q.story = story /\ q.goal = None /\ q.walking = FALSE
       /\ q.activity = Idle /\ q.drive = Normal /\ q.request = None /\ q.execution = None
  BY <1>5, <1>10, <1>13 DEF Characters
<1> HIDE DEF q
<1>15. /\ CurrentIds(q) = {} /\ QueuedIds(q) = DOMAIN story /\ LiveIds(q) = DOMAIN story
  <2>1. CurrentIds(q) = {} /\ q.drive.correction = None
    BY <1>13, <1>8, <1>14 DEF CurrentIds
  <2>2. QueuedIds(q) = DOMAIN story
    <3>1. q.plan.queue = queue
      BY <1>13, <1>14
    <3>2. \A i \in DOMAIN queue : queue[i].id = i
      BY <1>3
    <3>3. {queue[i].id : i \in DOMAIN queue} = DOMAIN queue
      BY <3>2
    <3> QED BY <1>4, <3>1, <3>3, Zenon DEF QueuedIds
  <2> QED BY <2>1, <2>2 DEF LiveIds
<1>16. \A id \in DOMAIN q.story : Ends(q, id) = {}
  <2>1. \A id \in DOMAIN q.story : q.story[id] = <<"queued">>
    BY <1>5, <1>14
  <2>2. \A i \in DOMAIN <<"queued">> : <<"queued">>[i] \notin Terminal
    BY DEF Terminal
  <2> QED BY <2>1, <2>2 DEF Ends
<1>17. LifeSound(q)
  <2>1. \A id \in DOMAIN q.story : Cardinality(Ends(q, id)) <= 1
    <3> TAKE id \in DOMAIN q.story
    <3>1. Ends(q, id) = {}
      BY <1>16
    <3>2. Cardinality({}) = 0
      BY FS_EmptySet
    <3>3. Cardinality(Ends(q, id)) = 0
      BY <3>1, <3>2, Zenon
    <3> QED BY <3>3
  <2>2. Distinct(q)
    BY <1>3, <1>13, <1>8, <1>14, <1>15 DEF Distinct
  <2> QED BY <1>14, <1>15, <1>16, <2>1, <2>2 DEF LifeSound
<1>18. ~SurvivalNavigation(q)
  BY <1>13, <1>14 DEF SurvivalNavigation
<1>19. PlanSound(q)
  BY <1>3, <1>13, <1>14, <1>18 DEF PlanSound
<1>20. RequestSound(q) /\ DriveSound(q)
  BY <1>13, <1>8, <1>14 DEF RequestSound, DriveSound
<1>21. MoveSound(q) /\ ActivitySound(q)
  BY <1>7, <1>14 DEF MoveSound, ActivitySound, Calm
<1>22. Sound(q)
  BY <1>14, <1>17, <1>19, <1>20, <1>21 DEF Sound
<1> HIDE DEF d
<1>23. CASE d = q
  BY <1>8, <1>14, <1>22, <1>23 DEF d
<1>24. CASE script # <<>> /\ d = RequestNavigation(q, Head(script)[2])
  <2> DEFINE s == Head(script)[2]
             r == RequestNavigation(q, s)
  <2>1. s \in Targets
    <3>1. Head(script) \in Acts \X Targets
      BY <1>24, HeadTailProperties
    <3> QED BY <3>1
  <2> HIDE DEF s
  <2>2. Sound(r) /\ Steady(q, r)
    BY <1>14, <1>22, <2>1, RequestsSoundly
  <2>3. r.execution = None /\ r.drive.target = None
    BY <1>8, <1>14, <2>2 DEF Steady
  <2> HIDE DEF r
  <2>4. d = r
    BY <1>24 DEF r, s
  <2> QED BY <2>2, <2>3, <2>4 DEF d
<1> QED BY <1>11, <1>23, <1>24

LEMMA InitSound ==
    ASSUME Init
    PROVE  BodiesInvariant
<1> DEFINE zone == [d \in Drives |-> "between"]
<1>1. zone \in [Drives -> Zones]
  BY DEF Zones
<1>2. ASSUME NEW a \in Agents
      PROVE  /\ Sound(character[a]) /\ character[a].execution = None
             /\ character[a].drive.target = None
  <2>1. PICK x \in Starts[a] : character[a] = Scripted(Newborn(x[1], zone), x[2])
    BY <1>2 DEF Init, Newcomers
  <2>2. x[1] \in Places /\ x[2] \in Seq(Acts \X Targets)
    BY ScriptsAssumption
  <2> HIDE DEF zone
  <2> QED BY <1>1, <2>1, <2>2, NewbornSound
<1>3. character = [a \in Agents |-> character[a]]
  BY DEF Init
<1>4. NoDoubleBooking
  <2>1. \A s \in Stations : Capacity[s] \in Nat /\ s # None
    BY PlacesAssumption, NoneAssumption
  <2>2. ASSUME NEW s \in Stations
        PROVE  /\ Cardinality({a \in Agents : /\ character[a].execution # None
                                              /\ character[a].execution.station = s}) <= Capacity[s]
               /\ Cardinality({a \in Agents : character[a].drive.target = s}) <= Capacity[s]
    <3> DEFINE U == {a \in Agents : character[a].execution # None
                                    /\ character[a].execution.station = s}
               T == {a \in Agents : character[a].drive.target = s}
    <3>1. U = {} /\ T = {}
      BY <1>2, <2>1
    <3>2. Cardinality({}) = 0
      BY FS_EmptySet
    <3> HIDE DEF U, T
    <3>3. Cardinality(U) = 0 /\ Cardinality(T) = 0
      BY <3>1, <3>2, Zenon
    <3>4. Cardinality(U) <= Capacity[s] /\ Cardinality(T) <= Capacity[s]
      BY <2>1, <3>3
    <3> QED BY <3>4 DEF U, T
  <2> QED BY <2>2, Zenon DEF NoDoubleBooking, StationsNeverOverbooked, TargetsNeverOverbooked
<1>5. Scheduled
  BY DEF Init, Scheduled
<1> QED BY <1>2, <1>3, <1>4, <1>5 DEF BodiesInvariant

-----------------------------------------------------------------------------
(* Results.                                                                *)

\* The strengthening: every character is sound, the turn is one that is due
\* and no station is overbooked.
THEOREM BodiesSound == Spec => []BodiesInvariant
<1>1. Init => BodiesInvariant
  BY InitSound
<1>2. BodiesInvariant /\ [Next]_vars => BodiesInvariant'
  BY NextKeeps
<1> QED BY <1>1, <1>2, PTL DEF Spec

\* The components of a character keep the types of their dataclasses.
THEOREM TypeCorrect == Spec => []CharacterTypeOK
<1>1. BodiesInvariant => CharacterTypeOK
  BY DEF BodiesInvariant, Scheduled, Sound, LifeSound, CharacterTypeOK
<1> QED BY <1>1, BodiesSound, PTL

\* emit_action_lifecycle tells the end of an action at most once, and not while
\* the action is in a plan or corrects a drive.
THEOREM EndsOnce == Spec => []EndedOnce
<1>1. BodiesInvariant => EndedOnce
  BY DEF BodiesInvariant, Sound, LifeSound, EndedOnce
<1> QED BY <1>1, BodiesSound, PTL

\* A plan waits for exactly the request that is there, and the request runs
\* exactly while its execution does.
THEOREM WaitsForWork == Spec => []WaitingHasWork
<1>1. ASSUME NEW c, Sound(c)
      PROVE  /\ c.plan.waiting = "affordance" <=> c.request # None
             /\ c.request # None => c.plan.current # None /\ c.request.id = c.plan.current.id
             /\ (c.request # None /\ c.request.status = "running")
                  <=> (c.execution # None /\ c.execution.source = "plan")
             /\ c.request # None /\ c.execution # None => c.execution.id = c.request.id
  BY <1>1 DEF Sound, PlanSound, RequestSound, DriveSound
<1>2. BodiesInvariant => WaitingHasWork
  BY <1>1 DEF BodiesInvariant, WaitingHasWork
<1> QED BY <1>2, BodiesSound, PTL

\* Outside the normal state nothing of the preempted plan is left and what runs
\* is the correction of System 1 at its own target.
THEOREM SurvivalOwns == Spec => []SurvivalOwnsTheBody
<1>1. BodiesInvariant => SurvivalOwnsTheBody
  BY DEF BodiesInvariant, Sound, DriveSound, SurvivalOwnsTheBody
<1> QED BY <1>1, BodiesSound, PTL

\* What a character shows is walking, idling, or the timed action or affordance
\* that is running.
THEOREM ShownHasCause == Spec => []ActivityHasCause
<1>1. BodiesInvariant => ActivityHasCause
  BY DEF BodiesInvariant, Sound, ActivitySound, Calm, ActivityHasCause
<1> QED BY <1>1, BodiesSound, PTL

\* Neither the users of a station nor the characters sent to it are more than
\* it holds, whoever chose it and in whatever order.
THEOREM NeverOverbooked == Spec => []NoDoubleBooking
<1>1. BodiesInvariant => NoDoubleBooking
  BY DEF BodiesInvariant
<1> QED BY <1>1, BodiesSound, PTL

\* A step takes an action out of a plan or a drive only with its terminal event,
\* the NAVIGATE of System 1 apart.
THEOREM NothingVanishes == Spec => NoActionVanishes
<1> DEFINE Kept == \A a \in Agents : \A id \in LiveIds(character[a]) :
                      \/ id \in LiveIds(character'[a])
                      \/ Ends(character'[a], id) # {}
                      \/ SurvivalNavigation(character[a]) /\ id = character[a].plan.current.id
<1>1. BodiesInvariant /\ [Next]_vars => [Kept]_vars
  BY NextKeeps DEF Lives
<1>2. Spec => [][Kept]_vars
  BY <1>1, BodiesSound, PTL DEF Spec
<1> QED BY <1>2 DEF NoActionVanishes

=============================================================================
