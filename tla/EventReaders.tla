----------------------------- MODULE EventReaders -----------------------------
(***************************************************************************)
(* The systems that read the event bus with a cursor of their own, in the   *)
(* order of a tick: perception (250), goals (280) and the recording of      *)
(* memories (290), and the memory queue that the cognition barrier drains   *)
(* (application/perception/system.py, goals.py, memory_recording.py).       *)
(*                                                                         *)
(* A checkpoint holds the components, not the cursors                       *)
(* (application/checkpoints.py).  Restored as a branch it starts a run       *)
(* without events, with new systems; a run that is continued at its head     *)
(* gets its events back, and new systems that have read none of them.        *)
(***************************************************************************)
EXTENDS Goals

CONSTANTS
    Agents,         \* sequence: the order in which characters are queried
    Places,
    Plans,          \* sequence of goal definitions
    InboxLimit,     \* PerceptionConfiguration.inbox_limit
    MaxAge,         \* fact_max_age_seconds, in ticks
    Doings,         \* what may happen to whom: pairs of a doing and a character
    Deciders,       \* the characters with a controller
    MaxTicks,       \* bound: ticks explored
    MaxRestores     \* bound: restarts explored

Characters == ToSet(Agents)

ASSUME AgentsAssumption ==
    Agents \in Seq(Characters) /\ Characters # {} /\ IsInjective(Agents)
ASSUME PlansAssumption ==
    /\ Plans \in Seq(ToSet(Plans))
    /\ \A p \in ToSet(Plans) :
        /\ p.owner \in Characters /\ p.policy \in {"ALL", "ANY"}
        /\ {p.from, p.by} \subseteq Nat \cup {None}
        /\ p.criteria \in Seq(ToSet(p.criteria))
        /\ \A c \in ToSet(p.criteria) :
             c.kind = "count" => /\ c.type \in Interactions /\ c.minimum \in Nat \ {0}
                                 /\ Scale % c.minimum = 0
ASSUME NoneAssumption ==
    None \notin [type : {"speech.started"}, agent : Characters, target : Characters,
                cause : {0}, about : {None}, tick : Nat]
ASSUME LimitsAssumption == InboxLimit \in Nat \ {0} /\ MaxAge \in Nat

VARIABLES
    bus,        \* EventBus._events of this run
    cursor,     \* reader -> _event_cursor
    facts,      \* PerceptionSystem._fact_sequence
    minds,      \* character -> PerceptionComponent
    places,     \* character -> the place it is in
    alarmed,    \* the characters whose System 1 is not NORMAL
    goals,      \* GoalComponent: plan -> goal
    work,       \* MemoryWorkCoordinator._memory
    memories,   \* EpisodicMemoryStore: what is remembered of which event
    tick,
    phase,      \* the system that is due
    saved,      \* a checkpoint, or None
    restores,   \* restarts so far
    continued,  \* history variable: has what is restored been read before?
    history     \* history variable: who spoke to whom at which tick

vars == <<bus, cursor, facts, minds, places, alarmed, goals, work, memories, tick, phase,
          saved, restores, continued, history>>
world == <<places, alarmed, history>>
readers == <<cursor, facts, minds, goals, work, memories>>
restarts == <<saved, restores, continued>>

-----------------------------------------------------------------------------
(* The bus.                                                                *)

\* An event is identified by its number, its place in the bus.
Happens(a, type, b) ==
    [type |-> type, agent |-> a, target |-> b, cause |-> 0, about |-> None, tick |-> tick]

Unread(reader) == [i \in 1..(Len(bus) - cursor[reader]) |-> cursor[reader] + i]

-----------------------------------------------------------------------------
(* What happens to the characters: the systems up to order 245.             *)

\* One thing a tick: it changes the characters, and all but Walk tell the bus.
Tick(event) ==
    /\ phase = "world" /\ tick < MaxTicks
    /\ phase' = "perceive" /\ tick' = tick + 1
    /\ bus' = IF event = None THEN bus ELSE Append(bus, [event EXCEPT !.tick = tick'])
    /\ UNCHANGED <<readers, restarts>>

Nothing == Tick(None) /\ UNCHANGED world

Speak(a, b) ==
    /\ Tick(Happens(a, "speech.started", b))
    /\ history' = history \union {<<tick', a, b>>}
    /\ UNCHANGED <<places, alarmed>>

Finish(a) == Tick(Happens(a, "action.completed", None)) /\ UNCHANGED world

ChangeActivity(a) == Tick(Happens(a, "activity.changed", None)) /\ UNCHANGED world

Walk(a) ==
    /\ Tick(None)
    /\ \E p \in Places \ {places[a]} : places' = [places EXCEPT ![a] = p]
    /\ UNCHANGED <<alarmed, history>>

Alarm(a) ==
    /\ a \notin alarmed /\ Tick(Happens(a, "system1.activated", None))
    /\ alarmed' = alarmed \union {a}
    /\ UNCHANGED <<places, history>>

Calm(a) ==
    /\ a \in alarmed /\ Tick(Happens(a, "system1.resolved", None))
    /\ alarmed' = alarmed \ {a}
    /\ UNCHANGED <<places, history>>

-----------------------------------------------------------------------------
(* Perception.  p holds the minds, the bus and the last fact number.        *)

Saliences == [entity_seen |-> 7, entity_lost |-> 5, heard_speech |-> 9,
              visible_activity_started |-> 5]

\* The fact that is of least salience, then oldest, then of the lowest number.
Faintest(inbox) ==
    CHOOSE i \in DOMAIN inbox : \A j \in DOMAIN inbox :
        LET x == inbox[i] y == inbox[j] IN
        \/ x.salience < y.salience
        \/ x.salience = y.salience /\ x.tick < y.tick
        \/ x.salience = y.salience /\ x.tick = y.tick /\ x.id <= y.id

\* _deliver: facts that are too old go first, then the faintest if there are
\* too many.
Deliver(p, o, kind, subject, cause) ==
    LET inbox == p.minds[o].inbox
        fact == [id |-> p.facts + 1, kind |-> kind, subject |-> subject, tick |-> tick,
                 salience |-> Saliences[kind]]
        old == {x \in ToSet(inbox) : x.tick < tick - MaxAge}
        stale == Only(inbox, old)
        full == Append(Only(inbox, ToSet(inbox) \ old), fact)
        faint == IF Len(full) > InboxLimit THEN {Faintest(full)} ELSE {}
        tell(type, x) == [Happens(o, type, x.subject) EXCEPT !.about = x]
    IN [minds |-> [p.minds EXCEPT ![o].inbox =
                     IF faint = {} THEN full ELSE RemoveAt(full, Faintest(full))],
        facts |-> fact.id,
        bus |-> p.bus
                \o [i \in DOMAIN stale |-> tell("perception.dropped", stale[i])]
                \o <<[tell("perception.delivered", fact) EXCEPT !.cause = cause]>>
                \o (IF faint = {} THEN <<>>
                    ELSE <<tell("perception.dropped", full[Faintest(full)])>>)]

DeliverAll(p, listeners, kind, subject, cause) ==
    FoldLeft(LAMBDA q, o : IF o \in listeners THEN Deliver(q, o, kind, subject, cause) ELSE q,
             p, Agents)

\* Mutant of Looking: who goes out of sight is not forgotten.
LookingOn(mind, present) == [mind EXCEPT !.visible = @ \union present]

Looking(mind, present) == [mind EXCEPT !.visible = present]

\* _scan_visible
Scan(p, o) ==
    LET present == {b \in Characters \ {o} : places[b] = places[o]}
        visible == p.minds[o].visible
        seen == FoldLeft(LAMBDA q, b : IF b \in present \ visible
                                         THEN Deliver(q, o, "entity_seen", b, 0) ELSE q,
                         p, Agents)
        lost == FoldLeft(LAMBDA q, b : IF b \in visible \ present
                                         THEN Deliver(q, o, "entity_lost", b, 0) ELSE q,
                         seen, Agents)
    IN [lost EXCEPT !.minds[o] = Looking(@, present)]

\* _route_speech, with the recipients at the end of the tick, and
\* _route_visual_event.
Route(p, n) ==
    LET e == bus[n]
        near == {b \in Characters \ {e.agent} : places[b] = places[e.agent]}
        heard == DeliverAll(p, near, "heard_speech", e.agent, n)
        watching == {o \in Characters : e.agent \in p.minds[o].visible}
    IN CASE e.type = "speech.started" ->
              [heard EXCEPT !.bus = Append(@,
                 [Happens(e.agent, "speech.delivered", near) EXCEPT !.cause = n])]
         [] e.type = "activity.changed" ->
              DeliverAll(p, watching, "visible_activity_started", e.agent, n)
         [] OTHER -> p

Perceive ==
    LET scanned == FoldLeft(Scan, [minds |-> minds, facts |-> facts, bus |-> bus], Agents)
        routed == FoldLeft(Route, scanned, Unread("perception"))
    IN /\ phase = "perceive" /\ phase' = "evaluate"
       /\ minds' = routed.minds /\ facts' = routed.facts /\ bus' = routed.bus
       /\ cursor' = [cursor EXCEPT !["perception"] = Len(bus)]
       /\ UNCHANGED <<goals, work, memories, tick, world, restarts>>

-----------------------------------------------------------------------------
(* Goals.                                                                  *)

EvaluateGoal(p, g) ==
    LET def == Plans[g]
        read == [i \in DOMAIN Unread("goals") |-> bus[Unread("goals")[i]]]
        done == Evaluated(def, p.goals[g], read, [now |-> tick, place |-> places[def.owner]])
    IN [goals |-> [p.goals EXCEPT ![g] = done.goal],
        bus |-> p.bus \o [i \in DOMAIN done.emits |->
                            [Happens(def.owner, done.emits[i], None) EXCEPT !.about = g]]]

Evaluate ==
    LET done == FoldLeft(EvaluateGoal, [goals |-> goals, bus |-> bus],
                         [g \in DOMAIN Plans |-> g])
    IN /\ phase = "evaluate" /\ phase' = "memorise"
       /\ goals' = done.goals /\ bus' = done.bus
       /\ cursor' = [cursor EXCEPT !["goals"] = Len(bus)]
       /\ UNCHANGED <<facts, minds, work, memories, tick, world, restarts>>

-----------------------------------------------------------------------------
(* Memories.                                                               *)

Memorable == {"action.completed", "speech.delivered", "system1.activated", "system1.resolved"}

\* _memory_recipients
Recipients(e) ==
    {e.agent} \union (IF e.type = "speech.delivered" THEN e.target ELSE {})

Enqueue(p, n, r) ==
    [bus |-> Append(p.bus, [Happens(r, "memory.requested", None) EXCEPT !.cause = n]),
     work |-> Append(p.work, [agent |-> r, event |-> n, tick |-> bus[n].tick,
                              request |-> Len(p.bus) + 1])]

RequestMemories(p, n) ==
    IF bus[n].type \notin Memorable THEN p
    ELSE FoldLeft(LAMBDA q, r : IF r \in Recipients(bus[n]) THEN Enqueue(q, n, r) ELSE q,
                  p, Agents)

Memorise ==
    LET done == FoldLeft(RequestMemories, [bus |-> bus, work |-> work],
                         Unread("memory"))
    IN /\ phase = "memorise" /\ phase' = "think"
       /\ bus' = done.bus /\ work' = done.work
       /\ cursor' = [cursor EXCEPT !["memory"] = Len(bus)]
       /\ UNCHANGED <<facts, minds, goals, memories, tick, world, restarts>>

\* A character that is asked for a decision is told what its inbox holds.
Think(asked) ==
    /\ phase = "think" /\ phase' = "drain"
    /\ minds' = [a \in Characters |->
                   IF a \in asked THEN [minds[a] EXCEPT !.inbox = <<>>] ELSE minds[a]]
    /\ UNCHANGED <<bus, cursor, facts, goals, work, memories, tick, world, restarts>>

Settles(item, type) == [Happens(item.agent, type, None) EXCEPT !.cause = item.request]

\* _record, unless the embedding fails.
Remember(p, item, fails) ==
    IF fails THEN [p EXCEPT !.bus = Append(@, Settles(item, "memory.failed"))]
    ELSE [p EXCEPT !.bus = Append(@, [Settles(item, "memory.recorded") EXCEPT
                                        !.about = Len(p.memories) + 1]),
                   !.memories = Append(@, [agent |-> item.agent, event |-> item.event,
                                           tick |-> item.tick])]

\* Mutant of Held: the queue was cleared, and what is held back with it.
HeldNothing(items) == <<>>

Held(items) == Only(items, {x \in ToSet(items) : x.agent \in alarmed})

\* drain: what belongs to an alarmed character waits; the provider answers
\* for all of one drain or for none.
Drain(fails) ==
    LET settle(p, x) == IF x.agent \in alarmed THEN p ELSE Remember(p, x, fails)
        done == FoldLeft(settle, [bus |-> bus, memories |-> memories], work)
    IN
    /\ phase = "drain" /\ phase' = "world"
    /\ bus' = done.bus /\ memories' = done.memories
    /\ work' = Held(work)
    /\ UNCHANGED <<cursor, facts, minds, goals, tick, world, restarts>>

CancelOrRecord(p, item) ==
    IF item.agent \in alarmed
      THEN [p EXCEPT !.bus = Append(@, Settles(item, "memory.cancelled"))]
      ELSE Remember(p, item, FALSE)

\* drain_all, when the run is stopped.
Finalise ==
    LET done == FoldLeft(CancelOrRecord, [bus |-> bus, memories |-> memories], work) IN
    /\ phase = "world" /\ phase' = "ended"
    /\ bus' = done.bus /\ memories' = done.memories /\ work' = <<>>
    /\ UNCHANGED <<cursor, facts, minds, goals, tick, world, restarts>>

-----------------------------------------------------------------------------
(* Checkpoints.                                                            *)

Checkpoint ==
    [bus |-> bus, minds |-> minds, places |-> places, alarmed |-> alarmed,
     goals |-> goals, memories |-> memories, tick |-> tick, history |-> history]

\* create_checkpoint_state: only when nothing is queued.
Save ==
    /\ phase = "world" /\ work = <<>>
    /\ saved' = Checkpoint /\ saved' # saved
    /\ UNCHANGED <<bus, tick, phase, restores, continued, readers, world>>

\* New systems, the components of the checkpoint, and no events.
Branch ==
    /\ saved # None /\ phase \in {"world", "ended"} /\ restores < MaxRestores
    /\ restores' = restores + 1
    /\ bus' = <<>>
    /\ cursor' = [r \in DOMAIN cursor |-> 0] /\ facts' = 0
    /\ minds' = saved.minds /\ places' = saved.places /\ alarmed' = saved.alarmed
    /\ goals' = saved.goals /\ memories' = saved.memories /\ tick' = saved.tick
    /\ history' = saved.history
    /\ work' = <<>> /\ phase' = "world" /\ saved' = None
    /\ UNCHANGED continued

\* restore_paused of a run that was suspended at its checkpoint: its components
\* and its events, and new systems that begin at the first event.
Continue ==
    /\ saved = Checkpoint /\ phase = "world" /\ restores < MaxRestores
    /\ restores' = restores + 1 /\ continued' = TRUE
    /\ cursor' = [r \in DOMAIN cursor |-> 0] /\ facts' = 0 /\ work' = <<>>
    /\ UNCHANGED <<bus, minds, goals, memories, tick, phase, saved, world>>

-----------------------------------------------------------------------------
(* The specification.                                                      *)

Init ==
    /\ bus = <<>> /\ cursor = [r \in {"perception", "goals", "memory"} |-> 0] /\ facts = 0
    /\ minds = [a \in Characters |-> [inbox |-> <<>>, visible |-> {}]]
    /\ places \in [Characters -> Places]
    /\ alarmed = {}
    /\ goals = [g \in DOMAIN Plans |-> NewGoal(Plans[g].criteria)]
    /\ work = <<>> /\ memories = <<>>
    /\ tick = 0 /\ phase = "world" /\ saved = None /\ restores = 0 /\ history = {}
    /\ continued = FALSE

Happening ==
    \/ Nothing
    \/ \E a \in Characters :
         \/ <<"speak", a>> \in Doings /\ \E b \in Characters \ {a} : Speak(a, b)
         \/ <<"finish", a>> \in Doings /\ Finish(a)
         \/ <<"change", a>> \in Doings /\ ChangeActivity(a)
         \/ <<"walk", a>> \in Doings /\ Walk(a)
         \/ <<"alarm", a>> \in Doings /\ (Alarm(a) \/ Calm(a))

Next ==
    \/ Happening \/ Perceive \/ Evaluate \/ Memorise
    \/ \E asked \in SUBSET (Deciders \ alarmed) : Think(asked)
    \/ \E fails \in BOOLEAN : Drain(fails)
    \/ Finalise \/ Save \/ Branch \/ Continue

Spec == Init /\ [][Next]_vars

-----------------------------------------------------------------------------
(* Properties.                                                             *)

\* memory_recording.py: whatever was read is remembered, queued, failed or
\* cancelled by each whom it concerns, and once, however long System 1 holds it
\* back and wherever the run branches; only a run that was continued with its
\* events remembers again.
EachRememberedOnce ==
    LET kept == memories \o [i \in DOMAIN work |->
                  [agent |-> work[i].agent, event |-> work[i].event, tick |-> work[i].tick]]
        failed(n, r) == \E i, j \in DOMAIN bus :
            /\ bus[i].type = "memory.requested" /\ bus[i].agent = r /\ bus[i].cause = n
            /\ bus[j].type \in {"memory.failed", "memory.cancelled"} /\ bus[j].cause = i
    IN /\ continued \/ IsInjective(kept)
       /\ \A n \in 1..cursor["memory"] : bus[n].type \in Memorable =>
            \A r \in Recipients(bus[n]) :
               \/ [agent |-> r, event |-> n, tick |-> bus[n].tick] \in ToSet(kept)
               \/ failed(n, r)

\* Part of GoalsAreReal: the interactions a goal has counted are those that took place since
\* it became active and before it was met, none left out and none counted again.
CountsAreReal ==
    \A g \in DOMAIN Plans : \A i \in DOMAIN Plans[g].criteria :
        LET def == Plans[g]
            c == def.criteria[i]
            since == {x \in history : /\ x[1] >= (IF def.from = None THEN 0 ELSE def.from)
                                      /\ Matches(def.owner, c, [type |-> "speech.started",
                                                                agent |-> x[2], target |-> x[3]])}
        IN /\ c.kind = "count" /\ phase \notin {"perceive", "evaluate"}
           /\ goals[g].status \in {"pending", "active"} /\ i \notin goals[g].matched
           => goals[g].counts[i] = Cardinality(since)

\* Part of GoalsAreReal: after each evaluation a goal has the status that its criteria,
\* its deadline and the order of the three verdicts give it; failure wins.
GoalsSettled ==
    \A g \in DOMAIN Plans :
        LET def == Plans[g]
            goal == goals[g]
            good == Of(def, "success") \intersect goal.matched
            bad == Of(def, "failure") \intersect goal.matched
            whole == /\ good # {}
                     /\ def.policy = "ALL" => good = Of(def, "success")
            late == def.by # None /\ tick >= def.by
        IN phase \notin {"perceive", "evaluate"} /\ def.criteria # <<>> =>
             CASE goal.status = "pending" ->
                    \/ tick = 0
                    \/ def.from # None /\ tick < def.from
               [] goal.status = "active" -> bad = {} /\ ~whole /\ ~late
               [] goal.status = "succeeded" -> bad = {} /\ whole
               [] goal.status = "failed" -> bad # {}
               [] goal.status = "expired" -> bad = {} /\ ~whole /\ late

\* goals.py: what a goal has counted took place, unless the run was continued with
\* its events, which are counted again; its status is what its criteria give.
GoalsAreReal == (continued \/ CountsAreReal) /\ GoalsSettled

\* perception/system.py: to each observer another character comes into sight
\* and goes out of sight in turn, whatever else is delivered and dropped,
\* also when the run branches and when it is continued.
SightingsAlternate ==
    \A o, b \in Characters :
        LET sightings == {n \in DOMAIN bus :
                /\ bus[n].type = "perception.delivered" /\ bus[n].agent = o /\ bus[n].target = b
                /\ bus[n].about.kind \in {"entity_seen", "entity_lost"}}
        IN \A m, n \in sightings :
               m < n /\ (\A i \in sightings : i <= m \/ n <= i)
               => bus[m].about.kind # bus[n].about.kind
=============================================================================
