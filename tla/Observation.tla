----------------------------- MODULE Observation -----------------------------
(***************************************************************************)
(* What a character perceives of the room, what it is told before it          *)
(* decides, and which decisions the tools accept                             *)
(* (application/perception/system.py, domain/perception/sweep.py,            *)
(* application/agents/context.py and tools.py).                              *)
(*                                                                         *)
(* An object's definition also says what it stops while it is shut ("sight",   *)
(* "smell"), how far its scent goes, and how much further its wearer           *)
(* recognises things.                                                       *)
(***************************************************************************)
EXTENDS PhysicalWorld

CONSTANTS
    Address, Endpoint,  \* of TextContent
    Acuity              \* SensesComponent: the ranges of sight, recognition, smell

INSTANCE TextContent

\* The entities of the registry: a thing is somewhere, or it is not in this run.
Registered(w) == {e \in Entities : e \in w.indexed \/ w.rel[e] # None}

-----------------------------------------------------------------------------
(* Sight and smell.                                                        *)

Gap(a, b) == Max({a, b}) - Min({a, b})

Between(a, b) == (Min({a, b}) + 1)..(Max({a, b}) - 1)

\* What is open lets everything through.
Screens(w, e, sense) == e \in Things /\ sense \in Object[e].stops /\ e \notin w.open

\* The lengths of the lines from p to e within the range that nothing else stops.
Sweep(w, p, e, range, sense) ==
    LET screens == UNION {Occupied(w, f) : f \in {g \in w.indexed \ {p, e} : Screens(w, g, sense)}}
        lines   == {q \in Occupied(w, p) \X Occupied(w, e) :
                       Gap(q[1], q[2]) <= range /\ Between(q[1], q[2]) \cap screens = {}}
    IN {Gap(q[1], q[2]) : q \in lines}

\* The ranges of the senses with what is worn.
Senses(worn) ==
    LET keen == MapThenSumSet(LAMBDA x : Object[x].keen, worn)
    IN [sight       |-> Acuity.sight,
        recognition |-> Min({Acuity.recognition + keen, Acuity.sight}),
        smell       |-> Acuity.smell]

VisiblePeople(w, p, senses) ==
    {q \in People \ {p} : Sweep(w, p, q, senses.sight, "sight") # {}}

\* The distances from which p sees x: what it holds is at hand, and what others
\* hold is seen with them.
Distances(w, p, x, senses, people) ==
    IF Hidden(w, x) THEN {}
    ELSE IF HeldBy(w, x, p) THEN {0}
    ELSE IF \E q \in People \ people : HeldBy(w, x, q) THEN {}
    ELSE Sweep(w, p, x, senses.sight, "sight")

Carries(w, p, x) == HeldBy(w, x, p) \/ Has(w, x, "ATTACHED_TO", p)

\* _physical_public_state: size, slots and scent only of what is recognised, and
\* the mass of what is recognised and carried.
PublicState(w, p, x, recognised) ==
    [open |-> x \in w.open, place |-> w.rel[x], keeper |-> w.keeper[x],
     recognised |-> recognised,
     mass |-> IF recognised /\ Carries(w, p, x) THEN Object[x].mass ELSE None]

VisibleThings(w, p, senses, people) ==
    LET visible == {x \in Registered(w) \cap Things : Distances(w, p, x, senses, people) # {}}
    IN [x \in visible |->
           PublicState(w, p, x, Min(Distances(w, p, x, senses, people)) <= senses.recognition)]

Smelled(w, p, senses) ==
    {x \in Registered(w) \cap Things :
        /\ Object[x].scent > 0 /\ senses.smell > 0 /\ ~Hidden(w, x)
        /\ Sweep(w, p, x, Min({senses.smell, Object[x].scent}), "smell") # {}}

\* PerceptionComponent after a scan.
Scan(w, p, senses) ==
    LET people == VisiblePeople(w, p, senses)
    IN [people |-> [q \in people |-> w.at[q]],
        things |-> VisibleThings(w, p, senses, people),
        scents |-> [x \in Smelled(w, p, senses) |-> "scent"]]

Nothing == [people |-> <<>>, things |-> <<>>, scents |-> <<>>]

-----------------------------------------------------------------------------
(* The facts delivered: what came into sight or smell, changed, and was lost.  *)

News(old, new) ==
    {<<"new", e, new[e]>> : e \in DOMAIN new \ DOMAIN old}
      \cup {<<"changed", e, new[e]>> : e \in {f \in DOMAIN new \cap DOMAIN old : old[f] # new[f]}}

Losses(old, new) == DOMAIN old \ DOMAIN new

\* Mutant: what is seen a second time is not looked at again.
FirstSight(old, new) ==
    [fresh |-> {<<"new", e, new[e]>> : e \in DOMAIN new \ DOMAIN old}, lost |-> Losses(old, new)]

Facts(old, new) == [fresh |-> News(old, new), lost |-> Losses(old, new)]

\* What a mind that hears the facts takes to be there.
Minded(mind, facts) ==
    [e \in (DOMAIN mind \ facts.lost) \cup {f[2] : f \in facts.fresh} |->
        IF \E f \in facts.fresh : f[2] = e
          THEN (CHOOSE f \in facts.fresh : f[2] = e)[3] ELSE mind[e]]

MindedAll(mind, old, new) ==
    [k \in DOMAIN mind |-> Minded(mind[k], Facts(old[k], new[k]))]

-----------------------------------------------------------------------------
(* What is offered: the verbs of a thing, its texts and the addresses.        *)

Interactions == {"PICK_UP", "PUT_DOWN", "PLACE_ON", "PLACE_IN", "OPEN", "CLOSE", "SIT",
                 "LIE_DOWN", "STAND", "GET_UP", "USE", "EQUIP", "UNEQUIP"}

ForHands(w, p, x) ==
    LET held == HeldBy(w, x, p)
        free == w.rel[x] = None \/ w.rel[x].kind # "HELD_BY"
    IN (IF Object[x].carry = "no" THEN {}
        ELSE IF held THEN {"PUT_DOWN", "PLACE_ON", "PLACE_IN"}
        ELSE IF Accessible(w, p, x) /\ free THEN {"PICK_UP"} ELSE {})
       \cup (IF WornBy(w, x, p) THEN {"UNEQUIP"}
             ELSE IF held /\ Object[x].wear # {} THEN {"EQUIP"} ELSE {})

ForBody(w, p, x) ==
    LET seat == \E s \in DOMAIN Object[x].slots : "OCCUPIES_SLOT" \in Object[x].slots[s].takes IN
    CASE ~seat                                       -> {}
      [] seat /\ w.posture[p].is = "STANDING"         -> {"SIT", "LIE_DOWN"}
      [] seat /\ w.posture[p] = [is |-> "SITTING", on |-> x] -> {"STAND"}
      [] seat /\ w.posture[p] = [is |-> "LYING", on |-> x]   -> {"GET_UP"}
      [] OTHER -> {}

ForUse(w, p, x) ==
    (IF ~Object[x].opens THEN {}
     ELSE IF x \in w.open THEN {"CLOSE"} ELSE IF Object[x].locked THEN {} ELSE {"OPEN"})
      \cup (IF Object[x].usable THEN {"USE"} ELSE {})

\* available_interactions.  Only PICK_UP, sitting, rising, opening and using ask
\* that p touches x; who sits on the middle of a seat as wide as the body does
\* not touch it, and is never offered to rise.
AvailableInteractions(w, p, x) ==
    ForHands(w, p, x)
      \cup IF Accessible(w, p, x) THEN ForBody(w, p, x) \cup ForUse(w, p, x) ELSE {}

\* content_endpoint_accessible
Reaches(w, p, e) ==
    LET x == Endpoint[e].on IN
    \/ Endpoint[e].access = "logical"
    \/ /\ ~Hidden(w, x)
       /\ CASE Endpoint[e].access = "held"      -> HeldBy(w, x, p)
            [] Endpoint[e].access = "reachable" -> HeldBy(w, x, p) \/ Touches(w, p, x)
            [] Endpoint[e].access = "terminal"  -> w.posture[p].on = x

OfArtifact(r, e) == Endpoint[e].of \in DOMAIN r.artifacts

PolicyRight(e, verb) == IF Endpoint[e].mails /\ verb = "create" THEN "send" ELSE verb

\* What p may do at an endpoint: the artifact allows it, or the collection, or
\* some member of the collection.
Operations(r, p, e) ==
    LET of == Endpoint[e].of IN
    IF OfArtifact(r, e)
      THEN {verb \in Endpoint[e].allows : Allowed(r.artifacts[of].policy, verb, p)}
    ELSE {verb \in Endpoint[e].allows :
             \/ Allowed(r.collections[of].policy, PolicyRight(e, verb), p)
             \/ /\ verb # "create"
                /\ \E id \in r.collections[of].members : Allowed(r.artifacts[id].policy, verb, p)}

Listed(r, p, e) ==
    LET of == Endpoint[e].of IN
    IF OfArtifact(r, e) THEN {of}
    ELSE IF Endpoint[e].lists /\ Allowed(r.collections[of].policy, "list", p)
      THEN {id \in r.collections[of].members : ~r.artifacts[id].deleted}
    ELSE {}

\* _observed_text_artifact: its revision, and those of its blocks.
ObservedArtifact(a) ==
    [revision |-> Len(a.history),
     blocks   |-> [id \in {b.id : b \in Range(Live(a))} |->
                      (CHOOSE b \in Range(Live(a)) : b.id = id).revision]]

ObservedEndpoint(r, p, e) ==
    [operations |-> Operations(r, p, e),
     revision   |-> IF OfArtifact(r, e) THEN None ELSE r.collections[Endpoint[e].of].revision,
     artifacts  |-> [id \in Listed(r, p, e) |-> ObservedArtifact(r.artifacts[id])]]

ObservedEndpoints(w, r, p) ==
    LET near == {e \in DOMAIN Endpoint : /\ Endpoint[e].on \in Registered(w)
                                        /\ Reaches(w, p, e) /\ Operations(r, p, e) # {}}
    IN [e \in near |-> ObservedEndpoint(r, p, e)]

\* _observed_text_addresses: the addresses p knows, and how many messages wait at
\* those that are its own.
ObservedAddresses(r, p) ==
    [a \in {b \in DOMAIN Address : p \in Address[b].known} |->
        [revision   |-> r.collections[Address[a].mailbox].revision,
         controlled |-> p \in Address[a].holders,
         unread     |-> IF p \in Address[a].holders THEN r.unread[a] ELSE None]]

\* build_character_observation: the things in sight, as they are now, the
\* endpoints within reach, whatever they are on, and the addresses.
Observation(w, r, p, sees) ==
    [things    |-> [x \in DOMAIN sees.things |->
                      [state |-> PublicState(w, p, x, sees.things[x].recognised),
                       interactions |-> AvailableInteractions(w, p, x)]],
     people    |-> DOMAIN sees.people,
     endpoints |-> ObservedEndpoints(w, r, p),
     addresses |-> ObservedAddresses(r, p)]

ObservedTargets(o) == DOMAIN o.things \cup {Endpoint[e].on : e \in DOMAIN o.endpoints}

-----------------------------------------------------------------------------
(* ToolRegistry.propose: the decisions that are accepted.                     *)

AcceptsInteraction(o, s) ==
    /\ s.target \in DOMAIN o.things
    /\ s.verb \in o.things[s.target].interactions
    /\ s.destination # None => s.destination \in ObservedTargets(o)

AcceptsEndpoint(o, s) ==
    s.endpoint \in DOMAIN o.endpoints /\ s.verb \in o.endpoints[s.endpoint].operations

AcceptsArtifact(o, s) ==
    LET artifacts == o.endpoints[s.endpoint].artifacts IN
    /\ AcceptsEndpoint(o, s) /\ s.artifact \in DOMAIN artifacts
    /\ s.block # None => s.block \in DOMAIN artifacts[s.artifact].blocks

AcceptsCreate(o, s) ==
    /\ AcceptsEndpoint(o, s)
    /\ s.to # None => /\ s.to \in DOMAIN o.addresses
                      /\ \E a \in DOMAIN o.addresses : a = s.sender /\ o.addresses[a].controlled

Accepts(o, s) ==
    CASE s.verb \in Interactions      -> AcceptsInteraction(o, s)
      [] s.verb = "NAVIGATE"          -> s.target \in DOMAIN o.things
      [] s.verb \in {"READ", "DRINK"} -> s.target \in ObservedTargets(o)
      [] s.verb = "create"            -> AcceptsCreate(o, s)
      [] OTHER                        -> AcceptsArtifact(o, s)

\* The revisions that write_text must state to be accepted are those observed.
Stated(o, s) ==
    LET e == o.endpoints[s.endpoint] IN
    CASE s.verb = "create" /\ s.to = None -> [s EXCEPT !.seen = e.revision]
      [] s.verb = "create" /\ s.to # None ->
           [s EXCEPT !.seen = o.addresses[s.to].revision, !.seenSent = e.revision]
      [] s.verb \in {"append", "replace", "edit", "delete"} ->
           [s EXCEPT !.seen = e.artifacts[s.artifact].revision,
                     !.seenBlock = IF s.block = None THEN 0
                                   ELSE e.artifacts[s.artifact].blocks[s.block]]
      [] OTHER -> s

Proposed(o, choices) == {Stated(o, s) : s \in {t \in choices : Accepts(o, t)}}
=============================================================================
