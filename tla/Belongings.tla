------------------------------ MODULE Belongings ------------------------------
(***************************************************************************)
(* What the physical interactions promise: a thing is in one place at a time; *)
(* it changes its place only through somebody's hands, within what the place  *)
(* takes, and never through something that is shut; a person leaves one seat  *)
(* before taking another.                                                    *)
(***************************************************************************)
EXTENDS Integers, FiniteSets, FiniteSetsExt

CONSTANTS
    People, Things,
    Places,     \* the floor, each person's hands, and every slot
    Hands,      \* the places that are somebody's hands
    Seats,      \* the places that take a person
    Room,       \* place -> how much it takes
    Size,       \* thing -> the hands it fills
    Owner,      \* place -> the entity it is a part of, if it is of one
    Inner       \* the places that shutting their owner seals

VARIABLES
    place,      \* person or thing -> the places it is in: one
    shut        \* the things that are shut

Entities == People \cup Things

In(pl) == {e \in Entities : pl \in place[e]}

Fits(e, pl) ==
    IF pl \in Hands THEN MapThenSumSet(LAMBDA y : Size[y], In(pl) \cup {e}) <= Room[pl]
    ELSE Cardinality(In(pl) \cup {e}) <= Room[pl]

\* The places that nothing gets into or out of.
Sealed ==
    LET S[n \in 0..Cardinality(Things)] ==
            IF n = 0 THEN {pl \in Inner : Owner[pl] \in shut}
            ELSE LET known == S[n - 1]
                 IN known \cup {pl \in Places : \E in \in known : Owner[pl] \in In(in)}
    IN S[Cardinality(Things)]

Init == \A e \in Entities : \E pl \in Places : place[e] = {pl}

Moves(e, from, to) ==
    /\ place[e] = {from} /\ from # to
    /\ place' = [place EXCEPT ![e] = {to}]
    /\ Fits(e, to)
    /\ {from, to} \cap Sealed = {}
    /\ UNCHANGED shut

Handle(x) ==
    /\ place'[x] # place[x]
    /\ \E from \in place[x], to \in place'[x] :
           {from, to} \cap Hands # {} /\ Moves(x, from, to)

Sit(p) ==
    /\ place'[p] # place[p]
    /\ \E from \in place[p], to \in place'[p] :
           Cardinality({from, to} \cap Seats) = 1 /\ Moves(p, from, to)

Turn ==
    /\ shut' # shut
    /\ \E x \in Things :
           /\ shut' \in {shut \cup {x}, shut \ {x}}
           /\ place[x] \cap Sealed = {}
    /\ UNCHANGED place

Next == (\E x \in Things : Handle(x)) \/ (\E p \in People : Sit(p)) \/ Turn

Spec == Init /\ [][Next]_<<place, shut>>
=============================================================================
