----------------------------- MODULE TextContent -----------------------------
(***************************************************************************)
(* Written things and the collections they are in: the TextContentRegistry   *)
(* of domain/content/__init__.py and the way domain/systems/text_actions.py  *)
(* commits a character's writing to it.                                      *)
(*                                                                         *)
(* The registry is a record r:                                              *)
(*   artifacts    id -> its mode, who may do what, and its history           *)
(*   collections  id -> kind, revision, members, capacity, who may do what   *)
(*   unread       address -> messages counted for it                         *)
(* An artifact's policy gives the people that hold each right, groups and    *)
(* addresses resolved (they never change in a run).  A revision is its        *)
(* blocks, and who wrote it from which revision.                             *)
(***************************************************************************)
EXTENDS Integers, Sequences, FiniteSets, SequencesExt

CONSTANTS
    None,
    Address,    \* address -> [holders, accepts, mailbox]
    Endpoint    \* endpoint -> [on, access, allows, of, created]

Latest(a) == a.history[Len(a.history)]

Blocks(a) == Latest(a).blocks

Live(a) == SelectSeq(Blocks(a), LAMBDA b : ~b.gone)

Allowed(policy, right, p) == right \in DOMAIN policy /\ p \in policy[right]

\* Mutant: the revision that was read is not compared.
MayReviseBlindly(r, p, s) ==
    /\ s.artifact \in DOMAIN r.artifacts
    /\ LET a == r.artifacts[s.artifact] IN
       /\ ~a.deleted
       /\ Allowed(a.policy, s.verb, p)
       /\ a.mode = "mutable" \/ (a.mode = "append_only" /\ s.verb = "append")

\* _mutable_artifact: only the revision that the writer read is written over.
MayRevise(r, p, s) ==
    /\ s.artifact \in DOMAIN r.artifacts
    /\ LET a == r.artifacts[s.artifact] IN
       /\ Len(a.history) = s.seen
       /\ ~a.deleted
       /\ Allowed(a.policy, s.verb, p)
       /\ \/ a.mode = "mutable"
          \/ a.mode = "append_only" /\ s.verb = "append"

Revise(r, p, s, blocks, deleted) ==
    [r EXCEPT !.artifacts[s.artifact].history =
                  Append(@, [blocks |-> blocks, by |-> p, from |-> s.seen]),
              !.artifacts[s.artifact].deleted = deleted]

NewBlock(id) == [id |-> id, revision |-> 1, gone |-> FALSE]

Position(a, block) == {i \in DOMAIN Blocks(a) : Blocks(a)[i].id = block}

MayChangeBlock(r, p, s) ==
    /\ MayRevise(r, p, s)
    /\ \E i \in Position(r.artifacts[s.artifact], s.block) :
           LET b == Blocks(r.artifacts[s.artifact])[i]
           IN ~b.gone /\ b.revision = s.seenBlock

Changed(b, gone) == [b EXCEPT !.revision = @ + 1, !.gone = gone]

ChangedBlocks(a, s) ==
    [i \in DOMAIN Blocks(a) |->
        IF Blocks(a)[i].id = s.block THEN Changed(Blocks(a)[i], s.verb = "delete")
        ELSE Blocks(a)[i]]

AllGone(a) ==
    [i \in DOMAIN Blocks(a) |->
        IF Blocks(a)[i].gone THEN Blocks(a)[i] ELSE Changed(Blocks(a)[i], TRUE)]

-----------------------------------------------------------------------------
(* Collections: a new page of a notebook, a message in two mailboxes.        *)

Full(c) == Cardinality(c.members) >= c.capacity

Joined(c, id) == [c EXCEPT !.members = @ \cup {id}, !.revision = @ + 1]

Written(p, id, mode, policy) ==
    [mode |-> mode, policy |-> policy, deleted |-> FALSE,
     history |-> <<[blocks |-> <<NewBlock(id)>>, by |-> p, from |-> 0]>>]

With(artifacts, id, a) ==
    [x \in DOMAIN artifacts \cup {id} |-> IF x = id THEN a ELSE artifacts[x]]

MayCreate(r, p, s, c) ==
    /\ c \in DOMAIN r.collections
    /\ r.collections[c].revision = s.seen
    /\ Allowed(r.collections[c].policy, "create", p)
    /\ ~Full(r.collections[c])

Create(r, p, s, c, id) ==
    LET made == Endpoint[s.endpoint].created IN
    [r EXCEPT !.artifacts = With(@, id, Written(p, id, made.mode, made.policy)),
              !.collections[c] = Joined(@, id)]

MaySend(r, p, s, sent) ==
    LET box == Address[s.to].mailbox IN
    /\ {s.to, s.sender} \subseteq DOMAIN Address
    /\ p \in Address[s.sender].holders
    /\ p \in Address[s.to].accepts
    /\ {sent, box} \subseteq DOMAIN r.collections /\ sent # box
    /\ r.collections[box].kind = "mailbox" /\ r.collections[sent].kind = "sent"
    /\ r.collections[box].revision = s.seen
    /\ r.collections[sent].revision = s.seenSent
    /\ Allowed(r.collections[sent].policy, "send", p)
    /\ r.collections[box].receives
    /\ ~Full(r.collections[box]) /\ ~Full(r.collections[sent])

MessagePolicy(p, to) == [read |-> {p} \cup Address[to].holders]

Send(r, p, s, sent, id) ==
    LET box == Address[s.to].mailbox IN
    [r EXCEPT !.artifacts = With(@, id, Written(p, id, "immutable", MessagePolicy(p, s.to))),
              !.collections = [c \in DOMAIN @ |-> IF c \in {box, sent} THEN Joined(@[c], id)
                                                  ELSE @[c]],
              !.unread[s.to] = @ + 1]

-----------------------------------------------------------------------------
(* _apply_write: what a write does to the registry, and when it is refused.   *)

MayWrite(r, p, s) ==
    LET of == Endpoint[s.endpoint].of IN
    CASE s.verb = "create" /\ s.to # None -> MaySend(r, p, s, of)
      [] s.verb = "create" /\ s.to = None -> MayCreate(r, p, s, of)
      [] s.verb = "append"                -> MayRevise(r, p, s)
      [] s.verb \in {"replace", "edit"}   -> MayChangeBlock(r, p, s)
      [] s.verb = "delete" -> IF s.block = None THEN MayRevise(r, p, s)
                              ELSE MayChangeBlock(r, p, s)

Write(r, p, s, id) ==
    LET of == Endpoint[s.endpoint].of
        a  == r.artifacts[s.artifact]
    IN CASE s.verb = "create" /\ s.to # None -> Send(r, p, s, of, id)
         [] s.verb = "create" /\ s.to = None -> Create(r, p, s, of, id)
         [] s.verb = "append" -> Revise(r, p, s, Append(Blocks(a), NewBlock(id)), FALSE)
         [] s.verb \in {"replace", "edit"} -> Revise(r, p, s, ChangedBlocks(a, s), FALSE)
         [] s.verb = "delete" ->
                IF s.block = None THEN Revise(r, p, s, AllGone(a), TRUE)
                ELSE Revise(r, p, s, ChangedBlocks(a, s), FALSE)

-----------------------------------------------------------------------------
(* Reading: the receipt is made from the current revision when the reading    *)
(* starts, and given to the reader when it ends.                              *)

MayRead(r, p, s) ==
    LET a == r.artifacts[s.artifact] IN
    /\ ~a.deleted /\ Allowed(a.policy, "read", p)
    /\ s.block # None => s.block \in {b.id : b \in Range(Live(a))}

Receipt(r, p, s) ==
    LET a == r.artifacts[s.artifact]
    IN [artifact |-> s.artifact, revision |-> Len(a.history),
        blocks |-> SelectSeq(Live(a), LAMBDA b : s.block \in {None, b.id})]

\* What the endpoint of a text action gives access to.
Offered(r, s) ==
    LET e == Endpoint[s.endpoint] IN
    /\ s.verb \in e.allows
    /\ IF e.of \in DOMAIN r.artifacts THEN s.artifact = e.of
       ELSE s.verb # "create" /\ s.artifact # None
                => s.artifact \in r.collections[e.of].members
=============================================================================
