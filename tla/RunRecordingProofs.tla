-------------------------- MODULE RunRecordingProofs --------------------------
(***************************************************************************)
(* What holds of the dataset of a run, for any characters, whatever events  *)
(* they emit and whatever traces threads leave, in any order.               *)
(***************************************************************************)
EXTENDS RunRecording, TLAPS, FiniteSetTheorems, SequenceTheorems

\* Every set of numbers has a least one, which the facts about folds rest on.
LEMMA LeastOf ==
    ASSUME NEW S \in SUBSET Nat, S # {}
    PROVE  \E m \in S : \A n \in S : m <= n
<1> DEFINE Less == OpToRel(<, Nat)
<1>0. IsWellFoundedOn(Less, Nat)
  BY NatLessThanWellFounded
<1> HIDE DEF Less
<1>1. PICK m \in S : \A n \in S : ~(<<n, m>> \in Less)
  BY <1>0, WFMin
<1>2. \A n \in S : ~(n < m)
  BY <1>1 DEF Less, OpToRel
<1> QED BY <1>2

\* The subsets of a finite set have sizes.
LEMMA Sized ==
    ASSUME NEW S, IsFiniteSet(S)
    PROVE  \E n \in Nat : \E size \in [SUBSET S -> 0..n] :
               \A s \in SUBSET S : \A x \in s : size[s \ {x}] < size[s]
<1> DEFINE n == Cardinality(S)
           size == [s \in SUBSET S |-> Cardinality(s)]
<1>1. \A s \in SUBSET S : IsFiniteSet(s) /\ Cardinality(s) \in Nat /\ Cardinality(s) <= n
  BY FS_Subset, FS_CardinalityType
<1>2. ASSUME NEW s \in SUBSET S, NEW x \in s PROVE size[s \ {x}] < size[s]
  <2>1. IsFiniteSet(s) /\ s \ {x} \in SUBSET S /\ Cardinality(s) \in Nat
    BY <1>1
  <2>2. Cardinality(s \ {x}) = Cardinality(s) - 1
    BY <2>1, FS_RemoveElement
  <2> QED BY <2>1, <2>2
<1>3. n \in Nat
  BY FS_CardinalityType
<1>4. size \in [SUBSET S -> 0..n]
  BY <1>1, <1>3
<1> HIDE DEF n, size
<1> QED BY <1>2, <1>3, <1>4

-----------------------------------------------------------------------------
(* Sequences.                                                              *)

IsSeq(s) == s \in Seq(Range(s))

LEMMA Listed ==
    ASSUME NEW n \in Nat, NEW s, s = [i \in 1..n |-> s[i]]
    PROVE  IsSeq(s) /\ Len(s) = n /\ DOMAIN s = 1..n
<1>1. s \in [1..n -> Range(s)]
  BY DEF Range
<1>2. s \in Seq(Range(s))
  BY <1>1
<1> QED BY <1>1, <1>2 DEF IsSeq

LEMMA SeqParts ==
    ASSUME NEW s, IsSeq(s)
    PROVE  Len(s) \in Nat /\ DOMAIN s = 1..Len(s) /\ s = [i \in 1..Len(s) |-> s[i]]
BY DEF IsSeq

LEMMA NothingListed == IsSeq(<<>>)
BY DEF IsSeq

LEMMA Wider ==
    ASSUME NEW T, NEW s \in Seq(T)
    PROVE  IsSeq(s)
<1>1. Len(s) \in Nat /\ s = [i \in 1..Len(s) |-> s[i]]
  OBVIOUS
<1> QED BY <1>1, Listed

LEMMA Appended ==
    ASSUME NEW s, IsSeq(s), NEW e
    PROVE  /\ IsSeq(Append(s, e)) /\ Append(s, e) # <<>>
           /\ Append(s, e)[Len(Append(s, e))] = e
<1> DEFINE S == Range(s) \cup {e}
<1>1. s \in Seq(S) /\ e \in S
  BY DEF IsSeq
<1> HIDE DEF S
<1>2. Append(s, e) \in Seq(S) /\ Append(s, e) # <<>> /\ Append(s, e)[Len(Append(s, e))] = e
  BY <1>1
<1> QED BY <1>2, Wider

LEMMA Chained ==
    ASSUME NEW s, IsSeq(s), NEW t, IsSeq(t)
    PROVE  IsSeq(s \o t)
<1> DEFINE S == Range(s) \cup Range(t)
<1>1. s \in Seq(S) /\ t \in Seq(S)
  BY DEF IsSeq
<1> HIDE DEF S
<1>2. s \o t \in Seq(S)
  BY <1>1
<1> QED BY <1>2, Wider

LEMMA One ==
    ASSUME NEW a
    PROVE  IsSeq(<<a>>)
<1>1. <<a>> \in Seq({a})
  OBVIOUS
<1> QED BY <1>1, Wider

LEMMA Two ==
    ASSUME NEW a, NEW b
    PROVE  IsSeq(<<a, b>>)
<1>1. <<a, b>> \in Seq({a, b})
  OBVIOUS
<1> QED BY <1>1, Wider

LEMMA Three ==
    ASSUME NEW a, NEW b, NEW d
    PROVE  IsSeq(<<a, b, d>>)
<1>1. <<a, b, d>> \in Seq({a, b, d})
  OBVIOUS
<1> QED BY <1>1, Wider

-----------------------------------------------------------------------------
(* A rebuild, step by step.                                                *)

Fields == {"number", "log", "db", "episodes", "keys", "joined", "intervals", "engagements",
           "decisions", "actions"}

\* The tables a rebuild leaves alone; those it can derive; and whether a statement has raised.
LeftAlone == {"decisions", "options", "model_requests", "turns", "tools", "action_instances",
              "transitions"}
Copied == {"events", "interaction_episodes", "engagements", "engagement_groups", "invocations",
           "decision_episodes", "action_episodes"}
Tables == LeftAlone \cup Copied \cup {"interactions", "participants", "raised"}

IsRow(f, D) == f = [t \in D |-> f[t]]

RebuildStep(x, db, r) == Rebuild(db, r)
NoClaim(x, i, db) == TRUE

Rebuilding == INSTANCE FoldFacts WITH Op <- RebuildStep, P <- NoClaim

\* What a rebuild makes of a log, when the tables were db before.
From(db, log) == Rebuilding!Folded(0, Cleared(db), log)

LEMMA RebuiltIsFrom == Rebuilt = From(c.db, c.log)
BY DEF Rebuilt, From, RebuildStep, FoldLeft, MapThenFoldSet, Max, Rebuilding!Folded,
       Rebuilding!MapThenFoldSet, Rebuilding!Greatest

LEMMA FromMore ==
    ASSUME NEW db, NEW log, IsSeq(log), NEW r
    PROVE  From(db, Append(log, r)) = Rebuild(From(db, log), r)
<1> DEFINE T == Range(log) \cup {r}
<1>1. log \in Seq(T) /\ r \in T
  BY DEF IsSeq
<1> HIDE DEF T
<1> QED BY <1>1, Rebuilding!GoesOn, LeastOf DEF From, RebuildStep

LEMMA FromNothing ==
    ASSUME NEW db
    PROVE  From(db, <<>>) = Cleared(db)
<1>1. DOMAIN <<>> = 1..0
  OBVIOUS
<1>2. PICK run : Rebuilding!IsRun(run, 0, Cleared(db), 0, <<>>)
  BY <1>1, Rebuilding!Runs, LeastOf
<1> QED BY <1>2 DEF From, Rebuilding!IsRun

-----------------------------------------------------------------------------
(* The invariant of a collector.                                           *)

\* The tables y that a rebuild makes are those of the collector, but for what is
\* known only when an interaction closes: its row, and who joined it.
Matches(y, x) ==
    /\ IsRow(y, Tables) /\ y.raised = FALSE
    /\ \A t \in Copied : y[t] = x.db[t]
    /\ DOMAIN y.interactions = DOMAIN x.db.interactions
    /\ IsRow(y.interactions, DOMAIN y.interactions)
    /\ \A id \in DOMAIN y.interactions \ DOMAIN x.episodes :
          y.interactions[id] = x.db.interactions[id]
    /\ y.participants \subseteq x.db.participants
    /\ \A q \in x.db.participants \ y.participants :
          \E id \in DOMAIN x.episodes : \E person \in x.episodes[id].people : q = <<id, person>>

SameRest(y, db) == \A t \in LeftAlone : y[t] = db[t]

Rebuildable(x) ==
    \A db : IsRow(db, Tables) /\ db.raised = FALSE =>
        Matches(From(db, x.log), x) /\ SameRest(From(db, x.log), db)

Shape(x) ==
    /\ IsRow(x, Fields) /\ x.number \in Nat /\ IsSeq(x.log)
    /\ IsRow(x.db, Tables) /\ x.db.raised = FALSE
    /\ IsRow(x.db.interactions, DOMAIN x.db.interactions)
    /\ IsFiniteSet(Range(x.keys)) /\ IsFiniteSet(DOMAIN x.engagements)

\* An open interaction has a row, and what it gathered is in the tables.
EpisodeSound(id, episode, db) ==
    /\ DOMAIN episode = {"type", "status", "record", "people", "events"}
    /\ episode.record \in Nat \ {0} /\ id \in DOMAIN db.interactions
    /\ \A event \in episode.events : <<id, event>> \in DOMAIN db.events
    /\ \A person \in episode.people : <<id, person>> \in db.participants

OpenSound(x) ==
    /\ IsFiniteSet(DOMAIN x.episodes)
    /\ \A id \in DOMAIN x.episodes : EpisodeSound(id, x.episodes[id], x.db)

Kept(x) == Shape(x) /\ OpenSound(x) /\ Rebuildable(x)

\* A record is appended, and does to the rebuilt tables what was done to the tables.
LEMMA Logged ==
    ASSUME NEW x, Kept(x), NEW z, NEW r, z.log = Append(x.log, r),
           \A y : Matches(y, x) => Matches(Rebuild(y, r), z) /\ SameRest(Rebuild(y, r), y)
    PROVE  Rebuildable(z)
<1> SUFFICES ASSUME NEW db, IsRow(db, Tables), db.raised = FALSE
             PROVE  Matches(From(db, z.log), z) /\ SameRest(From(db, z.log), db)
  BY Zenon DEF Rebuildable
<1> DEFINE y == From(db, x.log)
<1>1. Matches(y, x) /\ SameRest(y, db) /\ IsSeq(x.log)
  BY DEF Kept, Shape, Rebuildable
<1>2. From(db, z.log) = Rebuild(y, r)
  BY <1>1, FromMore
<1> HIDE DEF y
<1>3. Matches(Rebuild(y, r), z) /\ SameRest(Rebuild(y, r), y)
  BY <1>1
<1>4. SameRest(Rebuild(y, r), db)
  BY <1>1, <1>3 DEF SameRest
<1> QED BY <1>2, <1>3, <1>4

LEMMA Unlogged ==
    ASSUME NEW x, Kept(x), NEW z, z.log = x.log, \A y : Matches(y, x) => Matches(y, z)
    PROVE  Rebuildable(z)
<1> SUFFICES ASSUME NEW db, IsRow(db, Tables), db.raised = FALSE
             PROVE  Matches(From(db, z.log), z) /\ SameRest(From(db, z.log), db)
  BY Zenon DEF Rebuildable
<1> QED BY DEF Kept, Rebuildable

\* What a collector notes besides, and what it writes to tables that are left alone.
LEMMA Aside ==
    ASSUME NEW x, Kept(x), NEW z, IsRow(z, Fields), z.number \in Nat, z.log = x.log,
           IsRow(z.db, Tables), z.db.raised = FALSE,
           \A t \in Tables \ (LeftAlone \cup {"raised"}) : z.db[t] = x.db[t],
           DOMAIN z.episodes = DOMAIN x.episodes,
           \A id \in DOMAIN x.episodes : z.episodes[id] = x.episodes[id],
           IsFiniteSet(Range(z.keys)), IsFiniteSet(DOMAIN z.engagements)
    PROVE  Kept(z)
<1>0. {"interactions", "participants", "events"} \subseteq Tables \ (LeftAlone \cup {"raised"})
      /\ Copied \subseteq Tables \ (LeftAlone \cup {"raised"})
  BY DEF Tables, LeftAlone, Copied
<1>1. /\ z.db.interactions = x.db.interactions /\ z.db.participants = x.db.participants
      /\ z.db.events = x.db.events /\ \A t \in Copied : z.db[t] = x.db[t]
  BY <1>0
<1>2. Shape(z)
  BY <1>1 DEF Kept, Shape
<1>3. OpenSound(z)
  BY <1>1 DEF Kept, OpenSound, EpisodeSound
<1>4. \A y : Matches(y, x) => Matches(y, z)
  BY <1>1 DEF Matches
<1>5. Rebuildable(z)
  BY <1>4, Unlogged
<1> QED BY <1>2, <1>3, <1>5 DEF Kept

-----------------------------------------------------------------------------
(* The operations on tables and dictionaries.                              *)

LEMMA PutFinite ==
    ASSUME NEW f, NEW key, NEW row, NEW g, g = Put(f, key, row)
    PROVE  /\ IsFiniteSet(DOMAIN f) => IsFiniteSet(DOMAIN g)
           /\ IsFiniteSet(Range(f)) => IsFiniteSet(Range(g))
<1>1. DOMAIN g = DOMAIN f \cup {key} /\ Range(g) \subseteq Range(f) \cup {row}
  BY DEF Put, Range
<1>2. \A S : IsFiniteSet(S) => IsFiniteSet(S \cup {key}) /\ IsFiniteSet(S \cup {row})
  BY FS_AddElement
<1> QED BY <1>1, <1>2, FS_Subset

LEMMA DropIs ==
    ASSUME NEW f, NEW keys, NEW g, g = Drop(f, keys)
    PROVE  /\ DOMAIN g = DOMAIN f \ keys
           /\ \A j \in DOMAIN f \ keys : g[j] = f[j]
           /\ Range(g) \subseteq Range(f)
BY DEF Drop, Range

\* The row of an interaction is written, and people take part: nothing else is touched.
Written(new, db, id, row, people) ==
    /\ IsRow(new, Tables) /\ new.raised = FALSE
    /\ new.interactions = Put(db.interactions, id, row)
    /\ new.participants = db.participants \cup {<<id, person>> : person \in people}
    /\ \A t \in Tables : t \notin {"interactions", "participants"} => new[t] = db[t]

LEMMA AppendInteractionIs ==
    ASSUME NEW db, IsRow(db, Tables), db.raised = FALSE, NEW id, NEW record, record # 0,
           NEW status, NEW over, NEW people,
           NEW row, row = [record |-> record, status |-> status, ended |-> over],
           NEW new, new = AppendInteraction(db, id, record, status, over),
           NEW both, both = AppendParticipants(new, id, people)
    PROVE  Written(new, db, id, row, {}) /\ Written(both, db, id, row, people)
<1>1. DOMAIN db = Tables /\ {"interactions", "participants", "raised"} \subseteq Tables
  BY DEF IsRow, Tables
<1>2. /\ DOMAIN new = Tables /\ new.raised = FALSE
      /\ new.interactions = Put(db.interactions, id, row)
      /\ \A t \in Tables : t \notin {"interactions", "raised"} => new[t] = db[t]
      /\ IsRow(new, DOMAIN new)
  BY <1>1 DEF AppendInteraction, IsRow
<1>3. id \in DOMAIN new.interactions
  <2>1. DOMAIN new.interactions = DOMAIN db.interactions \cup {id}
    BY <1>2 DEF Put
  <2> QED BY <2>1
<1>4. /\ DOMAIN both = Tables /\ both.raised = FALSE
      /\ both.participants = new.participants \cup {<<id, person>> : person \in people}
      /\ \A t \in Tables : t \notin {"participants", "raised"} => both[t] = new[t]
      /\ IsRow(both, DOMAIN both)
  BY <1>1, <1>2, <1>3 DEF AppendParticipants, IsRow
<1>5. new.participants = db.participants /\ both.interactions = new.interactions
  BY <1>1, <1>2, <1>4
<1>6. \A t \in Tables : t # "interactions" => new[t] = db[t]
  BY <1>2
<1>7. \A t \in Tables : t \notin {"interactions", "participants"} => both[t] = db[t]
  BY <1>2, <1>4
<1>8. new.participants = db.participants \cup {<<id, person>> : person \in {}}
  BY <1>5
<1> QED BY <1>2, <1>4, <1>5, <1>6, <1>7, <1>8 DEF Written

\* People take part: nothing else is touched.
Attended(new, db, id, people) ==
    /\ IsRow(new, Tables) /\ new.raised = FALSE
    /\ new.participants = db.participants \cup {<<id, person>> : person \in people}
    /\ \A t \in Tables : t # "participants" => new[t] = db[t]

LEMMA AppendParticipantsIs ==
    ASSUME NEW db, IsRow(db, Tables), db.raised = FALSE, NEW id, id \in DOMAIN db.interactions,
           NEW people
    PROVE  Attended(AppendParticipants(db, id, people), db, id, people)
<1>1. DOMAIN db = Tables /\ {"participants", "raised"} \subseteq Tables
  BY DEF IsRow, Tables
<1> QED BY <1>1 DEF AppendParticipants, IsRow, Attended

\* An event of an interaction is written: nothing else is touched.
Evented(new, db, id, event, record) ==
    /\ IsRow(new, Tables) /\ new.raised = FALSE
    /\ new.events = Put(db.events, <<id, event>>, record)
    /\ \A t \in Tables : t # "events" => new[t] = db[t]

LEMMA AppendInteractionEventIs ==
    ASSUME NEW db, IsRow(db, Tables), db.raised = FALSE, NEW id, id \in DOMAIN db.interactions,
           NEW event, NEW record
    PROVE  Evented(AppendInteractionEvent(db, id, event, record), db, id, event, record)
<1>1. DOMAIN db = Tables /\ {"events", "raised"} \subseteq Tables
  BY DEF IsRow, Tables, Copied
<1> QED BY <1>1 DEF AppendInteractionEvent, IsRow, Evented

LEMMA AppendInteractionEpisodeIs ==
    ASSUME NEW db, IsRow(db, Tables), NEW id, NEW record, NEW status,
           NEW new, new = AppendInteractionEpisode(db, id, record, status)
    PROVE  /\ IsRow(new, Tables)
           /\ new.interaction_episodes =
                  Put(db.interaction_episodes, id, [record |-> record, status |-> status])
           /\ \A t \in Tables : t # "interaction_episodes" => new[t] = db[t]
<1>1. DOMAIN db = Tables /\ "interaction_episodes" \in Tables
  BY DEF IsRow, Tables, Copied
<1> QED BY <1>1 DEF AppendInteractionEpisode, IsRow

-----------------------------------------------------------------------------
(* Opening, extending and closing an interaction.                          *)

LEMMA StartKeeps ==
    ASSUME NEW x, Kept(x), NEW id, NEW type, NEW key, NEW people, NEW status
    PROVE  Kept(StartInteraction(x, id, type, key, people, status))
<1> DEFINE z == StartInteraction(x, id, type, key, people, status)
           n == x.number + 1
           body == [kind |-> "interaction_started", id |-> id, status |-> status,
                    people |-> people]
           r == Else(body, [number |-> n])
           episode == [type |-> type, status |-> status, record |-> n, people |-> people,
                       events |-> {}]
           row == [record |-> n, status |-> status, ended |-> FALSE]
           With(db) == AppendParticipants(AppendInteraction(db, id, n, status, FALSE),
                                          id, people)
<1>1. CASE id \in DOMAIN x.episodes
  BY <1>1 DEF StartInteraction
<1>2. CASE id \notin DOMAIN x.episodes
  <2>1. /\ IsRow(x, Fields) /\ x.number \in Nat /\ IsSeq(x.log) /\ n \in Nat \ {0}
        /\ IsRow(x.db, Tables) /\ x.db.raised = FALSE
        /\ IsFiniteSet(Range(x.keys)) /\ IsFiniteSet(DOMAIN x.engagements)
    BY DEF Kept, Shape
  <2>2. /\ IsRow(z, Fields) /\ z.number = n /\ z.log = Append(x.log, r)
        /\ z.db = With(x.db) /\ z.episodes = Put(x.episodes, id, episode)
        /\ z.keys = Put(x.keys, key, id) /\ z.engagements = x.engagements
    <3>1. DOMAIN x = Fields
      BY <2>1 DEF IsRow
    <3> QED BY <1>2, <3>1, Zenon DEF StartInteraction, Record, Fields, IsRow
  <2>3. r.kind = "interaction_started" /\ r.id = id /\ r.status = status /\ r.people = people
        /\ r.number = n
    BY DEF Else
  <2>4. \A db : IsRow(db, Tables) /\ db.raised = FALSE => Written(With(db), db, id, row, people)
    <3> HIDE DEF n
    <3> QED BY <2>1, AppendInteractionIs
  <2>5. \A y : IsRow(y, Tables) => Rebuild(y, r) = With(y)
    <3> HIDE DEF r, n
    <3> QED BY <2>3 DEF Rebuild, RebuildInteraction
  <2>6. /\ episode.record = n /\ episode.people = people /\ episode.events = {}
        /\ DOMAIN episode = {"type", "status", "record", "people", "events"}
    OBVIOUS
  <2> HIDE DEF z, r, row, episode, With, n
  <2>7. Written(z.db, x.db, id, row, people)
    BY <2>1, <2>2, <2>4
  <2>8. /\ DOMAIN z.episodes = DOMAIN x.episodes \cup {id} /\ z.episodes[id] = episode
        /\ \A j \in DOMAIN x.episodes : z.episodes[j] = x.episodes[j]
    BY <1>2, <2>2 DEF Put
  <2>9. /\ DOMAIN z.db.interactions = DOMAIN x.db.interactions \cup {id}
        /\ \A j \in DOMAIN x.db.interactions : j # id => z.db.interactions[j] = x.db.interactions[j]
        /\ z.db.interactions[id] = row /\ IsRow(z.db.interactions, DOMAIN z.db.interactions)
    BY <2>7 DEF Put, IsRow, Written
  <2>10. z.db.events = x.db.events /\ \A t \in Copied : z.db[t] = x.db[t]
    BY <2>7 DEF Tables, Copied, Written
  <2>11. Shape(z)
    <3>1. IsFiniteSet(Range(z.keys))
      BY <2>1, <2>2, PutFinite
    <3>2. IsSeq(z.log)
      BY <2>1, <2>2, Appended
    <3> QED BY <2>1, <2>2, <2>7, <2>9, <3>1, <3>2 DEF Shape, Written
  <2>12. OpenSound(z)
    <3>1. IsFiniteSet(DOMAIN z.episodes)
      BY <2>2, PutFinite DEF Kept, OpenSound
    <3>2. EpisodeSound(id, episode, z.db)
      BY <2>1, <2>6, <2>7, <2>9 DEF EpisodeSound, Written
    <3>3. ASSUME NEW j \in DOMAIN x.episodes
          PROVE  EpisodeSound(j, x.episodes[j], z.db)
      BY <2>7, <2>9, <2>10 DEF Kept, OpenSound, EpisodeSound, Written
    <3> QED BY <2>8, <3>1, <3>2, <3>3 DEF OpenSound
  <2>13. ASSUME NEW y, Matches(y, x)
         PROVE  Matches(Rebuild(y, r), z) /\ SameRest(Rebuild(y, r), y)
    <3> DEFINE u == Rebuild(y, r)
    <3>1. Written(u, y, id, row, people)
      BY <2>4, <2>5, <2>13 DEF Matches
    <3> HIDE DEF u
    <3>2. /\ DOMAIN u.interactions = DOMAIN y.interactions \cup {id}
          /\ \A j \in DOMAIN y.interactions : j # id => u.interactions[j] = y.interactions[j]
          /\ u.interactions[id] = row /\ IsRow(u.interactions, DOMAIN u.interactions)
      BY <3>1 DEF Put, IsRow, Written
    <3>3. (\A t \in Copied : u[t] = y[t]) /\ SameRest(u, y)
      BY <3>1 DEF Tables, Copied, LeftAlone, SameRest, Written
    <3>4. \A t \in Copied : u[t] = z.db[t]
      BY <2>10, <2>13, <3>3 DEF Matches
    <3>5. DOMAIN u.interactions = DOMAIN z.db.interactions
      BY <2>9, <2>13, <3>2 DEF Matches
    <3>6. \A j \in DOMAIN u.interactions \ DOMAIN z.episodes :
              u.interactions[j] = z.db.interactions[j]
      BY <2>8, <2>9, <2>13, <3>2 DEF Matches
    <3>7. u.participants \subseteq z.db.participants
      BY <2>7, <2>13, <3>1 DEF Matches, Written
    <3>8. ASSUME NEW q \in z.db.participants \ u.participants
          PROVE  \E j \in DOMAIN z.episodes : \E person \in z.episodes[j].people : q = <<j, person>>
      <4>1. q \in x.db.participants \ y.participants
        BY <2>7, <3>1 DEF Written
      <4> QED BY <2>8, <2>13, <4>1 DEF Matches
    <3> QED BY <3>1, <3>2, <3>3, <3>4, <3>5, <3>6, <3>7, <3>8 DEF Matches, Written, u
  <2>14. Rebuildable(z)
    BY <2>2, <2>13, Logged
  <2> QED BY <2>11, <2>12, <2>14 DEF Kept, z
<1> QED BY <1>1, <1>2

LEMMA ConstituentKeeps ==
    ASSUME NEW x, Kept(x), NEW id, NEW event, NEW type
    PROVE  Kept(AppendConstituent(x, id, event, type))
<1> DEFINE z == AppendConstituent(x, id, event, type)
           n == x.number + 1
           body == [kind |-> "interaction_event", id |-> id, event |-> event, type |-> type]
           r == Else(body, [number |-> n])
           old == x.episodes[id]
           episode == [old EXCEPT !.events = @ \cup {event}]
           With(db) == AppendInteractionEvent(db, id, event, n)
<1>1. CASE id \notin DOMAIN x.episodes \/ event \in x.episodes[id].events
  BY <1>1 DEF AppendConstituent
<1>2. CASE id \in DOMAIN x.episodes /\ event \notin x.episodes[id].events
  <2>1. /\ IsRow(x, Fields) /\ x.number \in Nat /\ IsSeq(x.log) /\ n \in Nat \ {0}
        /\ IsRow(x.db, Tables) /\ x.db.raised = FALSE
        /\ IsFiniteSet(Range(x.keys)) /\ IsFiniteSet(DOMAIN x.engagements)
    BY DEF Kept, Shape
  <2>2. /\ IsRow(z, Fields) /\ z.number = n /\ z.log = Append(x.log, r)
        /\ z.db = With(x.db) /\ z.episodes = [x.episodes EXCEPT ![id].events = @ \cup {event}]
        /\ z.keys = x.keys /\ z.engagements = x.engagements
    <3>1. DOMAIN x = Fields
      BY <2>1 DEF IsRow
    <3> QED BY <1>2, <3>1, Zenon DEF AppendConstituent, Record, Fields, IsRow
  <2>3. r.kind = "interaction_event" /\ r.id = id /\ r.event = event /\ r.type = type
        /\ r.number = n
    BY DEF Else
  <2>4. /\ EpisodeSound(id, old, x.db) /\ id \in DOMAIN x.db.interactions
    BY <1>2 DEF Kept, OpenSound, EpisodeSound
  <2>5. /\ DOMAIN z.episodes = DOMAIN x.episodes /\ z.episodes[id] = episode
        /\ \A j \in DOMAIN x.episodes : j # id => z.episodes[j] = x.episodes[j]
    BY <1>2, <2>2
  <2>6. /\ episode.record = old.record /\ episode.people = old.people
        /\ episode.events = old.events \cup {event} /\ DOMAIN episode = DOMAIN old
    BY <2>4 DEF EpisodeSound
  <2>7. /\ IsRow(z.db, Tables) /\ z.db.raised = FALSE
        /\ z.db.events = Put(x.db.events, <<id, event>>, n)
        /\ \A t \in Tables : t # "events" => z.db[t] = x.db[t]
    <3>1. Evented(With(x.db), x.db, id, event, n)
      BY <2>1, <2>4, AppendInteractionEventIs
    <3> QED BY <2>2, <3>1 DEF Evented
  <2> HIDE DEF z, r, body, episode, old, n
  <2>8. /\ z.db.interactions = x.db.interactions /\ z.db.participants = x.db.participants
        /\ \A t \in Copied : t # "events" => z.db[t] = x.db[t]
        /\ DOMAIN z.db.events = DOMAIN x.db.events \cup {<<id, event>>}
    BY <2>7 DEF Tables, Copied, Put
  <2>9. Shape(z)
    <3>1. IsSeq(z.log)
      BY <2>1, <2>2, Appended
    <3> QED BY <2>1, <2>2, <2>7, <2>8, <3>1 DEF Shape, Kept
  <2>10. OpenSound(z)
    <3>1. IsFiniteSet(DOMAIN z.episodes)
      BY <2>5 DEF Kept, OpenSound
    <3>2. EpisodeSound(id, episode, z.db)
      BY <2>4, <2>6, <2>8 DEF EpisodeSound
    <3>3. ASSUME NEW j \in DOMAIN x.episodes
          PROVE  EpisodeSound(j, x.episodes[j], z.db)
      BY <2>8 DEF Kept, OpenSound, EpisodeSound
    <3> QED BY <2>5, <3>1, <3>2, <3>3 DEF OpenSound
  <2>11. ASSUME NEW y, Matches(y, x)
         PROVE  Matches(Rebuild(y, r), z) /\ SameRest(Rebuild(y, r), y)
    <3> DEFINE u == Rebuild(y, r)
               w == With(y)
    <3>1. /\ IsRow(y, Tables) /\ y.raised = FALSE /\ id \in DOMAIN y.interactions
          /\ y.events = x.db.events
      BY <2>4, <2>11 DEF Matches, Copied
    <3>2. /\ IsRow(w, Tables) /\ w.raised = FALSE
          /\ w.events = Put(y.events, <<id, event>>, n)
          /\ \A t \in Tables : t # "events" => w[t] = y[t]
      <4>1. Evented(w, y, id, event, n)
        BY <3>1, AppendInteractionEventIs
      <4> HIDE DEF w
      <4> QED BY <4>1 DEF Evented
    <3>3. \/ u = w
          \/ u = [w EXCEPT !.interactions[id].status = PhysicalStatus[type]]
      BY <2>3 DEF Rebuild, RebuildInteraction
    <3> HIDE DEF u, w
    <3>4. /\ IsRow(u, Tables) /\ u.raised = FALSE
          /\ \A t \in Tables : t # "interactions" => u[t] = w[t]
          /\ DOMAIN u.interactions = DOMAIN w.interactions
          /\ \A j \in DOMAIN w.interactions : j # id => u.interactions[j] = w.interactions[j]
          /\ IsRow(u.interactions, DOMAIN u.interactions)
      <4>1. w.interactions = y.interactions /\ IsRow(w.interactions, DOMAIN w.interactions)
        BY <2>11, <3>2 DEF Tables, Matches
      <4>2. CASE u = w
        BY <3>2, <4>1, <4>2
      <4>3. CASE u = [w EXCEPT !.interactions[id].status = PhysicalStatus[type]]
        <5> DEFINE st == PhysicalStatus[type]
        <5> HIDE DEF st
        <5>1. u = [w EXCEPT !.interactions[id].status = st]
          BY <4>3 DEF st
        <5>2. DOMAIN w = Tables /\ {"interactions", "raised"} \subseteq Tables
          BY <3>2 DEF IsRow, Tables
        <5> QED BY <3>2, <4>1, <5>1, <5>2 DEF IsRow
      <4> QED BY <3>3, <4>2, <4>3
    <3>5. (\A t \in Copied : t # "events" => u[t] = y[t]) /\ SameRest(u, y)
          /\ u.events = z.db.events /\ u.participants = y.participants
      BY <2>7, <3>1, <3>2, <3>4 DEF Tables, Copied, LeftAlone, SameRest
    <3>6. \A t \in Copied : u[t] = z.db[t]
      BY <2>8, <2>11, <3>5 DEF Matches
    <3>7. w.interactions = y.interactions
      BY <3>2 DEF Tables
    <3>8. DOMAIN u.interactions = DOMAIN z.db.interactions
      BY <2>8, <2>11, <3>4, <3>7 DEF Matches
    <3>9. \A j \in DOMAIN u.interactions \ DOMAIN z.episodes :
              u.interactions[j] = z.db.interactions[j]
      BY <1>2, <2>5, <2>8, <2>11, <3>4, <3>7 DEF Matches
    <3>10. u.participants \subseteq z.db.participants
      BY <2>8, <2>11, <3>5 DEF Matches
    <3>11. ASSUME NEW q \in z.db.participants \ u.participants
           PROVE  \E j \in DOMAIN z.episodes : \E person \in z.episodes[j].people : q = <<j, person>>
      <4>1. q \in x.db.participants \ y.participants
        BY <2>8, <3>5
      <4>2. PICK j \in DOMAIN x.episodes : \E person \in x.episodes[j].people : q = <<j, person>>
        BY <2>11, <4>1 DEF Matches
      <4>3. z.episodes[j].people = x.episodes[j].people
        BY <2>5, <2>6 DEF old
      <4> QED BY <2>5, <4>2, <4>3
    <3> QED BY <3>4, <3>5, <3>6, <3>8, <3>9, <3>10, <3>11 DEF Matches, u
  <2>12. Rebuildable(z)
    BY <2>2, <2>11, Logged
  <2> QED BY <2>9, <2>10, <2>12 DEF Kept, z
<1> QED BY <1>1, <1>2

\* An open interaction is noted as something else: its row, its status, who takes part.
Touches(z, x, id, people) ==
    /\ IsRow(z, Fields) /\ z.number = x.number /\ z.log = x.log
    /\ z.keys = x.keys /\ z.engagements = x.engagements
    /\ DOMAIN z.episodes = DOMAIN x.episodes
    /\ \A j \in DOMAIN x.episodes : j # id => z.episodes[j] = x.episodes[j]
    /\ DOMAIN z.episodes[id] = DOMAIN x.episodes[id]
    /\ z.episodes[id].record = x.episodes[id].record
    /\ z.episodes[id].events = x.episodes[id].events
    /\ z.episodes[id].people = x.episodes[id].people \cup people
    /\ IsRow(z.db, Tables) /\ z.db.raised = FALSE
    /\ DOMAIN z.db.interactions = DOMAIN x.db.interactions
    /\ IsRow(z.db.interactions, DOMAIN z.db.interactions)
    /\ \A j \in DOMAIN x.db.interactions : j # id => z.db.interactions[j] = x.db.interactions[j]
    /\ z.db.participants = x.db.participants \cup {<<id, person>> : person \in people}
    /\ \A t \in Tables : t \notin {"interactions", "participants"} => z.db[t] = x.db[t]

LEMMA TouchKeeps ==
    ASSUME NEW x, Kept(x), NEW id, id \in DOMAIN x.episodes, NEW people, NEW z,
           Touches(z, x, id, people)
    PROVE  Kept(z)
<1>1. z.db.events = x.db.events /\ \A t \in Copied : z.db[t] = x.db[t]
  BY DEF Tables, Copied, Touches
<1>2. Shape(z)
  BY DEF Kept, Shape, Touches
<1>3. OpenSound(z)
  <2>1. IsFiniteSet(DOMAIN z.episodes)
    BY DEF Kept, OpenSound, Touches
  <2>2. EpisodeSound(id, x.episodes[id], x.db)
    BY DEF Kept, OpenSound
  <2>3. EpisodeSound(id, z.episodes[id], z.db)
    BY <1>1, <2>2 DEF EpisodeSound, Touches
  <2>4. ASSUME NEW j \in DOMAIN x.episodes, j # id
        PROVE  EpisodeSound(j, z.episodes[j], z.db)
    BY <1>1, <2>4 DEF Kept, OpenSound, EpisodeSound, Touches
  <2> QED BY <2>1, <2>3, <2>4 DEF OpenSound, Touches
<1>4. ASSUME NEW y, Matches(y, x) PROVE Matches(y, z)
  <2>1. \A j \in DOMAIN y.interactions \ DOMAIN z.episodes :
            y.interactions[j] = z.db.interactions[j]
    BY <1>4 DEF Matches, Touches
  <2>2. y.participants \subseteq z.db.participants
    BY <1>4 DEF Matches, Touches
  <2>3. ASSUME NEW q \in z.db.participants \ y.participants
        PROVE  \E j \in DOMAIN z.episodes : \E person \in z.episodes[j].people : q = <<j, person>>
    <3>1. CASE q \in x.db.participants
      <4>1. PICK j \in DOMAIN x.episodes : \E person \in x.episodes[j].people : q = <<j, person>>
        BY <1>4, <3>1 DEF Matches
      <4>2. x.episodes[j].people \subseteq z.episodes[j].people
        BY DEF Touches
      <4> QED BY <4>1, <4>2 DEF Touches
    <3>2. CASE q \in {<<id, person>> : person \in people}
      <4>1. people \subseteq z.episodes[id].people
        BY DEF Touches
      <4> QED BY <3>2, <4>1 DEF Touches
    <3> QED BY <3>1, <3>2 DEF Touches
  <2>4. /\ IsRow(y, Tables) /\ y.raised = FALSE /\ IsRow(y.interactions, DOMAIN y.interactions)
        /\ \A t \in Copied : y[t] = z.db[t]
        /\ DOMAIN y.interactions = DOMAIN z.db.interactions
    BY <1>1, <1>4 DEF Matches, Touches
  <2> QED BY <2>1, <2>2, <2>3, <2>4 DEF Matches
<1>5. Rebuildable(z)
  BY <1>4, Unlogged DEF Touches
<1> QED BY <1>2, <1>3, <1>5 DEF Kept

LEMMA ParticipantsKeep ==
    ASSUME NEW x, Kept(x), NEW id, NEW people
    PROVE  Kept(AddParticipants(x, id, people))
<1> DEFINE z == AddParticipants(x, id, people)
<1>1. CASE id \notin DOMAIN x.episodes \/ people = {}
  BY <1>1 DEF AddParticipants
<1>2. CASE id \in DOMAIN x.episodes /\ people # {}
  <2>1. /\ IsRow(x, Fields) /\ IsRow(x.db, Tables) /\ x.db.raised = FALSE
        /\ IsRow(x.db.interactions, DOMAIN x.db.interactions) /\ id \in DOMAIN x.db.interactions
        /\ DOMAIN x.episodes[id] = {"type", "status", "record", "people", "events"}
    BY <1>2 DEF Kept, Shape, OpenSound, EpisodeSound
  <2> DEFINE db == AppendParticipants(x.db, id, people)
             ep == x.episodes[id]
             new == [ep EXCEPT !.people = @ \cup people]
             episodes == [x.episodes EXCEPT ![id] = new]
  <2>2. z = [x EXCEPT !.episodes[id].people = @ \cup people, !.db = db]
    BY <1>2 DEF AddParticipants
  <2> HIDE DEF z
  <2>3. /\ IsRow(db, Tables) /\ db.raised = FALSE
        /\ db.participants = x.db.participants \cup {<<id, person>> : person \in people}
        /\ \A t \in Tables : t # "participants" => db[t] = x.db[t]
    <3>1. Attended(db, x.db, id, people)
      BY <2>1, AppendParticipantsIs
    <3> HIDE DEF db
    <3> QED BY <3>1 DEF Attended
  <2>4. db.interactions = x.db.interactions
    <3>1. "interactions" \in Tables
      BY DEF Tables
    <3> QED BY <2>3, <3>1
  <2>5. /\ DOMAIN new = DOMAIN ep /\ new.record = ep.record /\ new.events = ep.events
        /\ new.people = ep.people \cup people
    BY <2>1
  <2> HIDE DEF db
  <2>6. /\ IsRow(z, Fields) /\ z.number = x.number /\ z.log = x.log /\ z.keys = x.keys
        /\ z.engagements = x.engagements /\ z.db = db /\ z.episodes = episodes
    <3>1. DOMAIN x = Fields
      BY <2>1 DEF IsRow
    <3> QED BY <1>2, <2>2, <3>1, Zenon DEF Fields, IsRow
  <2> HIDE DEF new
  <2>7. /\ DOMAIN episodes = DOMAIN x.episodes /\ episodes[id] = new
        /\ \A j \in DOMAIN x.episodes : j # id => episodes[j] = x.episodes[j]
    BY <1>2
  <2> HIDE DEF episodes
  <2>8. Touches(z, x, id, people)
    BY <1>2, <2>1, <2>3, <2>4, <2>5, <2>6, <2>7 DEF Touches
  <2> QED BY <1>2, <2>8, TouchKeeps DEF z
<1> QED BY <1>1, <1>2

\* What is noted of an open interaction is told by its row, or it is not.
LEMMA MarkedKeeps ==
    ASSUME NEW x, Kept(x), NEW id, id \in DOMAIN x.episodes, NEW status,
           NEW z, z = [x EXCEPT !.episodes[id].status = status]
    PROVE  Kept(z)
<1>1. /\ IsRow(x, Fields) /\ IsRow(x.db, Tables) /\ x.db.raised = FALSE
      /\ IsRow(x.db.interactions, DOMAIN x.db.interactions)
      /\ DOMAIN x.episodes[id] = {"type", "status", "record", "people", "events"}
  BY DEF Kept, Shape, OpenSound, EpisodeSound
<1> DEFINE ep == x.episodes[id]
           new == [ep EXCEPT !.status = status]
           episodes == [x.episodes EXCEPT ![id] = new]
<1>2. /\ DOMAIN new = DOMAIN ep /\ new.record = ep.record /\ new.events = ep.events
      /\ new.people = ep.people \cup {}
  BY <1>1
<1>3. /\ IsRow(z, Fields) /\ z.number = x.number /\ z.log = x.log /\ z.keys = x.keys
      /\ z.engagements = x.engagements /\ z.db = x.db /\ z.episodes = episodes
  <2>1. DOMAIN x = Fields
    BY <1>1 DEF IsRow
  <2> QED BY <2>1, Zenon DEF Fields, IsRow
<1> HIDE DEF new
<1>4. /\ DOMAIN episodes = DOMAIN x.episodes /\ episodes[id] = new
      /\ \A j \in DOMAIN x.episodes : j # id => episodes[j] = x.episodes[j]
  OBVIOUS
<1> HIDE DEF episodes
<1>5. x.db.participants = x.db.participants \cup {<<id, person>> : person \in {}}
  OBVIOUS
<1>6. Touches(z, x, id, {})
  BY <1>1, <1>2, <1>3, <1>4, <1>5 DEF Touches
<1> QED BY <1>6, TouchKeeps

LEMMA RowKeeps ==
    ASSUME NEW x, Kept(x), NEW id, id \in DOMAIN x.episodes, NEW status, NEW over,
           NEW z, z = [x EXCEPT !.db = AppendInteraction(@, id, x.episodes[id].record, status, over)]
    PROVE  Kept(z)
<1> DEFINE record == x.episodes[id].record
           row == [record |-> record, status |-> status, ended |-> over]
<1>1. /\ IsRow(x, Fields) /\ IsRow(x.db, Tables) /\ x.db.raised = FALSE
      /\ IsRow(x.db.interactions, DOMAIN x.db.interactions)
      /\ id \in DOMAIN x.db.interactions /\ record # 0
  BY DEF Kept, Shape, OpenSound, EpisodeSound
<1> HIDE DEF record
<1> DEFINE db == AppendInteraction(x.db, id, record, status, over)
<1>2. Written(db, x.db, id, row, {})
  <2> DEFINE both == AppendParticipants(db, id, {})
  <2> HIDE DEF db, both, row
  <2> QED BY <1>1, AppendInteractionIs DEF db, both, row
<1> HIDE DEF db, row
<1>3. /\ IsRow(z, Fields) /\ z.number = x.number /\ z.log = x.log /\ z.keys = x.keys
      /\ z.engagements = x.engagements /\ z.db = db /\ z.episodes = x.episodes
  <2>1. DOMAIN x = Fields /\ z = [x EXCEPT !.db = db]
    BY <1>1 DEF IsRow, record, db
  <2> QED BY <2>1, Zenon DEF Fields, IsRow
<1>4. /\ DOMAIN db.interactions = DOMAIN x.db.interactions
      /\ IsRow(db.interactions, DOMAIN db.interactions)
      /\ \A j \in DOMAIN x.db.interactions : j # id => db.interactions[j] = x.db.interactions[j]
  BY <1>1, <1>2 DEF Put, IsRow, Written
<1>5. x.episodes[id].people = x.episodes[id].people \cup {}
  OBVIOUS
<1>6. Touches(z, x, id, {})
  BY <1>1, <1>2, <1>3, <1>4, <1>5 DEF Touches, Written
<1> QED BY <1>6, TouchKeeps

LEMMA ConstituentDomain ==
    ASSUME NEW x, IsRow(x, Fields), NEW id, NEW event, NEW type
    PROVE  DOMAIN AppendConstituent(x, id, event, type).episodes = DOMAIN x.episodes
<1>1. DOMAIN x = Fields
  BY DEF IsRow
<1> QED BY <1>1 DEF AppendConstituent, Record, Fields

\* What a rebuild is missing of an interaction that has ended: nothing.
MissingStep(x, db, event) == AppendInteractionEvent(db, x[1], event, x[2])
NothingMissing(x, T, db) == T = {} => db = x[3]

Missing == INSTANCE FoldFacts WITH Op <- MissingStep, P <- NothingMissing

LEMMA RebuiltEnding ==
    ASSUME NEW db, NEW r, \A event \in r.events : <<r.id, event>> \in DOMAIN db.events
    PROVE  RebuildInteractionEpisode(db, r) =
               AppendInteractionEpisode(
                   AppendParticipants(AppendInteraction(db, r.id, r.number, r.status, TRUE),
                                      r.id, r.people),
                   r.id, r.number, r.status)
<1> DEFINE over == AppendParticipants(AppendInteraction(db, r.id, r.number, r.status, TRUE),
                                       r.id, r.people)
           missing == {event \in r.events : <<r.id, event>> \notin DOMAIN db.events}
           x == <<r.id, r.number, over>>
           all == FoldSet(LAMBDA event, y : AppendInteractionEvent(y, r.id, event, r.number),
                          over, missing)
<1>1. missing = {}
  OBVIOUS
<1>2. all = Missing!Gathered(x, over, missing)
  BY DEF Missing!Gathered, MissingStep, FoldSet, MapThenFoldSet, Missing!MapThenFoldSet
<1>3. RebuildInteractionEpisode(db, r) = AppendInteractionEpisode(all, r.id, r.number, r.status)
  BY DEF RebuildInteractionEpisode
<1>4. x[3] = over
  OBVIOUS
<1> HIDE DEF over, all, x, missing
<1>5. IsFiniteSet(missing)
  BY <1>1, FS_EmptySet
<1>6. NothingMissing(x, {}, over)
  BY <1>4 DEF NothingMissing
<1>7. \A T \in SUBSET missing : \A event \in missing \ T : \A p :
          NothingMissing(x, T, p) => NothingMissing(x, T \cup {event}, MissingStep(x, p, event))
  BY <1>1
<1>8. NothingMissing(x, missing, Missing!Gathered(x, over, missing))
  BY <1>5, <1>6, <1>7, Missing!KeepsAll, LeastOf, Sized
<1> QED BY <1>1, <1>2, <1>3, <1>4, <1>8 DEF NothingMissing, over

\* An interaction and its episode are final.
Closed(new, db, id, row, people) ==
    /\ IsRow(new, Tables) /\ new.raised = FALSE
    /\ new.interactions = Put(db.interactions, id, row)
    /\ new.participants = db.participants \cup {<<id, person>> : person \in people}
    /\ new.interaction_episodes =
           Put(db.interaction_episodes, id, [record |-> row.record, status |-> row.status])
    /\ \A t \in Tables : t \notin {"interactions", "participants", "interaction_episodes"}
           => new[t] = db[t]

LEMMA CloseIs ==
    ASSUME NEW db, IsRow(db, Tables), db.raised = FALSE, NEW id, NEW record, record # 0,
           NEW status, NEW people,
           NEW row, row = [record |-> record, status |-> status, ended |-> TRUE],
           NEW new, new = AppendInteraction(db, id, record, status, TRUE)
    PROVE  /\ Closed(AppendInteractionEpisode(new, id, record, status), db, id, row, {})
           /\ Closed(AppendInteractionEpisode(AppendParticipants(new, id, people),
                                              id, record, status), db, id, row, people)
<1>1. ASSUME NEW some, NEW both, Written(both, db, id, row, some)
      PROVE  Closed(AppendInteractionEpisode(both, id, record, status), db, id, row, some)
  <2> DEFINE last == AppendInteractionEpisode(both, id, record, status)
  <2>1. /\ IsRow(last, Tables)
        /\ last.interaction_episodes =
               Put(both.interaction_episodes, id, [record |-> record, status |-> status])
        /\ \A t \in Tables : t # "interaction_episodes" => last[t] = both[t]
    <3>1. IsRow(both, Tables)
      BY <1>1 DEF Written
    <3> HIDE DEF last
    <3> QED BY <3>1, AppendInteractionEpisodeIs DEF last
  <2> HIDE DEF last
  <2>2. {"interactions", "participants", "interaction_episodes", "raised"} \subseteq Tables
    BY DEF Tables, Copied
  <2>3. row.record = record /\ row.status = status
    OBVIOUS
  <2> HIDE DEF Tables
  <2>4. both.interaction_episodes = db.interaction_episodes
    BY <1>1, <2>2 DEF Written
  <2>5. \A t \in Tables : t \notin {"interactions", "participants", "interaction_episodes"}
           => last[t] = db[t]
    BY <1>1, <2>1 DEF Written
  <2> QED BY <1>1, <2>1, <2>2, <2>3, <2>4, <2>5 DEF Written, Closed, last
<1>2. Written(new, db, id, row, {}) /\ Written(AppendParticipants(new, id, people), db, id, row, people)
  <2> DEFINE both == AppendParticipants(new, id, people)
  <2> HIDE DEF both
  <2> QED BY AppendInteractionIs DEF both
<1> QED BY <1>1, <1>2

LEMMA FinishedKeeps ==
    ASSUME NEW x, Kept(x), NEW id, id \in DOMAIN x.episodes, NEW status, NEW forgotten,
           NEW z, z = Finished(x, id, status, forgotten)
    PROVE  Kept(z) /\ DOMAIN z.episodes = DOMAIN x.episodes \ {id}
<1> DEFINE n == x.number + 1
           old == x.episodes[id]
           body == [kind |-> "interaction_episode", id |-> id, status |-> status,
                    people |-> old.people, events |-> old.events]
           r == Else(body, [number |-> n])
           row == [record |-> n, status |-> status, ended |-> TRUE]
           With(db) == AppendInteractionEpisode(AppendInteraction(db, id, n, status, TRUE),
                                                id, n, status)
<1>1. /\ IsRow(x, Fields) /\ x.number \in Nat /\ IsSeq(x.log) /\ n \in Nat \ {0}
      /\ IsRow(x.db, Tables) /\ x.db.raised = FALSE
      /\ IsFiniteSet(Range(x.keys)) /\ IsFiniteSet(DOMAIN x.engagements)
      /\ EpisodeSound(id, old, x.db)
  BY DEF Kept, Shape, OpenSound
<1>2. /\ IsRow(z, Fields) /\ z.number = n /\ z.log = Append(x.log, r)
      /\ z.db = With(x.db) /\ z.episodes = Drop(x.episodes, {id})
      /\ z.keys = Drop(x.keys, forgotten) /\ z.engagements = x.engagements
  <2>1. DOMAIN x = Fields
    BY <1>1 DEF IsRow
  <2> QED BY <2>1, Zenon DEF Finished, Record, Fields, IsRow
<1>3. r.kind = "interaction_episode" /\ r.id = id /\ r.status = status
      /\ r.people = old.people /\ r.events = old.events /\ r.number = n
  BY DEF Else
<1>4. Closed(z.db, x.db, id, row, {})
  <2> DEFINE new == AppendInteraction(x.db, id, n, status, TRUE)
  <2>1. z.db = AppendInteractionEpisode(new, id, n, status)
    BY <1>2
  <2>2. IsRow(x.db, Tables) /\ x.db.raised = FALSE /\ n # 0
    BY <1>1
  <2> HIDE DEF new, n, With
  <2> QED BY <2>1, <2>2, CloseIs DEF new, row
<1> HIDE DEF n, body, r, row, old
<1>5. /\ DOMAIN z.episodes = DOMAIN x.episodes \ {id}
      /\ \A j \in DOMAIN z.episodes : z.episodes[j] = x.episodes[j]
      /\ Range(z.keys) \subseteq Range(x.keys)
  <2>1. /\ DOMAIN z.episodes = DOMAIN x.episodes \ {id}
        /\ \A j \in DOMAIN x.episodes \ {id} : z.episodes[j] = x.episodes[j]
    BY <1>2 DEF Drop
  <2>2. Range(z.keys) \subseteq Range(x.keys)
    BY <1>2 DEF Drop, Range
  <2> QED BY <2>1, <2>2
<1>6. id \in DOMAIN x.db.interactions
  BY <1>1 DEF EpisodeSound
<1>7. /\ DOMAIN z.db.interactions = DOMAIN x.db.interactions
      /\ \A j \in DOMAIN x.db.interactions : j # id => z.db.interactions[j] = x.db.interactions[j]
      /\ z.db.interactions[id] = row /\ IsRow(z.db.interactions, DOMAIN z.db.interactions)
  BY <1>4, <1>6 DEF Put, IsRow, Closed
<1>8. /\ z.db.events = x.db.events /\ z.db.participants = x.db.participants
      /\ \A t \in Copied : t # "interaction_episodes" => z.db[t] = x.db[t]
      /\ z.db.interaction_episodes =
           Put(x.db.interaction_episodes, id, [record |-> row.record, status |-> row.status])
  BY <1>4 DEF Tables, Copied, Closed
<1>9. Shape(z)
  <2>1. IsFiniteSet(Range(z.keys))
    BY <1>1, <1>5, FS_Subset
  <2>2. IsSeq(z.log)
    BY <1>1, <1>2, Appended
  <2> QED BY <1>1, <1>2, <1>4, <1>7, <2>1, <2>2 DEF Shape, Closed
<1>10. OpenSound(z)
  <2>1. IsFiniteSet(DOMAIN z.episodes)
    BY <1>5, FS_Subset DEF Kept, OpenSound
  <2>2. ASSUME NEW j \in DOMAIN z.episodes
        PROVE  EpisodeSound(j, z.episodes[j], z.db)
    BY <1>5, <1>7, <1>8 DEF Kept, OpenSound, EpisodeSound
  <2> QED BY <2>1, <2>2 DEF OpenSound
<1>11. ASSUME NEW y, Matches(y, x)
       PROVE  Matches(Rebuild(y, r), z) /\ SameRest(Rebuild(y, r), y)
  <2> DEFINE u == Rebuild(y, r)
  <2>1. \A event \in r.events : <<r.id, event>> \in DOMAIN y.events
    BY <1>1, <1>3, <1>11 DEF Matches, Copied, EpisodeSound
  <2>2. u = RebuildInteractionEpisode(y, r)
    BY <1>3 DEF Rebuild, RebuildInteraction
  <2>3. Closed(u, y, id, row, old.people)
    <3> DEFINE new == AppendInteraction(y, id, n, status, TRUE)
    <3>1. u = AppendInteractionEpisode(AppendParticipants(new, id, old.people), id, n, status)
      BY <1>3, <2>1, <2>2, RebuiltEnding
    <3>2. IsRow(y, Tables) /\ y.raised = FALSE
      BY <1>11 DEF Matches
    <3> HIDE DEF new, u
    <3> QED BY <1>1, <3>1, <3>2, CloseIs DEF new, row
  <2> HIDE DEF u
  <2>4. /\ DOMAIN u.interactions = DOMAIN y.interactions \cup {id}
        /\ \A j \in DOMAIN y.interactions : j # id => u.interactions[j] = y.interactions[j]
        /\ u.interactions[id] = row /\ IsRow(u.interactions, DOMAIN u.interactions)
    BY <2>3 DEF Put, IsRow, Closed
  <2>5. /\ \A t \in Copied : t # "interaction_episodes" => u[t] = y[t]
        /\ u.interaction_episodes =
             Put(y.interaction_episodes, id, [record |-> row.record, status |-> row.status])
        /\ SameRest(u, y)
    BY <2>3 DEF Tables, Copied, LeftAlone, SameRest, Closed
  <2>6. \A t \in Copied : u[t] = z.db[t]
    <3>1. "interaction_episodes" \in Copied
      BY DEF Copied
    <3> QED BY <1>8, <1>11, <2>5, <3>1 DEF Matches
  <2>7. DOMAIN u.interactions = DOMAIN z.db.interactions
    BY <1>6, <1>7, <1>11, <2>4 DEF Matches
  <2>8. \A j \in DOMAIN u.interactions \ DOMAIN z.episodes :
            u.interactions[j] = z.db.interactions[j]
    BY <1>5, <1>6, <1>7, <1>11, <2>4 DEF Matches
  <2>9. u.participants \subseteq z.db.participants
    BY <1>1, <1>8, <1>11, <2>3 DEF Matches, Closed, EpisodeSound
  <2>10. ASSUME NEW q \in z.db.participants \ u.participants
         PROVE  \E j \in DOMAIN z.episodes : \E person \in z.episodes[j].people : q = <<j, person>>
    <3>1. q \in x.db.participants \ y.participants /\ q \notin {<<id, person>> : person \in old.people}
      BY <1>8, <2>3 DEF Closed
    <3>2. PICK j \in DOMAIN x.episodes : \E person \in x.episodes[j].people : q = <<j, person>>
      BY <1>11, <3>1 DEF Matches
    <3>3. j # id
      BY <3>1, <3>2 DEF old
    <3> QED BY <1>5, <3>2, <3>3
  <2> QED BY <2>3, <2>4, <2>5, <2>6, <2>7, <2>8, <2>9, <2>10 DEF Matches, Closed, u
<1>12. Rebuildable(z)
  BY <1>2, <1>11, Logged
<1> QED BY <1>5, <1>9, <1>10, <1>12 DEF Kept

LEMMA CloseKeeps ==
    ASSUME NEW x, Kept(x), NEW id, NEW status,
           NEW z, z = CloseInteraction(x, id, status)
    PROVE  Kept(z) /\ DOMAIN z.episodes = DOMAIN x.episodes \ {id}
<1>1. CASE id \notin DOMAIN x.episodes
  BY <1>1 DEF CloseInteraction
<1>2. CASE id \in DOMAIN x.episodes
  <2> DEFINE y == Bounded(x, id)
             forgotten == {key \in DOMAIN x.keys : x.keys[key] = id}
  <2>1. Kept(y) /\ DOMAIN y.episodes = DOMAIN x.episodes
    BY ConstituentKeeps, ConstituentDomain DEF Bounded, Kept, Shape
  <2>2. z = Finished(y, id, status, forgotten)
    BY <1>2 DEF CloseInteraction
  <2> HIDE DEF y, forgotten
  <2> QED BY <1>2, <2>1, <2>2, FinishedKeeps
<1> QED BY <1>1, <1>2

-----------------------------------------------------------------------------
(* The interactions an event belongs to.                                   *)

\* What a handler gives back: a collector and the interactions, in order.
Finding(found) == IsRow(found, {"c", "ids"}) /\ Kept(found.c) /\ IsSeq(found.ids)

LEMMA Finds ==
    ASSUME NEW x, Kept(x), NEW ids, IsSeq(ids)
    PROVE  Finding([c |-> x, ids |-> ids])
BY DEF Finding, IsRow

LEMMA MovedFinds ==
    ASSUME NEW x, Kept(x), NEW id, NEW status
    PROVE  Finding(Moved(x, id, status))
<1>1. CASE id \notin DOMAIN x.episodes
  BY <1>1, Finds, NothingListed DEF Moved, Nobody
<1>2. CASE id \in DOMAIN x.episodes
  <2> DEFINE y == [x EXCEPT !.episodes[id].status = status]
             z == [y EXCEPT !.db = AppendInteraction(@, id, y.episodes[id].record, status, FALSE)]
             w == [x EXCEPT !.episodes[id].status = status,
                            !.db = AppendInteraction(@, id, x.episodes[id].record, status, FALSE)]
  <2>1. DOMAIN x = Fields /\ "status" # "record" /\ Fields # {}
        /\ DOMAIN x.episodes[id] = {"type", "status", "record", "people", "events"}
    BY <1>2 DEF Kept, Shape, IsRow, OpenSound, EpisodeSound, Fields
  <2>2. Kept(y)
    BY <1>2, MarkedKeeps
  <2>3. /\ DOMAIN y = Fields /\ id \in DOMAIN y.episodes /\ y.db = x.db
        /\ y.episodes[id].record = x.episodes[id].record
    BY <1>2, <2>1 DEF Fields
  <2>4. w = [y EXCEPT !.db = AppendInteraction(y.db, id, x.episodes[id].record, status, FALSE)]
    BY <2>1, <2>3, Zenon DEF Fields
  <2>5. z = w
    BY <2>3, <2>4
  <2>6. Kept(z)
    <3> HIDE DEF y
    <3> QED BY <2>2, <2>3, RowKeeps
  <2> HIDE DEF y, z
  <2>7. Moved(x, id, status) = [c |-> w, ids |-> <<id>>]
    BY <1>2 DEF Moved
  <2> HIDE DEF w
  <2> QED BY <2>5, <2>6, <2>7, Finds, One
<1> QED BY <1>1, <1>2

LEMMA KnownKeeps ==
    ASSUME NEW x, Kept(x), NEW keys, NEW id
    PROVE  Kept(KnownBy(x, keys, id))
<1> DEFINE z == KnownBy(x, keys, id)
           new == Else([key \in ToSet(keys) |-> id], x.keys)
<1>1. /\ IsRow(x, Fields) /\ x.number \in Nat /\ IsRow(x.db, Tables) /\ x.db.raised = FALSE
      /\ IsFiniteSet(Range(x.keys)) /\ IsFiniteSet(DOMAIN x.engagements)
  BY DEF Kept, Shape
<1>2. /\ IsRow(z, Fields) /\ z.number = x.number /\ z.log = x.log /\ z.db = x.db
      /\ z.episodes = x.episodes /\ z.engagements = x.engagements /\ z.keys = new
  <2>1. DOMAIN x = Fields
    BY <1>1 DEF IsRow
  <2> QED BY <2>1, Zenon DEF KnownBy, Fields, IsRow
<1>3. IsFiniteSet(Range(new))
  <2>1. Range(new) \subseteq Range(x.keys) \cup {id}
    BY DEF Else, Range
  <2> HIDE DEF new
  <2>2. IsFiniteSet(Range(x.keys) \cup {id})
    BY <1>1, FS_AddElement
  <2> QED BY <2>1, <2>2, FS_Subset
<1> HIDE DEF z, new
<1> QED BY <1>1, <1>2, <1>3, Aside DEF z

LEMMA SpeechFinds ==
    ASSUME NEW x, Kept(x), NEW e
    PROVE  Finding(SpeechInteractions(x, e))
<1> DEFINE heard == Get(x.joined, e.cause, <<>>)
           recipients == {<<who, "recipient">> : who \in e.recipients}
           id == <<"speech", e.id>>
           people == Person(e.agent, "speaker") \cup Person(e.target, "addressee")
           more == AddParticipants(x, heard[1], recipients)
           begun == StartInteraction(x, id, "direct_speech", id, people, "active")
<1>1. \/ SpeechInteractions(x, e) = Nobody(x)
      \/ SpeechInteractions(x, e) = [c |-> more, ids |-> <<heard[1]>>]
      \/ SpeechInteractions(x, e) = [c |-> begun, ids |-> <<id>>]
  BY DEF SpeechInteractions
<1>2. Kept(more)
  BY ParticipantsKeep
<1>3. Kept(begun)
  BY StartKeeps
<1> HIDE DEF more, begun, heard, id
<1>4. Finding([c |-> more, ids |-> <<heard[1]>>])
  BY <1>2, Finds, One
<1>5. Finding([c |-> begun, ids |-> <<id>>])
  BY <1>3, Finds, One
<1>6. Finding(Nobody(x))
  BY Finds, NothingListed DEF Nobody
<1> QED BY <1>1, <1>4, <1>5, <1>6

LEMMA ServiceFinds ==
    ASSUME NEW x, Kept(x), NEW e, NEW id
    PROVE  Finding(WithService(x, e, id))
<1> DEFINE service == <<"staffed_service", id[2]>>
           provider == Person(e.operator, "service_provider")
           begun == StartInteraction(x, service, "staffed_service", service,
                                     Person(e.agent, "customer") \cup provider, "active")
           more == AddParticipants(begun, service, provider)
<1>1. \/ WithService(x, e, id) = [c |-> x, ids |-> <<id>>]
      \/ WithService(x, e, id) = [c |-> more, ids |-> <<id, service>>]
  BY DEF WithService
<1>2. Kept(begun)
  BY StartKeeps
<1> HIDE DEF begun
<1>3. Kept(more)
  BY <1>2, ParticipantsKeep
<1> HIDE DEF more, service
<1>4. Finding([c |-> x, ids |-> <<id>>])
  BY Finds, One
<1>5. Finding([c |-> more, ids |-> <<id, service>>])
  BY <1>3, Finds, Two
<1> QED BY <1>1, <1>4, <1>5

LEMMA TransactionFinds ==
    ASSUME NEW x, Kept(x), NEW e
    PROVE  Finding(TransactionInteractions(x, e))
<1> DEFINE keys == TransactionKeys(e)
           known == Found(x, keys)
           id == IF known = Absent THEN keys[1] ELSE known
           opened == StartInteraction(x, id, "transaction", id,
                         Person(e.agent, "customer") \cup Person(e.operator, "operator"),
                         "active")
           begun == IF known = Absent THEN opened ELSE x
           noted == KnownBy(begun, keys, id)
           more == AddParticipants(noted, id, Person(e.operator, "operator"))
<1>1. TransactionInteractions(x, e) = WithService(more, e, id)
  BY DEF TransactionInteractions, TransactionFor
<1>2. Kept(opened)
  BY StartKeeps
<1> HIDE DEF opened
<1>3. Kept(begun)
  BY <1>2
<1> HIDE DEF begun
<1>4. Kept(noted)
  BY <1>3, KnownKeeps
<1> HIDE DEF noted
<1>5. Kept(more)
  BY <1>4, ParticipantsKeep
<1> HIDE DEF more, id
<1> QED BY <1>1, <1>5, ServiceFinds

LEMMA PhysicalFinds ==
    ASSUME NEW x, Kept(x), NEW e
    PROVE  Finding(PhysicalInteractions(x, e))
<1> DEFINE keys == PhysicalKeys(x, e)
           known == Found(x, keys)
           id == IF known = Absent THEN <<"physical", Basis(e)>> ELSE known
           status == IF e.type = "interaction.requested" THEN "requested" ELSE "active"
           people == Person(e.agent, "actor") \cup Person(e.target, "target")
           opened == StartInteraction(x, id, "physical_object", keys[1], people, status)
           begun == IF known = Absent THEN opened ELSE x
           all == Append(keys, <<"physical_interaction", id[2]>>)
           noted == KnownBy(begun, all, id)
           st == PhysicalStatus[e.type]
<1>1. PhysicalInteractions(x, e) = Moved(noted, id, st)
  BY DEF PhysicalInteractions, PhysicalFor
<1>2. Kept(opened)
  BY StartKeeps
<1> HIDE DEF opened
<1>3. Kept(begun)
  BY <1>2
<1> HIDE DEF begun, all
<1>4. Kept(noted)
  BY <1>3, KnownKeeps
<1> HIDE DEF noted, id, st
<1> QED BY <1>1, <1>4, MovedFinds

LEMMA EngagementFinds ==
    ASSUME NEW x, Kept(x), NEW e
    PROVE  Finding(EngagementInteractions(x, e))
<1> DEFINE id == <<"engagement", e.engagement>>
           opened == StartInteraction(x, id, "engagement", id, Person(e.agent, "actor"),
                                      "requested")
           begun == IF e.type = "engagement.requested" THEN opened ELSE x
           status == EngagementStatus(e.type, begun.episodes[id].status)
           marked == [begun EXCEPT !.episodes[id].status = status]
           told == IF Repeats(e) THEN AppendConstituent(marked, id, e.id, e.type) ELSE marked
<1>1. EngagementInteractions(x, e) = EngagementFor(begun, e, id)
  BY DEF EngagementInteractions
<1>2. Kept(opened)
  BY StartKeeps
<1> HIDE DEF opened
<1>3. Kept(begun)
  BY <1>2
<1> HIDE DEF begun, id
<1>4. \/ EngagementFor(begun, e, id) = Nobody(begun)
      \/ EngagementFor(begun, e, id) = Moved(told, id, status)
  BY DEF EngagementFor
<1> HIDE DEF status
<1>5. Kept(marked)
  <2>1. CASE id \in DOMAIN begun.episodes
    <3> HIDE DEF marked
    <3> QED BY <1>3, <2>1, MarkedKeeps DEF marked
  <2>2. CASE id \notin DOMAIN begun.episodes
    <3>1. /\ IsRow(begun, Fields) /\ begun.number \in Nat /\ IsRow(begun.db, Tables)
          /\ begun.db.raised = FALSE /\ IsFiniteSet(Range(begun.keys))
          /\ IsFiniteSet(DOMAIN begun.engagements)
      BY <1>3 DEF Kept, Shape
    <3> DEFINE new == [begun.episodes[id] EXCEPT !.status = status]
               episodes == [begun.episodes EXCEPT ![id] = new]
    <3>2. /\ IsRow(marked, Fields) /\ marked.number = begun.number /\ marked.log = begun.log
          /\ marked.db = begun.db /\ marked.episodes = episodes
          /\ marked.engagements = begun.engagements /\ marked.keys = begun.keys
      <4>1. DOMAIN begun = Fields
        BY <3>1 DEF IsRow
      <4> QED BY <4>1, Zenon DEF Fields, IsRow
    <3> HIDE DEF new
    <3>3. /\ DOMAIN episodes = DOMAIN begun.episodes
          /\ \A j \in DOMAIN begun.episodes : episodes[j] = begun.episodes[j]
      BY <2>2
    <3> HIDE DEF marked, episodes
    <3> QED BY <1>3, <3>1, <3>2, <3>3, Aside
  <2> QED BY <2>1, <2>2
<1> HIDE DEF marked
<1>6. Kept(told)
  BY <1>5, ConstituentKeeps
<1> HIDE DEF told
<1>7. Finding(Moved(told, id, status))
  BY <1>6, MovedFinds
<1>8. Finding(Nobody(begun))
  BY <1>3, Finds, NothingListed DEF Nobody
<1> QED BY <1>1, <1>4, <1>7, <1>8

LEMMA ContentionKeeps ==
    ASSUME NEW x, Kept(x), NEW e
    PROVE  Kept(ContentionInteraction(x, e).c) /\ IsSeq(ContentionInteraction(x, e).ids)
<1> DEFINE id == <<"contention", e.id>>
           begun == StartInteraction(x, id, "shared_resource_contention", id,
                        Person(e.agent, "contender") \cup Person(e.target, "holder"), "active")
           done == CloseInteraction(begun, id, "failed")
<1>1. ContentionInteraction(x, e) = [c |-> done, ids |-> <<id>>]
  BY DEF ContentionInteraction
<1>2. Kept(begun)
  BY StartKeeps
<1> HIDE DEF begun
<1>3. Kept(done)
  BY <1>2, CloseKeeps
<1> HIDE DEF done, id
<1> QED BY <1>1, <1>3, One

LEMMA AssignedFinds ==
    ASSUME NEW x, Kept(x), NEW e
    PROVE  Finding(Assigned(x, e))
<1>1. Finding(Nobody(x))
  BY Finds, NothingListed DEF Nobody
<1> QED BY <1>1, SpeechFinds, TransactionFinds, PhysicalFinds, EngagementFinds DEF Assigned

LEMMA ContentionFinds ==
    ASSUME NEW found, Finding(found), NEW e
    PROVE  Finding(WithContention(found, e))
<1> DEFINE more == ContentionInteraction(found.c, e)
<1>1. Kept(found.c) /\ IsSeq(found.ids)
  BY DEF Finding
<1>2. Kept(more.c) /\ IsSeq(more.ids)
  BY <1>1, ContentionKeeps
<1>3. \/ WithContention(found, e) = found
      \/ WithContention(found, e) = [c |-> more.c, ids |-> found.ids \o more.ids]
  BY DEF WithContention
<1> HIDE DEF more
<1>4. IsSeq(found.ids \o more.ids)
  BY <1>1, <1>2, Chained
<1>5. Finding([c |-> more.c, ids |-> found.ids \o more.ids])
  BY <1>2, <1>4, Finds
<1> QED BY <1>3, <1>5

\* What an event does to the interactions it belongs to, one after the other.
ExtendingStep(e, x, id) == AppendConstituent(x, id, e.id, e.type)
ConcludingStep(e, x, id) == CloseInteraction(x, id, e.outcome)
KeptSoFar(e, i, x) == Kept(x)

AllExtended(x, e, ids) ==
    FoldLeft(LAMBDA y, id : AppendConstituent(y, id, e.id, e.type), x, ids)
AllConcluded(x, e, ids) ==
    FoldLeft(LAMBDA y, id : CloseInteraction(y, id, e.outcome), x, ids)

Extending == INSTANCE FoldFacts WITH Op <- ExtendingStep, P <- KeptSoFar
Concluding == INSTANCE FoldFacts WITH Op <- ConcludingStep, P <- KeptSoFar

LEMMA ExtendingKeeps ==
    ASSUME NEW x, Kept(x), NEW e, NEW ids, IsSeq(ids)
    PROVE  Kept(AllExtended(x, e, ids))
<1>1. Len(ids) \in Nat /\ DOMAIN ids = 1..Len(ids)
  BY SeqParts
<1>2. KeptSoFar(e, 0, x)
  BY DEF KeptSoFar
<1>3. \A i \in 1..Len(ids) : \A y :
          KeptSoFar(e, i - 1, y) => KeptSoFar(e, i, ExtendingStep(e, y, ids[i]))
  BY ConstituentKeeps DEF KeptSoFar, ExtendingStep
<1>4. KeptSoFar(e, Len(ids), Extending!Folded(e, x, ids))
  BY <1>1, <1>2, <1>3, Extending!Keeps, LeastOf
<1>5. Extending!Folded(e, x, ids) = AllExtended(x, e, ids)
  BY DEF AllExtended, ExtendingStep, FoldLeft, MapThenFoldSet, Max, Extending!Folded, Extending!MapThenFoldSet, Extending!Greatest
<1> QED BY <1>4, <1>5 DEF KeptSoFar

LEMMA ConcludingKeeps ==
    ASSUME NEW x, Kept(x), NEW e, NEW ids, IsSeq(ids)
    PROVE  Kept(AllConcluded(x, e, ids))
<1>1. Len(ids) \in Nat /\ DOMAIN ids = 1..Len(ids)
  BY SeqParts
<1>2. KeptSoFar(e, 0, x)
  BY DEF KeptSoFar
<1>3. \A i \in 1..Len(ids) : \A y :
          KeptSoFar(e, i - 1, y) => KeptSoFar(e, i, ConcludingStep(e, y, ids[i]))
  BY CloseKeeps DEF KeptSoFar, ConcludingStep
<1>4. KeptSoFar(e, Len(ids), Concluding!Folded(e, x, ids))
  BY <1>1, <1>2, <1>3, Concluding!Keeps, LeastOf
<1>5. Concluding!Folded(e, x, ids) = AllConcluded(x, e, ids)
  BY DEF AllConcluded, ConcludingStep, FoldLeft, MapThenFoldSet, Max, Concluding!Folded, Concluding!MapThenFoldSet, Concluding!Greatest
<1> QED BY <1>4, <1>5 DEF KeptSoFar

\* Any event, whatever its family and its fields, is collected.
LEMMA InteractionEventKeeps ==
    ASSUME NEW x, Kept(x), NEW e
    PROVE  Kept(CollectInteractionEvent(x, e))
<1> DEFINE found == WithContention(Assigned(x, e), e)
           folded == AllExtended(found.c, e, found.ids)
           extended == IF e.family = "engagement" THEN found.c ELSE folded
           all == [found EXCEPT !.c = extended]
           noted == [extended EXCEPT !.joined = Put(@, e.id, found.ids)]
           joined == [all EXCEPT !.c.joined = Put(@, e.id, found.ids)]
           ids == found.ids
           over == AllConcluded(noted, e, ids)
<1>1. Finding(found)
  <2> HIDE DEF found
  <2> QED BY AssignedFinds, ContentionFinds DEF found
<1>2. DOMAIN found = {"c", "ids"} /\ Kept(found.c) /\ IsSeq(found.ids)
  BY <1>1 DEF Finding, IsRow
<1>3. Extended(found, e) = all
  BY DEF Extended, AllExtended
<1> HIDE DEF found
<1>4. Kept(folded)
  BY <1>2, ExtendingKeeps
<1> HIDE DEF folded
<1>5. Kept(extended)
  BY <1>2, <1>4
<1> HIDE DEF extended
<1>6. DOMAIN all = {"c", "ids"} /\ all.c = extended /\ all.ids = ids
  BY <1>2
<1>7. Joined(all, e) = joined
  BY <1>6 DEF Joined
<1>8. DOMAIN joined = {"c", "ids"} /\ joined.c = noted /\ joined.ids = ids
  BY <1>2, <1>6
<1>9. Kept(noted)
  <2> DEFINE new == Put(extended.joined, e.id, found.ids)
  <2>1. /\ IsRow(extended, Fields) /\ extended.number \in Nat /\ IsRow(extended.db, Tables)
        /\ extended.db.raised = FALSE /\ IsFiniteSet(Range(extended.keys))
        /\ IsFiniteSet(DOMAIN extended.engagements)
    BY <1>5 DEF Kept, Shape
  <2>2. /\ IsRow(noted, Fields) /\ noted.number = extended.number /\ noted.log = extended.log
        /\ noted.db = extended.db /\ noted.episodes = extended.episodes
        /\ noted.engagements = extended.engagements /\ noted.keys = extended.keys
    <3>1. DOMAIN extended = Fields
      BY <2>1 DEF IsRow
    <3> QED BY <3>1, Zenon DEF Fields, IsRow
  <2> HIDE DEF noted
  <2> QED BY <1>5, <2>1, <2>2, Aside
<1> HIDE DEF all, noted, joined, ids
<1>10. Kept(over)
  BY <1>2, <1>9, ConcludingKeeps DEF ids
<1>11. CollectInteractionEvent(x, e) = Concluded(joined, e)
  BY <1>3, <1>7 DEF CollectInteractionEvent, found
<1>12. Concluded(joined, e) = (IF e.type \in TerminalEvents THEN over ELSE noted)
  BY <1>8 DEF Concluded, AllConcluded
<1> HIDE DEF over
<1> QED BY <1>9, <1>10, <1>11, <1>12

-----------------------------------------------------------------------------
(* Exposures, and the end.                                                 *)

ClosingStep(x, y, id) == CloseInteraction(y, id, x[1])
ClosedSoFar(x, T, y) == Kept(y) /\ DOMAIN y.episodes = x[2] \ T

Closing == INSTANCE FoldFacts WITH Op <- ClosingStep, P <- ClosedSoFar

LEMMA CloseAllKeeps ==
    ASSUME NEW x, Kept(x), NEW ids, IsFiniteSet(ids), NEW status,
           NEW z, z = CloseAll(x, ids, status)
    PROVE  Kept(z) /\ DOMAIN z.episodes = DOMAIN x.episodes \ ids
<1> DEFINE k == <<status, DOMAIN x.episodes>>
<1>0. k[1] = status /\ k[2] = DOMAIN x.episodes
  OBVIOUS
<1>1. z = Closing!Gathered(k, x, ids)
  BY DEF CloseAll, ClosingStep, FoldSet, MapThenFoldSet, Closing!Gathered, Closing!MapThenFoldSet
<1> HIDE DEF k
<1>2. IsFiniteSet(ids)
  OBVIOUS
<1>3. ClosedSoFar(k, {}, x)
  BY <1>0 DEF ClosedSoFar
<1>4. \A T \in SUBSET ids : \A id \in ids \ T : \A y :
          ClosedSoFar(k, T, y) => ClosedSoFar(k, T \cup {id}, ClosingStep(k, y, id))
  <2> SUFFICES ASSUME NEW T \in SUBSET ids, NEW id \in ids \ T, NEW y, ClosedSoFar(k, T, y)
               PROVE  ClosedSoFar(k, T \cup {id}, ClosingStep(k, y, id))
    OBVIOUS
  <2> DEFINE w == CloseInteraction(y, id, status)
  <2>1. Kept(w) /\ DOMAIN w.episodes = DOMAIN y.episodes \ {id}
    <3>1. Kept(y)
      BY DEF ClosedSoFar
    <3> HIDE DEF w
    <3> QED BY <3>1, CloseKeeps DEF w
  <2>2. ClosingStep(k, y, id) = w
    BY <1>0 DEF ClosingStep
  <2> HIDE DEF w
  <2> QED BY <2>1, <2>2 DEF ClosedSoFar
<1>5. ClosedSoFar(k, ids, Closing!Gathered(k, x, ids))
  BY <1>2, <1>3, <1>4, Closing!KeepsAll, LeastOf, Sized
<1> QED BY <1>0, <1>1, <1>5 DEF ClosedSoFar

LEMMA IntervalKeeps ==
    ASSUME NEW x, Kept(x), NEW key
    PROVE  Kept(StartInterval(x, key))
<1> DEFINE n == Get(x.intervals, key, 0) + 1
           id == Append(key, ToString(n))
           y == [x EXCEPT !.intervals = Put(@, key, n)]
           people == {<<key[2], "one">>, <<key[2], "other">>}
           begun == StartInteraction(y, id, key[1], key, people, "active")
<1>1. StartInterval(x, key) = AppendConstituent(begun, id, "interval.started", "interval.started")
  BY DEF StartInterval
<1>2. Kept(y)
  <2>1. /\ IsRow(x, Fields) /\ x.number \in Nat /\ IsRow(x.db, Tables)
        /\ x.db.raised = FALSE /\ IsFiniteSet(Range(x.keys))
        /\ IsFiniteSet(DOMAIN x.engagements)
    BY DEF Kept, Shape
  <2>2. /\ IsRow(y, Fields) /\ y.number = x.number /\ y.log = x.log /\ y.db = x.db
        /\ y.episodes = x.episodes /\ y.engagements = x.engagements /\ y.keys = x.keys
    <3> HIDE DEF n
    <3>1. DOMAIN x = Fields
      BY <2>1 DEF IsRow
    <3> QED BY <3>1, Zenon DEF Fields, IsRow
  <2> HIDE DEF y
  <2> QED BY <2>1, <2>2, Aside
<1> HIDE DEF y, id
<1>3. Kept(begun)
  BY <1>2, StartKeeps
<1> HIDE DEF begun
<1> QED BY <1>1, <1>3, ConstituentKeeps

BeginningStep(x, y, key) == StartInterval(y, key)
BegunSoFar(x, T, y) == Kept(y)

Beginning == INSTANCE FoldFacts WITH Op <- BeginningStep, P <- BegunSoFar

LEMMA BeginningKeeps ==
    ASSUME NEW x, Kept(x), NEW keys, IsFiniteSet(keys)
    PROVE  Kept(FoldSet(LAMBDA key, y : StartInterval(y, key), x, keys))
<1>1. FoldSet(LAMBDA key, y : StartInterval(y, key), x, keys) = Beginning!Gathered(0, x, keys)
  BY DEF BeginningStep, FoldSet, MapThenFoldSet, Beginning!Gathered, Beginning!MapThenFoldSet
<1>2. IsFiniteSet(keys)
  OBVIOUS
<1>3. BegunSoFar(0, {}, x)
  BY DEF BegunSoFar
<1>4. \A T \in SUBSET keys : \A key \in keys \ T : \A y :
          BegunSoFar(0, T, y) => BegunSoFar(0, T \cup {key}, BeginningStep(0, y, key))
  BY IntervalKeeps DEF BegunSoFar, BeginningStep
<1>5. BegunSoFar(0, keys, Beginning!Gathered(0, x, keys))
  BY <1>2, <1>3, <1>4, Beginning!KeepsAll, LeastOf, Sized
<1> QED BY <1>1, <1>5 DEF BegunSoFar

LEMMA ExposuresKeep ==
    ASSUME NEW x, Kept(x), NEW current, IsFiniteSet(current)
    PROVE  Kept(CaptureExposureIntervals(x, current)) /\ Kept(CloseExposures(x))
<1> DEFINE new == current \ DOMAIN x.keys
           over == {key \in DOMAIN x.keys : IsExposure(key)} \ current
           begun == FoldSet(LAMBDA key, y : StartInterval(y, key), x, new)
           gone == {x.keys[key] : key \in over}
           all == {x.keys[key] : key \in {key \in DOMAIN x.keys : IsExposure(key)}}
<1>1. /\ CaptureExposureIntervals(x, current) = CloseAll(begun, gone, "ended")
      /\ CloseExposures(x) = CloseAll(x, all, "ended")
  BY DEF CaptureExposureIntervals, CloseExposures
<1>2. gone \subseteq Range(x.keys) /\ all \subseteq Range(x.keys) /\ new \subseteq current
  BY DEF Range
<1> HIDE DEF gone, all, new
<1>3. IsFiniteSet(Range(x.keys))
  BY DEF Kept, Shape
<1>4. IsFiniteSet(gone) /\ IsFiniteSet(all) /\ IsFiniteSet(new)
  BY <1>2, <1>3, FS_Subset
<1>5. Kept(begun)
  BY <1>4, BeginningKeeps
<1> HIDE DEF begun
<1> QED BY <1>1, <1>4, <1>5, CloseAllKeeps

LEMMA OpenInteractionsClose ==
    ASSUME NEW x, Kept(x), NEW z, z = CloseOpenInteractions(x)
    PROVE  Kept(z) /\ DOMAIN z.episodes = {}
<1>1. IsFiniteSet(DOMAIN x.episodes)
  BY DEF Kept, OpenSound
<1>2. z = CloseAll(x, DOMAIN x.episodes, "run_ended")
  BY DEF CloseOpenInteractions
<1>3. Kept(z) /\ DOMAIN z.episodes = DOMAIN x.episodes \ DOMAIN x.episodes
  BY <1>1, <1>2, CloseAllKeeps
<1> QED BY <1>3

-----------------------------------------------------------------------------
(* Decisions.                                                              *)

\* Only tables that a rebuild leaves alone are written, and no decision goes.
Apart(new, db) ==
    /\ IsRow(new, Tables) /\ new.raised = FALSE
    /\ \A t \in Tables \ (LeftAlone \cup {"raised"}) : new[t] = db[t]
    /\ DOMAIN db.decisions \subseteq DOMAIN new.decisions

LEMMA ApartTwice ==
    ASSUME NEW db, NEW new, Apart(new, db), NEW last, Apart(last, new)
    PROVE  Apart(last, db)
BY DEF Apart

LEMMA AppendDecisionIs ==
    ASSUME NEW db, IsRow(db, Tables), db.raised = FALSE, NEW id, NEW record, NEW status, NEW d,
           NEW new, new = AppendDecision(db, id, record, status, d)
    PROVE  Apart(new, db) /\ id \in DOMAIN new.decisions
<1> DEFINE old == Get(db.decisions, id, [record |-> record, selected |-> Absent, context |-> {}])
           row == [record |-> IF d.context = {} THEN old.record ELSE record,
                   status |-> status,
                   selected |-> Known(d.selected, old.selected),
                   context |-> IF d.context = {} THEN old.context ELSE d.context]
<1>1. new = [db EXCEPT !.decisions = Put(@, id, row)]
  BY DEF AppendDecision
<1> HIDE DEF old, row
<1>2. DOMAIN db = Tables /\ {"decisions", "raised"} \subseteq Tables
      /\ "decisions" \in LeftAlone
  BY DEF IsRow, Tables, LeftAlone
<1>3. /\ IsRow(new, Tables) /\ new.raised = FALSE /\ new.decisions = Put(db.decisions, id, row)
      /\ \A t \in Tables : t # "decisions" => new[t] = db[t]
  BY <1>1, <1>2 DEF IsRow
<1>4. DOMAIN new.decisions = DOMAIN db.decisions \cup {id}
  BY <1>3 DEF Put
<1> QED BY <1>2, <1>3, <1>4 DEF Apart

LEMMA AppendOptionIs ==
    ASSUME NEW db, IsRow(db, Tables), db.raised = FALSE, NEW id, id \in DOMAIN db.decisions,
           NEW option, NEW selected
    PROVE  Apart(AppendOption(db, id, option, selected), db)
<1> DEFINE new == AppendOption(db, id, option, selected)
<1>1. DOMAIN db = Tables /\ {"decisions", "options", "raised"} \subseteq Tables
      /\ {"decisions", "options"} \subseteq LeftAlone
  BY DEF IsRow, Tables, LeftAlone
<1>2. /\ IsRow(new, Tables) /\ new.raised = FALSE
      /\ \A t \in Tables : t # "options" => new[t] = db[t]
  BY <1>1 DEF AppendOption, IsRow
<1> HIDE DEF new
<1>3. new.decisions = db.decisions
  BY <1>1, <1>2
<1>4. Apart(new, db)
  BY <1>1, <1>2, <1>3 DEF Apart
<1> QED BY <1>4 DEF new

\* One of the other tables is written.
LEMMA OneApart ==
    ASSUME NEW db, IsRow(db, Tables), db.raised = FALSE, NEW table \in LeftAlone \ {"decisions"},
           NEW rows, NEW new, new = [db EXCEPT ![table] = rows]
    PROVE  Apart(new, db)
<1>1. DOMAIN db = Tables /\ {table, "decisions", "raised"} \subseteq Tables /\ table # "raised"
  BY DEF IsRow, Tables, LeftAlone
<1>2. /\ IsRow(new, Tables) /\ new.raised = FALSE
      /\ \A t \in Tables : t # table => new[t] = db[t]
  BY <1>1 DEF IsRow
<1>3. new.decisions = db.decisions
  BY <1>1, <1>2
<1> QED BY <1>1, <1>2, <1>3 DEF Apart

\* What a collector notes when it writes such tables only.
Notes(z, x) ==
    /\ IsRow(z, Fields) /\ z.number \in Nat /\ z.log = x.log /\ z.episodes = x.episodes
    /\ z.keys = x.keys /\ z.engagements = x.engagements

LEMMA NotesKeep ==
    ASSUME NEW x, Kept(x), NEW z, Notes(z, x), Apart(z.db, x.db)
    PROVE  Kept(z)
<1>1. IsFiniteSet(Range(x.keys)) /\ IsFiniteSet(DOMAIN x.engagements)
  BY DEF Kept, Shape
<1> QED BY <1>1, Aside DEF Notes, Apart

LEMMA DbKept ==
    ASSUME NEW x, Kept(x)
    PROVE  /\ DOMAIN x = Fields /\ IsRow(x, Fields) /\ x.number \in Nat
           /\ IsRow(x.db, Tables) /\ x.db.raised = FALSE
           /\ IsFiniteSet(Range(x.keys)) /\ IsFiniteSet(DOMAIN x.engagements)
           /\ IsSeq(x.log) /\ Apart(x.db, x.db)
BY DEF Kept, Shape, IsRow, Apart

LEMMA DbKeeps ==
    ASSUME NEW x, Kept(x), NEW db, Apart(db, x.db)
    PROVE  Kept([x EXCEPT !.db = db])
<1> DEFINE z == [x EXCEPT !.db = db]
<1>1. DOMAIN x = Fields /\ x.number \in Nat
  BY DbKept
<1>2. Notes(z, x) /\ z.db = db
  BY <1>1, Zenon DEF Notes, Fields, IsRow
<1> HIDE DEF z
<1>3. Kept(z)
  BY <1>2, NotesKeep
<1> QED BY <1>3 DEF z

LEMMA DecisionKeeps ==
    ASSUME NEW x, Kept(x), NEW decisions
    PROVE  Kept([x EXCEPT !.decisions = decisions])
<1> DEFINE z == [x EXCEPT !.decisions = decisions]
<1>1. DOMAIN x = Fields /\ x.number \in Nat /\ Apart(x.db, x.db)
  BY DbKept
<1>2. Notes(z, x) /\ z.db = x.db
  BY <1>1, Zenon DEF Notes, Fields, IsRow
<1> HIDE DEF z
<1>3. Kept(z)
  BY <1>1, <1>2, NotesKeep
<1> QED BY <1>3 DEF z

LEMMA DecisionRowKeeps ==
    ASSUME NEW x, Kept(x), NEW decisions, NEW db, Apart(db, x.db),
           NEW z, z = [x EXCEPT !.decisions = decisions, !.db = db]
    PROVE  Kept(z)
<1>1. DOMAIN x = Fields /\ x.number \in Nat
  BY DbKept
<1>2. Notes(z, x) /\ z.db = db
  BY <1>1, Zenon DEF Notes, Fields, IsRow
<1> QED BY <1>2, NotesKeep

LEMMA ActionsKeep ==
    ASSUME NEW x, Kept(x), NEW actions
    PROVE  Kept([x EXCEPT !.actions = actions])
<1> DEFINE z == [x EXCEPT !.actions = actions]
<1>1. DOMAIN x = Fields /\ x.number \in Nat /\ Apart(x.db, x.db)
  BY DbKept
<1>2. Notes(z, x) /\ z.db = x.db
  BY <1>1, Zenon DEF Notes, Fields, IsRow
<1> HIDE DEF z
<1>3. Kept(z)
  BY <1>1, <1>2, NotesKeep
<1> QED BY <1>3 DEF z

LEMMA NumberedKeeps ==
    ASSUME NEW x, Kept(x), NEW z, z = [x EXCEPT !.number = @ + 1]
    PROVE  Kept(z)
<1>1. DOMAIN x = Fields /\ x.number \in Nat /\ Apart(x.db, x.db)
  BY DbKept
<1> DEFINE n == x.number + 1
<1>2. n \in Nat /\ z = [x EXCEPT !.number = n]
  BY <1>1
<1> HIDE DEF n
<1>3. Notes(z, x) /\ z.db = x.db
  BY <1>1, <1>2, Zenon DEF Notes, Fields, IsRow
<1> QED BY <1>1, <1>3, NotesKeep

\* What a record does to tables that a rebuild derives, when no interaction is concerned.
Projected(u, y, db) ==
    /\ IsRow(u, Tables) /\ u.raised = FALSE /\ SameRest(u, y)
    /\ u.interactions = y.interactions /\ u.participants = y.participants
    /\ \A t \in Copied : u[t] = db[t]

\* The collector has appended a record, and written its tables.
Appends(z, x, r) ==
    /\ IsRow(z, Fields) /\ z.number = x.number + 1 /\ z.log = Append(x.log, r)
    /\ z.episodes = x.episodes /\ z.keys = x.keys /\ z.engagements = x.engagements
    /\ IsRow(z.db, Tables) /\ z.db.raised = FALSE
    /\ z.db.interactions = x.db.interactions /\ z.db.participants = x.db.participants
    /\ z.db.events = x.db.events

LEMMA ProjectedKeeps ==
    ASSUME NEW x, Kept(x), NEW z, NEW r, Appends(z, x, r),
           \A y : IsRow(y, Tables) /\ y.raised = FALSE /\ (\A t \in Copied : y[t] = x.db[t])
               => Projected(Rebuild(y, r), y, z.db)
    PROVE  Kept(z)
<1>1. Shape(z)
  <2>1. IsSeq(z.log)
    BY DbKept, Appended DEF Appends
  <2> QED BY <2>1 DEF Shape, Kept, Appends
<1>2. OpenSound(z)
  BY DEF Kept, OpenSound, EpisodeSound, Appends
<1>3. ASSUME NEW y, Matches(y, x)
      PROVE  Matches(Rebuild(y, r), z) /\ SameRest(Rebuild(y, r), y)
  <2> DEFINE u == Rebuild(y, r)
  <2>1. Projected(u, y, z.db)
    BY <1>3 DEF Matches
  <2> HIDE DEF u
  <2>2. Matches(u, z) /\ SameRest(u, y)
    BY <1>3, <2>1 DEF Matches, Projected, Appends
  <2> QED BY <2>2 DEF u
<1>4. Rebuildable(z)
  BY <1>3, Logged DEF Appends
<1> QED BY <1>1, <1>2, <1>4 DEF Kept

\* One table is written: nothing else is touched.
OneTable(new, db, table, rows) ==
    /\ IsRow(new, Tables) /\ new.raised = FALSE /\ new[table] = rows
    /\ \A t \in Tables : t # table => new[t] = db[t]

LEMMA OneTableIs ==
    ASSUME NEW db, IsRow(db, Tables), db.raised = FALSE, NEW table \in Tables \ {"raised"},
           NEW rows, NEW new, new = [db EXCEPT ![table] = rows]
    PROVE  OneTable(new, db, table, rows)
<1>1. DOMAIN db = Tables /\ "raised" \in Tables
  BY DEF IsRow, Tables
<1> QED BY <1>1 DEF OneTable, IsRow

LEMMA TrackedKeeps ==
    ASSUME NEW x, Kept(x), NEW id, NEW d
    PROVE  Kept(Tracked(x, id, d))
<1> DEFINE updated == AppendDecision(x.db, id, x.number, d.status, d)
           marked == AppendOption(updated, id, d.selected, TRUE)
           db == IF d.selected \in d.context THEN marked ELSE updated
           decisions == Put(x.decisions, id, d)
<1>1. Tracked(x, id, d) = [x EXCEPT !.decisions = decisions, !.db = db]
  BY DEF Tracked
<1>2. IsRow(x.db, Tables) /\ x.db.raised = FALSE
  BY DbKept
<1>3. Apart(updated, x.db) /\ id \in DOMAIN updated.decisions
  <2> HIDE DEF updated
  <2> QED BY <1>2, AppendDecisionIs DEF updated
<1> HIDE DEF updated
<1>4. Apart(marked, updated)
  BY <1>3, AppendOptionIs DEF Apart
<1> HIDE DEF marked
<1>5. Apart(db, x.db)
  BY <1>3, <1>4, ApartTwice
<1> HIDE DEF db, decisions
<1> QED BY <1>1, <1>5, DecisionRowKeeps

LEMMA CloseDecisionKeeps ==
    ASSUME NEW x, Kept(x), NEW id
    PROVE  Kept(CloseDecision(x, id))
<1> DEFINE z == CloseDecision(x, id)
           n == x.number + 1
           d == x.decisions[id]
           body == [kind |-> "decision_episode", id |-> id, status |-> d.status,
                    selected |-> d.selected, action |-> d.action]
           r == Else(body, [number |-> n])
           row == [record |-> n, status |-> d.status, selected |-> d.selected,
                   action |-> d.action]
           told == AppendDecision(x.db, id, n, d.status, d)
           db == AppendDecisionEpisode(told, id, n, d)
<1>1. /\ IsRow(x, Fields) /\ IsRow(x.db, Tables) /\ x.db.raised = FALSE
  BY DbKept
<1>2. Apart(told, x.db)
  <2> HIDE DEF told
  <2> QED BY <1>1, AppendDecisionIs DEF told
<1>3. db = [told EXCEPT !.decision_episodes = Put(@, id, row)]
  BY DEF AppendDecisionEpisode
<1>4. /\ IsRow(z, Fields) /\ z.number = n /\ z.log = Append(x.log, r) /\ z.db = db
      /\ z.episodes = x.episodes /\ z.keys = x.keys /\ z.engagements = x.engagements
  <2>1. DOMAIN x = Fields
    BY <1>1 DEF IsRow
  <2> QED BY <2>1, Zenon DEF CloseDecision, Record, Fields, IsRow
<1>5. r.kind = "decision_episode" /\ r.id = id /\ r.number = n
      /\ r.status = d.status /\ r.selected = d.selected /\ r.action = d.action
  BY DEF Else
<1>6. \A y : Rebuild(y, r) = [y EXCEPT !.decision_episodes = Put(@, id, row)]
  <2> HIDE DEF r, n, d
  <2> QED BY <1>5 DEF Rebuild, RebuildDecision, AppendDecisionEpisode
<1> HIDE DEF z, n, d, body, r, row, told, db
<1>7. /\ {"decision_episodes", "raised", "interactions", "participants", "events"} \subseteq Tables
      /\ "raised" \notin LeftAlone \cup Copied /\ Copied \subseteq Tables
      /\ LeftAlone \subseteq Tables
      /\ LeftAlone \cap (Copied \cup {"interactions", "participants"}) = {}
      /\ Copied \cap {"interactions", "participants"} = {} /\ "events" \in Copied
      /\ "decision_episodes" \in Copied
  BY DEF Tables, LeftAlone, Copied
<1>8. /\ IsRow(db, Tables) /\ db.raised = FALSE
      /\ db.decision_episodes = Put(x.db.decision_episodes, id, row)
      /\ \A t \in Tables \ (LeftAlone \cup {"raised", "decision_episodes"}) : db[t] = x.db[t]
  <2>1. DOMAIN told = Tables /\ told.raised = FALSE
        /\ \A t \in Tables \ (LeftAlone \cup {"raised"}) : told[t] = x.db[t]
    BY <1>2 DEF Apart, IsRow
  <2> QED BY <1>3, <1>7, <2>1 DEF IsRow
<1>9. Appends(z, x, r)
  BY <1>4, <1>7, <1>8 DEF Appends, n
<1>10. ASSUME NEW y, IsRow(y, Tables), y.raised = FALSE, \A t \in Copied : y[t] = x.db[t]
       PROVE  Projected(Rebuild(y, r), y, z.db)
  <2> DEFINE u == Rebuild(y, r)
  <2>1. u = [y EXCEPT !.decision_episodes = Put(@, id, row)] /\ DOMAIN y = Tables
    BY <1>6, <1>10 DEF IsRow
  <2> HIDE DEF u
  <2>2. /\ IsRow(u, Tables) /\ u.raised = FALSE
        /\ u.decision_episodes = Put(y.decision_episodes, id, row)
        /\ \A t \in Tables : t # "decision_episodes" => u[t] = y[t]
    BY <1>7, <1>10, <2>1 DEF IsRow
  <2>3. \A t \in Copied : u[t] = db[t]
    BY <1>7, <1>8, <1>10, <2>2
  <2> QED BY <1>4, <1>7, <2>2, <2>3 DEF Projected, SameRest, u
<1>11. Kept(z)
  BY <1>9, <1>10, ProjectedKeeps
<1> QED BY <1>11 DEF z

LEMMA TrackDecisionKeeps ==
    ASSUME NEW x, Kept(x), NEW e
    PROVE  Kept(TrackDecision(x, e))
<1> DEFINE id == e.decision
           d == Get(x.decisions, id, NewDecision)
           decisions == Put(x.decisions, id, d)
           noted == [x EXCEPT !.decisions = decisions]
           tracked == Tracked(x, id, Followed(d, e))
           closed == CloseDecision(tracked, id)
<1>1. TrackDecision(x, e) \in {x, noted, tracked, closed}
  <2> HIDE DEF tracked, closed
  <2> QED BY DEF TrackDecision, tracked, closed
<1>2. Kept(noted)
  <2> HIDE DEF decisions
  <2> QED BY DecisionKeeps
<1>3. Kept(tracked)
  BY TrackedKeeps
<1> HIDE DEF tracked, noted
<1>4. Kept(closed)
  BY <1>3, CloseDecisionKeeps
<1> HIDE DEF closed
<1> QED BY <1>1, <1>2, <1>3, <1>4

LEMMA ToolKeeps ==
    ASSUME NEW x, Kept(x), NEW e
    PROVE  Kept(ProjectTool(x, e))
<1> DEFINE db == AppendTool(x.db, e.decision, e.type, e.action)
           row == Put(x.db.tools, e.decision,
                      [status |-> e.type,
                       action |-> Known(e.action,
                                        Get(x.db.tools, e.decision, [action |-> Absent]).action)])
<1>1. ProjectTool(x, e) = x \/ ProjectTool(x, e) = [x EXCEPT !.db = db]
  BY DEF ProjectTool
<1>2. IsRow(x.db, Tables) /\ x.db.raised = FALSE /\ "tools" \in LeftAlone \ {"decisions"}
  BY DbKept DEF LeftAlone
<1>3. db = [x.db EXCEPT !["tools"] = row]
  BY DEF AppendTool
<1> HIDE DEF db, row
<1>4. Apart(db, x.db)
  BY <1>2, <1>3, OneApart
<1>5. Kept([x EXCEPT !.db = db])
  BY <1>4, DbKeeps
<1> QED BY <1>1, <1>5

LEMMA ActionMovedKeeps ==
    ASSUME NEW x, Kept(x), NEW e, NEW episode
    PROVE  Kept(ActionMoved(x, e, episode))
<1> DEFINE z == ActionMoved(x, e, episode)
           n == x.number + 1
           id == e.action
           body == [kind |-> "action_transition", id |-> id]
           r == Else(body, [number |-> n])
           before == Get(x.actions, id, [status |-> Absent]).status
           instance == AppendActionInstance(x.db, id, n, e.decision, episode.status)
           instances == Put(x.db.action_instances, id,
               [Get(x.db.action_instances, id,
                    [record |-> n, decision |-> e.decision, status |-> episode.status])
                   EXCEPT !.status = episode.status])
           db == AppendTransition(instance, id, before, episode.status)
           transitions == Append(instance.transitions, <<id, before, episode.status>>)
<1>1. /\ IsRow(x, Fields) /\ IsRow(x.db, Tables) /\ x.db.raised = FALSE
      /\ {"action_instances", "transitions"} \subseteq LeftAlone \ {"decisions"}
  BY DbKept DEF LeftAlone
<1>2. instance = [x.db EXCEPT !["action_instances"] = instances]
  BY DEF AppendActionInstance
<1>3. db = [instance EXCEPT !["transitions"] = transitions]
  BY DEF AppendTransition
<1>4. /\ IsRow(z, Fields) /\ z.number = n /\ z.log = Append(x.log, r) /\ z.db = db
      /\ z.episodes = x.episodes /\ z.keys = x.keys /\ z.engagements = x.engagements
  <2>1. DOMAIN x = Fields
    BY <1>1 DEF IsRow
  <2> QED BY <2>1, Zenon DEF ActionMoved, Record, Fields, IsRow
<1>5. r.kind = "action_transition"
  BY DEF Else
<1> HIDE DEF instances, instance, db, transitions, r, z, n
<1>6. Apart(instance, x.db)
  BY <1>1, <1>2, OneApart
<1>7. Apart(db, instance)
  <2>1. IsRow(instance, Tables) /\ instance.raised = FALSE
    BY <1>6 DEF Apart
  <2> QED BY <1>1, <1>3, <2>1, OneApart
<1>8. Apart(db, x.db)
  BY <1>6, <1>7, ApartTwice
<1>9. {"interactions", "participants", "events"} \cup Copied
          \subseteq Tables \ (LeftAlone \cup {"raised"})
  BY DEF Tables, LeftAlone, Copied
<1>10. Appends(z, x, r)
  BY <1>4, <1>8, <1>9 DEF Appends, Apart, n
<1>11. ASSUME NEW y, IsRow(y, Tables), y.raised = FALSE, \A t \in Copied : y[t] = x.db[t]
       PROVE  Projected(Rebuild(y, r), y, z.db)
  <2>1. Rebuild(y, r) = y
    BY <1>5 DEF Rebuild, RebuildDecision
  <2> QED BY <1>4, <1>8, <1>9, <1>11, <2>1 DEF Projected, SameRest, Apart
<1>12. Kept(z)
  BY <1>10, <1>11, ProjectedKeeps
<1> QED BY <1>12 DEF z

LEMMA ActionEndedKeeps ==
    ASSUME NEW x, Kept(x), NEW id, NEW episode
    PROVE  Kept(ActionEnded(x, id, episode))
<1> DEFINE z == ActionEnded(x, id, episode)
           n == x.number + 1
           body == [kind |-> "action_episode", id |-> id, status |-> episode.status,
                    events |-> episode.events]
           r == Else(body, [number |-> n])
           row == [record |-> n, status |-> episode.status, events |-> episode.events]
           db == AppendActionEpisode(x.db, id, n, episode)
<1>1. /\ IsRow(x, Fields) /\ IsRow(x.db, Tables) /\ x.db.raised = FALSE
  BY DbKept
<1>2. db = [x.db EXCEPT !["action_episodes"] = Put(x.db.action_episodes, id, row)]
  BY DEF AppendActionEpisode
<1>3. /\ IsRow(z, Fields) /\ z.number = n /\ z.log = Append(x.log, r) /\ z.db = db
      /\ z.episodes = x.episodes /\ z.keys = x.keys /\ z.engagements = x.engagements
  <2>1. DOMAIN x = Fields
    BY <1>1 DEF IsRow
  <2> QED BY <2>1, Zenon DEF ActionEnded, Record, Fields, IsRow
<1>4. r.kind = "action_episode" /\ r.id = id /\ r.number = n
      /\ r.status = episode.status /\ r.events = episode.events
  BY DEF Else
<1>5. \A y : Rebuild(y, r) = [y EXCEPT !["action_episodes"] = Put(y.action_episodes, id, row)]
  <2> HIDE DEF r, n
  <2> QED BY <1>4 DEF Rebuild, RebuildDecision, AppendActionEpisode
<1> HIDE DEF z, n, body, r, row, db
<1>6. /\ {"action_episodes", "raised", "interactions", "participants", "events"} \subseteq Tables
      /\ "raised" \notin LeftAlone \cup Copied /\ Copied \subseteq Tables
      /\ LeftAlone \subseteq Tables
      /\ LeftAlone \cap (Copied \cup {"interactions", "participants"}) = {}
      /\ Copied \cap {"interactions", "participants"} = {} /\ "events" \in Copied
      /\ "action_episodes" \in Copied
  BY DEF Tables, LeftAlone, Copied
<1>7. OneTable(db, x.db, "action_episodes", Put(x.db.action_episodes, id, row))
  BY <1>1, <1>2, <1>6, OneTableIs
<1>8. /\ IsRow(db, Tables) /\ db.raised = FALSE
      /\ db.action_episodes = Put(x.db.action_episodes, id, row)
      /\ \A t \in Tables : t # "action_episodes" => db[t] = x.db[t]
  BY <1>7 DEF OneTable
<1>9. Appends(z, x, r)
  BY <1>3, <1>6, <1>8 DEF Appends, n
<1>10. ASSUME NEW y, IsRow(y, Tables), y.raised = FALSE, \A t \in Copied : y[t] = x.db[t]
       PROVE  Projected(Rebuild(y, r), y, z.db)
  <2> DEFINE u == Rebuild(y, r)
  <2>1. /\ IsRow(u, Tables) /\ u.raised = FALSE
        /\ u.action_episodes = Put(y.action_episodes, id, row)
        /\ \A t \in Tables : t # "action_episodes" => u[t] = y[t]
    <3>1. u = [y EXCEPT !["action_episodes"] = Put(y.action_episodes, id, row)]
      BY <1>5
    <3> HIDE DEF u
    <3>2. OneTable(u, y, "action_episodes", Put(y.action_episodes, id, row))
      BY <1>6, <1>10, <3>1, OneTableIs
    <3> QED BY <3>2 DEF OneTable
  <2> HIDE DEF u
  <2>2. \A t \in Copied : u[t] = db[t]
    BY <1>6, <1>8, <1>10, <2>1
  <2> QED BY <1>3, <1>6, <2>1, <2>2 DEF Projected, SameRest, u
<1>11. Kept(z)
  BY <1>9, <1>10, ProjectedKeeps
<1> QED BY <1>11 DEF z

LEMMA DecisionEventKeeps ==
    ASSUME NEW x, Kept(x), NEW e
    PROVE  Kept(CollectDecisionEvent(x, e))
<1> DEFINE tracked == TrackDecision(x, e)
           told == ProjectTool(tracked, e)
           sourced == TrackActionSource(told, e)
           actions == [told.actions EXCEPT ![e.action].events = @ \cup {e.id}]
           episode == [status |-> ActionEvent[e.type],
                       events |-> Get(sourced.actions, e.action, [events |-> {}]).events
                                      \cup {e.id}]
           moved == ActionMoved(sourced, e, episode)
           done == ActionEnded(moved, e.action, episode)
<1>1. Kept(tracked)
  BY TrackDecisionKeeps
<1> HIDE DEF tracked
<1>2. Kept(told)
  BY <1>1, ToolKeeps
<1> HIDE DEF told
<1>3. Kept(sourced)
  <2>1. sourced = told \/ sourced = [told EXCEPT !.actions = actions]
    <3>1. DOMAIN told = Fields
      BY <1>2, DbKept
    <3> QED BY <3>1 DEF TrackActionSource
  <2> HIDE DEF sourced, actions
  <2> QED BY <1>2, <2>1, ActionsKeep
<1> HIDE DEF sourced
<1>4. CollectDecisionEvent(x, e) \in {sourced, moved, done}
  <2>1. CollectDecisionEvent(x, e) = CollectAction(sourced, e)
    BY DEF CollectDecisionEvent, sourced, told, tracked
  <2> HIDE DEF moved, done
  <2>2. CollectAction(sourced, e) \in {sourced, moved, done}
    BY DEF CollectAction, moved, done
  <2> QED BY <2>1, <2>2
<1> HIDE DEF episode
<1>5. Kept(moved)
  BY <1>3, ActionMovedKeeps
<1> HIDE DEF moved
<1>6. Kept(done)
  BY <1>5, ActionEndedKeeps
<1> HIDE DEF done
<1> QED BY <1>3, <1>4, <1>5, <1>6

-----------------------------------------------------------------------------
(* Traces.                                                                 *)

\* A trace is of a kind that the collector knows, and options are finitely many.
TraceSound(t) ==
    /\ t.kind \in {"engagement_compilation", "decision_request", "decision_result",
                   "model_request", "model_turn", "model_error"}
    /\ t.kind = "decision_request" => IsFiniteSet(t.options)

OptionStep(x, db, option) == AppendOption(db, x[1], option, option = x[2])
OptionsSoFar(x, T, db) == Apart(db, x[3]) /\ x[1] \in DOMAIN db.decisions

Offering == INSTANCE FoldFacts WITH Op <- OptionStep, P <- OptionsSoFar

AllOffered(db, id, selected, options) ==
    FoldSet(LAMBDA option, y : AppendOption(y, id, option, option = selected), db, options)

LEMMA OptionsApart ==
    ASSUME NEW db, IsRow(db, Tables), db.raised = FALSE, NEW id, id \in DOMAIN db.decisions,
           NEW selected, NEW options, IsFiniteSet(options)
    PROVE  Apart(AllOffered(db, id, selected, options), db)
<1> DEFINE k == <<id, selected, db>>
<1>0. k[1] = id /\ k[2] = selected /\ k[3] = db
  OBVIOUS
<1>1. AllOffered(db, id, selected, options) = Offering!Gathered(k, db, options)
  BY DEF AllOffered, OptionStep, FoldSet, MapThenFoldSet, Offering!Gathered, Offering!MapThenFoldSet
<1> HIDE DEF k
<1>2. IsFiniteSet(options)
  OBVIOUS
<1>3. OptionsSoFar(k, {}, db)
  BY <1>0 DEF OptionsSoFar, Apart
<1>4. \A T \in SUBSET options : \A option \in options \ T : \A y :
          OptionsSoFar(k, T, y) => OptionsSoFar(k, T \cup {option}, OptionStep(k, y, option))
  <2> SUFFICES ASSUME NEW T \in SUBSET options, NEW option \in options \ T, NEW y,
                      OptionsSoFar(k, T, y)
               PROVE  OptionsSoFar(k, T \cup {option}, OptionStep(k, y, option))
    OBVIOUS
  <2>1. Apart(y, db) /\ IsRow(y, Tables) /\ y.raised = FALSE /\ id \in DOMAIN y.decisions
    BY <1>0 DEF OptionsSoFar, Apart
  <2> DEFINE chosen == option = selected
             w == AppendOption(y, id, option, chosen)
  <2>2. OptionStep(k, y, option) = w
    BY <1>0 DEF OptionStep
  <2> HIDE DEF chosen
  <2>3. Apart(w, y)
    BY <2>1, AppendOptionIs
  <2> HIDE DEF w
  <2>4. Apart(w, db) /\ id \in DOMAIN w.decisions
    BY <2>1, <2>3, ApartTwice DEF Apart
  <2> QED BY <1>0, <2>2, <2>4 DEF OptionsSoFar
<1>5. OptionsSoFar(k, options, Offering!Gathered(k, db, options))
  BY <1>2, <1>3, <1>4, Offering!KeepsAll, LeastOf, Sized
<1> QED BY <1>0, <1>1, <1>5 DEF OptionsSoFar

LEMMA RequestTraceKeeps ==
    ASSUME NEW x, Kept(x), NEW t, IsFiniteSet(t.options)
    PROVE  Kept(ProjectDecisionRequest(x, t))
<1> DEFINE id == t.decision
           d == [Get(x.decisions, id, NewDecision) EXCEPT !.context = t.options]
           told == AppendDecision(x.db, id, x.number, d.status, d)
           db == AllOffered(told, id, d.selected, t.options)
           decisions == Put(x.decisions, id, d)
           z == [x EXCEPT !.decisions = decisions, !.db = db]
<1>1. IsRow(x.db, Tables) /\ x.db.raised = FALSE
  BY DbKept
<1>2. Apart(told, x.db) /\ id \in DOMAIN told.decisions
  <2> HIDE DEF d, told
  <2> QED BY <1>1, AppendDecisionIs DEF told
<1>3. ProjectDecisionRequest(x, t) = z
  BY DEF ProjectDecisionRequest, AllOffered
<1> HIDE DEF told, d, id
<1>4. Apart(db, told)
  BY <1>2, OptionsApart DEF Apart
<1> HIDE DEF db, decisions
<1>5. Apart(db, x.db)
  BY <1>2, <1>4, ApartTwice
<1>6. Kept(z)
  <2> HIDE DEF z
  <2> QED BY <1>5, DecisionRowKeeps DEF z
<1> QED BY <1>3, <1>6

LEMMA ResultTraceKeeps ==
    ASSUME NEW x, Kept(x), NEW t
    PROVE  Kept(ProjectDecisionResult(x, t))
<1> DEFINE d == Get(x.decisions, t.decision, NewDecision)
           status == IF d.status \in TerminalDecisions THEN d.status ELSE t.status
           db == AppendDecision(x.db, t.decision, x.number, status, d)
<1>1. IsRow(x.db, Tables) /\ x.db.raised = FALSE
  BY DbKept
<1>2. ProjectDecisionResult(x, t) = [x EXCEPT !.db = db]
  BY DEF ProjectDecisionResult
<1> HIDE DEF d, status
<1>3. Apart(db, x.db)
  <2> HIDE DEF db
  <2> QED BY <1>1, AppendDecisionIs DEF db
<1> HIDE DEF db
<1>4. Kept([x EXCEPT !.db = db])
  BY <1>3, DbKeeps
<1> QED BY <1>2, <1>4

LEMMA ModelTraceKeeps ==
    ASSUME NEW x, Kept(x), NEW t, t.kind \in {"model_request", "model_turn", "model_error"}
    PROVE  Kept(ProjectModel(x, t))
<1> DEFINE request == AppendModelRequest(x.db, t.request, t.status)
           requests == Put(x.db.model_requests, t.request, t.status)
           Turn(role) == AppendModelTurn(request, t.request, role)
           Turns(role) == Put(request.turns, t.request, role)
<1>1. /\ IsRow(x.db, Tables) /\ x.db.raised = FALSE
      /\ {"model_requests", "turns"} \subseteq LeftAlone \ {"decisions"}
  BY DbKept DEF LeftAlone
<1>2. request = [x.db EXCEPT !["model_requests"] = requests]
  BY DEF AppendModelRequest
<1>3. \A role : Turn(role) = [request EXCEPT !["turns"] = Turns(role)]
  BY DEF AppendModelTurn
<1> HIDE DEF request, requests
<1>4. Apart(request, x.db)
  BY <1>1, <1>2, OneApart
<1>5. ASSUME NEW role PROVE Apart(Turn(role), x.db)
  <2> DEFINE turn == Turn(role)
             turns == Turns(role)
  <2>1. IsRow(request, Tables) /\ request.raised = FALSE
        /\ turn = [request EXCEPT !["turns"] = turns]
    BY <1>3, <1>4 DEF Apart
  <2> HIDE DEF turn, turns, Turn, Turns
  <2>2. Apart(turn, request)
    BY <1>1, <2>1, OneApart
  <2>3. Apart(turn, x.db)
    BY <1>4, <2>2, ApartTwice
  <2> QED BY <2>3 DEF turn
<1> DEFINE db == CASE t.kind = "model_request" -> request
                   [] t.kind = "model_turn"    -> Turn("assistant")
                   [] t.kind = "model_error"   -> Turn("error")
<1>6. ProjectModel(x, t) = [x EXCEPT !.db = db]
  BY DEF ProjectModel, request
<1> HIDE DEF Turn
<1>7. db \in {request, Turn("assistant"), Turn("error")}
  OBVIOUS
<1> HIDE DEF db
<1>8. Apart(db, x.db)
  BY <1>4, <1>5, <1>7
<1>9. Kept([x EXCEPT !.db = db])
  BY <1>8, DbKeeps
<1> QED BY <1>6, <1>9

-----------------------------------------------------------------------------
(* Engagements.                                                            *)

EngagementsKeep(x, engagements) == [x EXCEPT !.engagements = engagements]

LEMMA EngagementNoted ==
    ASSUME NEW x, Kept(x), NEW engagements, IsFiniteSet(DOMAIN engagements)
    PROVE  Kept(EngagementsKeep(x, engagements))
<1> DEFINE z == EngagementsKeep(x, engagements)
<1>1. DOMAIN x = Fields /\ x.number \in Nat /\ IsRow(x.db, Tables) /\ x.db.raised = FALSE
      /\ IsFiniteSet(Range(x.keys))
  BY DbKept
<1>2. /\ IsRow(z, Fields) /\ z.number = x.number /\ z.log = x.log /\ z.db = x.db
      /\ z.episodes = x.episodes /\ z.keys = x.keys /\ z.engagements = engagements
  BY <1>1, Zenon DEF Fields, IsRow, EngagementsKeep
<1> HIDE DEF z
<1>3. Kept(z)
  BY <1>1, <1>2, Aside
<1> QED BY <1>3 DEF z

\* What a record of an engagement makes of the three tables.
EngagementRows(old, r) ==
    LET was == Get(old, r.id, r.engagement) IN
    Put(old, r.id,
        [record |-> r.number, status |-> r.engagement.status,
         compiler |-> IF r.engagement.compiler # Absent THEN r.engagement.compiler
                      ELSE was.compiler,
         started |-> r.engagement.started \/ was.started,
         outcome |-> IF r.engagement.outcome # Absent THEN r.engagement.outcome
                     ELSE was.outcome])

GroupRows(old, r) ==
    [key \in {r.id} \X DOMAIN r.groups |->
        [record |-> r.number, validation |-> r.groups[key[2]].validation,
         execution |-> r.groups[key[2]].execution]] @@ old

InvocationRows(old, r) ==
    [key \in UNION {{<<r.id, group, i>> : i \in DOMAIN r.groups[group].invocations} :
                       group \in DOMAIN r.groups} |->
        [record |-> r.number, status |-> r.groups[key[2]].invocations[key[3]]]] @@ old

Persists(new, db, r) ==
    /\ IsRow(new, Tables) /\ new.raised = FALSE
    /\ new.engagements = EngagementRows(db.engagements, r)
    /\ new.engagement_groups = GroupRows(db.engagement_groups, r)
    /\ new.invocations = InvocationRows(db.invocations, r)
    /\ \A t \in Tables : t \notin {"engagements", "engagement_groups", "invocations"}
           => new[t] = db[t]

LEMMA PersistIs ==
    ASSUME NEW db, IsRow(db, Tables), db.raised = FALSE, NEW r
    PROVE  Persists(PersistEngagementFeature(db, r), db, r)
<1> DEFINE one == AppendEngagement(db, r.id, r.number, r.engagement)
           new == PersistEngagementFeature(db, r)
           rows == EngagementRows(db.engagements, r)
           groups == GroupRows(one.engagement_groups, r)
           invocations == InvocationRows(one.invocations, r)
<1>1. one = [db EXCEPT !.engagements = rows]
  BY DEF AppendEngagement, EngagementRows
<1>2. new = [one EXCEPT !.engagement_groups = groups, !.invocations = invocations]
  <2> HIDE DEF one
  <2> QED BY DEF PersistEngagementFeature, AppendEngagementGroups, GroupRows, InvocationRows, one
<1>3. DOMAIN db = Tables
      /\ {"engagements", "engagement_groups", "invocations", "raised"} \subseteq Tables
  BY DEF IsRow, Tables, Copied
<1> HIDE DEF rows, one
<1>4. /\ IsRow(one, Tables) /\ one.engagements = rows
      /\ \A t \in Tables : t # "engagements" => one[t] = db[t]
  BY <1>1, <1>3 DEF IsRow
<1>5. one.engagement_groups = db.engagement_groups /\ one.invocations = db.invocations
      /\ one.raised = FALSE
  BY <1>3, <1>4
<1> HIDE DEF groups, invocations, new
<1>6. /\ IsRow(new, Tables) /\ new.engagement_groups = groups /\ new.invocations = invocations
      /\ \A t \in Tables : t \notin {"engagement_groups", "invocations"} => new[t] = one[t]
  BY <1>2, <1>3, <1>4 DEF IsRow
<1> QED BY <1>3, <1>4, <1>5, <1>6 DEF Persists, new, groups, invocations, rows

LEMMA FeatureKeeps ==
    ASSUME NEW x, Kept(x), NEW id, NEW private,
           NEW z, z = PersistFeature(x, id, private)
    PROVE  Kept(z) /\ z.engagements = x.engagements
<1> DEFINE n == x.number + 1
           g == x.engagements[id]
           body == [kind |-> "engagement_feature", id |-> id, private |-> private,
                    engagement |-> [status |-> g.status, compiler |-> g.compiler,
                                    started |-> g.started, outcome |-> g.outcome],
                    groups |-> IF private THEN g.groups ELSE PublicGroups(g.groups)]
           r == Else(body, [number |-> n])
           db == PersistEngagementFeature(x.db, r)
<1>1. IsRow(x, Fields) /\ IsRow(x.db, Tables) /\ x.db.raised = FALSE /\ IsSeq(x.log)
  BY DbKept
<1>2. DOMAIN x = Fields
  BY <1>1 DEF IsRow
<1>3. r.kind = "engagement_feature"
  BY DEF Else
<1> HIDE DEF r, db
<1> DEFINE y == [x EXCEPT !.number = @ + 1, !.log = Append(@, r)]
<1>4. z = [y EXCEPT !.db = PersistEngagementFeature(@, Last(y.log))]
  BY DEF PersistFeature, Persisted, Record, r
<1>5. y.log = Append(x.log, r) /\ y.db = x.db
  BY <1>2 DEF Fields
<1>6. Last(y.log) = r
  <2> DEFINE more == Append(x.log, r)
  <2>1. more[Len(more)] = r
    BY <1>1, Appended
  <2> HIDE DEF y
  <2> QED BY <1>5, <2>1 DEF Last
<1>7. z = [x EXCEPT !.number = @ + 1, !.log = Append(@, r), !.db = db]
  <2>1. z = [y EXCEPT !.db = db]
    <3> HIDE DEF y
    <3> QED BY <1>4, <1>5, <1>6 DEF db
  <2> QED BY <2>1, <1>2, Zenon DEF Fields
<1>8. /\ IsRow(z, Fields) /\ z.number = n /\ z.log = Append(x.log, r) /\ z.db = db
      /\ z.episodes = x.episodes /\ z.keys = x.keys /\ z.engagements = x.engagements
  BY <1>2, <1>7, Zenon DEF Fields, IsRow
<1> HIDE DEF y, body, g
<1>9. Persists(db, x.db, r)
  BY <1>1, PersistIs DEF db
<1>10. /\ {"engagements", "engagement_groups", "invocations"} \subseteq Copied
       /\ {"interactions", "participants", "events", "raised"} \subseteq Tables
       /\ "raised" \notin LeftAlone \cup Copied /\ Copied \subseteq Tables
       /\ LeftAlone \subseteq Tables
       /\ LeftAlone \cap (Copied \cup {"interactions", "participants"}) = {}
       /\ Copied \cap {"interactions", "participants"} = {} /\ "events" \in Copied
  BY DEF Tables, LeftAlone, Copied
<1>11. Appends(z, x, r)
  BY <1>8, <1>9, <1>10 DEF Appends, Persists, n
<1>12. ASSUME NEW w, IsRow(w, Tables), w.raised = FALSE, \A t \in Copied : w[t] = x.db[t]
       PROVE  Projected(Rebuild(w, r), w, z.db)
  <2> DEFINE u == Rebuild(w, r)
  <2>1. u = PersistEngagementFeature(w, r)
    BY <1>3 DEF Rebuild
  <2> HIDE DEF u
  <2>2. Persists(u, w, r)
    BY <1>12, <2>1, PersistIs
  <2>3. w.engagements = x.db.engagements /\ w.engagement_groups = x.db.engagement_groups
        /\ w.invocations = x.db.invocations
    BY <1>10, <1>12
  <2>4. \A t \in Copied : u[t] = db[t]
    BY <1>9, <1>10, <1>12, <2>2, <2>3 DEF Persists
  <2> QED BY <1>8, <1>10, <2>2, <2>4 DEF Projected, SameRest, Persists, u
<1>13. Kept(z)
  BY <1>11, <1>12, ProjectedKeeps
<1> QED BY <1>8, <1>13

LEMMA BothKeep ==
    ASSUME NEW x, Kept(x), NEW id, NEW public
    PROVE  Kept(PersistBoth(x, id, public))
<1> DEFINE one == PersistFeature(x, id, TRUE)
           two == PersistFeature(one, id, FALSE)
<1>1. Kept(one)
  BY FeatureKeeps
<1>2. PersistBoth(x, id, public) \in {one, two}
  <2> HIDE DEF one
  <2> QED BY DEF PersistBoth, one
<1> HIDE DEF one
<1>3. Kept(two)
  BY <1>1, FeatureKeeps
<1> HIDE DEF two
<1> QED BY <1>1, <1>2, <1>3

LEMMA PutEngagementKeeps ==
    ASSUME NEW x, Kept(x), NEW id, NEW g
    PROVE  Kept(EngagementsKeep(x, Put(x.engagements, id, g)))
<1> DEFINE new == Put(x.engagements, id, g)
<1>1. IsFiniteSet(DOMAIN x.engagements)
  BY DbKept
<1>2. IsFiniteSet(DOMAIN new)
  <2> HIDE DEF new
  <2> QED BY <1>1, PutFinite DEF new
<1> HIDE DEF new
<1>3. Kept(EngagementsKeep(x, new))
  BY <1>2, EngagementNoted
<1> QED BY <1>3 DEF new

LEMMA EngagementEventKeeps ==
    ASSUME NEW x, Kept(x), NEW e
    PROVE  Kept(CollectEngagementEvent(x, e))
<1> DEFINE g == ProjectEngagementEvent(Get(x.engagements, e.engagement, NewEngagement), e)
           y == EngagementsKeep(x, Put(x.engagements, e.engagement, g))
           public == ~e.private \/ e.type = "engagement.capability_committed"
<1>1. CollectEngagementEvent(x, e) = PersistBoth(y, e.engagement, public)
  <2> HIDE DEF g
  <2> QED BY DEF CollectEngagementEvent, EngagementsKeep, g
<1> HIDE DEF g
<1>2. Kept(y)
  BY PutEngagementKeeps
<1> HIDE DEF y, public
<1> QED BY <1>1, <1>2, BothKeep

LEMMA EngagementTraceKeeps ==
    ASSUME NEW x, Kept(x), NEW id
    PROVE  Kept(ProjectEngagementTrace(x, id))
<1> DEFINE g == Get(x.engagements, id, NewEngagement)
           y == EngagementsKeep(x, Put(x.engagements, id, g))
           public == g.status \in Settled
<1>1. ProjectEngagementTrace(x, id) = PersistBoth(y, id, public)
  BY DEF ProjectEngagementTrace, EngagementsKeep
<1> HIDE DEF g
<1>2. Kept(y)
  BY PutEngagementKeeps
<1> HIDE DEF y, public
<1> QED BY <1>1, <1>2, BothKeep

SettlingStep(x, y, id) ==
    PersistFeature(PersistFeature([y EXCEPT !.engagements[id] = Unfinished(@)], id, TRUE),
                   id, FALSE)
SettledSoFar(x, T, y) == Kept(y)

Settling == INSTANCE FoldFacts WITH Op <- SettlingStep, P <- SettledSoFar

LEMMA SettlingKeeps ==
    ASSUME NEW x, Kept(x), NEW id
    PROVE  Kept(SettlingStep(0, x, id))
<1> DEFINE new == [x.engagements EXCEPT ![id] = Unfinished(@)]
           y == EngagementsKeep(x, new)
           one == PersistFeature(y, id, TRUE)
           two == PersistFeature(one, id, FALSE)
<1>1. IsFiniteSet(DOMAIN new) /\ DOMAIN x = Fields
  BY DbKept
<1>2. SettlingStep(0, x, id) = two
  <2>1. [x EXCEPT !.engagements[id] = Unfinished(@)] = y
    BY DEF EngagementsKeep
  <2> QED BY <2>1 DEF SettlingStep
<1> HIDE DEF new
<1>3. Kept(y)
  BY <1>1, EngagementNoted
<1> HIDE DEF y
<1>4. Kept(one)
  BY <1>3, FeatureKeeps
<1> HIDE DEF one
<1>5. Kept(two)
  BY <1>4, FeatureKeeps
<1> QED BY <1>2, <1>5

LEMMA OpenEngagementsKeep ==
    ASSUME NEW x, Kept(x)
    PROVE  Kept(CloseOpenEngagements(x))
<1> DEFINE open == {id \in DOMAIN x.engagements : x.engagements[id].status \notin Settled}
<1>1. CloseOpenEngagements(x) = Settling!Gathered(0, x, open)
  BY DEF CloseOpenEngagements, SettlingStep, FoldSet, MapThenFoldSet, Settling!Gathered,
         Settling!MapThenFoldSet
<1>2. IsFiniteSet(open)
  BY DbKept, FS_Subset
<1> HIDE DEF open
<1>3. IsFiniteSet(open)
  BY <1>2
<1>4. SettledSoFar(0, {}, x)
  BY DEF SettledSoFar
<1>5. \A T \in SUBSET open : \A id \in open \ T : \A y :
          SettledSoFar(0, T, y) => SettledSoFar(0, T \cup {id}, SettlingStep(0, y, id))
  BY SettlingKeeps DEF SettledSoFar
<1>6. SettledSoFar(0, open, Settling!Gathered(0, x, open))
  BY <1>3, <1>4, <1>5, Settling!KeepsAll, LeastOf, Sized
<1> QED BY <1>1, <1>6 DEF SettledSoFar

-----------------------------------------------------------------------------
(* The collector, event by event and trace by trace.                       *)

LEMMA CollectKeeps ==
    ASSUME NEW x, Kept(x), NEW e
    PROVE  Kept(Collect(x, e))
<1> DEFINE next == [x EXCEPT !.number = @ + 1]
           told == CollectDecisionEvent(next, e)
           both == CollectEngagementEvent(told, e)
           engaged == IF e.family = "engagement" THEN both ELSE told
<1>1. Collect(x, e) = CollectInteractionEvent(engaged, e)
  <2> HIDE DEF told
  <2> QED BY DEF Collect, told
<1>2. Kept(next)
  <2> HIDE DEF next
  <2> QED BY NumberedKeeps DEF next
<1> HIDE DEF next
<1>3. Kept(told)
  BY <1>2, DecisionEventKeeps
<1> HIDE DEF told
<1>4. Kept(both)
  BY <1>3, EngagementEventKeeps
<1> HIDE DEF both
<1>5. Kept(engaged)
  BY <1>3, <1>4
<1> HIDE DEF engaged
<1> QED BY <1>1, <1>5, InteractionEventKeeps

LEMMA TraceKeeps ==
    ASSUME NEW x, Kept(x), NEW t, TraceSound(t)
    PROVE  Kept(CollectTrace(x, t))
<1> DEFINE next == [x EXCEPT !.number = @ + 1]
           engaged == ProjectEngagementTrace(next, t.engagement)
           decided == CollectDecisionTrace(next, t)
<1>1. CollectTrace(x, t) = IF t.kind = "engagement_compilation" THEN engaged ELSE decided
  BY DEF CollectTrace
<1>2. Kept(next)
  <2> HIDE DEF next
  <2> QED BY NumberedKeeps DEF next
<1> HIDE DEF next
<1>3. Kept(engaged)
  BY <1>2, EngagementTraceKeeps
<1>4. CASE t.kind = "engagement_compilation"
  <2> HIDE DEF engaged, decided
  <2> QED BY <1>1, <1>3, <1>4
<1>5. CASE t.kind # "engagement_compilation"
  <2> DEFINE asked == ProjectDecisionRequest(next, t)
             answered == ProjectDecisionResult(next, t)
             model == ProjectModel(next, t)
  <2>1. /\ t.kind = "decision_request" => decided = asked
        /\ t.kind = "decision_result" => decided = answered
        /\ t.kind \notin {"decision_request", "decision_result"} => decided = model
    <3> HIDE DEF asked, answered, model
    <3> QED BY DEF CollectDecisionTrace, asked, answered, model
  <2>2. t.kind = "decision_request" => Kept(asked)
    <3>1. t.kind = "decision_request" => IsFiniteSet(t.options)
      BY DEF TraceSound
    <3> HIDE DEF asked
    <3> QED BY <1>2, <3>1, RequestTraceKeeps DEF asked
  <2>3. Kept(answered)
    BY <1>2, ResultTraceKeeps
  <2>4. t.kind \notin {"decision_request", "decision_result"} => Kept(model)
    <3> HIDE DEF model
    <3> QED BY <1>2, <1>5, ModelTraceKeeps DEF TraceSound, model
  <2> HIDE DEF asked, answered, model, engaged, decided
  <2> QED BY <1>1, <1>5, <2>1, <2>2, <2>3, <2>4
<1> QED BY <1>4, <1>5

TracesSound(s) == IsSeq(s) /\ \A i \in DOMAIN s : TraceSound(s[i])

CollectStep(x, y, e) == Collect(y, e)
TraceStep(x, y, t) == CollectTrace(y, t)
CollectedSoFar(x, i, y) == Kept(y)

Collecting == INSTANCE FoldFacts WITH Op <- CollectStep, P <- CollectedSoFar
Draining == INSTANCE FoldFacts WITH Op <- TraceStep, P <- CollectedSoFar

LEMMA AllCollected ==
    ASSUME NEW x, Kept(x), NEW events, IsSeq(events)
    PROVE  Kept(FoldLeft(Collect, x, events))
<1>1. Len(events) \in Nat /\ DOMAIN events = 1..Len(events)
  BY SeqParts
<1>2. CollectedSoFar(0, 0, x)
  BY DEF CollectedSoFar
<1>3. \A i \in 1..Len(events) : \A y :
          CollectedSoFar(0, i - 1, y) => CollectedSoFar(0, i, CollectStep(0, y, events[i]))
  BY CollectKeeps DEF CollectedSoFar, CollectStep
<1>4. CollectedSoFar(0, Len(events), Collecting!Folded(0, x, events))
  BY <1>1, <1>2, <1>3, Collecting!Keeps, LeastOf
<1>5. Collecting!Folded(0, x, events) = FoldLeft(Collect, x, events)
  BY DEF CollectStep, FoldLeft, MapThenFoldSet, Max, Collecting!Folded, Collecting!MapThenFoldSet, Collecting!Greatest
<1> QED BY <1>4, <1>5 DEF CollectedSoFar

LEMMA AllDrained ==
    ASSUME NEW x, Kept(x), TracesSound(traces)
    PROVE  Kept(Drained(x))
<1>1. Len(traces) \in Nat /\ DOMAIN traces = 1..Len(traces)
  BY SeqParts DEF TracesSound
<1>2. CollectedSoFar(0, 0, x)
  BY DEF CollectedSoFar
<1>3. \A i \in 1..Len(traces) : \A y :
          CollectedSoFar(0, i - 1, y) => CollectedSoFar(0, i, TraceStep(0, y, traces[i]))
  BY <1>1, TraceKeeps DEF CollectedSoFar, TraceStep, TracesSound
<1>4. CollectedSoFar(0, Len(traces), Draining!Folded(0, x, traces))
  BY <1>1, <1>2, <1>3, Draining!Keeps, LeastOf
<1>5. Draining!Folded(0, x, traces) = Drained(x)
  BY DEF Drained, TraceStep, FoldLeft, MapThenFoldSet, Max, Draining!Folded, Draining!MapThenFoldSet, Draining!Greatest
<1> QED BY <1>4, <1>5 DEF CollectedSoFar

-----------------------------------------------------------------------------
(* What characters do: they emit some events and leave some traces.        *)

Acts ==
    \E k, now, events, left :
        IsSeq(events) /\ TracesSound(left) /\ EmitsAndRecords(k, now, events, left)

LEMMA NothingLeft == TracesSound(<<>>)
BY NothingListed DEF TracesSound

LEMMA EmitsActs ==
    ASSUME NEW k, NEW at, NEW events, IsSeq(events), Emits(k, at, events)
    PROVE  Acts
BY NothingLeft DEF Acts, Emits

LEMMA RecordsActs ==
    ASSUME NEW k, NEW now, NEW events, IsSeq(events), EmitsAndRecords(k, now, events, <<>>)
    PROVE  Acts
BY NothingLeft DEF Acts

LEMMA GoesActs ==
    ASSUME NEW k, NEW at, Goes(k, at)
    PROVE  Acts
BY NothingListed, EmitsActs DEF Goes

LEMMA SpeechActs ==
    ASSUME NEW k, Speak(k) \/ Deliver(k)
    PROVE  Acts
<1>1. CASE Speak(k)
  BY <1>1, One, EmitsActs DEF Speak
<1>2. CASE Deliver(k)
  BY <1>2, One, EmitsActs DEF Deliver
<1> QED BY <1>1, <1>2

LEMMA TradeActs ==
    ASSUME NEW k,
           \/ Choose(k) \/ Request(k) \/ AssignStaff(k) \/ Authorize(k) \/ StartServing(k)
           \/ TimeOut(k) \/ Conclude(k) \/ Abandon(k)
    PROVE  Acts
<1>1. CASE Choose(k)
  BY <1>1, NothingListed, RecordsActs DEF Choose
<1>2. CASE Request(k)
  BY <1>2, One, Two, EmitsActs DEF Request
<1>3. CASE AssignStaff(k)
  BY <1>3, One, EmitsActs DEF AssignStaff
<1>4. CASE Authorize(k)
  BY <1>4, One, EmitsActs DEF Authorize
<1>5. CASE StartServing(k)
  BY <1>5, One, EmitsActs DEF StartServing
<1>6. CASE TimeOut(k)
  BY <1>6, Two, EmitsActs DEF TimeOut
<1>7. CASE Conclude(k)
  BY <1>7, One, Two, EmitsActs DEF Conclude
<1>8. CASE Abandon(k)
  BY <1>8, GoesActs DEF Abandon
<1> QED BY <1>1, <1>2, <1>3, <1>4, <1>5, <1>6, <1>7, <1>8

LEMMA HandlingActs ==
    ASSUME NEW k, Ask(k) \/ Finish(k) \/ OpenDoor(k) \/ Arrive(k)
    PROVE  Acts
<1>1. CASE Ask(k)
  BY <1>1, Two, EmitsActs DEF Ask
<1>2. CASE Finish(k)
  BY <1>2, One, EmitsActs DEF Finish
<1>3. CASE OpenDoor(k)
  BY <1>3, Two, Three, EmitsActs, RecordsActs DEF OpenDoor
<1>4. CASE Arrive(k)
  BY <1>4, GoesActs DEF Arrive
<1> QED BY <1>1, <1>2, <1>3, <1>4

LEMMA InteractsActs ==
    ASSUME NEW k, Interacts(k)
    PROVE  Acts
BY SpeechActs, TradeActs, HandlingActs DEF Interacts

InOrderStep(x, found, group) == IF group \in x THEN Append(found, group) ELSE found
OutcomesStep(x, events, group) ==
    events \o (IF x[2][group] = "completed" THEN Committed(x[1], group)
               ELSE <<OfGroupEvent(x[1], group, "failed")>>)
ListedSoFar(x, i, found) == IsSeq(found)

Ordering == INSTANCE FoldFacts WITH Op <- InOrderStep, P <- ListedSoFar
Telling == INSTANCE FoldFacts WITH Op <- OutcomesStep, P <- ListedSoFar

LEMMA InOrderListed ==
    ASSUME NEW groups
    PROVE  IsSeq(InOrder(groups))
<1>1. Len(Groups) \in Nat /\ DOMAIN Groups = 1..Len(Groups)
  BY Two, SeqParts DEF Groups
<1>2. ListedSoFar(groups, 0, <<>>)
  BY NothingListed DEF ListedSoFar
<1>3. \A i \in 1..Len(Groups) : \A found :
          ListedSoFar(groups, i - 1, found)
              => ListedSoFar(groups, i, InOrderStep(groups, found, Groups[i]))
  BY Appended DEF ListedSoFar, InOrderStep
<1>4. ListedSoFar(groups, Len(Groups), Ordering!Folded(groups, <<>>, Groups))
  BY <1>1, <1>2, <1>3, Ordering!Keeps, LeastOf
<1>5. Ordering!Folded(groups, <<>>, Groups) = InOrder(groups)
  BY DEF InOrder, InOrderStep, FoldLeft, MapThenFoldSet, Max, Ordering!Folded,
         Ordering!MapThenFoldSet, Ordering!Greatest
<1> QED BY <1>4, <1>5 DEF ListedSoFar

LEMMA CommittedListed ==
    ASSUME NEW k, NEW group
    PROVE  IsSeq(Committed(k, group))
<1> DEFINE n == Cardinality(InvocationsOf(group))
           s == [i \in 1..n |->
                    LET invocation == SetToSeq(InvocationsOf(group))[i] IN
                    Private(k, "capability_committed",
                            [id |-> Nth(k, "committed") \o invocation, group |-> group,
                             invocation |-> invocation])]
           last == <<OfGroupEvent(k, group, "completed")>>
<1>1. n \in Nat
  <2>1. IsFiniteSet({"a"}) /\ IsFiniteSet({"c"})
    BY FS_Singleton
  <2>2. IsFiniteSet({"a"} \cup {"b"}) /\ {"a"} \cup {"b"} = {"a", "b"}
    BY <2>1, FS_AddElement
  <2> QED BY <2>1, <2>2, FS_CardinalityType DEF InvocationsOf
<1>2. Committed(k, group) = s \o last
  BY DEF Committed
<1> HIDE DEF n
<1>3. s = [i \in 1..n |-> s[i]]
  OBVIOUS
<1> HIDE DEF s
<1>4. IsSeq(s)
  BY <1>1, <1>3, Listed
<1>5. IsSeq(last)
  BY One
<1> HIDE DEF last
<1> QED BY <1>2, <1>4, <1>5, Chained

LEMMA OutcomesListed ==
    ASSUME NEW k, NEW before, IsSeq(before), NEW now, NEW settled, IsSeq(settled)
    PROVE  IsSeq(OutcomesOf(k, before, now, settled))
<1> DEFINE x == <<k, now>>
<1>0. x[1] = k /\ x[2] = now
  OBVIOUS
<1>1. Len(settled) \in Nat /\ DOMAIN settled = 1..Len(settled)
  BY SeqParts
<1>2. ListedSoFar(x, 0, before)
  BY DEF ListedSoFar
<1>5. OutcomesOf(k, before, now, settled) = Telling!Folded(x, before, settled)
  BY DEF OutcomesOf, OutcomesStep, FoldLeft, MapThenFoldSet, Max, Telling!Folded,
         Telling!MapThenFoldSet, Telling!Greatest
<1> HIDE DEF x
<1>3. \A i \in 1..Len(settled) : \A events :
          ListedSoFar(x, i - 1, events)
              => ListedSoFar(x, i, OutcomesStep(x, events, settled[i]))
  <2> SUFFICES ASSUME NEW i \in 1..Len(settled), NEW events, IsSeq(events)
               PROVE  IsSeq(OutcomesStep(x, events, settled[i]))
    BY DEF ListedSoFar
  <2> DEFINE done == Committed(k, settled[i])
             failed == <<OfGroupEvent(k, settled[i], "failed")>>
  <2>1. OutcomesStep(x, events, settled[i]) \in {events \o done, events \o failed}
    BY <1>0 DEF OutcomesStep
  <2>2. IsSeq(done) /\ IsSeq(failed)
    BY CommittedListed, One
  <2> HIDE DEF done, failed
  <2> QED BY <2>1, <2>2, Chained
<1>4. ListedSoFar(x, Len(settled), Telling!Folded(x, before, settled))
  BY <1>1, <1>2, <1>3, Telling!Keeps, LeastOf
<1> QED BY <1>4, <1>5 DEF ListedSoFar

LEMMA FirstListed ==
    ASSUME NEW s, IsSeq(s), NEW i \in DOMAIN s
    PROVE  IsSeq(SubSeq(s, 1, i - 1))
<1>1. Len(s) \in Nat /\ DOMAIN s = 1..Len(s)
  BY SeqParts
<1>2. SubSeq(s, 1, i - 1) \in Seq(Range(s))
  BY <1>1 DEF IsSeq
<1> QED BY <1>2, Wider

LEMMA AdvanceActs ==
    ASSUME NEW k, NEW started, IsSeq(started), NEW statuses, Advance(k, started, statuses)
    PROVE  Acts
<1> DEFINE due == InOrder({group \in DOMAIN statuses :
                               statuses[group] \in {"pending", "running"}})
<1>1. IsSeq(due)
  BY InOrderListed
<1>2. \/ \E now, at, last :
            EmitsAndRecords(k, at, OutcomesOf(k, started, now, due) \o <<last>>, <<>>)
      \/ \E i \in DOMAIN due : \E now, at :
            EmitsAndRecords(k, at, OutcomesOf(k, started, now, SubSeq(due, 1, i - 1)), <<>>)
  <2> HIDE DEF due
  <2> QED BY DEF Advance, due
<1> HIDE DEF due
<1>3. ASSUME NEW now, NEW at, NEW last,
             EmitsAndRecords(k, at, OutcomesOf(k, started, now, due) \o <<last>>, <<>>)
      PROVE  Acts
  <2> DEFINE events == OutcomesOf(k, started, now, due) \o <<last>>
  <2>1. IsSeq(events)
    BY <1>1, OutcomesListed, One, Chained
  <2> HIDE DEF events
  <2> QED BY <1>3, <2>1, RecordsActs DEF events
<1>4. ASSUME NEW i \in DOMAIN due, NEW now, NEW at,
             EmitsAndRecords(k, at, OutcomesOf(k, started, now, SubSeq(due, 1, i - 1)), <<>>)
      PROVE  Acts
  <2> DEFINE earlier == SubSeq(due, 1, i - 1)
             events == OutcomesOf(k, started, now, earlier)
  <2>1. IsSeq(earlier)
    BY <1>1, FirstListed
  <2> HIDE DEF earlier
  <2>2. IsSeq(events)
    BY <2>1, OutcomesListed
  <2> HIDE DEF events
  <2> QED BY <1>4, <2>2, RecordsActs DEF events, earlier
<1> QED BY <1>2, <1>3, <1>4

LEMMA CompilerTraceSound ==
    ASSUME NEW k
    PROVE  TracesSound(CompilerTrace(k))
<1> DEFINE t == [kind |-> "engagement_compilation", engagement |-> Nth(k, "engagement")]
<1>1. TraceSound(t)
  BY DEF TraceSound
<1>2. CompilerTrace(k) = <<t>>
  BY DEF CompilerTrace
<1> HIDE DEF t
<1>3. IsSeq(<<t>>) /\ \A i \in DOMAIN <<t>> : TraceSound(<<t>>[i])
  BY <1>1, One
<1> QED BY <1>2, <1>3 DEF TracesSound

LEMMA EngagesActs ==
    ASSUME NEW k, Engages(k)
    PROVE  Acts
<1>1. CASE Engage(k)
  <2> DEFINE asked == Private(k, "requested", NoRows)
             wanted == Private(k, "compilation_requested", NoRows)
             failed == FailedCompilation(k)
             all == <<asked>> \o failed
  <2>1. \/ Emits(k, "over", all)
        \/ EmitsAndRecords(k, [scene[k] EXCEPT !.at = "compiling"], <<asked, wanted>>,
                           CompilerTrace(k))
    BY <1>1 DEF Engage
  <2>2. IsSeq(failed)
    BY Two DEF FailedCompilation
  <2> HIDE DEF failed, asked, wanted
  <2>3. IsSeq(all)
    BY <2>2, One, Chained
  <2> HIDE DEF all
  <2>4. IsSeq(<<asked, wanted>>)
    BY Two
  <2> QED BY <2>1, <2>3, <2>4, CompilerTraceSound, EmitsActs DEF Acts
<1>2. CASE Compiled(k)
  BY <1>2, One, CompilerTraceSound DEF Compiled, Acts
<1>3. CASE CompilationFails(k)
  <2>1. IsSeq(FailedCompilation(k))
    BY Two DEF FailedCompilation
  <2> QED BY <1>3, <2>1, CompilerTraceSound DEF CompilationFails, Acts
<1>4. CASE Execute(k)
  <2> DEFINE begun == <<Engaged(k, "started", NoRows)>>
  <2>1. Advance(k, begun, scene[k].groups) \/ Advance(k, <<>>, scene[k].groups)
    BY <1>4 DEF Execute
  <2>2. IsSeq(begun)
    BY One
  <2> HIDE DEF begun
  <2> QED BY <2>1, <2>2, NothingListed, AdvanceActs
<1>5. CASE Cancel(k)
  <2>1. PICK told, now, left :
            /\ left \in {CompilerTrace(k), <<>>}
            /\ \/ EmitsAndRecords(k, now, <<Private(k, "compilation_cancelled", NoRows)>>
                                              \o <<Ended(k, "cancelled", told)>>, left)
               \/ EmitsAndRecords(k, now, <<>> \o <<Ended(k, "cancelled", told)>>, left)
    BY <1>5 DEF Cancel
  <2> DEFINE one == <<Private(k, "compilation_cancelled", NoRows)>>
             last == <<Ended(k, "cancelled", told)>>
  <2>2. IsSeq(one) /\ IsSeq(last) /\ IsSeq(<<>>)
    BY One, NothingListed
  <2>3. EmitsAndRecords(k, now, one \o last, left) \/ EmitsAndRecords(k, now, <<>> \o last, left)
    BY <2>1
  <2> HIDE DEF one, last
  <2>4. IsSeq(one \o last) /\ IsSeq(<<>> \o last)
    BY <2>2, Chained
  <2>5. TracesSound(left)
    BY <2>1, NothingLeft, CompilerTraceSound
  <2> QED BY <2>3, <2>4, <2>5 DEF Acts
<1> QED BY <1>1, <1>2, <1>3, <1>4, <1>5 DEF Engages

Kinds == {"decision_request", "decision_result", "model_request", "model_turn", "model_error"}

LEMMA OneTraceSound ==
    ASSUME NEW k, NEW kind \in Kinds, NEW status
    PROVE  TraceSound(Trace(k, kind, status))
<1>1. IsFiniteSet({"tool:go"})
  BY FS_Singleton
<1>2. IsFiniteSet({"tool:go"} \cup {"tool:wait"}) /\ {"tool:go"} \cup {"tool:wait"} = Offered
  BY <1>1, FS_AddElement DEF Offered
<1>3. /\ Trace(k, kind, status).kind = kind
      /\ Trace(k, kind, status).options = Offered
  BY DEF Trace
<1> QED BY <1>2, <1>3 DEF TraceSound, Kinds

LEMMA OneTrace ==
    ASSUME NEW a, TraceSound(a)
    PROVE  TracesSound(<<a>>)
<1>1. \A i \in DOMAIN <<a>> : <<a>>[i] = a
  OBVIOUS
<1> QED BY <1>1, One DEF TracesSound

LEMMA TwoTraces ==
    ASSUME NEW a, TraceSound(a), NEW b, TraceSound(b)
    PROVE  TracesSound(<<a, b>>)
<1>1. \A i \in DOMAIN <<a, b>> : <<a, b>>[i] \in {a, b}
  OBVIOUS
<1> QED BY <1>1, Two DEF TracesSound

LEMMA TracesChained ==
    ASSUME NEW s, TracesSound(s), NEW t, TracesSound(t)
    PROVE  TracesSound(s \o t)
<1>1. IsSeq(s \o t)
  BY Chained DEF TracesSound
<1>2. /\ Len(s) \in Nat /\ DOMAIN s = 1..Len(s) /\ Len(t) \in Nat /\ DOMAIN t = 1..Len(t)
      /\ IsSeq(s) /\ IsSeq(t)
  BY SeqParts DEF TracesSound
<1>3. ASSUME NEW i \in DOMAIN (s \o t) PROVE TraceSound((s \o t)[i])
  <2> DEFINE S == Range(s) \cup Range(t)
  <2>1. s \in Seq(S) /\ t \in Seq(S)
    BY <1>2 DEF IsSeq
  <2> HIDE DEF S
  <2>2. \/ i \in DOMAIN s /\ (s \o t)[i] = s[i]
        \/ i - Len(s) \in DOMAIN t /\ (s \o t)[i] = t[i - Len(s)]
    BY <1>2, <2>1
  <2> QED BY <2>2 DEF TracesSound
<1> QED BY <1>1, <1>3 DEF TracesSound

LEMMA FailureSound ==
    ASSUME NEW k, NEW status
    PROVE  TracesSound(Failure(k, status))
<1> DEFINE a == Trace(k, "model_error", status)
           b == Trace(k, "decision_result", status)
<1>1. TraceSound(a) /\ TraceSound(b)
  <2>1. {"model_error", "decision_result"} \subseteq Kinds
    BY DEF Kinds
  <2> QED BY <2>1, OneTraceSound
<1> HIDE DEF a, b
<1>2. TracesSound(<<a, b>>)
  BY <1>1, TwoTraces
<1> QED BY <1>2 DEF Failure, a, b

LEMMA WorksActs ==
    ASSUME NEW k, NEW from, NEW to, NEW left, TracesSound(left), Works(k, from, to, left)
    PROVE  Acts
BY NothingListed DEF Acts, Works

LEMMA ModelActs ==
    ASSUME NEW k, AskModel(k) \/ ModelAnswers(k) \/ ModelFails(k)
    PROVE  Acts
<1>1. Kinds = {"decision_request", "decision_result", "model_request", "model_turn", "model_error"}
  BY DEF Kinds
<1>2. CASE AskModel(k)
  <2> DEFINE left == <<Trace(k, "decision_request", Absent), Trace(k, "model_request", "requested")>>
  <2>1. TracesSound(left)
    BY <1>1, OneTraceSound, TwoTraces
  <2> HIDE DEF left
  <2> QED BY <1>2, <2>1, WorksActs DEF AskModel, left
<1>3. CASE ModelAnswers(k)
  <2> DEFINE Left(status) == <<Trace(k, "model_turn", "completed"), Trace(k, "decision_result", status)>>
  <2>1. \A status : TracesSound(Left(status))
    BY <1>1, OneTraceSound, TwoTraces
  <2> HIDE DEF Left
  <2> QED BY <1>3, <2>1, WorksActs DEF ModelAnswers, Left
<1>4. CASE ModelFails(k)
  <2> DEFINE Left(status) == <<Trace(k, "model_error", status)>>
  <2>1. \A status : TracesSound(Left(status))
    BY <1>1, OneTraceSound, OneTrace
  <2> HIDE DEF Left
  <2> QED BY <1>4, <2>1, WorksActs DEF ModelFails, Left
<1> QED BY <1>2, <1>3, <1>4

LEMMA DecisionActs ==
    ASSUME NEW k, RequestDecision(k) \/ FailDecision(k) \/ CancelDecision(k)
    PROVE  Acts
<1>1. CASE RequestDecision(k)
  BY <1>1, One, RecordsActs DEF RequestDecision
<1>2. CASE FailDecision(k)
  <2> DEFINE events == <<Told(k, "cognition.failed", NoRows)>>
  <2>1. \E now, left : /\ \/ \E status : left = Failure(k, status)
                          \/ left = Failure(k, "timeout") \o Failure(k, "timeout")
                       /\ EmitsAndRecords(k, now, events, left)
    BY <1>2 DEF FailDecision
  <2>2. IsSeq(events)
    BY One
  <2> HIDE DEF events
  <2> QED BY <2>1, <2>2, FailureSound, TracesChained DEF Acts
<1>3. CASE CancelDecision(k)
  BY <1>3, One, FailureSound DEF CancelDecision, Acts
<1> QED BY <1>1, <1>2, <1>3

LEMMA ApplyActs ==
    ASSUME NEW k, ApplyDecision(k)
    PROVE  Acts
<1> DEFINE Tool(type, fields) == Told(k, type, fields)
           completed == <<Told(k, "cognition.completed", NoRows)>>
           proposed(tool) == completed \o <<Tool("tool.proposed", [tool |-> tool])>>
           accepted(tool) == proposed(tool) \o <<Tool("tool.accepted", [tool |-> tool])>>
           rejected(tool) == <<Tool("tool.rejected", [tool |-> tool])>>
           action == [action |-> Nth(k, "action")]
           queued == <<Told(k, "action.queued", action)>>
           committed(tool, fields) == <<Tool("tool.committed", fields @@ [tool |-> tool])>>
           skipped == <<Told(k, "cognition.skipped", NoRows)>>
<1>1. \/ \E tool : \/ Emits(k, "over", completed \o rejected(tool))
                   \/ Emits(k, "over", proposed(tool) \o rejected(tool))
                   \/ Emits(k, "over", accepted(tool) \o rejected(tool))
      \/ Emits(k, "planned", accepted("tool:go") \o queued \o committed("tool:go", action))
      \/ Emits(k, "over", accepted("tool:wait") \o committed("tool:wait", NoRows) \o skipped)
  BY DEF ApplyDecision
<1>2. IsSeq(completed) /\ IsSeq(queued) /\ IsSeq(skipped)
  BY One
<1>3. \A tool : IsSeq(rejected(tool)) /\ IsSeq(<<Tool("tool.proposed", [tool |-> tool])>>)
                /\ IsSeq(<<Tool("tool.accepted", [tool |-> tool])>>)
  BY One
<1>4. \A tool, fields : IsSeq(committed(tool, fields))
  BY One
<1> HIDE DEF Tool, completed, queued, skipped, rejected, committed
<1>5. \A tool : IsSeq(proposed(tool))
  BY <1>2, <1>3, Chained
<1> HIDE DEF proposed
<1>6. \A tool : IsSeq(accepted(tool))
  BY <1>3, <1>5, Chained
<1> HIDE DEF accepted, action
<1>7. \A tool : /\ IsSeq(completed \o rejected(tool)) /\ IsSeq(proposed(tool) \o rejected(tool))
                /\ IsSeq(accepted(tool) \o rejected(tool)) /\ IsSeq(accepted(tool) \o queued)
                /\ IsSeq(accepted(tool) \o committed(tool, NoRows))
  BY <1>2, <1>3, <1>4, <1>5, <1>6, Chained
<1>8. /\ IsSeq(accepted("tool:go") \o queued \o committed("tool:go", action))
      /\ IsSeq(accepted("tool:wait") \o committed("tool:wait", NoRows) \o skipped)
  BY <1>2, <1>4, <1>7, Chained
<1> QED BY <1>1, <1>7, <1>8, EmitsActs

LEMMA PlanActs ==
    ASSUME NEW k, StartAction(k) \/ ActionNoted(k) \/ EndAction(k)
    PROVE  Acts
<1>1. \A status : IsSeq(Carried(k, status))
  BY One DEF Carried
<1>2. CASE StartAction(k)
  BY <1>1, <1>2, EmitsActs DEF StartAction
<1>3. CASE ActionNoted(k)
  BY <1>3, One, EmitsActs DEF ActionNoted
<1>4. CASE EndAction(k)
  BY <1>1, <1>4, EmitsActs DEF EndAction
<1> QED BY <1>2, <1>3, <1>4

LEMMA DecidesActs ==
    ASSUME NEW k, Decides(k)
    PROVE  Acts
BY ModelActs, DecisionActs, ApplyActs, PlanActs DEF Decides

-----------------------------------------------------------------------------
(* The invariant of a run, and what follows.                               *)

RecordingSound ==
    Kept(c) /\ TracesSound(traces) /\ (ended => DOMAIN c.episodes = {})

\* What a branch goes on with open has no row in its dataset: nothing is claimed then.
RecordingInvariant == inherited # {} \/ RecordingSound

LEMMA EmptyTables ==
    ASSUME NEW db, db = EmptyCollector.db
    PROVE  /\ IsRow(db, Tables) /\ db.raised = FALSE
           /\ \A t \in Copied \cup {"interactions"} : db[t] = NoRows
           /\ db.participants = {}
<1> DEFINE a == NoInteractionTables
           b == NoEngagementTables
           d == NoDecisionTables
           e == [raised |-> FALSE]
           de == Else(d, e)
           bde == Else(b, de)
<1>1. db = Else(a, bde)
  BY DEF EmptyCollector
<1>2. /\ DOMAIN a = {"interactions", "participants", "events", "interaction_episodes"}
      /\ a.interactions = NoRows /\ a.participants = {} /\ a.events = NoRows
      /\ a.interaction_episodes = NoRows
  BY DEF NoInteractionTables
<1>3. /\ DOMAIN b = {"engagements", "engagement_groups", "invocations"}
      /\ b.engagements = NoRows /\ b.engagement_groups = NoRows /\ b.invocations = NoRows
  BY DEF NoEngagementTables
<1>4. /\ DOMAIN d = {"decisions", "options", "model_requests", "turns", "tools",
                     "decision_episodes", "action_instances", "transitions", "action_episodes"}
      /\ d.decision_episodes = NoRows /\ d.action_episodes = NoRows
  BY DEF NoDecisionTables
<1>5. DOMAIN e = {"raised"} /\ e.raised = FALSE
  OBVIOUS
<1> HIDE DEF a, b, d, e
<1>6. /\ DOMAIN de = DOMAIN d \cup {"raised"} /\ de.raised = FALSE
      /\ de.decision_episodes = NoRows /\ de.action_episodes = NoRows
  BY <1>4, <1>5 DEF Else
<1> HIDE DEF de
<1>7. /\ DOMAIN bde = DOMAIN b \cup DOMAIN d \cup {"raised"} /\ bde.raised = FALSE
      /\ bde.decision_episodes = NoRows /\ bde.action_episodes = NoRows
      /\ bde.engagements = NoRows /\ bde.engagement_groups = NoRows /\ bde.invocations = NoRows
  BY <1>3, <1>4, <1>6 DEF Else
<1> HIDE DEF bde
<1>8. /\ DOMAIN db = DOMAIN a \cup DOMAIN b \cup DOMAIN d \cup {"raised"} /\ db.raised = FALSE
      /\ db.decision_episodes = NoRows /\ db.action_episodes = NoRows
      /\ db.engagements = NoRows /\ db.engagement_groups = NoRows /\ db.invocations = NoRows
      /\ db.interactions = NoRows /\ db.participants = {} /\ db.events = NoRows
      /\ db.interaction_episodes = NoRows
      /\ db = [t \in DOMAIN db |-> db[t]]
  BY <1>1, <1>2, <1>3, <1>4, <1>7 DEF Else
<1>9. DOMAIN db = Tables
  BY <1>2, <1>3, <1>4, <1>8 DEF Tables, LeftAlone, Copied
<1> QED BY <1>8, <1>9 DEF IsRow, Copied

LEMMA ClearedIs ==
    ASSUME NEW db, IsRow(db, Tables), NEW y, y = Cleared(db)
    PROVE  /\ IsRow(y, Tables) /\ y.raised = db.raised /\ SameRest(y, db)
           /\ \A t \in Copied \cup {"interactions"} : y[t] = NoRows
           /\ y.participants = {}
<1> DEFINE Derived == {"interactions", "participants", "events", "interaction_episodes",
                       "engagements", "engagement_groups", "invocations", "decision_episodes",
                       "action_episodes"}
<1>1. DOMAIN db = Tables /\ Derived \subseteq Tables /\ LeftAlone \cap Derived = {}
      /\ LeftAlone \subseteq Tables /\ "raised" \in Tables
  BY DEF IsRow, Tables, LeftAlone, Copied
<1> HIDE DEF Tables
<1>2. /\ DOMAIN y = Tables /\ IsRow(y, Tables)
      /\ \A t \in Tables : t \notin Derived => y[t] = db[t]
      /\ y.interactions = NoRows /\ y.participants = {} /\ y.events = NoRows
      /\ y.interaction_episodes = NoRows /\ y.engagements = NoRows
      /\ y.engagement_groups = NoRows /\ y.invocations = NoRows
      /\ y.decision_episodes = NoRows /\ y.action_episodes = NoRows
  <2> HIDE DEF NoRows
  <2> QED BY <1>1 DEF Cleared, IsRow
<1>3. SameRest(y, db) /\ y.raised = db.raised
  BY <1>1, <1>2 DEF SameRest
<1> QED BY <1>2, <1>3 DEF Copied

\* A collector that has written nothing, whatever it remembers but open interactions.
LEMMA BareKept ==
    ASSUME NEW x, IsRow(x, Fields), x.number = 0, x.log = <<>>, x.db = EmptyCollector.db,
           DOMAIN x.episodes = {}, IsFiniteSet(Range(x.keys)), IsFiniteSet(DOMAIN x.engagements)
    PROVE  Kept(x)
<1> DEFINE db == x.db
<1>1. /\ IsRow(db, Tables) /\ db.raised = FALSE /\ db.participants = {}
      /\ db.interactions = NoRows /\ \A t \in Copied : db[t] = NoRows
  <2> HIDE DEF db
  <2> QED BY EmptyTables DEF db
<1>3. DOMAIN NoRows = {} /\ Range(NoRows) = {} /\ IsRow(NoRows, {})
  BY DEF NoRows, Range, IsRow
<1>4. IsFiniteSet({})
  BY FS_EmptySet
<1>5. Shape(x)
  BY <1>1, <1>3, <1>4, NothingListed DEF Shape
<1>6. OpenSound(x)
  BY <1>3, <1>4 DEF OpenSound
<1>7. Rebuildable(x)
  <2> SUFFICES ASSUME NEW old, IsRow(old, Tables), old.raised = FALSE
               PROVE  Matches(From(old, x.log), x) /\ SameRest(From(old, x.log), old)
    BY Zenon DEF Rebuildable
  <2> DEFINE y == Cleared(old)
  <2>1. From(old, x.log) = y
    BY FromNothing
  <2>2. /\ IsRow(y, Tables) /\ y.raised = FALSE /\ SameRest(y, old)
        /\ y.interactions = NoRows /\ y.participants = {} /\ \A t \in Copied : y[t] = NoRows
    <3> HIDE DEF y
    <3> QED BY ClearedIs DEF y
  <2> HIDE DEF y
  <2>3. Matches(y, x)
    BY <1>1, <1>3, <2>2 DEF Matches
  <2> QED BY <2>1, <2>2, <2>3
<1> QED BY <1>5, <1>6, <1>7 DEF Kept

LEMMA NothingKept == Kept(EmptyCollector)
<1> DEFINE x == EmptyCollector
<1>1. /\ IsRow(x, Fields) /\ x.number = 0 /\ x.log = <<>> /\ x.episodes = NoRows
      /\ x.keys = NoRows /\ x.engagements = NoRows
  BY DEF EmptyCollector, Fields, IsRow
<1>2. x.db = EmptyCollector.db
  OBVIOUS
<1> HIDE DEF x
<1>3. DOMAIN NoRows = {} /\ Range(NoRows) = {} /\ IsFiniteSet({})
  BY FS_EmptySet DEF NoRows, Range
<1> QED BY <1>1, <1>2, <1>3, BareKept DEF x

LEMMA InitKept ==
    ASSUME Init
    PROVE  RecordingSound
BY NothingKept, NothingLeft DEF Init, RecordingSound

LEMMA ActsKeep ==
    ASSUME RecordingSound, Acts
    PROVE  RecordingSound'
<1>1. PICK k, now, events, left :
          IsSeq(events) /\ TracesSound(left) /\ EmitsAndRecords(k, now, events, left)
  BY DEF Acts
<1>2. /\ c' = FoldLeft(Collect, c, events) /\ traces' = traces \o left
      /\ ended' = ended /\ ~ended
  BY <1>1 DEF EmitsAndRecords, CanRun
<1>3. Kept(c')
  BY <1>1, <1>2, AllCollected DEF RecordingSound
<1>4. TracesSound(traces')
  BY <1>1, <1>2, TracesChained DEF RecordingSound
<1>5. Kept(c)' /\ TracesSound(traces)'
  BY <1>3, <1>4
<1> QED BY <1>2, <1>5 DEF RecordingSound

LEMMA PostSystemsKeeps ==
    ASSUME RecordingAssumption, RecordingSound, PostSystems
    PROVE  RecordingSound'
<1>1. PICK current \in SUBSET Meetings : c' = CaptureExposureIntervals(Drained(c), current)
  BY DEF PostSystems
<1>2. traces' = <<>> /\ ended' = ended /\ ~ended
  BY DEF PostSystems, CanRun
<1>3. IsFiniteSet(current)
  <2> DEFINE some == {pair \in Pairs : scene[pair].at = "idle"}
  <2>1. IsFiniteSet(some)
    BY FS_Subset DEF RecordingAssumption
  <2>2. IsFiniteSet({"co_presence"}) /\ {"co_presence"} \cup {"visibility"} = {"co_presence", "visibility"}
    BY FS_Singleton
  <2>3. IsFiniteSet({"co_presence", "visibility"})
    BY <2>2, FS_AddElement
  <2> HIDE DEF some
  <2>4. IsFiniteSet({"co_presence", "visibility"} \X some)
    BY <2>1, <2>3, FS_Product
  <2>5. IsFiniteSet(Meetings)
    BY <2>4 DEF Meetings, some
  <2> QED BY <2>5, FS_Subset
<1> DEFINE x == Drained(c)
<1>4. Kept(x)
  BY AllDrained DEF RecordingSound
<1> HIDE DEF x
<1>5. Kept(CaptureExposureIntervals(x, current))
  BY <1>3, <1>4, ExposuresKeep
<1>6. Kept(c')
  BY <1>1, <1>5 DEF x
<1> QED BY <1>2, <1>6, NothingLeft DEF RecordingSound

LEMMA FinalizeKeeps ==
    ASSUME RecordingSound, Finalize
    PROVE  RecordingSound'
<1> DEFINE x == Drained(c)
           y == CloseExposures(x)
           z == CloseOpenEngagements(y)
           last == CloseOpenInteractions(z)
<1>1. c' = last /\ traces' = <<>>
  BY DEF Finalize
<1>2. Kept(x)
  BY AllDrained DEF RecordingSound
<1> HIDE DEF x
<1>3. Kept(y)
  BY <1>2, FS_EmptySet, ExposuresKeep
<1> HIDE DEF y
<1>4. Kept(z)
  BY <1>3, OpenEngagementsKeep
<1> HIDE DEF z
<1>5. Kept(last) /\ DOMAIN last.episodes = {}
  <2> HIDE DEF last
  <2> QED BY <1>4, OpenInteractionsClose DEF last
<1> HIDE DEF last
<1> QED BY <1>1, <1>5, NothingLeft DEF RecordingSound

\* A branch that is taken with nothing open goes on as if it began.
LEMMA BranchKeeps ==
    ASSUME RecordingSound, Branch, inherited' = {}
    PROVE  RecordingSound'
<1> DEFINE x == Drained(c)
           y == Restored(x)
<1>1. c' = y /\ traces' = <<>> /\ ended' = ended /\ ~ended /\ DOMAIN y.episodes = {}
  BY DEF Branch, CanRun
<1>2. IsFiniteSet(Range(x.keys)) /\ IsFiniteSet(DOMAIN x.engagements)
  BY AllDrained DEF RecordingSound, Kept, Shape
<1> HIDE DEF x
<1>3. /\ IsRow(y, Fields) /\ y.number = 0 /\ y.log = <<>> /\ y.db = EmptyCollector.db
      /\ y.keys = x.keys /\ y.engagements = x.engagements
  BY DEF Restored, EmptyCollector, Fields, IsRow
<1> HIDE DEF y
<1>4. Kept(y)
  BY <1>1, <1>2, <1>3, BareKept
<1> QED BY <1>1, <1>4, NothingLeft DEF RecordingSound

LEMMA NextKeeps ==
    ASSUME RecordingAssumption, RecordingSound, [Next]_vars, inherited' = {}
    PROVE  RecordingSound'
<1>1. CASE PostSystems
  BY <1>1, PostSystemsKeeps
<1>2. CASE Finalize
  BY <1>2, FinalizeKeeps
<1>3. ASSUME NEW k, Interacts(k) \/ Engages(k) \/ Decides(k)
      PROVE  RecordingSound'
  BY <1>3, InteractsActs, EngagesActs, DecidesActs, ActsKeep
<1>4. ASSUME UNCHANGED <<c, traces, ended>>
      PROVE  RecordingSound'
  BY <1>4 DEF RecordingSound, TracesSound
<1>5. CASE Branch
  BY <1>5, BranchKeeps
<1> QED BY <1>1, <1>2, <1>3, <1>4, <1>5 DEF Next, vars, MoveOn

\* What was inherited is never forgotten.
LEMMA InheritedStays ==
    ASSUME [Next]_vars, inherited # {}
    PROVE  inherited' # {}
<1>1. CASE Branch
  BY <1>1 DEF Branch
<1>2. ASSUME NEW k, Interacts(k) \/ Engages(k) \/ Decides(k)
      PROVE  inherited' = inherited
  BY <1>2, InteractsActs, EngagesActs, DecidesActs DEF Acts, EmitsAndRecords
<1>3. CASE PostSystems \/ Finalize \/ UNCHANGED inherited
  BY <1>3 DEF PostSystems, Finalize
<1> QED BY <1>1, <1>2, <1>3 DEF Next, vars, MoveOn


\* A rebuild of what the invariant holds of gives the tables back.
LEMMA RebuildGivesBack ==
    ASSUME RecordingInvariant, inherited = {}
    PROVE  RebuildAgrees /\ ~c.db.raised
<1> DEFINE db == c.db
           y == Rebuilt
<1>1. /\ IsRow(db, Tables) /\ db.raised = FALSE
      /\ IsRow(db.interactions, DOMAIN db.interactions)
  BY DEF RecordingInvariant, RecordingSound, Kept, Shape
<1>2. Matches(y, c) /\ SameRest(y, db)
  <2>1. y = From(db, c.log)
    BY RebuiltIsFrom
  <2> HIDE DEF y, db
  <2>2. Rebuildable(c)
    BY DEF RecordingInvariant, RecordingSound, Kept
  <2> QED BY <1>1, <2>1, <2>2 DEF Rebuildable
<1> HIDE DEF y
<1>3. /\ y.events = db.events /\ y.interaction_episodes = db.interaction_episodes
      /\ y.participants \subseteq db.participants
  BY <1>2 DEF Matches, Copied
<1>4. ASSUME ended PROVE y = db
  <2>1. DOMAIN c.episodes = {}
    BY <1>4 DEF RecordingInvariant, RecordingSound
  <2>2. y.interactions = db.interactions
    BY <1>1, <1>2, <2>1 DEF Matches, IsRow
  <2>3. y.participants = db.participants
    BY <1>2, <1>3, <2>1 DEF Matches
  <2>4. ASSUME NEW t \in Tables PROVE y[t] = db[t]
    BY <1>1, <1>2, <2>2, <2>3 DEF Matches, SameRest, Tables
  <2> QED BY <1>1, <1>2, <2>4 DEF Matches, IsRow
<1> QED BY <1>1, <1>3, <1>4 DEF RebuildAgrees, y

LEMMA RunKept == Spec => []RecordingInvariant
<1>1. Init => RecordingInvariant
  BY InitKept DEF RecordingInvariant
<1>2. RecordingAssumption /\ RecordingInvariant /\ [Next]_vars => RecordingInvariant'
  BY NextKeeps, InheritedStays DEF RecordingInvariant
<1> QED BY <1>1, <1>2, RecordingAssumption, PTL DEF Spec

\* Nothing the collector writes is refused, whatever characters there are, whatever
\* they emit and whatever traces are left, in whatever order, of a run that begins
\* afresh or branches, again and again, with no interaction open.
THEOREM NeverRaised == Spec => []CaptureNeverRaises
<1>1. RecordingInvariant => CaptureNeverRaises
  BY RebuildGivesBack DEF CaptureNeverRaises
<1> QED BY <1>1, RunKept, PTL

\* The records suffice: a rebuild gives back the events and episodes that were
\* captured, and all of the tables once the run has been finalised, of the same runs.
THEOREM RebuildIsFaithful == Spec => []RebuildAgrees
<1>1. RecordingInvariant => RebuildAgrees
  BY RebuildGivesBack DEF RebuildAgrees
<1> QED BY <1>1, RunKept, PTL
=============================================================================
