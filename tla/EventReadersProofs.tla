-------------------------- MODULE EventReadersProofs --------------------------
(***************************************************************************)
(* What holds of the readers of the bus, for any characters, places, goals  *)
(* and limits and any number of ticks and branches.  A run that has been      *)
(* continued with its events remembers and counts again, so that what is said *)
(* of memories and goals is said of runs that have not been; what is said of  *)
(* sightings holds of both.                                                   *)
(***************************************************************************)
EXTENDS EventReaders, TLAPS, FiniteSetTheorems, SequenceTheorems

\* Every set of numbers has a least one, which the facts about folds rest on.
LEMMA LeastOf ==
    ASSUME NEW S \in SUBSET Nat, S # {}
    PROVE  \E m \in S : \A n \in S : m <= n
<1> DEFINE Less == OpToRel(<, Nat)
<1>0. IsWellFoundedOn(Less, Nat)
  BY NatLessThanWellFounded
<1> HIDE DEF Less
<1>1. PICK m \in S : \A n \in S : ~(<<n, m>> \in Less)
  BY <1>0, WFMin
<1>2. \A n \in S : ~(n < m)
  BY <1>1 DEF Less, OpToRel
<1> QED BY <1>2

-----------------------------------------------------------------------------
(* Sequences.                                                              *)

IsSeq(s) == s \in Seq(Range(s))

\* What is listed from 1 on is a sequence.
LEMMA Listed ==
    ASSUME NEW n \in Nat, NEW s, s = [i \in 1..n |-> s[i]]
    PROVE  IsSeq(s) /\ Len(s) = n /\ DOMAIN s = 1..n
<1>1. s \in [1..n -> Range(s)]
  BY DEF Range
<1>2. s \in Seq(Range(s))
  BY <1>1
<1> QED BY <1>1, <1>2 DEF IsSeq

LEMMA SeqParts ==
    ASSUME NEW s, IsSeq(s)
    PROVE  Len(s) \in Nat /\ DOMAIN s = 1..Len(s) /\ s = [i \in 1..Len(s) |-> s[i]]
BY DEF IsSeq

LEMMA NothingListed == IsSeq(<<>>) /\ Len(<<>>) = 0
BY DEF IsSeq

\* What appending makes of a sequence.
LEMMA Appended ==
    ASSUME NEW s, IsSeq(s), NEW e
    PROVE  /\ IsSeq(Append(s, e)) /\ Len(Append(s, e)) = Len(s) + 1
           /\ \A i \in 1..Len(s) : Append(s, e)[i] = s[i]
           /\ Append(s, e)[Len(s) + 1] = e
<1> DEFINE S == Range(s) \cup {e}
           t == Append(s, e)
<1>1. s \in Seq(S) /\ e \in S
  BY DEF IsSeq
<1>2. /\ t \in Seq(S) /\ Len(t) = Len(s) + 1
      /\ \A i \in 1..Len(s) : t[i] = s[i]
      /\ t[Len(s) + 1] = e
  BY <1>1, AppendProperties
<1> HIDE DEF t, S
<1>3. t = [i \in 1..Len(t) |-> t[i]] /\ Len(t) \in Nat
  BY <1>2
<1>4. IsSeq(t)
  BY <1>3, Listed
<1> QED BY <1>2, <1>4 DEF t

\* What joining makes of two.
LEMMA Joined ==
    ASSUME NEW s, IsSeq(s), NEW t, IsSeq(t)
    PROVE  /\ IsSeq(s \o t) /\ Len(s \o t) = Len(s) + Len(t)
           /\ \A i \in 1..Len(s) : (s \o t)[i] = s[i]
           /\ \A i \in 1..Len(t) : (s \o t)[Len(s) + i] = t[i]
<1> DEFINE S == Range(s) \cup Range(t)
           u == s \o t
<1>1. s \in Seq(S) /\ t \in Seq(S)
  BY DEF IsSeq
<1>2. /\ u \in Seq(S) /\ Len(u) = Len(s) + Len(t)
      /\ \A i \in 1..Len(u) : u[i] = IF i <= Len(s) THEN s[i] ELSE t[i - Len(s)]
  BY <1>1, ConcatProperties
<1>3. Len(s) \in Nat /\ Len(t) \in Nat
  BY SeqParts
<1> HIDE DEF u, S
<1>4. u = [i \in 1..Len(u) |-> u[i]] /\ Len(u) \in Nat
  BY <1>2
<1>5. IsSeq(u)
  BY <1>4, Listed
<1>6. \A i \in 1..Len(s) : u[i] = s[i]
  BY <1>2, <1>3
<1>7. \A i \in 1..Len(t) : u[Len(s) + i] = t[i]
  BY <1>2, <1>3
<1> QED BY <1>2, <1>5, <1>6, <1>7 DEF u

-----------------------------------------------------------------------------
(* Only.                                                                   *)

\* One step of Only, where c is the set and the sequence.
Taken(c, found, x) == IF x \in c[1] THEN Append(found, x) ELSE found

\* The elements of the set among the first i of the sequence.
TakenUpTo(c, i, found) ==
    /\ IsSeq(found)
    /\ \A k \in 1..Len(found) : found[k] \in c[1] /\ \E j \in 1..i : found[k] = c[2][j]
    /\ \A j \in 1..i : c[2][j] \in c[1] => \E k \in 1..Len(found) : found[k] = c[2][j]
    /\ IsInjective(c[2]) => \A k, l \in 1..Len(found) : found[k] = found[l] => k = l

Taking == INSTANCE FoldFacts WITH Op <- Taken, P <- TakenUpTo

LEMMA TakenGrows ==
    ASSUME NEW c, IsSeq(c[2]), NEW i \in 1..Len(c[2]), NEW found, TakenUpTo(c, i - 1, found)
    PROVE  TakenUpTo(c, i, Taken(c, found, c[2][i]))
<1> DEFINE s == c[2]
           x == s[i]
           new == Append(found, x)
<1>1. DOMAIN s = 1..Len(s) /\ Len(s) \in Nat /\ i \in Nat /\ i - 1 \in Nat
  BY SeqParts
<1>2. CASE x \notin c[1]
  BY <1>1, <1>2 DEF Taken, TakenUpTo
<1>3. CASE x \in c[1]
  <2>1. /\ IsSeq(new) /\ Len(new) = Len(found) + 1 /\ Len(found) \in Nat
        /\ \A k \in 1..Len(found) : new[k] = found[k]
        /\ new[Len(found) + 1] = x
    BY Appended, SeqParts DEF TakenUpTo
  <2> HIDE DEF new
  <2>2. \A k \in 1..Len(new) : k \in 1..Len(found) \/ k = Len(found) + 1
    BY <2>1
  <2>3. \A k \in 1..Len(new) : new[k] \in c[1] /\ \E j \in 1..i : new[k] = s[j]
    <3> SUFFICES ASSUME NEW k \in 1..Len(new) PROVE new[k] \in c[1] /\ \E j \in 1..i : new[k] = s[j]
      OBVIOUS
    <3>1. CASE k = Len(found) + 1
      BY <3>1, <1>1, <1>3, <2>1
    <3>2. CASE k \in 1..Len(found)
      <4>1. found[k] \in c[1] /\ \E j \in 1..(i - 1) : found[k] = s[j]
        BY <3>2 DEF TakenUpTo
      <4>2. new[k] = found[k]
        BY <3>2, <2>1
      <4> QED BY <4>1, <4>2, <1>1
    <3> QED BY <3>1, <3>2, <2>2
  <2>4. ASSUME NEW j \in 1..i, s[j] \in c[1]
        PROVE  \E k \in 1..Len(new) : new[k] = s[j]
    <3>1. CASE j = i
      BY <3>1, <2>1
    <3>2. CASE j # i
      <4>1. PICK k \in 1..Len(found) : found[k] = s[j]
        BY <1>1, <2>4, <3>2 DEF TakenUpTo
      <4> QED BY <4>1, <2>1
    <3> QED BY <3>1, <3>2
  <2>5. ASSUME IsInjective(s), NEW k \in 1..Len(new), NEW l \in 1..Len(new), new[k] = new[l]
        PROVE  k = l
    <3>1. \A m \in 1..Len(found) : new[m] # x
      <4> SUFFICES ASSUME NEW m \in 1..Len(found), found[m] = x PROVE FALSE
        BY <2>1
      <4>1. PICK j \in 1..(i - 1) : found[m] = s[j]
        BY DEF TakenUpTo
      <4>2. j \in DOMAIN s /\ i \in DOMAIN s /\ j # i /\ s[j] = s[i]
        BY <4>1, <1>1
      <4> HIDE DEF s
      <4> QED BY <4>2, <2>5 DEF IsInjective
    <3>2. CASE k \in 1..Len(found) /\ l \in 1..Len(found)
      <4>1. found[k] = found[l]
        BY <3>2, <2>1, <2>5
      <4>2. \A m, n \in 1..Len(found) : found[m] = found[n] => m = n
        BY <2>5 DEF TakenUpTo
      <4> QED BY <3>2, <4>1, <4>2
    <3>3. CASE k = Len(found) + 1 /\ l \in 1..Len(found)
      BY <3>1, <3>3, <2>1, <2>5
    <3>4. CASE k \in 1..Len(found) /\ l = Len(found) + 1
      BY <3>1, <3>4, <2>1, <2>5
    <3>5. CASE k = Len(found) + 1 /\ l = Len(found) + 1
      BY <3>5
    <3> HIDE DEF x, s
    <3> QED BY <3>2, <3>3, <3>4, <3>5, <2>2
  <2>6. IsInjective(s) => \A k, l \in 1..Len(new) : new[k] = new[l] => k = l
    BY <2>5
  <2>7. TakenUpTo(c, i, new)
    BY <2>1, <2>3, <2>4, <2>6 DEF TakenUpTo
  <2> QED BY <2>7, <1>3 DEF Taken, new
<1> QED BY <1>2, <1>3

\* What Only keeps of a sequence.
LEMMA OnlyKeeps ==
    ASSUME NEW s, IsSeq(s), NEW T
    PROVE  LET kept == Only(s, T) IN
           /\ IsSeq(kept) /\ Range(kept) = {x \in Range(s) : x \in T}
           /\ IsInjective(s) => IsInjective(kept)
<1> DEFINE c == <<T, s>>
           kept == Only(s, T)
<1>1. c[1] = T /\ c[2] = s /\ DOMAIN s = 1..Len(s) /\ Len(s) \in Nat
  BY SeqParts
<1> HIDE DEF c
<1>2. TakenUpTo(c, 0, <<>>)
  BY <1>1, NothingListed DEF TakenUpTo
<1>3. \A i \in 1..Len(s) : \A found :
          TakenUpTo(c, i - 1, found) => TakenUpTo(c, i, Taken(c, found, s[i]))
  BY <1>1, TakenGrows
<1>4. TakenUpTo(c, Len(s), Taking!Folded(c, <<>>, s))
  BY <1>1, <1>2, <1>3, Taking!Keeps, LeastOf
<1>5. Taking!Folded(c, <<>>, s) = kept
  BY <1>1 DEF Only, Taken, FoldLeft, MapThenFoldSet, Max,
              Taking!Folded, Taking!MapThenFoldSet, Taking!Greatest
<1> HIDE DEF kept
<1>6. IsSeq(kept) /\ DOMAIN kept = 1..Len(kept)
  BY <1>4, <1>5, SeqParts DEF TakenUpTo
<1>7. Range(kept) = {x \in Range(s) : x \in T}
  <2>1. \A k \in 1..Len(kept) : kept[k] \in T /\ \E j \in 1..Len(s) : kept[k] = s[j]
    BY <1>1, <1>4, <1>5 DEF TakenUpTo
  <2>2. \A j \in 1..Len(s) : s[j] \in T => \E k \in 1..Len(kept) : kept[k] = s[j]
    BY <1>1, <1>4, <1>5 DEF TakenUpTo
  <2>3. Range(s) = {s[j] : j \in 1..Len(s)} /\ Range(kept) = {kept[k] : k \in 1..Len(kept)}
    BY <1>1, <1>6 DEF Range
  <2> QED BY <2>1, <2>2, <2>3
<1>8. IsInjective(s) => IsInjective(kept)
  BY <1>1, <1>4, <1>5, <1>6 DEF TakenUpTo, IsInjective
<1> QED BY <1>6, <1>7, <1>8 DEF kept

-----------------------------------------------------------------------------
(* The bus.                                                                *)

EventSound(e) ==
    /\ e.type \in Memorable \cup {"speech.started"} => e.agent \in Characters
    /\ e.type = "speech.delivered" => e.target \subseteq Characters

\* The bus has grown by events of these types, emitted in tick t.
Grown(new, old, t, types) ==
    /\ IsSeq(new) /\ IsSeq(old) /\ Len(old) <= Len(new)
    /\ \A i \in 1..Len(old) : new[i] = old[i]
    /\ \A i \in (Len(old) + 1)..Len(new) :
          EventSound(new[i]) /\ new[i].tick = t /\ new[i].type \in types

LEMMA NotGrown ==
    ASSUME NEW b, IsSeq(b), NEW t, NEW types
    PROVE  Grown(b, b, t, types)
BY SeqParts DEF Grown

LEMMA GrowsByOne ==
    ASSUME NEW new, NEW old, NEW t, NEW types, Grown(new, old, t, types),
           NEW e, EventSound(e), e.tick = t, e.type \in types
    PROVE  Grown(Append(new, e), old, t, types) /\ Grown(Append(new, e), new, t, types)
<1> DEFINE b == Append(new, e)
<1>1. /\ IsSeq(b) /\ Len(b) = Len(new) + 1 /\ Len(new) \in Nat /\ Len(old) \in Nat
      /\ \A i \in 1..Len(new) : b[i] = new[i]
      /\ b[Len(new) + 1] = e
  BY Appended, SeqParts DEF Grown
<1> HIDE DEF b
<1>2. \A i \in (Len(old) + 1)..Len(b) :
          EventSound(b[i]) /\ b[i].tick = t /\ b[i].type \in types
  <2> SUFFICES ASSUME NEW i \in (Len(old) + 1)..Len(b)
               PROVE  EventSound(b[i]) /\ b[i].tick = t /\ b[i].type \in types
    OBVIOUS
  <2>1. CASE i = Len(new) + 1
    BY <2>1, <1>1
  <2>2. CASE i # Len(new) + 1
    <3>1. i \in (Len(old) + 1)..Len(new) /\ i \in 1..Len(new)
      BY <2>2, <1>1
    <3> QED BY <3>1, <1>1 DEF Grown
  <2> QED BY <2>1, <2>2
<1>3. Grown(b, old, t, types)
  BY <1>1, <1>2 DEF Grown
<1>4. Grown(b, new, t, types)
  <2>1. \A i \in (Len(new) + 1)..Len(b) : b[i] = e
    BY <1>1
  <2> QED BY <1>1, <2>1 DEF Grown
<1> QED BY <1>3, <1>4 DEF b

LEMMA GrowsOn ==
    ASSUME NEW c, NEW b, NEW a, NEW t, NEW types, Grown(b, a, t, types), Grown(c, b, t, types)
    PROVE  Grown(c, a, t, types)
<1>1. Len(a) \in Nat /\ Len(b) \in Nat /\ Len(c) \in Nat
  BY SeqParts DEF Grown
<1>2. \A i \in 1..Len(a) : c[i] = a[i]
  BY <1>1 DEF Grown
<1>3. ASSUME NEW i \in (Len(a) + 1)..Len(c)
      PROVE  EventSound(c[i]) /\ c[i].tick = t /\ c[i].type \in types
  <2>1. CASE i \in 1..Len(b)
    <3>1. c[i] = b[i] /\ i \in (Len(a) + 1)..Len(b)
      BY <2>1, <1>1 DEF Grown
    <3> QED BY <3>1 DEF Grown
  <2>2. CASE i \notin 1..Len(b)
    <3>1. i \in (Len(b) + 1)..Len(c)
      BY <2>2, <1>1
    <3> QED BY <3>1 DEF Grown
  <2> QED BY <2>1, <2>2
<1> QED BY <1>1, <1>2, <1>3 DEF Grown

-----------------------------------------------------------------------------
(* What is asked to be remembered.                                         *)

Waits(w, n, r) == \E i \in 1..Len(w) : w[i].event = n /\ w[i].agent = r

Kept(ms, b, n, r) == \E m \in Range(ms) : m.event = n /\ m.agent = r /\ m.tick = b[n].tick

FailedIn(b, n, r) ==
    \E i, j \in 1..Len(b) :
        /\ b[i].type = "memory.requested" /\ b[i].agent = r /\ b[i].cause = n
        /\ b[j].type \in {"memory.failed", "memory.cancelled"} /\ b[j].cause = i

ItemSound(b, x) ==
    /\ x.event \in 1..Len(b) /\ x.agent \in Characters /\ x.tick = b[x.event].tick
    /\ x.request \in 1..Len(b) /\ b[x.request].type = "memory.requested"
    /\ b[x.request].agent = x.agent /\ b[x.request].cause = x.event

\* With the bus b, the queue w and the memories ms: what has been asked, of the pairs
\* of an event and a character in S, is asked once, and each waits, is kept or failed.
Requested(b, w, ms, S) ==
    /\ IsSeq(w) /\ S \subseteq (1..Len(b)) \X Characters
    /\ \A i \in 1..Len(w) :
          /\ ItemSound(b, w[i]) /\ <<w[i].event, w[i].agent>> \in S
          /\ ~Kept(ms, b, w[i].event, w[i].agent)
    /\ \A i, j \in 1..Len(w) : w[i].event = w[j].event /\ w[i].agent = w[j].agent => i = j
    /\ \A n \in 1..Len(b), r \in Characters :
          <<n, r>> \in S /\ b[n].type \in Memorable /\ r \in Recipients(b[n])
          => Waits(w, n, r) \/ Kept(ms, b, n, r) \/ FailedIn(b, n, r)

LEMMA FailedStays ==
    ASSUME NEW a, NEW b, NEW t, NEW types, Grown(b, a, t, types), NEW n, NEW r, FailedIn(a, n, r)
    PROVE  FailedIn(b, n, r)
<1>1. Len(a) \in Nat /\ Len(b) \in Nat /\ Len(a) <= Len(b)
  BY SeqParts DEF Grown
<1>2. PICK i \in 1..Len(a), j \in 1..Len(a) :
        /\ a[i].type = "memory.requested" /\ a[i].agent = r /\ a[i].cause = n
        /\ a[j].type \in {"memory.failed", "memory.cancelled"} /\ a[j].cause = i
  BY DEF FailedIn
<1>3. i \in 1..Len(b) /\ j \in 1..Len(b) /\ b[i] = a[i] /\ b[j] = a[j]
  BY <1>1 DEF Grown
<1> QED BY <1>2, <1>3 DEF FailedIn

LEMMA RequestedLater ==
    ASSUME NEW a, NEW b, NEW t, NEW types, Grown(b, a, t, types), NEW w, NEW ms, NEW S,
           Requested(a, w, ms, S)
    PROVE  Requested(b, w, ms, S)
<1>1. Len(a) \in Nat /\ Len(b) \in Nat /\ Len(a) <= Len(b) /\ \A i \in 1..Len(a) : b[i] = a[i]
  BY SeqParts DEF Grown
<1>2. \A n \in 1..Len(a) : n \in 1..Len(b)
  BY <1>1
<1>3. S \subseteq (1..Len(b)) \X Characters
  BY <1>2 DEF Requested
<1>4. ASSUME NEW i \in 1..Len(w)
      PROVE  /\ ItemSound(b, w[i]) /\ <<w[i].event, w[i].agent>> \in S
             /\ ~Kept(ms, b, w[i].event, w[i].agent)
  <2>1. /\ ItemSound(a, w[i]) /\ <<w[i].event, w[i].agent>> \in S
        /\ ~Kept(ms, a, w[i].event, w[i].agent)
    BY DEF Requested
  <2>2. /\ w[i].event \in 1..Len(b) /\ b[w[i].event] = a[w[i].event]
        /\ w[i].request \in 1..Len(b) /\ b[w[i].request] = a[w[i].request]
    BY <2>1, <1>1, <1>2 DEF ItemSound
  <2> QED BY <2>1, <2>2 DEF ItemSound, Kept
<1>5. ASSUME NEW n \in 1..Len(b), NEW r \in Characters,
             <<n, r>> \in S, b[n].type \in Memorable, r \in Recipients(b[n])
      PROVE  Waits(w, n, r) \/ Kept(ms, b, n, r) \/ FailedIn(b, n, r)
  <2>1. n \in 1..Len(a) /\ b[n] = a[n]
    BY <1>5, <1>1 DEF Requested
  <2>2. Waits(w, n, r) \/ Kept(ms, a, n, r) \/ FailedIn(a, n, r)
    BY <1>5, <2>1 DEF Requested
  <2>3. Kept(ms, a, n, r) => Kept(ms, b, n, r)
    BY <2>1 DEF Kept
  <2>4. FailedIn(a, n, r) => FailedIn(b, n, r)
    BY FailedStays
  <2> QED BY <2>2, <2>3, <2>4
<1> QED BY <1>3, <1>4, <1>5 DEF Requested

\* The pair of an event that nobody has to remember, or of a character it does not concern.
LEMMA PassedOver ==
    ASSUME NEW b, NEW w, NEW ms, NEW S, Requested(b, w, ms, S),
           NEW n \in 1..Len(b), NEW r \in Characters,
           b[n].type \notin Memorable \/ r \notin Recipients(b[n])
    PROVE  Requested(b, w, ms, S \cup {<<n, r>>})
<1> DEFINE T == S \cup {<<n, r>>}
<1>1. T \subseteq (1..Len(b)) \X Characters
  BY DEF Requested
<1>2. \A i \in 1..Len(w) : <<w[i].event, w[i].agent>> \in T
  BY DEF Requested
<1>3. ASSUME NEW k \in 1..Len(b), NEW s \in Characters,
             <<k, s>> \in T, b[k].type \in Memorable, s \in Recipients(b[k])
      PROVE  Waits(w, k, s) \/ Kept(ms, b, k, s) \/ FailedIn(b, k, s)
  <2>1. <<k, s>> \in S
    BY <1>3
  <2> QED BY <1>3, <2>1 DEF Requested
<1> HIDE DEF T
<1>4. Requested(b, w, ms, T)
  BY <1>1, <1>2, <1>3 DEF Requested
<1> QED BY <1>4 DEF T

Asking == {"memory.requested"}

LEMMA EnqueueKeeps ==
    ASSUME NEW q, NEW S, Grown(q.bus, bus, tick, Asking), Requested(q.bus, q.work, memories, S),
           NEW n \in 1..Len(bus), NEW r \in Characters, <<n, r>> \notin S,
           ~Kept(memories, bus, n, r)
    PROVE  LET v == Enqueue(q, n, r) IN
           /\ Grown(v.bus, bus, tick, Asking)
           /\ Requested(v.bus, v.work, memories, S \cup {<<n, r>>})
<1> DEFINE v == Enqueue(q, n, r)
           e == [Happens(r, "memory.requested", None) EXCEPT !.cause = n]
           x == [agent |-> r, event |-> n, tick |-> bus[n].tick, request |-> Len(q.bus) + 1]
           b == Append(q.bus, e)
           w == Append(q.work, x)
           T == S \cup {<<n, r>>}
<1>1. v.bus = b /\ v.work = w
  BY DEF Enqueue
<1>2. e.type = "memory.requested" /\ e.agent = r /\ e.cause = n /\ e.tick = tick
  BY DEF Happens
<1>3. EventSound(e)
  BY <1>2 DEF EventSound, Memorable
<1>4. x.agent = r /\ x.event = n /\ x.tick = bus[n].tick /\ x.request = Len(q.bus) + 1
  OBVIOUS
<1>5. Grown(b, bus, tick, Asking) /\ Grown(b, q.bus, tick, Asking)
  BY <1>2, <1>3, GrowsByOne DEF Asking
<1>6. /\ Len(b) = Len(q.bus) + 1 /\ b[Len(q.bus) + 1] = e /\ Len(q.bus) \in Nat
      /\ Len(bus) \in Nat /\ Len(bus) <= Len(q.bus) /\ b[n] = bus[n]
  BY <1>5, Appended, SeqParts DEF Grown
<1>7. /\ IsSeq(w) /\ Len(w) = Len(q.work) + 1 /\ Len(q.work) \in Nat
      /\ \A i \in 1..Len(q.work) : w[i] = q.work[i]
      /\ w[Len(q.work) + 1] = x
  BY Appended, SeqParts DEF Requested
<1>8. Requested(b, q.work, memories, S)
  BY <1>5, RequestedLater
<1> HIDE DEF e, x, b, w
<1>9. T \subseteq (1..Len(b)) \X Characters
  BY <1>6, <1>8 DEF Requested
<1>10. \A i \in 1..Len(w) : i \in 1..Len(q.work) \/ i = Len(q.work) + 1
  BY <1>7
<1>11. ItemSound(b, x)
  BY <1>2, <1>4, <1>6 DEF ItemSound
<1>12. ~Kept(memories, b, n, r)
  BY <1>6 DEF Kept
<1>13. ASSUME NEW i \in 1..Len(w)
       PROVE  /\ ItemSound(b, w[i]) /\ <<w[i].event, w[i].agent>> \in T
              /\ ~Kept(memories, b, w[i].event, w[i].agent)
  <2>1. CASE i \in 1..Len(q.work)
    BY <2>1, <1>7, <1>8 DEF Requested
  <2>2. CASE i = Len(q.work) + 1
    BY <2>2, <1>4, <1>7, <1>11, <1>12
  <2> QED BY <2>1, <2>2, <1>10
<1>14. ASSUME NEW i \in 1..Len(w), NEW j \in 1..Len(w),
              w[i].event = w[j].event /\ w[i].agent = w[j].agent
       PROVE  i = j
  <2>1. \A k \in 1..Len(q.work) : ~(w[k].event = n /\ w[k].agent = r)
    BY <1>7 DEF Requested
  <2>2. CASE i \in 1..Len(q.work) /\ j \in 1..Len(q.work)
    BY <2>2, <1>14, <1>7 DEF Requested
  <2> QED BY <2>1, <2>2, <1>4, <1>7, <1>10, <1>14
<1>15. ASSUME NEW k \in 1..Len(b), NEW s \in Characters,
              <<k, s>> \in T, b[k].type \in Memorable, s \in Recipients(b[k])
       PROVE  Waits(w, k, s) \/ Kept(memories, b, k, s) \/ FailedIn(b, k, s)
  <2>1. Waits(w, n, r)
    BY <1>4, <1>7 DEF Waits
  <2>2. CASE <<k, s>> \in S
    <3>1. Waits(q.work, k, s) => Waits(w, k, s)
      BY <1>7 DEF Waits
    <3> QED BY <1>15, <1>8, <2>2, <3>1 DEF Requested
  <2> QED BY <1>15, <2>1, <2>2
<1> HIDE DEF T
<1>16. Requested(b, w, memories, T)
  BY <1>7, <1>9, <1>13, <1>14, <1>15 DEF Requested
<1> QED BY <1>1, <1>5, <1>16 DEF T

\* The pairs of the events up to n, and of n with the first i characters.
PairsTo(n) == (1..n) \X Characters
PairsOf(n, i) == PairsTo(n - 1) \cup {<<n, Agents[j]>> : j \in 1..i}

\* One event is told to one character, and to all it concerns.
Asked(n, q, r) == IF r \in Recipients(bus[n]) THEN Enqueue(q, n, r) ELSE q

AskedUpTo(n, i, q) ==
    Grown(q.bus, bus, tick, Asking) /\ Requested(q.bus, q.work, memories, PairsOf(n, i))

AskingAll == INSTANCE FoldFacts WITH Op <- Asked, P <- AskedUpTo

\* The memories know nothing of what has not been read.
Unheard(n) == \A r \in Characters : ~Kept(memories, bus, n, r)

LEMMA AgentsOnce ==
    /\ Len(Agents) \in Nat /\ DOMAIN Agents = 1..Len(Agents)
    /\ \A i \in 1..Len(Agents) : Agents[i] \in Characters
    /\ \A i, j \in 1..Len(Agents) : Agents[i] = Agents[j] => i = j
    /\ Characters = {Agents[i] : i \in 1..Len(Agents)}
<1>1. Agents \in Seq(Characters) /\ IsInjective(Agents)
  BY AgentsAssumption
<1>2. Len(Agents) \in Nat /\ DOMAIN Agents = 1..Len(Agents)
  BY <1>1
<1> QED BY <1>1, <1>2 DEF Characters, ToSet, IsInjective

LEMMA RequestMemoriesKeeps ==
    ASSUME NEW q, NEW n \in 1..Len(bus), Grown(q.bus, bus, tick, Asking),
           Requested(q.bus, q.work, memories, PairsTo(n - 1)), Unheard(n)
    PROVE  LET v == RequestMemories(q, n) IN
           /\ Grown(v.bus, bus, tick, Asking)
           /\ Requested(v.bus, v.work, memories, PairsTo(n))
<1> DEFINE N == Len(Agents)
           folded == FoldLeft(LAMBDA p, r : IF r \in Recipients(bus[n]) THEN Enqueue(p, n, r) ELSE p,
                              q, Agents)
<1>1. N \in Nat /\ DOMAIN Agents = 1..N
  BY AgentsOnce
<1>2. PairsOf(n, 0) = PairsTo(n - 1) /\ PairsOf(n, N) = PairsTo(n)
  <2>1. \A m \in Nat : m \in 1..n <=> m \in 1..(n - 1) \/ m = n
    BY SeqParts DEF Grown
  <2> QED BY <2>1, AgentsOnce DEF PairsOf, PairsTo
<1>3. AskedUpTo(n, 0, q)
  BY <1>2 DEF AskedUpTo
<1>4. ASSUME NEW i \in 1..N, NEW p, AskedUpTo(n, i - 1, p)
      PROVE  AskedUpTo(n, i, Asked(n, p, Agents[i]))
  <2>1. Agents[i] \in Characters /\ <<n, Agents[i]>> \notin PairsOf(n, i - 1)
    BY <1>1, AgentsOnce DEF PairsOf, PairsTo
  <2>2. PairsOf(n, i) = PairsOf(n, i - 1) \cup {<<n, Agents[i]>>}
    <3>1. \A j \in Nat : j \in 1..i <=> j \in 1..(i - 1) \/ j = i
      BY <1>1
    <3> QED BY <3>1 DEF PairsOf
  <2>3. n \in 1..Len(p.bus) /\ p.bus[n] = bus[n]
    BY <1>4, SeqParts DEF AskedUpTo, Grown
  <2>4. CASE Agents[i] \in Recipients(bus[n])
    <3>1. Asked(n, p, Agents[i]) = Enqueue(p, n, Agents[i])
      BY <2>4 DEF Asked
    <3>2. ~Kept(memories, bus, n, Agents[i])
      BY <2>1 DEF Unheard
    <3>3. /\ Grown(Enqueue(p, n, Agents[i]).bus, bus, tick, Asking)
          /\ Requested(Enqueue(p, n, Agents[i]).bus, Enqueue(p, n, Agents[i]).work, memories,
                       PairsOf(n, i - 1) \cup {<<n, Agents[i]>>})
      BY <1>4, <2>1, <3>2, EnqueueKeeps DEF AskedUpTo
    <3> QED BY <2>2, <3>1, <3>3 DEF AskedUpTo
  <2>5. CASE Agents[i] \notin Recipients(bus[n])
    <3>1. Asked(n, p, Agents[i]) = p
      BY <2>5 DEF Asked
    <3>2. Agents[i] \notin Recipients(p.bus[n])
      BY <2>3, <2>5
    <3>3. Requested(p.bus, p.work, memories, PairsOf(n, i - 1) \cup {<<n, Agents[i]>>})
      BY <1>4, <2>1, <2>3, <3>2, PassedOver DEF AskedUpTo
    <3> QED BY <1>4, <2>2, <3>1, <3>3 DEF AskedUpTo
  <2> QED BY <2>4, <2>5
<1>5. AskedUpTo(n, N, AskingAll!Folded(n, q, Agents))
  BY <1>1, <1>3, <1>4, AskingAll!Keeps, LeastOf
<1>6. AskingAll!Folded(n, q, Agents) = folded
  BY DEF Asked, FoldLeft, MapThenFoldSet, Max,
         AskingAll!Folded, AskingAll!MapThenFoldSet, AskingAll!Greatest
<1>7. CASE bus[n].type \in Memorable
  BY <1>2, <1>5, <1>6, <1>7 DEF RequestMemories, AskedUpTo
<1>8. CASE bus[n].type \notin Memorable
  <2>1. PairsTo(n) \subseteq (1..Len(q.bus)) \X Characters
    BY SeqParts DEF PairsTo, Grown
  <2>2. PairsTo(n - 1) \subseteq PairsTo(n)
    BY SeqParts DEF PairsTo, Grown
  <2>3. ASSUME NEW k \in 1..Len(q.bus), NEW s \in Characters,
               <<k, s>> \in PairsTo(n), q.bus[k].type \in Memorable
        PROVE  <<k, s>> \in PairsTo(n - 1)
    <3>1. k # n
      BY <1>8, <2>3 DEF Grown
    <3> QED BY <2>3, <3>1, SeqParts DEF PairsTo, Grown
  <2>4. Requested(q.bus, q.work, memories, PairsTo(n))
    BY <2>1, <2>2, <2>3 DEF Requested
  <2> QED BY <1>8, <2>4 DEF RequestMemories
<1> QED BY <1>7, <1>8

-----------------------------------------------------------------------------
(* The memories.                                                           *)

\* A memory of an event that has been read from this bus, or of one before all of it.
Current(m, b, k) == m.event \in 1..k /\ m.tick = b[m.event].tick
Old(m, b) == \A n \in 1..Len(b) : m.tick < b[n].tick

Remembered(ms, now) ==
    /\ IsSeq(ms) /\ IsInjective(ms)
    /\ \A m \in Range(ms) :
          /\ m = [agent |-> m.agent, event |-> m.event, tick |-> m.tick]
          /\ m.tick \in Nat /\ m.tick <= now

BusSound ==
    /\ IsSeq(bus) /\ tick \in Nat
    /\ \A n \in 1..Len(bus) : EventSound(bus[n]) /\ bus[n].tick \in Nat /\ bus[n].tick <= tick
    /\ DOMAIN cursor = {"perception", "goals", "memory"}
    /\ \A r \in DOMAIN cursor : cursor[r] \in 0..Len(bus)

MemoriesPlaced ==
    /\ Remembered(memories, tick)
    /\ \A m \in Range(memories) : Old(m, bus) \/ Current(m, bus, cursor["memory"])
    /\ phase \notin {"world", "ended"} =>
          \A m \in Range(memories) : Old(m, bus) => m.tick < tick

SavedSound == saved # None => saved.tick \in Nat /\ Remembered(saved.memories, saved.tick)

MemoryInvariant ==
    /\ BusSound /\ MemoriesPlaced /\ SavedSound
    /\ Requested(bus, work, memories, PairsTo(cursor["memory"]))

\* What is emitted in a tick comes after what is old.
LEMMA EmissionKeeps ==
    ASSUME MemoryInvariant, NEW types, Grown(bus', bus, tick', types),
           UNCHANGED <<work, memories, saved>>, cursor'["memory"] = cursor["memory"],
           DOMAIN cursor' = DOMAIN cursor, \A r \in DOMAIN cursor' : cursor'[r] \in 0..Len(bus'),
           tick' \in Nat, tick <= tick',
           \A m \in Range(memories) : Old(m, bus) => m.tick < tick'
    PROVE  MemoryInvariant'
<1>1. Len(bus) \in Nat /\ Len(bus') \in Nat /\ tick \in Nat /\ cursor["memory"] \in 0..Len(bus)
  BY SeqParts DEF MemoryInvariant, BusSound, Grown
<1>2. BusSound'
  <2>1. ASSUME NEW n \in 1..Len(bus')
        PROVE  EventSound(bus'[n]) /\ bus'[n].tick \in Nat /\ bus'[n].tick <= tick'
    <3>1. CASE n \in 1..Len(bus)
      <4>1. bus'[n] = bus[n]
        BY <3>1 DEF Grown
      <4>2. EventSound(bus[n]) /\ bus[n].tick \in Nat /\ bus[n].tick <= tick
        BY <3>1 DEF MemoryInvariant, BusSound
      <4> QED BY <4>1, <4>2, <1>1
    <3>2. CASE n \notin 1..Len(bus)
      <4>1. n \in (Len(bus) + 1)..Len(bus')
        BY <3>2, <1>1
      <4> QED BY <4>1 DEF Grown
    <3> QED BY <3>1, <3>2
  <2>2. IsSeq(bus') /\ tick' \in Nat
    BY DEF Grown
  <2>3. DOMAIN cursor' = {"perception", "goals", "memory"}
    BY DEF MemoryInvariant, BusSound
  <2> QED BY <2>1, <2>2, <2>3 DEF BusSound, EventSound
<1>3. ASSUME NEW m \in Range(memories)
      PROVE  /\ Old(m, bus) => Old(m, bus')
             /\ Current(m, bus, cursor["memory"]) => Current(m, bus', cursor["memory"])
             /\ Old(m, bus') => m.tick < tick'
  <2>1. m.tick \in Nat /\ m.tick <= tick /\ (Old(m, bus) \/ Current(m, bus, cursor["memory"]))
    BY DEF MemoryInvariant, MemoriesPlaced, Remembered
  <2>2. Old(m, bus) => Old(m, bus')
    <3> SUFFICES ASSUME Old(m, bus), NEW n \in 1..Len(bus') PROVE m.tick < bus'[n].tick
      BY DEF Old
    <3>1. CASE n \in 1..Len(bus)
      BY <3>1 DEF Grown, Old
    <3>2. CASE n \notin 1..Len(bus)
      <4>1. n \in (Len(bus) + 1)..Len(bus')
        BY <3>2, <1>1
      <4> QED BY <4>1 DEF Grown
    <3> QED BY <3>1, <3>2
  <2>3. Current(m, bus, cursor["memory"]) => Current(m, bus', cursor["memory"])
    <3>1. \A n \in 1..Len(bus) : n \in 1..Len(bus') /\ bus'[n] = bus[n]
      BY <1>1 DEF Grown
    <3> QED BY <3>1, <1>1 DEF Current
  <2>4. Current(m, bus, cursor["memory"]) => ~Old(m, bus')
    <3> SUFFICES ASSUME Current(m, bus, cursor["memory"]), Old(m, bus') PROVE FALSE
      OBVIOUS
    <3>1. m.event \in 1..Len(bus') /\ bus'[m.event].tick = m.tick
      BY <1>1, <2>3 DEF Current, Grown
    <3>2. m.tick < bus'[m.event].tick
      BY <3>1 DEF Old
    <3> QED BY <3>1, <3>2, <2>1
  <2> QED BY <2>1, <2>2, <2>3, <2>4
<1>4. MemoriesPlaced'
  <2>1. Remembered(memories, tick')
    BY <1>1 DEF MemoryInvariant, MemoriesPlaced, Remembered
  <2> QED BY <1>3, <2>1 DEF MemoryInvariant, MemoriesPlaced, Old, Current, Remembered
<1>5. SavedSound'
  BY DEF MemoryInvariant, SavedSound, Remembered, IsSeq
<1>6. Requested(bus', work, memories, PairsTo(cursor["memory"]))
  BY RequestedLater DEF MemoryInvariant
<1>7. Requested(bus', work', memories', PairsTo(cursor'["memory"]))
  BY <1>6
<1> QED BY <1>2, <1>4, <1>5, <1>7 DEF MemoryInvariant, Requested, PairsTo, ItemSound, Kept, Waits, FailedIn, IsSeq

\* What has not been read is not remembered: it is later than all that is old.
LEMMA UnreadIsUnheard ==
    ASSUME MemoryInvariant, phase \notin {"world", "ended"},
           NEW n \in 1..Len(bus), n > cursor["memory"]
    PROVE  Unheard(n)
<1> SUFFICES ASSUME NEW m \in Range(memories), m.event = n, m.tick = bus[n].tick PROVE FALSE
  BY DEF Unheard, Kept
<1>1. cursor["memory"] \in Nat /\ m.tick \in Nat
  BY SeqParts DEF MemoryInvariant, BusSound, MemoriesPlaced, Remembered
<1>2. CASE Old(m, bus)
  BY <1>1, <1>2 DEF Old
<1>3. CASE Current(m, bus, cursor["memory"])
  BY <1>1, <1>3 DEF Current
<1> QED BY <1>2, <1>3 DEF MemoryInvariant, MemoriesPlaced

ToldOf(c, q, n) == RequestMemories(q, n)

ToldUpTo(c, i, q) ==
    /\ Grown(q.bus, bus, tick, Asking)
    /\ Requested(q.bus, q.work, memories, PairsTo(cursor["memory"] + i))

Telling == INSTANCE FoldFacts WITH Op <- ToldOf, P <- ToldUpTo

LEMMA UnreadListed ==
    ASSUME BusSound, NEW r \in DOMAIN cursor
    PROVE  LET N == Len(bus) - cursor[r] IN
           /\ N \in Nat /\ DOMAIN Unread(r) = 1..N /\ Unread(r) = [i \in 1..N |-> cursor[r] + i]
           /\ \A i \in 1..N : Unread(r)[i] = cursor[r] + i /\ Unread(r)[i] \in 1..Len(bus)
<1>1. Len(bus) \in Nat /\ cursor[r] \in 0..Len(bus)
  BY SeqParts DEF BusSound
<1> QED BY <1>1 DEF Unread

LEMMA MemoriseKeeps ==
    ASSUME MemoryInvariant, Memorise
    PROVE  MemoryInvariant' /\ Grown(bus', bus, tick, Asking)
<1> DEFINE k == cursor["memory"]
           N == Len(bus) - k
           base == [bus |-> bus, work |-> work]
           done == FoldLeft(RequestMemories, base, Unread("memory"))
<1>1. /\ Len(bus) \in Nat /\ k \in 0..Len(bus) /\ N \in Nat /\ "memory" \in DOMAIN cursor
      /\ DOMAIN Unread("memory") = 1..N
      /\ \A i \in 1..N : Unread("memory")[i] = k + i /\ Unread("memory")[i] \in 1..Len(bus)
  BY UnreadListed, SeqParts DEF MemoryInvariant, BusSound
<1>2. ToldUpTo(0, 0, base)
  BY <1>1, NotGrown DEF ToldUpTo, MemoryInvariant, BusSound
<1>3. ASSUME NEW i \in 1..N, NEW q, ToldUpTo(0, i - 1, q)
      PROVE  ToldUpTo(0, i, ToldOf(0, q, Unread("memory")[i]))
  <2> DEFINE n == k + i
  <2>1. n \in 1..Len(bus) /\ n > k /\ k + (i - 1) = n - 1
    BY <1>1
  <2>2. Unheard(n)
    BY <2>1, UnreadIsUnheard DEF Memorise
  <2>3. Requested(q.bus, q.work, memories, PairsTo(n - 1)) /\ Grown(q.bus, bus, tick, Asking)
    BY <1>3, <2>1 DEF ToldUpTo
  <2> HIDE DEF n
  <2>4. LET v == RequestMemories(q, n) IN
        /\ Grown(v.bus, bus, tick, Asking)
        /\ Requested(v.bus, v.work, memories, PairsTo(n))
    BY <2>1, <2>2, <2>3, RequestMemoriesKeeps
  <2> QED BY <1>1, <2>4 DEF ToldUpTo, ToldOf, n
<1>4. ToldUpTo(0, N, Telling!Folded(0, base, Unread("memory")))
  BY <1>1, <1>2, <1>3, Telling!Keeps, LeastOf
<1>5. Telling!Folded(0, base, Unread("memory")) = done
  BY DEF ToldOf, FoldLeft, MapThenFoldSet, Max,
         Telling!Folded, Telling!MapThenFoldSet, Telling!Greatest
<1>6. bus' = done.bus /\ work' = done.work
  BY DEF Memorise
<1>7. /\ Grown(bus', bus, tick, Asking)
      /\ Requested(bus', work', memories, PairsTo(Len(bus)))
  BY <1>1, <1>4, <1>5, <1>6 DEF ToldUpTo
<1> HIDE DEF done, base
<1>8. /\ cursor' = [cursor EXCEPT !["memory"] = Len(bus)]
      /\ UNCHANGED <<facts, minds, goals, memories, tick, world, restarts>>
      /\ phase = "memorise" /\ phase' = "think"
  BY DEF Memorise
<1>9. /\ DOMAIN cursor' = DOMAIN cursor /\ cursor'["memory"] = Len(bus)
      /\ \A r \in DOMAIN cursor : cursor'[r] \in 0..Len(bus)
      /\ Len(bus') \in Nat /\ Len(bus) <= Len(bus')
  BY <1>1, <1>7, <1>8, SeqParts DEF MemoryInvariant, BusSound, Grown
<1>10. BusSound'
  <2>1. ASSUME NEW n \in 1..Len(bus')
        PROVE  EventSound(bus'[n]) /\ bus'[n].tick \in Nat /\ bus'[n].tick <= tick
    <3>1. CASE n \in 1..Len(bus)
      BY <3>1, <1>7 DEF Grown, MemoryInvariant, BusSound
    <3>2. CASE n \notin 1..Len(bus)
      <4>1. n \in (Len(bus) + 1)..Len(bus') /\ tick \in Nat
        BY <3>2, <1>1, <1>9 DEF MemoryInvariant, BusSound
      <4> QED BY <4>1, <1>7 DEF Grown
    <3> QED BY <3>1, <3>2
  <2>2. IsSeq(bus') /\ tick' = tick
    BY <1>7, <1>8 DEF Grown
  <2>3. \A r \in DOMAIN cursor' : cursor'[r] \in 0..Len(bus')
    BY <1>1, <1>9
  <2> QED BY <2>1, <2>2, <2>3, <1>9 DEF BusSound, EventSound, MemoryInvariant
<1>11. ASSUME NEW m \in Range(memories)
       PROVE  /\ Old(m, bus') \/ Current(m, bus', Len(bus))
              /\ m.tick < tick \/ Current(m, bus', Len(bus))
  <2>1. CASE Old(m, bus)
    <3>1. m.tick < tick
      BY <2>1, <1>8 DEF MemoryInvariant, MemoriesPlaced
    <3>2. ASSUME NEW n \in 1..Len(bus') PROVE m.tick < bus'[n].tick
      <4>1. CASE n \in 1..Len(bus)
        BY <4>1, <2>1, <1>7 DEF Grown, Old
      <4>2. CASE n \notin 1..Len(bus)
        <5>1. n \in (Len(bus) + 1)..Len(bus')
          BY <4>2, <1>1, <1>9
        <5> QED BY <5>1, <3>1, <1>7 DEF Grown
      <4> QED BY <4>1, <4>2
    <3> QED BY <3>1, <3>2 DEF Old
  <2>2. CASE Current(m, bus, k)
    BY <2>2, <1>1, <1>7 DEF Current, Grown
  <2> QED BY <2>1, <2>2 DEF MemoryInvariant, MemoriesPlaced
<1>12. ASSUME NEW m \in Range(memories), Current(m, bus', Len(bus))
       PROVE  ~Old(m, bus')
  <2>1. m.event \in 1..Len(bus') /\ m.tick = bus'[m.event].tick /\ m.tick \in Nat
    BY <1>9, <1>12, <1>1 DEF Current, MemoryInvariant, MemoriesPlaced, Remembered
  <2> QED BY <2>1 DEF Old
<1>13. MemoriesPlaced'
  BY <1>8, <1>9, <1>11, <1>12 DEF MemoryInvariant, MemoriesPlaced, Remembered, Old, Current, IsSeq
<1>14. SavedSound'
  BY <1>8 DEF MemoryInvariant, SavedSound, Remembered, IsSeq, restarts
<1>15. MemoryInvariant'
  <2>1. Requested(bus', work', memories', PairsTo(cursor'["memory"]))
    BY <1>7, <1>8, <1>9
  <2> QED BY <2>1, <1>10, <1>13, <1>14 DEF MemoryInvariant
<1> QED BY <1>7, <1>15

-----------------------------------------------------------------------------
(* The queue is settled.                                                   *)

Settlements == {"memory.recorded", "memory.failed", "memory.cancelled"}

Kernel(x) == [agent |-> x.agent, event |-> x.event, tick |-> x.tick]

\* The bus and the memories when the items of I have been recorded, failed or cancelled.
Settling(p, I) ==
    /\ DOMAIN p = {"bus", "memories"}
    /\ Grown(p.bus, bus, tick, Settlements)
    /\ IsSeq(p.memories) /\ IsInjective(p.memories) /\ Range(memories) \subseteq Range(p.memories)
    /\ \A m \in Range(p.memories) : m \in Range(memories) \/ \E i \in I : m = Kernel(work[i])
    /\ \A i \in I : \/ Kernel(work[i]) \in Range(p.memories)
                    \/ FailedIn(p.bus, work[i].event, work[i].agent)

LEMMA ItemStays ==
    ASSUME NEW a, NEW b, NEW t, NEW types, Grown(b, a, t, types), NEW x, ItemSound(a, x)
    PROVE  ItemSound(b, x)
<1>1. Len(a) \in Nat /\ Len(b) \in Nat /\ Len(a) <= Len(b) /\ \A i \in 1..Len(a) : b[i] = a[i]
  BY SeqParts DEF Grown
<1>2. \A n \in 1..Len(a) : n \in 1..Len(b)
  BY <1>1
<1> QED BY <1>1, <1>2 DEF ItemSound

LEMMA RangeGrows ==
    ASSUME NEW s, IsSeq(s), NEW e
    PROVE  Range(Append(s, e)) = Range(s) \cup {e}
<1> DEFINE t == Append(s, e)
<1>1. /\ IsSeq(t) /\ Len(t) = Len(s) + 1 /\ Len(s) \in Nat /\ DOMAIN s = 1..Len(s)
      /\ DOMAIN t = 1..Len(t) /\ \A i \in 1..Len(s) : t[i] = s[i]
      /\ t[Len(s) + 1] = e
  BY Appended, SeqParts
<1> HIDE DEF t
<1>2. DOMAIN t = DOMAIN s \cup {Len(s) + 1}
  BY <1>1
<1> QED BY <1>1, <1>2 DEF Range, t

LEMMA InjectionGrows ==
    ASSUME NEW s, IsSeq(s), IsInjective(s), NEW e, e \notin Range(s)
    PROVE  IsInjective(Append(s, e))
<1> DEFINE t == Append(s, e)
<1>1. /\ IsSeq(t) /\ Len(t) = Len(s) + 1 /\ Len(s) \in Nat /\ DOMAIN s = 1..Len(s)
      /\ DOMAIN t = 1..Len(t) /\ \A i \in 1..Len(s) : t[i] = s[i]
      /\ t[Len(s) + 1] = e
  BY Appended, SeqParts
<1> HIDE DEF t
<1>2. DOMAIN t = DOMAIN s \cup {Len(s) + 1}
  BY <1>1
<1>3. \A i \in DOMAIN s : s[i] # e
  BY DEF Range
<1>4. ASSUME NEW i \in DOMAIN t, NEW j \in DOMAIN t, t[i] = t[j] PROVE i = j
  <2>1. CASE i \in DOMAIN s /\ j \in DOMAIN s
    BY <2>1, <1>1, <1>4 DEF IsInjective
  <2>2. CASE i = Len(s) + 1
    BY <2>2, <1>1, <1>2, <1>3, <1>4
  <2>3. CASE j = Len(s) + 1
    BY <2>3, <1>1, <1>2, <1>3, <1>4
  <2> QED BY <2>1, <2>2, <2>3, <1>2
<1> QED BY <1>4 DEF IsInjective, t

\* An item that has not been settled is not among the memories.
LEMMA ItemIsNew ==
    ASSUME MemoryInvariant, NEW p, NEW I \in SUBSET (1..Len(work)), Settling(p, I),
           NEW i \in 1..Len(work), i \notin I
    PROVE  Kernel(work[i]) \notin Range(p.memories)
<1> DEFINE x == work[i]
<1> SUFFICES ASSUME Kernel(x) \in Range(p.memories) PROVE FALSE
  OBVIOUS
<1>1. /\ ItemSound(bus, x) /\ ~Kept(memories, bus, x.event, x.agent)
      /\ \A j \in 1..Len(work) : work[j].event = x.event /\ work[j].agent = x.agent => j = i
  BY DEF MemoryInvariant, Requested
<1> HIDE DEF x
<1>2. CASE Kernel(x) \in Range(memories)
  BY <1>1, <1>2 DEF Kept, ItemSound, Kernel
<1>3. CASE \E j \in I : Kernel(x) = Kernel(work[j])
  BY <1>1, <1>3 DEF Kernel
<1> QED BY <1>2, <1>3 DEF Settling

\* An event that says of an item that it has failed or was cancelled.
LEMMA FailureSettles ==
    ASSUME MemoryInvariant, NEW p, NEW I \in SUBSET (1..Len(work)), Settling(p, I),
           NEW i \in 1..Len(work), NEW type \in {"memory.failed", "memory.cancelled"}
    PROVE  Settling([p EXCEPT !.bus = Append(@, Settles(work[i], type))], I \cup {i})
<1> DEFINE x == work[i]
           e == Settles(x, type)
           b == Append(p.bus, e)
           v == [p EXCEPT !.bus = Append(@, e)]
<1>1. e.type = type /\ e.cause = x.request /\ e.tick = tick
  BY DEF Settles, Happens
<1>2. EventSound(e)
  BY <1>1 DEF EventSound, Memorable
<1>3. Grown(b, bus, tick, Settlements) /\ Grown(b, p.bus, tick, Settlements)
  BY <1>1, <1>2, GrowsByOne DEF Settling, Settlements
<1>4. Len(p.bus) \in Nat /\ Len(b) = Len(p.bus) + 1 /\ b[Len(p.bus) + 1] = e
  BY Appended, SeqParts DEF Settling, Grown
<1>5. ItemSound(b, x)
  <2>1. ItemSound(bus, x)
    BY DEF MemoryInvariant, Requested
  <2> QED BY <2>1, <1>3, ItemStays
<1>6. DOMAIN v = {"bus", "memories"} /\ v.bus = b /\ v.memories = p.memories
  BY DEF Settling
<1> HIDE DEF e, b, v, x
<1>7. FailedIn(b, x.event, x.agent)
  <2>1. x.request \in 1..Len(b) /\ Len(p.bus) + 1 \in 1..Len(b)
    BY <1>4, <1>5 DEF ItemSound
  <2> QED BY <2>1, <1>1, <1>4, <1>5 DEF FailedIn, ItemSound
<1>8. \A j \in I : FailedIn(p.bus, work[j].event, work[j].agent)
                    => FailedIn(b, work[j].event, work[j].agent)
  BY <1>3, FailedStays
<1>9. Settling(v, I \cup {i})
  BY <1>3, <1>6, <1>7, <1>8 DEF Settling, x
<1> QED BY <1>9 DEF v, e, x

\* An item that is recorded.
LEMMA RecordSettles ==
    ASSUME MemoryInvariant, NEW p, NEW I \in SUBSET (1..Len(work)), Settling(p, I),
           NEW i \in 1..Len(work), i \notin I
    PROVE  Settling(Remember(p, work[i], FALSE), I \cup {i})
<1> DEFINE x == work[i]
           e == [Settles(x, "memory.recorded") EXCEPT !.about = Len(p.memories) + 1]
           m == [agent |-> x.agent, event |-> x.event, tick |-> x.tick]
           b == Append(p.bus, e)
           ms == Append(p.memories, m)
           v == Remember(p, x, FALSE)
<1>1. e.type = "memory.recorded" /\ e.tick = tick
  BY DEF Settles, Happens
<1>2. EventSound(e)
  BY <1>1 DEF EventSound, Memorable
<1>3. Grown(b, bus, tick, Settlements) /\ Grown(b, p.bus, tick, Settlements)
  BY <1>1, <1>2, GrowsByOne DEF Settling, Settlements
<1>4. m = Kernel(x) /\ m \notin Range(p.memories)
  BY ItemIsNew DEF Kernel
<1>5. IsSeq(ms) /\ IsInjective(ms) /\ Range(ms) = Range(p.memories) \cup {m}
  BY <1>4, Appended, InjectionGrows, RangeGrows DEF Settling
<1>6. DOMAIN v = {"bus", "memories"} /\ v.bus = b /\ v.memories = ms
  BY DEF Settling, Remember
<1> HIDE DEF e, b, v, ms, m
<1>7. \A j \in I : FailedIn(p.bus, work[j].event, work[j].agent)
                    => FailedIn(b, work[j].event, work[j].agent)
  BY <1>3, FailedStays
<1>8. \A k \in Range(ms) : k \in Range(memories) \/ \E j \in I \cup {i} : k = Kernel(work[j])
  BY <1>4, <1>5 DEF Settling
<1>9. \A j \in I \cup {i} : \/ Kernel(work[j]) \in Range(ms)
                            \/ FailedIn(b, work[j].event, work[j].agent)
  BY <1>4, <1>5, <1>7 DEF Settling
<1>10. Settling(v, I \cup {i})
  BY <1>3, <1>5, <1>6, <1>8, <1>9 DEF Settling
<1> QED BY <1>10 DEF v

\* What the items that have not been settled leave of the queue: those, each once.
LeftOf(w, I) ==
    /\ IsSeq(w) /\ IsInjective(w)
    /\ \A k \in 1..Len(w) : \E i \in 1..Len(work) : i \notin I /\ w[k] = work[i]
    /\ \A i \in 1..Len(work) : i \notin I => \E k \in 1..Len(w) : w[k] = work[i]

\* What Drain and Finalise leave is asked for as before.
LEMMA SettledRequested ==
    ASSUME MemoryInvariant, NEW p, NEW I \in SUBSET (1..Len(work)), Settling(p, I),
           NEW w, LeftOf(w, I)
    PROVE  Requested(p.bus, w, p.memories, PairsTo(cursor["memory"]))
<1> DEFINE S == PairsTo(cursor["memory"])
           b == p.bus
           ms == p.memories
<1>1. Requested(b, work, memories, S)
  BY RequestedLater DEF MemoryInvariant, Settling
<1> HIDE DEF S
<1>2. ASSUME NEW k \in 1..Len(w)
      PROVE  /\ ItemSound(b, w[k]) /\ <<w[k].event, w[k].agent>> \in S
             /\ ~Kept(ms, b, w[k].event, w[k].agent)
  <2>1. PICK i \in 1..Len(work) : i \notin I /\ w[k] = work[i]
    BY DEF LeftOf
  <2>2. /\ ItemSound(b, work[i]) /\ <<work[i].event, work[i].agent>> \in S
        /\ ~Kept(memories, b, work[i].event, work[i].agent)
    BY <1>1 DEF Requested
  <2>3. ASSUME NEW m \in Range(ms), m.event = work[i].event, m.agent = work[i].agent,
               m.tick = b[work[i].event].tick
        PROVE  FALSE
    <3>1. m \notin Range(memories)
      BY <2>2, <2>3 DEF Kept
    <3>2. PICK j \in I : m = Kernel(work[j])
      BY <3>1 DEF Settling
    <3>3. work[j].event = work[i].event /\ work[j].agent = work[i].agent
      BY <2>3, <3>2 DEF Kernel
    <3>4. j = i
      BY <1>1, <3>3 DEF Requested
    <3> QED BY <2>1, <3>4
  <2> QED BY <2>1, <2>2, <2>3 DEF Kept
<1>3. ASSUME NEW k \in 1..Len(w), NEW l \in 1..Len(w),
             w[k].event = w[l].event /\ w[k].agent = w[l].agent
      PROVE  k = l
  <2>1. PICK i \in 1..Len(work), j \in 1..Len(work) : w[k] = work[i] /\ w[l] = work[j]
    BY DEF LeftOf
  <2>2. i = j
    BY <1>1, <1>3, <2>1 DEF Requested
  <2>3. DOMAIN w = 1..Len(w) /\ w[k] = w[l]
    BY <2>1, <2>2, SeqParts DEF LeftOf
  <2> QED BY <2>3 DEF LeftOf, IsInjective
<1>4. ASSUME NEW n \in 1..Len(b), NEW r \in Characters,
             <<n, r>> \in S, b[n].type \in Memorable, r \in Recipients(b[n])
      PROVE  Waits(w, n, r) \/ Kept(ms, b, n, r) \/ FailedIn(b, n, r)
  <2>1. Waits(work, n, r) \/ Kept(memories, b, n, r) \/ FailedIn(b, n, r)
    BY <1>1, <1>4 DEF Requested
  <2>2. Kept(memories, b, n, r) => Kept(ms, b, n, r)
    BY DEF Kept, Settling
  <2>3. ASSUME NEW i \in 1..Len(work), work[i].event = n, work[i].agent = r
        PROVE  Waits(w, n, r) \/ Kept(ms, b, n, r) \/ FailedIn(b, n, r)
    <3>1. CASE i \in I
      <4>1. work[i].tick = b[n].tick
        BY <1>1, <2>3 DEF Requested, ItemSound
      <4>2. Kernel(work[i]) \in Range(ms) \/ FailedIn(b, n, r)
        BY <2>3, <3>1 DEF Settling
      <4>3. Kernel(work[i]) \in Range(ms) => Kept(ms, b, n, r)
        BY <2>3, <4>1 DEF Kept, Kernel
      <4> QED BY <4>2, <4>3
    <3>2. CASE i \notin I
      BY <2>3, <3>2 DEF LeftOf, Waits
    <3> QED BY <3>1, <3>2
  <2> QED BY <2>1, <2>2, <2>3 DEF Waits
<1>5. Requested(b, w, ms, S)
  <2>1. IsSeq(w) /\ S \subseteq (1..Len(b)) \X Characters
    BY <1>1 DEF LeftOf, Requested
  <2> HIDE DEF b, ms
  <2> QED BY <2>1, <1>2, <1>3, <1>4 DEF Requested
<1> QED BY <1>5 DEF S

\* The bus stays what it should be when it grows.
LEMMA BusGrows ==
    ASSUME BusSound, NEW types, Grown(bus', bus, tick', types), tick' \in Nat, tick <= tick',
           DOMAIN cursor' = DOMAIN cursor, \A r \in DOMAIN cursor' : cursor'[r] \in 0..Len(bus')
    PROVE  BusSound'
<1>1. Len(bus) \in Nat /\ Len(bus') \in Nat /\ tick \in Nat
  BY SeqParts DEF BusSound, Grown
<1>2. ASSUME NEW n \in 1..Len(bus')
      PROVE  EventSound(bus'[n]) /\ bus'[n].tick \in Nat /\ bus'[n].tick <= tick'
  <2>1. CASE n \in 1..Len(bus)
    <3>1. bus'[n] = bus[n]
      BY <2>1 DEF Grown
    <3>2. EventSound(bus[n]) /\ bus[n].tick \in Nat /\ bus[n].tick <= tick
      BY <2>1 DEF BusSound
    <3> QED BY <3>1, <3>2, <1>1
  <2>2. CASE n \notin 1..Len(bus)
    <3>1. n \in (Len(bus) + 1)..Len(bus')
      BY <2>2, <1>1
    <3> QED BY <3>1 DEF Grown
  <2> QED BY <2>1, <2>2
<1>3. IsSeq(bus')
  BY DEF Grown
<1> QED BY <1>2, <1>3 DEF BusSound, EventSound

\* What was remembered before this bus, and of it, stays so placed when the bus grows.
LEMMA PlacedLater ==
    ASSUME NEW a, NEW b, NEW t, NEW types, Grown(b, a, t, types), NEW m, NEW k \in 0..Len(a)
    PROVE  /\ Old(m, a) /\ m.tick < t => Old(m, b)
           /\ Current(m, a, k) => Current(m, b, k)
<1>1. Len(a) \in Nat /\ Len(b) \in Nat
  BY SeqParts DEF Grown
<1>2. ASSUME Old(m, a), m.tick < t, NEW n \in 1..Len(b) PROVE m.tick < b[n].tick
  <2>1. CASE n \in 1..Len(a)
    BY <2>1, <1>2 DEF Grown, Old
  <2>2. CASE n \notin 1..Len(a)
    <3>1. n \in (Len(a) + 1)..Len(b)
      BY <2>2, <1>1
    <3> QED BY <3>1, <1>2 DEF Grown
  <2> QED BY <2>1, <2>2
<1>3. Current(m, a, k) => Current(m, b, k)
  BY <1>1 DEF Current, Grown
<1> QED BY <1>2, <1>3 DEF Old

LEMMA SettledKeeps ==
    ASSUME MemoryInvariant, NEW p, NEW I \in SUBSET (1..Len(work)), Settling(p, I),
           bus' = p.bus, memories' = p.memories, LeftOf(work', I),
           UNCHANGED <<cursor, tick, saved>>, phase' \in {"world", "ended"},
           p.bus = bus \/ \A m \in Range(memories) : Old(m, bus) => m.tick < tick
    PROVE  MemoryInvariant'
<1> DEFINE k == cursor["memory"]
<1>0. /\ cursor' = cursor /\ tick' = tick /\ saved' = saved
      /\ BusSound /\ Len(bus) \in Nat /\ Len(bus') \in Nat /\ k \in 0..Len(bus)
      /\ Len(bus) <= Len(bus') /\ tick \in Nat
      /\ Grown(bus', bus, tick, Settlements)
  BY SeqParts DEF MemoryInvariant, BusSound, Settling, Grown
<1>1. BusSound'
  <2>1. \A r \in DOMAIN cursor' : cursor'[r] \in 0..Len(bus')
    BY <1>0 DEF BusSound
  <2> QED BY <1>0, <2>1, BusGrows
<1>2. Requested(bus', work', memories', PairsTo(cursor'["memory"]))
  BY <1>0, SettledRequested
<1>3. ASSUME NEW m \in Range(memories')
      PROVE  /\ m = [agent |-> m.agent, event |-> m.event, tick |-> m.tick]
             /\ m.tick \in Nat /\ m.tick <= tick
             /\ Old(m, bus') \/ Current(m, bus', k)
  <2>1. CASE m \in Range(memories)
    <3>1. /\ m = [agent |-> m.agent, event |-> m.event, tick |-> m.tick]
          /\ m.tick \in Nat /\ m.tick <= tick
          /\ Old(m, bus) \/ Current(m, bus, k)
      BY <2>1 DEF MemoryInvariant, MemoriesPlaced, Remembered
    <3>2. Old(m, bus) => Old(m, bus')
      BY <2>1, <1>0, PlacedLater
    <3>3. Current(m, bus, k) => Current(m, bus', k)
      BY <1>0, PlacedLater
    <3> QED BY <3>1, <3>2, <3>3
  <2>2. CASE m \notin Range(memories)
    <3>1. PICK i \in I : m = Kernel(work[i])
      BY <2>2 DEF Settling
    <3>2. /\ ItemSound(bus, work[i])
          /\ <<work[i].event, work[i].agent>> \in (1..k) \X Characters
      BY DEF MemoryInvariant, Requested, PairsTo
    <3>3. /\ m.event \in 1..k /\ m.event \in 1..Len(bus) /\ m.tick = bus[m.event].tick
          /\ m = [agent |-> m.agent, event |-> m.event, tick |-> m.tick]
      BY <3>1, <3>2 DEF ItemSound, Kernel
    <3>4. m.tick \in Nat /\ m.tick <= tick
      BY <1>0, <3>3 DEF BusSound
    <3>5. Current(m, bus, k)
      BY <3>3 DEF Current
    <3> QED BY <1>0, <3>3, <3>4, <3>5, PlacedLater
  <2> QED BY <2>1, <2>2
<1>4. MemoriesPlaced'
  <2>1. IsSeq(memories') /\ IsInjective(memories')
    BY DEF Settling
  <2> QED BY <2>1, <1>0, <1>3 DEF MemoriesPlaced, Remembered, Old, Current, IsSeq
<1>5. SavedSound'
  BY <1>0 DEF MemoryInvariant, SavedSound, Remembered, IsSeq
<1> QED BY <1>1, <1>2, <1>4, <1>5 DEF MemoryInvariant, Requested, PairsTo, ItemSound, Kept, Waits, FailedIn, IsSeq

\* drain takes the items that are not held back, in turn.
Drained(c, p, x) == IF x.agent \in alarmed THEN p ELSE Remember(p, x, c)

Free(i) == {j \in 1..i : work[j].agent \notin alarmed}

DrainedUpTo(c, i, p) == Settling(p, Free(i))

Draining == INSTANCE FoldFacts WITH Op <- Drained, P <- DrainedUpTo

Finished(c, p, x) == CancelOrRecord(p, x)

FinishedUpTo(c, i, p) == Settling(p, 1..i) /\ (i = 0 => p.bus = bus)

Finishing == INSTANCE FoldFacts WITH Op <- Finished, P <- FinishedUpTo

LEMMA NothingSettled ==
    ASSUME MemoryInvariant
    PROVE  Settling([bus |-> bus, memories |-> memories], {})
BY NotGrown DEF MemoryInvariant, BusSound, MemoriesPlaced, Remembered, Settling

\* What is queued is queued once.
LEMMA WorkOnce ==
    ASSUME MemoryInvariant
    PROVE  /\ IsSeq(work) /\ IsInjective(work) /\ DOMAIN work = 1..Len(work) /\ Len(work) \in Nat
<1>1. IsSeq(work) /\ DOMAIN work = 1..Len(work) /\ Len(work) \in Nat
  BY SeqParts DEF MemoryInvariant, Requested
<1>2. \A i, j \in 1..Len(work) : work[i] = work[j] => i = j
  BY DEF MemoryInvariant, Requested
<1> QED BY <1>1, <1>2 DEF IsInjective

LEMMA DrainKeeps ==
    ASSUME MemoryInvariant, NEW fails \in BOOLEAN, Drain(fails)
    PROVE  MemoryInvariant' /\ Grown(bus', bus, tick, Settlements)
<1> DEFINE N == Len(work)
           base == [bus |-> bus, memories |-> memories]
           settle(p, x) == IF x.agent \in alarmed THEN p ELSE Remember(p, x, fails)
           done == FoldLeft(settle, base, work)
<1>1. /\ IsSeq(work) /\ IsInjective(work) /\ DOMAIN work = 1..N /\ N \in Nat
  BY WorkOnce
<1>2. DrainedUpTo(fails, 0, base)
  <2>1. Free(0) = {}
    BY DEF Free
  <2> QED BY <2>1, NothingSettled DEF DrainedUpTo
<1>3. ASSUME NEW i \in 1..N, NEW p, DrainedUpTo(fails, i - 1, p)
      PROVE  DrainedUpTo(fails, i, Drained(fails, p, work[i]))
  <2>0. \A j \in Nat : j \in 1..i <=> j \in 1..(i - 1) \/ j = i
    BY <1>1
  <2>1. Free(i - 1) \in SUBSET (1..Len(work)) /\ i \notin Free(i - 1)
    BY <1>1 DEF Free
  <2>2. CASE work[i].agent \in alarmed
    <3>1. Free(i) = Free(i - 1)
      BY <2>0, <2>2 DEF Free
    <3> QED BY <1>3, <2>2, <3>1 DEF DrainedUpTo, Drained
  <2>3. CASE work[i].agent \notin alarmed
    <3>1. Free(i) = Free(i - 1) \cup {i}
      BY <2>0, <2>3 DEF Free
    <3>2. Settling(p, Free(i - 1))
      BY <1>3 DEF DrainedUpTo
    <3>3. Settling(Remember(p, work[i], FALSE), Free(i - 1) \cup {i})
      BY <2>1, <3>2, RecordSettles
    <3>4. Settling([p EXCEPT !.bus = Append(@, Settles(work[i], "memory.failed"))],
                   Free(i - 1) \cup {i})
      BY <2>1, <3>2, FailureSettles
    <3>5. Settling(Remember(p, work[i], fails), Free(i - 1) \cup {i})
      BY <3>3, <3>4 DEF Remember
    <3> QED BY <2>3, <3>1, <3>5 DEF DrainedUpTo, Drained
  <2> QED BY <2>2, <2>3
<1>4. DrainedUpTo(fails, N, Draining!Folded(fails, base, work))
  BY <1>1, <1>2, <1>3, Draining!Keeps, LeastOf
<1>5. Draining!Folded(fails, base, work) = done
  BY DEF Drained, FoldLeft, MapThenFoldSet, Max,
         Draining!Folded, Draining!MapThenFoldSet, Draining!Greatest
<1>6. /\ bus' = done.bus /\ memories' = done.memories /\ work' = Held(work)
      /\ phase = "drain" /\ phase' = "world"
      /\ UNCHANGED <<cursor, tick, saved>>
  BY DEF Drain, restarts
<1>7. Settling(done, Free(N)) /\ Free(N) \in SUBSET (1..Len(work))
  BY <1>4, <1>5 DEF DrainedUpTo, Free
<1> HIDE DEF done, base
<1>8. LeftOf(work', Free(N))
  <2> DEFINE T == {x \in ToSet(work) : x.agent \in alarmed}
             kept == Only(work, T)
  <2>1. work' = kept
    BY <1>6 DEF Held
  <2>2. /\ IsSeq(kept) /\ Range(kept) = {x \in Range(work) : x \in T} /\ IsInjective(kept)
    BY <1>1, OnlyKeeps
  <2>3. ToSet(work) = Range(work) /\ Range(work) = {work[i] : i \in 1..N}
    BY <1>1 DEF ToSet, Range
  <2> HIDE DEF kept
  <2>4. Range(kept) = {x \in Range(work) : x.agent \in alarmed}
    BY <2>2, <2>3
  <2>5. Range(kept) = {kept[k] : k \in 1..Len(kept)}
    BY <2>2, SeqParts DEF Range
  <2>6. ASSUME NEW k \in 1..Len(kept) PROVE \E i \in 1..N : i \notin Free(N) /\ kept[k] = work[i]
    <3>1. kept[k] \in Range(work) /\ kept[k].agent \in alarmed
      BY <2>4, <2>5
    <3> QED BY <2>3, <3>1 DEF Free
  <2>7. ASSUME NEW i \in 1..N, i \notin Free(N) PROVE \E k \in 1..Len(kept) : kept[k] = work[i]
    <3>1. work[i] \in Range(kept)
      BY <2>3, <2>4, <2>7 DEF Free
    <3> QED BY <2>5, <3>1
  <2> QED BY <2>1, <2>2, <2>6, <2>7 DEF LeftOf
<1>9. \A m \in Range(memories) : Old(m, bus) => m.tick < tick
  BY <1>6 DEF MemoryInvariant, MemoriesPlaced
<1>10. MemoryInvariant'
  BY <1>6, <1>7, <1>8, <1>9, SettledKeeps
<1> QED BY <1>6, <1>7, <1>10 DEF Settling

LEMMA FinaliseKeeps ==
    ASSUME MemoryInvariant, Finalise
    PROVE  MemoryInvariant' /\ Grown(bus', bus, tick, Settlements)
<1> DEFINE N == Len(work)
           base == [bus |-> bus, memories |-> memories]
           done == FoldLeft(CancelOrRecord, base, work)
<1>1. /\ IsSeq(work) /\ IsInjective(work) /\ DOMAIN work = 1..N /\ N \in Nat
  BY WorkOnce
<1>2. FinishedUpTo(0, 0, base)
  <2>1. 1..0 = {}
    OBVIOUS
  <2> QED BY <2>1, NothingSettled DEF FinishedUpTo
<1>3. ASSUME NEW i \in 1..N, NEW p, FinishedUpTo(0, i - 1, p)
      PROVE  FinishedUpTo(0, i, Finished(0, p, work[i]))
  <2>1. (1..(i - 1)) \in SUBSET (1..Len(work)) /\ i \notin 1..(i - 1) /\ i # 0
        /\ 1..i = (1..(i - 1)) \cup {i}
    BY <1>1
  <2>2. Settling(p, 1..(i - 1))
    BY <1>3 DEF FinishedUpTo
  <2>3. Settling(Remember(p, work[i], FALSE), (1..(i - 1)) \cup {i})
    BY <2>1, <2>2, RecordSettles
  <2>4. Settling([p EXCEPT !.bus = Append(@, Settles(work[i], "memory.cancelled"))],
                 (1..(i - 1)) \cup {i})
    BY <2>1, <2>2, FailureSettles
  <2>5. Settling(CancelOrRecord(p, work[i]), 1..i)
    BY <2>1, <2>3, <2>4 DEF CancelOrRecord
  <2> QED BY <2>1, <2>5 DEF FinishedUpTo, Finished
<1>4. FinishedUpTo(0, N, Finishing!Folded(0, base, work))
  BY <1>1, <1>2, <1>3, Finishing!Keeps, LeastOf
<1>5. Finishing!Folded(0, base, work) = done
  BY DEF Finished, FoldLeft, MapThenFoldSet, Max,
         Finishing!Folded, Finishing!MapThenFoldSet, Finishing!Greatest
<1>6. /\ bus' = done.bus /\ memories' = done.memories /\ work' = <<>>
      /\ phase' = "ended" /\ UNCHANGED <<cursor, tick, saved>>
  BY DEF Finalise, restarts
<1>7. Settling(done, 1..N) /\ (N = 0 => done.bus = bus)
  BY <1>4, <1>5 DEF FinishedUpTo
<1> HIDE DEF done, base
<1>8. LeftOf(work', 1..N)
  <2>1. IsInjective(<<>>)
    BY DEF IsInjective
  <2> QED BY <2>1, <1>6, NothingListed DEF LeftOf
<1>9. N # 0 => \A m \in Range(memories) : Old(m, bus) => m.tick < tick
  <2> SUFFICES ASSUME N # 0, NEW m \in Range(memories), Old(m, bus) PROVE m.tick < tick
    OBVIOUS
  <2>0. 1 \in 1..Len(work)
    BY <1>1
  <2>1. work[1].event \in 1..Len(bus)
    BY <2>0 DEF MemoryInvariant, Requested, ItemSound
  <2>2. m.tick < bus[work[1].event].tick
    BY <2>1 DEF Old
  <2>3. bus[work[1].event].tick \in Nat /\ bus[work[1].event].tick <= tick /\ tick \in Nat
        /\ m.tick \in Nat
    BY <2>1 DEF MemoryInvariant, BusSound, MemoriesPlaced, Remembered
  <2> QED BY <2>2, <2>3
<1>10. MemoryInvariant'
  BY <1>6, <1>7, <1>8, <1>9, SettledKeeps
<1> QED BY <1>6, <1>7, <1>10 DEF Settling

-----------------------------------------------------------------------------
(* The bus only grows, whatever was read before.                           *)

AskedMore(c, i, q) == Grown(q.bus, bus, tick, Asking) /\ IsSeq(q.work)

AskingOn == INSTANCE FoldFacts WITH Op <- Asked, P <- AskedMore
TellingOn == INSTANCE FoldFacts WITH Op <- ToldOf, P <- AskedMore

LEMMA AskingGrows ==
    ASSUME NEW q, NEW n, AskedMore(0, 0, q)
    PROVE  AskedMore(0, 0, RequestMemories(q, n))
<1> DEFINE N == Len(Agents)
           folded == FoldLeft(LAMBDA p, r : IF r \in Recipients(bus[n]) THEN Enqueue(p, n, r) ELSE p,
                              q, Agents)
<1>1. N \in Nat /\ DOMAIN Agents = 1..N
  BY AgentsOnce
<1>2. AskedMore(n, 0, q)
  BY DEF AskedMore
<1>3. ASSUME NEW i \in 1..N, NEW p, AskedMore(n, i - 1, p)
      PROVE  AskedMore(n, i, Asked(n, p, Agents[i]))
  <2> DEFINE r == Agents[i]
             e == [Happens(r, "memory.requested", None) EXCEPT !.cause = n]
             x == [agent |-> r, event |-> n, tick |-> bus[n].tick, request |-> Len(p.bus) + 1]
  <2>1. EventSound(e) /\ e.tick = tick /\ e.type \in Asking
    BY DEF Happens, EventSound, Memorable, Asking
  <2>2. Enqueue(p, n, r) = [bus |-> Append(p.bus, e), work |-> Append(p.work, x)]
    BY DEF Enqueue
  <2> HIDE DEF e, x
  <2>3. Grown(Append(p.bus, e), bus, tick, Asking)
    BY <1>3, <2>1, GrowsByOne DEF AskedMore
  <2>4. IsSeq(Append(p.work, x))
    BY <1>3, Appended DEF AskedMore
  <2>5. AskedMore(n, i, Enqueue(p, n, r))
    BY <2>2, <2>3, <2>4 DEF AskedMore
  <2>6. AskedMore(n, i, p)
    BY <1>3 DEF AskedMore
  <2> QED BY <2>5, <2>6 DEF Asked
<1>4. AskedMore(n, N, AskingOn!Folded(n, q, Agents))
  BY <1>1, <1>2, <1>3, AskingOn!Keeps, LeastOf
<1>5. AskingOn!Folded(n, q, Agents) = folded
  BY DEF Asked, FoldLeft, MapThenFoldSet, Max,
         AskingOn!Folded, AskingOn!MapThenFoldSet, AskingOn!Greatest
<1>6. AskedMore(0, 0, folded)
  BY <1>4, <1>5 DEF AskedMore
<1> QED BY <1>6 DEF RequestMemories

LEMMA MemoriseGrows ==
    ASSUME BusSound, IsSeq(work), Memorise
    PROVE  Grown(bus', bus, tick, Asking) /\ IsSeq(work')
<1> DEFINE N == Len(bus) - cursor["memory"]
           base == [bus |-> bus, work |-> work]
           done == FoldLeft(RequestMemories, base, Unread("memory"))
<1>1. N \in Nat /\ DOMAIN Unread("memory") = 1..N
  BY UnreadListed DEF BusSound
<1>2. AskedMore(0, 0, base)
  BY NotGrown DEF AskedMore, BusSound
<1>3. ASSUME NEW i \in 1..N, NEW q, AskedMore(0, i - 1, q)
      PROVE  AskedMore(0, i, ToldOf(0, q, Unread("memory")[i]))
  <2>1. AskedMore(0, 0, q)
    BY <1>3 DEF AskedMore
  <2>2. AskedMore(0, 0, RequestMemories(q, Unread("memory")[i]))
    BY <2>1, AskingGrows
  <2> QED BY <2>2 DEF AskedMore, ToldOf
<1>4. AskedMore(0, N, TellingOn!Folded(0, base, Unread("memory")))
  BY <1>1, <1>2, <1>3, TellingOn!Keeps, LeastOf
<1>5. TellingOn!Folded(0, base, Unread("memory")) = done
  BY DEF ToldOf, FoldLeft, MapThenFoldSet, Max,
         TellingOn!Folded, TellingOn!MapThenFoldSet, TellingOn!Greatest
<1>6. bus' = done.bus /\ work' = done.work
  BY DEF Memorise
<1> QED BY <1>4, <1>5, <1>6 DEF AskedMore

SettledMore(c, i, p) ==
    DOMAIN p = {"bus", "memories"} /\ Grown(p.bus, bus, tick, Settlements)

DrainingOn == INSTANCE FoldFacts WITH Op <- Drained, P <- SettledMore
FinishingOn == INSTANCE FoldFacts WITH Op <- Finished, P <- SettledMore

LEMMA SettlingGrows ==
    ASSUME NEW p, SettledMore(0, 0, p), NEW x, NEW fails \in BOOLEAN
    PROVE  /\ SettledMore(0, 0, Remember(p, x, fails))
           /\ SettledMore(0, 0, CancelOrRecord(p, x))
<1> DEFINE settles(type) == Settles(x, type)
           recorded == [settles("memory.recorded") EXCEPT !.about = Len(p.memories) + 1]
           m == [agent |-> x.agent, event |-> x.event, tick |-> x.tick]
<1>1. ASSUME NEW e, EventSound(e), e.tick = tick, e.type \in Settlements, NEW ms
      PROVE  /\ SettledMore(0, 0, [p EXCEPT !.bus = Append(@, e)])
             /\ SettledMore(0, 0, [p EXCEPT !.bus = Append(@, e), !.memories = ms])
  <2>1. Grown(Append(p.bus, e), bus, tick, Settlements) /\ DOMAIN p = {"bus", "memories"}
    BY <1>1, GrowsByOne DEF SettledMore
  <2> QED BY <2>1 DEF SettledMore
<1>2. /\ EventSound(recorded) /\ recorded.tick = tick /\ recorded.type \in Settlements
      /\ \A type \in Settlements :
            /\ EventSound(settles(type)) /\ settles(type).tick = tick
            /\ settles(type).type \in Settlements
  BY DEF Settles, Happens, EventSound, Memorable, Settlements
<1>3. /\ Remember(p, x, TRUE) = [p EXCEPT !.bus = Append(@, settles("memory.failed"))]
      /\ Remember(p, x, FALSE) = [p EXCEPT !.bus = Append(@, recorded),
                                            !.memories = Append(p.memories, m)]
  BY DEF Remember
<1> HIDE DEF recorded, settles
<1>4. {"memory.failed", "memory.cancelled"} \subseteq Settlements
  BY DEF Settlements
<1>5. \A type \in Settlements : SettledMore(0, 0, [p EXCEPT !.bus = Append(@, settles(type))])
  BY <1>1, <1>2
<1>6. SettledMore(0, 0, Remember(p, x, TRUE))
  BY <1>3, <1>4, <1>5
<1>7. SettledMore(0, 0, Remember(p, x, FALSE))
  <2>1. SettledMore(0, 0, [p EXCEPT !.bus = Append(@, recorded), !.memories = Append(p.memories, m)])
    BY <1>1, <1>2
  <2> QED BY <1>3, <2>1
<1>8. SettledMore(0, 0, CancelOrRecord(p, x))
  <2>1. CASE x.agent \in alarmed
    <3>1. CancelOrRecord(p, x) = [p EXCEPT !.bus = Append(@, settles("memory.cancelled"))]
      BY <2>1 DEF CancelOrRecord, settles
    <3> QED BY <1>4, <1>5, <3>1
  <2>2. CASE x.agent \notin alarmed
    BY <1>7, <2>2 DEF CancelOrRecord
  <2> QED BY <2>1, <2>2
<1> QED BY <1>6, <1>7, <1>8

LEMMA DrainGrows ==
    ASSUME BusSound, IsSeq(work), NEW fails \in BOOLEAN, Drain(fails)
    PROVE  Grown(bus', bus, tick, Settlements) /\ IsSeq(work')
<1> DEFINE N == Len(work)
           base == [bus |-> bus, memories |-> memories]
           settle(p, x) == IF x.agent \in alarmed THEN p ELSE Remember(p, x, fails)
           done == FoldLeft(settle, base, work)
<1>1. N \in Nat /\ DOMAIN work = 1..N
  BY SeqParts
<1>2. SettledMore(fails, 0, base)
  BY NotGrown DEF SettledMore, BusSound
<1>3. ASSUME NEW i \in 1..N, NEW p, SettledMore(fails, i - 1, p)
      PROVE  SettledMore(fails, i, Drained(fails, p, work[i]))
  <2>1. SettledMore(0, 0, p)
    BY <1>3 DEF SettledMore
  <2>2. SettledMore(0, 0, Drained(fails, p, work[i]))
    BY <2>1, SettlingGrows DEF Drained
  <2> QED BY <2>2 DEF SettledMore
<1>4. SettledMore(fails, N, DrainingOn!Folded(fails, base, work))
  BY <1>1, <1>2, <1>3, DrainingOn!Keeps, LeastOf
<1>5. DrainingOn!Folded(fails, base, work) = done
  BY DEF Drained, FoldLeft, MapThenFoldSet, Max,
         DrainingOn!Folded, DrainingOn!MapThenFoldSet, DrainingOn!Greatest
<1>6. bus' = done.bus /\ work' = Only(work, {x \in ToSet(work) : x.agent \in alarmed})
  BY DEF Drain, Held
<1> HIDE DEF done
<1>7. IsSeq(work')
  BY <1>6, OnlyKeeps
<1> QED BY <1>4, <1>5, <1>6, <1>7 DEF SettledMore

LEMMA FinaliseGrows ==
    ASSUME BusSound, IsSeq(work), Finalise
    PROVE  Grown(bus', bus, tick, Settlements) /\ IsSeq(work')
<1> DEFINE N == Len(work)
           base == [bus |-> bus, memories |-> memories]
           done == FoldLeft(CancelOrRecord, base, work)
<1>1. N \in Nat /\ DOMAIN work = 1..N
  BY SeqParts
<1>2. SettledMore(0, 0, base)
  BY NotGrown DEF SettledMore, BusSound
<1>3. ASSUME NEW i \in 1..N, NEW p, SettledMore(0, i - 1, p)
      PROVE  SettledMore(0, i, Finished(0, p, work[i]))
  <2>1. SettledMore(0, 0, p)
    BY <1>3 DEF SettledMore
  <2>2. SettledMore(0, 0, Finished(0, p, work[i]))
    BY <2>1, SettlingGrows DEF Finished
  <2> QED BY <2>2 DEF SettledMore
<1>4. SettledMore(0, N, FinishingOn!Folded(0, base, work))
  BY <1>1, <1>2, <1>3, FinishingOn!Keeps, LeastOf
<1>5. FinishingOn!Folded(0, base, work) = done
  BY DEF Finished, FoldLeft, MapThenFoldSet, Max,
         FinishingOn!Folded, FinishingOn!MapThenFoldSet, FinishingOn!Greatest
<1>6. bus' = done.bus /\ work' = <<>>
  BY DEF Finalise
<1> QED BY <1>4, <1>5, <1>6, NothingListed DEF SettledMore

-----------------------------------------------------------------------------
(* What is seen.                                                           *)

\* Who has whom in sight.
Seeing(ms) == {v \in Characters \X Characters : v[2] \in ms[v[1]].visible}

Sights == {"entity_seen", "entity_lost"}

Sighting(e, o, b) ==
    /\ e.type = "perception.delivered" /\ e.agent = o /\ e.target = b
    /\ e.about.kind \in Sights

\* One sighting follows another, with none between them.
Following(b, o, c, m, n) ==
    /\ Sighting(b[m], o, c) /\ Sighting(b[n], o, c) /\ m < n
    /\ \A i \in 1..Len(b) : Sighting(b[i], o, c) => i <= m \/ n <= i

Latest(b, o, c, m) ==
    Sighting(b[m], o, c) /\ \A i \in 1..Len(b) : Sighting(b[i], o, c) => i <= m

\* The sightings alternate, and the last of each pair says whether it is in V.
Agrees(b, V) ==
    \A o, c \in Characters :
        /\ \A m, n \in 1..Len(b) : Following(b, o, c, m, n) => b[m].about.kind # b[n].about.kind
        /\ \A m \in 1..Len(b) :
              Latest(b, o, c, m) => (b[m].about.kind = "entity_seen" <=> <<o, c>> \in V)

\* What is no sighting changes nothing.
LEMMA AgreesOn ==
    ASSUME NEW a, NEW b, NEW t, NEW types, Grown(b, a, t, types), NEW V, Agrees(a, V),
           \A i \in (Len(a) + 1)..Len(b) : \A o, c \in Characters : ~Sighting(b[i], o, c)
    PROVE  Agrees(b, V)
<1>1. /\ Len(a) \in Nat /\ Len(b) \in Nat /\ Len(a) <= Len(b)
      /\ \A i \in 1..Len(a) : i \in 1..Len(b) /\ b[i] = a[i]
  BY SeqParts DEF Grown
<1>2. ASSUME NEW o \in Characters, NEW c \in Characters, NEW i \in 1..Len(b), Sighting(b[i], o, c)
      PROVE  i \in 1..Len(a)
  BY <1>1, <1>2
<1>3. ASSUME NEW o \in Characters, NEW c \in Characters, NEW m \in 1..Len(b), NEW n \in 1..Len(b),
             Following(b, o, c, m, n)
      PROVE  b[m].about.kind # b[n].about.kind
  <2>1. m \in 1..Len(a) /\ n \in 1..Len(a)
    BY <1>2, <1>3 DEF Following
  <2>2. b[m] = a[m] /\ b[n] = a[n]
    BY <1>1, <2>1
  <2>3. \A i \in 1..Len(a) : Sighting(a[i], o, c) => i <= m \/ n <= i
    BY <1>1, <1>3 DEF Following
  <2>4. Following(a, o, c, m, n)
    BY <1>3, <2>2, <2>3 DEF Following
  <2> QED BY <2>1, <2>2, <2>4 DEF Agrees
<1>4. ASSUME NEW o \in Characters, NEW c \in Characters, NEW m \in 1..Len(b), Latest(b, o, c, m)
      PROVE  b[m].about.kind = "entity_seen" <=> <<o, c>> \in V
  <2>1. m \in 1..Len(a)
    BY <1>2, <1>4 DEF Latest
  <2>2. Latest(a, o, c, m)
    BY <1>1, <1>4, <2>1 DEF Latest
  <2> QED BY <1>1, <2>1, <2>2 DEF Agrees
<1> QED BY <1>3, <1>4 DEF Agrees

\* A sighting that is none so far makes it one.
LEMMA AgreesWith ==
    ASSUME NEW a, IsSeq(a), NEW V, Agrees(a, V), NEW e, NEW o \in Characters, NEW c \in Characters,
           Sighting(e, o, c), NEW W, W \ {<<o, c>>} = V \ {<<o, c>>},
           e.about.kind = "entity_seen" <=> <<o, c>> \notin V,
           e.about.kind = "entity_seen" <=> <<o, c>> \in W
    PROVE  Agrees(Append(a, e), W)
<1> DEFINE b == Append(a, e)
<1>1. /\ Len(a) \in Nat /\ Len(b) = Len(a) + 1
      /\ \A i \in 1..Len(a) : i \in 1..Len(b) /\ b[i] = a[i]
      /\ b[Len(b)] = e /\ \A i \in 1..Len(b) : i \in 1..Len(a) \/ i = Len(b)
  BY Appended, SeqParts
<1> HIDE DEF b
<1>2. e.about.kind \in Sights /\ \A p, q : Sighting(e, p, q) => p = o /\ q = c
  BY DEF Sighting
<1>3. ASSUME NEW p \in Characters, NEW q \in Characters, NEW m \in 1..Len(b), NEW n \in 1..Len(b),
             Following(b, p, q, m, n)
      PROVE  b[m].about.kind # b[n].about.kind
  <2>1. m \in 1..Len(a) /\ m < n
    BY <1>1, <1>3 DEF Following
  <2>2. CASE n \in 1..Len(a)
    <3>1. Following(a, p, q, m, n)
      BY <1>1, <1>3, <2>1, <2>2 DEF Following
    <3>2. \A x, y \in 1..Len(a) : Following(a, p, q, x, y) => a[x].about.kind # a[y].about.kind
      BY Zenon DEF Agrees
    <3>3. a[m].about.kind # a[n].about.kind
      BY <2>1, <2>2, <3>1, <3>2
    <3> QED BY <1>1, <2>1, <2>2, <3>3
  <2>3. CASE n = Len(b)
    <3>1. p = o /\ q = c /\ b[n] = e
      BY <1>1, <1>2, <1>3, <2>3 DEF Following
    <3>2. Latest(a, o, c, m)
      BY <1>1, <1>3, <2>1, <2>3, <3>1 DEF Following, Latest
    <3>3. a[m].about.kind = "entity_seen" <=> <<o, c>> \in V
      BY <2>1, <3>2 DEF Agrees
    <3>4. a[m].about.kind \in Sights /\ b[m] = a[m]
      BY <1>1, <2>1, <3>2 DEF Latest, Sighting
    <3> QED BY <1>2, <3>1, <3>3, <3>4 DEF Sights
  <2> QED BY <1>1, <2>2, <2>3
<1>4. ASSUME NEW p \in Characters, NEW q \in Characters, NEW m \in 1..Len(b), Latest(b, p, q, m)
      PROVE  b[m].about.kind = "entity_seen" <=> <<p, q>> \in W
  <2>1. CASE p = o /\ q = c
    <3>1. Len(b) \in 1..Len(b) /\ Sighting(b[Len(b)], p, q)
      BY <1>1, <2>1
    <3>2. m = Len(b)
      BY <1>1, <1>4, <3>1 DEF Latest
    <3> QED BY <1>1, <2>1, <3>2
  <2>2. CASE ~(p = o /\ q = c)
    <3>1. m \in 1..Len(a)
      BY <1>1, <1>2, <1>4, <2>2 DEF Latest
    <3>2. Latest(a, p, q, m)
      BY <1>1, <1>4, <3>1 DEF Latest
    <3>3. <<p, q>> \in V <=> <<p, q>> \in W
      <4>1. <<p, q>> # <<o, c>>
        BY <2>2
      <4> QED BY <4>1
    <3> QED BY <1>1, <3>1, <3>2, <3>3 DEF Agrees
  <2> QED BY <2>1, <2>2
<1>5. Agrees(b, W)
  BY <1>3, <1>4 DEF Agrees
<1> QED BY <1>5 DEF b

FactSound(x) == x.salience \in Nat /\ x.tick \in Nat /\ x.id \in Nat

\* There is a faintest fact.
LEMMA FaintestIsOne ==
    ASSUME NEW inbox, IsSeq(inbox), Len(inbox) > 0, \A x \in Range(inbox) : FactSound(x)
    PROVE  Faintest(inbox) \in 1..Len(inbox)
<1> DEFINE D == 1..Len(inbox)
           A == {inbox[i].salience : i \in D}
<1>1. /\ Len(inbox) \in Nat /\ DOMAIN inbox = D /\ 1 \in D
      /\ \A i \in D : inbox[i].salience \in Nat /\ inbox[i].tick \in Nat /\ inbox[i].id \in Nat
  BY SeqParts DEF Range, FactSound
<1> HIDE DEF D
<1>2. PICK i \in D : \A j \in D : inbox[i].salience <= inbox[j].salience
  <2>1. A \in SUBSET Nat /\ A # {}
    BY <1>1
  <2>2. PICK s \in A : \A x \in A : s <= x
    BY <2>1, LeastOf
  <2> QED BY <2>2
<1> DEFINE E == {j \in D : inbox[j].salience = inbox[i].salience}
           B == {inbox[j].tick : j \in E}
<1>3. PICK k \in E : \A j \in E : inbox[k].tick <= inbox[j].tick
  <2>1. B \in SUBSET Nat /\ B # {}
    BY <1>1
  <2>2. PICK s \in B : \A x \in B : s <= x
    BY <2>1, LeastOf
  <2> QED BY <2>2
<1> DEFINE F == {j \in E : inbox[j].tick = inbox[k].tick}
           C == {inbox[j].id : j \in F}
<1>4. PICK l \in F : \A j \in F : inbox[l].id <= inbox[j].id
  <2>1. C \in SUBSET Nat /\ C # {}
    BY <1>1
  <2>2. PICK s \in C : \A x \in C : s <= x
    BY <2>1, LeastOf
  <2> QED BY <2>2
<1>5. ASSUME NEW j \in D
      PROVE  LET x == inbox[l] y == inbox[j] IN
             \/ x.salience < y.salience
             \/ x.salience = y.salience /\ x.tick < y.tick
             \/ x.salience = y.salience /\ x.tick = y.tick /\ x.id <= y.id
  <2>1. l \in D /\ inbox[l].salience = inbox[i].salience /\ inbox[l].tick = inbox[k].tick
    OBVIOUS
  <2>2. inbox[l].salience <= inbox[j].salience
    BY <1>2, <2>1
  <2>3. CASE inbox[j].salience # inbox[i].salience
    BY <1>1, <2>1, <2>2, <2>3
  <2>4. CASE inbox[j].salience = inbox[i].salience
    <3>1. j \in E /\ inbox[l].tick <= inbox[j].tick
      BY <1>3, <2>1, <2>4
    <3>2. CASE inbox[j].tick # inbox[k].tick
      BY <1>1, <2>1, <2>4, <3>1, <3>2
    <3>3. CASE inbox[j].tick = inbox[k].tick
      BY <1>4, <2>1, <2>4, <3>1, <3>3
    <3> QED BY <3>2, <3>3
  <2> QED BY <2>3, <2>4
<1>6. \E f \in DOMAIN inbox : \A j \in DOMAIN inbox :
        LET x == inbox[f] y == inbox[j] IN
        \/ x.salience < y.salience
        \/ x.salience = y.salience /\ x.tick < y.tick
        \/ x.salience = y.salience /\ x.tick = y.tick /\ x.id <= y.id
  BY <1>1, <1>5
<1>7. Faintest(inbox) \in DOMAIN inbox
  BY <1>6 DEF Faintest
<1> QED BY <1>1, <1>7 DEF D

\* Without one of its elements a sequence is one of the others.
LEMMA Without ==
    ASSUME NEW s, IsSeq(s), NEW k \in 1..Len(s)
    PROVE  IsSeq(RemoveAt(s, k)) /\ Range(RemoveAt(s, k)) \subseteq Range(s)
<1>1. s \in Seq(Range(s)) /\ Len(s) \in Nat /\ k \in Nat /\ 1 <= k /\ k <= Len(s)
  BY SeqParts DEF IsSeq
<1>2. SubSeq(s, 1, k - 1) \in Seq(Range(s))
  BY <1>1
<1>3. SubSeq(s, k + 1, Len(s)) \in Seq(Range(s))
  BY <1>1
<1> DEFINE t == RemoveAt(s, k)
<1>4. t \in Seq(Range(s))
  BY <1>2, <1>3 DEF RemoveAt
<1> HIDE DEF t
<1>5. t = [i \in 1..Len(t) |-> t[i]] /\ Len(t) \in Nat /\ \A i \in 1..Len(t) : t[i] \in Range(s)
  BY <1>4
<1>6. IsSeq(t) /\ DOMAIN t = 1..Len(t)
  BY <1>5, Listed
<1> QED BY <1>5, <1>6 DEF Range, t

\* What joining a sequence of events makes of the bus.
LEMMA GrowsByMany ==
    ASSUME NEW new, NEW old, NEW t, NEW types, Grown(new, old, t, types), NEW s, IsSeq(s),
           NEW some, some \subseteq types,
           \A i \in 1..Len(s) : EventSound(s[i]) /\ s[i].tick = t /\ s[i].type \in some
    PROVE  Grown(new \o s, old, t, types) /\ Grown(new \o s, new, t, some)
<1> DEFINE b == new \o s
<1>0. IsSeq(new) /\ Len(new) \in Nat /\ Len(s) \in Nat
  BY SeqParts DEF Grown
<1>1. /\ IsSeq(b) /\ Len(b) = Len(new) + Len(s) /\ Len(new) \in Nat /\ Len(s) \in Nat
      /\ \A i \in 1..Len(new) : b[i] = new[i]
      /\ \A i \in 1..Len(s) : b[Len(new) + i] = s[i]
  BY <1>0, Joined
<1> HIDE DEF b
<1>2. Grown(b, new, t, some)
  <2>1. ASSUME NEW i \in (Len(new) + 1)..Len(b)
        PROVE  EventSound(b[i]) /\ b[i].tick = t /\ b[i].type \in some
    <3>1. i - Len(new) \in 1..Len(s) /\ b[i] = s[i - Len(new)]
      BY <1>1
    <3> QED BY <3>1
  <2> QED BY <1>1, <2>1 DEF Grown
<1>3. Grown(b, new, t, types)
  BY <1>2 DEF Grown
<1>4. Grown(b, old, t, types)
  BY <1>3, GrowsOn
<1> QED BY <1>2, <1>4 DEF b

LEMMA JoinedByOne ==
    ASSUME NEW s, IsSeq(s), NEW e
    PROVE  s \o <<e>> = Append(s, e)
<1>1. s \in Seq(Range(s) \cup {e}) /\ e \in Range(s) \cup {e}
  BY DEF IsSeq
<1> QED BY <1>1, AppendIsConcat

MindSound(m) ==
    /\ DOMAIN m = {"inbox", "visible"} /\ IsSeq(m.inbox)
    /\ \A x \in Range(m.inbox) : FactSound(x)

MindsAre(ms) == DOMAIN ms = Characters /\ \A a \in Characters : MindSound(ms[a])

Perceptions == {"perception.delivered", "perception.dropped", "speech.delivered"}

\* The minds and the bus while a tick is perceived, with V in sight according to the bus.
Perceiving(p, V) ==
    /\ DOMAIN p = {"minds", "facts", "bus"} /\ p.facts \in Nat
    /\ MindsAre(p.minds)
    /\ Grown(p.bus, bus, tick, Perceptions)
    /\ Agrees(p.bus, V)

\* What of a delivery is known to the pair of an observer and a subject.
Tells(kind, o, b, V, W) ==
    /\ kind \in DOMAIN Saliences
    /\ kind \notin Sights => W = V
    /\ kind \in Sights =>
          /\ b \in Characters /\ W \ {<<o, b>>} = V \ {<<o, b>>}
          /\ kind = "entity_seen" <=> <<o, b>> \notin V
          /\ kind = "entity_seen" <=> <<o, b>> \in W

SameSight(new, old) == \A a \in Characters : new[a].visible = old[a].visible

LEMMA DeliverKeeps ==
    ASSUME BusSound, NEW p, NEW V, Perceiving(p, V), NEW o \in Characters, NEW kind, NEW subject,
           NEW cause, NEW W, Tells(kind, o, subject, V, W)
    PROVE  LET v == Deliver(p, o, kind, subject, cause) IN
           Perceiving(v, W) /\ SameSight(v.minds, p.minds)
<1> DEFINE inbox == p.minds[o].inbox
           fact == [id |-> p.facts + 1, kind |-> kind, subject |-> subject, tick |-> tick,
                    salience |-> Saliences[kind]]
           old == {x \in ToSet(inbox) : x.tick < tick - MaxAge}
           stale == Only(inbox, old)
           young == Only(inbox, ToSet(inbox) \ old)
           full == Append(young, fact)
           faint == IF Len(full) > InboxLimit THEN {Faintest(full)} ELSE {}
           tell(type, x) == [Happens(o, type, x.subject) EXCEPT !.about = x]
           left == IF faint = {} THEN full ELSE RemoveAt(full, Faintest(full))
           s == [i \in DOMAIN stale |-> tell("perception.dropped", stale[i])]
           d == [tell("perception.delivered", fact) EXCEPT !.cause = cause]
           u == IF faint = {} THEN <<>> ELSE <<tell("perception.dropped", full[Faintest(full)])>>
           v == Deliver(p, o, kind, subject, cause)
<1>1. /\ IsSeq(inbox) /\ \A x \in Range(inbox) : FactSound(x)
      /\ DOMAIN p.minds = Characters /\ DOMAIN p.minds[o] = {"inbox", "visible"}
      /\ p.facts \in Nat /\ tick \in Nat /\ Grown(p.bus, bus, tick, Perceptions)
      /\ Agrees(p.bus, V) /\ IsSeq(p.bus)
  <2>1. /\ MindSound(p.minds[o]) /\ DOMAIN p.minds = Characters /\ p.facts \in Nat
        /\ Grown(p.bus, bus, tick, Perceptions) /\ Agrees(p.bus, V)
    BY DEF Perceiving, MindsAre
  <2>2. IsSeq(inbox) /\ (\A x \in Range(inbox) : FactSound(x))
        /\ DOMAIN p.minds[o] = {"inbox", "visible"}
    BY <2>1 DEF MindSound
  <2>3. tick \in Nat /\ IsSeq(p.bus)
    BY <2>1 DEF BusSound, Grown
  <2> QED BY <2>1, <2>2, <2>3, Zenon
<1>2. /\ DOMAIN v = {"minds", "facts", "bus"} /\ v.facts = p.facts + 1
      /\ v.minds = [p.minds EXCEPT ![o].inbox = left]
      /\ v.bus = ((p.bus \o s) \o <<d>>) \o u
  BY Zenon DEF Deliver
<1>3. /\ d.type = "perception.delivered" /\ d.agent = o /\ d.target = subject
      /\ d.tick = tick /\ d.about = fact
  BY DEF Happens
<1>4. fact.kind = kind /\ FactSound(fact)
  BY <1>1 DEF FactSound, Saliences, Tells
<1>5. IsSeq(stale) /\ IsSeq(young) /\ \A x \in Range(young) : FactSound(x)
  BY <1>1, OnlyKeeps
<1>6. /\ IsSeq(full) /\ Len(full) > 0 /\ \A x \in Range(full) : FactSound(x)
  <2>1. IsSeq(full) /\ Len(full) = Len(young) + 1 /\ Len(young) \in Nat
    BY <1>5, Appended, SeqParts
  <2>2. Range(full) = Range(young) \cup {fact}
    BY <1>5, RangeGrows
  <2> HIDE DEF full, fact, young
  <2> QED BY <2>1, <2>2, <1>4, <1>5
<1>7. IsSeq(left) /\ \A x \in Range(left) : FactSound(x)
  <2>1. Faintest(full) \in 1..Len(full)
    BY <1>6, FaintestIsOne
  <2> HIDE DEF full
  <2>2. IsSeq(RemoveAt(full, Faintest(full)))
        /\ Range(RemoveAt(full, Faintest(full))) \subseteq Range(full)
    BY <1>6, <2>1, Without
  <2> QED BY <1>6, <2>2
<1>8. /\ IsSeq(s)
      /\ \A i \in 1..Len(s) : /\ EventSound(s[i]) /\ s[i].tick = tick
                              /\ s[i].type \in {"perception.dropped"}
  <2> HIDE DEF stale
  <2>1. DOMAIN stale = 1..Len(stale) /\ Len(stale) \in Nat
    BY <1>5, SeqParts
  <2>2. s = [i \in 1..Len(stale) |-> s[i]]
    BY <2>1
  <2>3. IsSeq(s) /\ Len(s) = Len(stale)
    BY <2>1, <2>2, Listed
  <2>4. ASSUME NEW i \in 1..Len(stale)
        PROVE  s[i].type = "perception.dropped" /\ s[i].tick = tick
    BY <2>1 DEF Happens
  <2> QED BY <2>3, <2>4 DEF EventSound, Memorable
<1>9. /\ IsSeq(u)
      /\ \A i \in 1..Len(u) : /\ EventSound(u[i]) /\ u[i].tick = tick
                              /\ u[i].type \in {"perception.dropped"}
  <2> DEFINE x == full[Faintest(full)]
             e == tell("perception.dropped", x)
  <2> HIDE DEF x
  <2>1. e.type = "perception.dropped" /\ e.tick = tick
    BY DEF Happens
  <2>2. u = <<>> \/ u = <<e>>
    BY Zenon DEF x
  <2> HIDE DEF e
  <2>3. EventSound(e)
    BY <2>1 DEF EventSound, Memorable
  <2> HIDE DEF u
  <2>4. CASE u = <<>>
    BY <2>4, NothingListed
  <2>5. CASE u = <<e>>
    <3>1. Len(u) = 1 /\ u[1] = e /\ u = [i \in 1..1 |-> u[i]]
      BY <2>5
    <3>2. IsSeq(u)
      BY <3>1, Listed
    <3> QED BY <3>1, <3>2, <2>1, <2>3
  <2> QED BY <2>2, <2>4, <2>5
<1>10. EventSound(d)
  BY <1>3 DEF EventSound, Memorable
<1> HIDE DEF s, u, d, left, v, fact
<1> DEFINE b1 == p.bus \o s
           b2 == Append(b1, d)
           b3 == b2 \o u
           some == {"perception.dropped"}
<1>11. Grown(b1, bus, tick, Perceptions) /\ Grown(b1, p.bus, tick, some) /\ IsSeq(b1)
  <2>1. some \subseteq Perceptions
    BY DEF Perceptions
  <2> HIDE DEF some
  <2>2. Grown(b1, bus, tick, Perceptions) /\ Grown(b1, p.bus, tick, some)
    BY <1>1, <1>8, <2>1, GrowsByMany DEF some
  <2> QED BY <2>2 DEF Grown
<1>12. Agrees(b1, V)
  <2>1. \A i \in (Len(p.bus) + 1)..Len(b1) : \A a, c \in Characters : ~Sighting(b1[i], a, c)
    <3> HIDE DEF b1
    <3> QED BY <1>11 DEF Grown, Sighting
  <2> HIDE DEF b1, some
  <2> QED BY <1>1, <1>11, <2>1, AgreesOn
<1> HIDE DEF b1
<1>13. d.type \in Perceptions
  BY <1>3 DEF Perceptions
<1>14. Grown(b2, bus, tick, Perceptions) /\ Grown(b2, b1, tick, Perceptions) /\ IsSeq(b2)
  <2>1. Grown(b2, bus, tick, Perceptions) /\ Grown(b2, b1, tick, Perceptions)
    BY <1>3, <1>10, <1>11, <1>13, GrowsByOne
  <2> QED BY <2>1 DEF Grown
<1>15. Agrees(b2, W)
  <2>1. CASE kind \in Sights
    <3>1. Sighting(d, o, subject)
      BY <1>3, <1>4, <2>1 DEF Sighting
    <3>2. /\ subject \in Characters /\ W \ {<<o, subject>>} = V \ {<<o, subject>>}
          /\ d.about.kind = "entity_seen" <=> <<o, subject>> \notin V
          /\ d.about.kind = "entity_seen" <=> <<o, subject>> \in W
      BY <1>3, <1>4, <2>1 DEF Tells
    <3> QED BY <3>1, <3>2, <1>11, <1>12, AgreesWith
  <2>2. CASE kind \notin Sights
    <3>1. W = V /\ \A a, c \in Characters : ~Sighting(d, a, c)
      BY <1>3, <1>4, <2>2 DEF Tells, Sighting
    <3>2. \A i \in (Len(b1) + 1)..Len(b2) : b2[i] = d
      <4>1. Len(b2) = Len(b1) + 1 /\ b2[Len(b1) + 1] = d /\ Len(b1) \in Nat
        BY <1>11, Appended, SeqParts
      <4> HIDE DEF b2
      <4> QED BY <4>1
    <3> HIDE DEF b2
    <3> QED BY <3>1, <3>2, <1>12, <1>14, AgreesOn
  <2> QED BY <2>1, <2>2
<1> HIDE DEF b2
<1>16. Grown(b3, bus, tick, Perceptions) /\ Grown(b3, b2, tick, some)
  <2>1. some \subseteq Perceptions
    BY DEF Perceptions
  <2> HIDE DEF some
  <2> QED BY <1>9, <1>14, <2>1, GrowsByMany DEF some
<1> HIDE DEF b3
<1>17. Agrees(b3, W)
  <2>1. \A i \in (Len(b2) + 1)..Len(b3) : \A a, c \in Characters : ~Sighting(b3[i], a, c)
    BY <1>16 DEF Grown, Sighting
  <2> HIDE DEF some
  <2> QED BY <1>15, <1>16, <2>1, AgreesOn
<1>18. v.bus = b3
  <2>1. b1 \o <<d>> = b2
    BY <1>11, JoinedByOne DEF b2
  <2> QED BY <1>2, <2>1 DEF b1, b3
<1>19. MindsAre(v.minds) /\ SameSight(v.minds, p.minds)
  <2>1. /\ DOMAIN v.minds = Characters
        /\ \A a \in Characters \ {o} : v.minds[a] = p.minds[a]
        /\ DOMAIN v.minds[o] = {"inbox", "visible"} /\ v.minds[o].inbox = left
        /\ v.minds[o].visible = p.minds[o].visible
    BY <1>1, <1>2
  <2>2. MindSound(v.minds[o])
    BY <2>1, <1>7 DEF MindSound
  <2> QED BY <2>1, <2>2 DEF MindsAre, SameSight, Perceiving
<1>20. Perceiving(v, W)
  <2>1. DOMAIN v = {"minds", "facts", "bus"} /\ v.facts \in Nat
    BY <1>1, <1>2
  <2>2. Grown(v.bus, bus, tick, Perceptions) /\ Agrees(v.bus, W)
    BY <1>16, <1>17, <1>18
  <2> QED BY <2>1, <2>2, <1>19 DEF Perceiving
<1> QED BY <1>19, <1>20 DEF v

\* One fact is delivered to those of c[1].
Heard(c, q, o) == IF o \in c[1] THEN Deliver(q, o, c[2], c[3], c[4]) ELSE q

HeardUpTo(c, i, q) == Perceiving(q, c[5]) /\ SameSight(q.minds, c[6])

Hearing == INSTANCE FoldFacts WITH Op <- Heard, P <- HeardUpTo

LEMMA DeliverAllKeeps ==
    ASSUME BusSound, NEW p, NEW V, Perceiving(p, V), NEW listeners,
           NEW kind \in DOMAIN Saliences \ Sights, NEW subject, NEW cause
    PROVE  LET v == DeliverAll(p, listeners, kind, subject, cause) IN
           Perceiving(v, V) /\ SameSight(v.minds, p.minds)
<1> DEFINE c == <<listeners, kind, subject, cause, V, p.minds>>
           v == DeliverAll(p, listeners, kind, subject, cause)
<1>1. /\ c[1] = listeners /\ c[2] = kind /\ c[3] = subject /\ c[4] = cause /\ c[5] = V
      /\ c[6] = p.minds
  OBVIOUS
<1> HIDE DEF c
<1>2. HeardUpTo(c, 0, p)
  BY <1>1 DEF HeardUpTo, SameSight
<1>3. ASSUME NEW i \in 1..Len(Agents), NEW q, HeardUpTo(c, i - 1, q)
      PROVE  HeardUpTo(c, i, Heard(c, q, Agents[i]))
  <2> DEFINE o == Agents[i]
             w == Deliver(q, o, kind, subject, cause)
  <2>1. o \in Characters /\ Perceiving(q, V) /\ SameSight(q.minds, p.minds)
    BY <1>1, <1>3, AgentsOnce DEF HeardUpTo
  <2>2. Tells(kind, o, subject, V, V)
    BY DEF Tells
  <2> HIDE DEF o
  <2>3. Perceiving(w, V) /\ SameSight(w.minds, q.minds)
    BY <2>1, <2>2, DeliverKeeps
  <2>4. SameSight(w.minds, p.minds)
    BY <2>1, <2>3 DEF SameSight
  <2> QED BY <1>1, <1>3, <2>3, <2>4 DEF HeardUpTo, Heard, o
<1>4. HeardUpTo(c, Len(Agents), Hearing!Folded(c, p, Agents))
  BY <1>2, <1>3, AgentsOnce, Hearing!Keeps, LeastOf
<1>5. Hearing!Folded(c, p, Agents) = v
  BY <1>1 DEF Heard, DeliverAll, FoldLeft, MapThenFoldSet, Max,
              Hearing!Folded, Hearing!MapThenFoldSet, Hearing!Greatest
<1> QED BY <1>1, <1>4, <1>5 DEF HeardUpTo

\* The observer c[1] is told of those of c[2] that it has come to see, or sees no more.
Sighted(c, q, b) == IF b \in c[2] THEN Deliver(q, c[1], c[3], b, 0) ELSE q

PairsIn(o, S, i) == {<<o, Agents[j]>> : j \in {k \in 1..i : Agents[k] \in S}}

InSight(kind, V, S) == IF kind = "entity_seen" THEN V \cup S ELSE V \ S

SightedUpTo(c, i, q) ==
    /\ Perceiving(q, InSight(c[3], c[4], PairsIn(c[1], c[2], i)))
    /\ SameSight(q.minds, c[5])

Looks == INSTANCE FoldFacts WITH Op <- Sighted, P <- SightedUpTo

LEMMA SightedKeeps ==
    ASSUME BusSound, NEW c, NEW p, Perceiving(p, c[4]), c[5] = p.minds,
           c[1] \in Characters, c[3] \in Sights,
           \A b \in Characters : b \in c[2] => (c[3] = "entity_seen" <=> <<c[1], b>> \notin c[4])
    PROVE  SightedUpTo(c, Len(Agents), Looks!Folded(c, p, Agents))
<1>1. SightedUpTo(c, 0, p)
  <2>1. PairsIn(c[1], c[2], 0) = {}
    BY DEF PairsIn
  <2>2. InSight(c[3], c[4], {}) = c[4]
    BY DEF InSight
  <2> QED BY <2>1, <2>2 DEF SightedUpTo, SameSight
<1>2. ASSUME NEW i \in 1..Len(Agents), NEW q, SightedUpTo(c, i - 1, q)
      PROVE  SightedUpTo(c, i, Sighted(c, q, Agents[i]))
  <2> DEFINE b == Agents[i]
             o == c[1]
             S == PairsIn(o, c[2], i - 1)
             T == PairsIn(o, c[2], i)
             V == InSight(c[3], c[4], S)
             W == InSight(c[3], c[4], T)
             w == Deliver(q, o, c[3], b, 0)
  <2>1. b \in Characters /\ <<o, b>> \notin S
    <3>1. \A k \in 1..(i - 1) : Agents[k] # b
      BY AgentsOnce
    <3> QED BY <3>1, AgentsOnce DEF PairsIn
  <2>2. T = IF b \in c[2] THEN S \cup {<<o, b>>} ELSE S
    <3>1. \A k \in Nat : k \in 1..i <=> k \in 1..(i - 1) \/ k = i
      BY AgentsOnce
    <3> QED BY <3>1 DEF PairsIn
  <2> HIDE DEF S, T
  <2>3. CASE b \in c[2]
    <3>1. W \ {<<o, b>>} = V \ {<<o, b>>}
      BY <2>2, <2>3 DEF InSight
    <3>2. c[3] = "entity_seen" <=> <<o, b>> \notin V
      BY <2>1, <2>3 DEF InSight
    <3>3. c[3] = "entity_seen" <=> <<o, b>> \in W
      BY <2>2, <2>3 DEF InSight
    <3>4. c[3] \in DOMAIN Saliences
      BY DEF Saliences, Sights
    <3> HIDE DEF V, W
    <3>5. Tells(c[3], o, b, V, W)
      BY <2>1, <3>1, <3>2, <3>3, <3>4 DEF Tells
    <3>6. Perceiving(q, V) /\ SameSight(q.minds, c[5])
      BY <1>2 DEF SightedUpTo, V, S
    <3>7. Perceiving(w, W) /\ SameSight(w.minds, q.minds)
      BY <3>5, <3>6, DeliverKeeps
    <3>8. SameSight(w.minds, c[5])
      BY <3>6, <3>7 DEF SameSight
    <3> QED BY <2>3, <3>7, <3>8 DEF SightedUpTo, Sighted, W, T
  <2>4. CASE b \notin c[2]
    BY <1>2, <2>2, <2>4 DEF SightedUpTo, Sighted, S, T
  <2> QED BY <2>3, <2>4
<1> QED BY <1>1, <1>2, AgentsOnce, Looks!Keeps, LeastOf

\* What is in sight is what the bus says.
Clear(p) == Perceiving(p, Seeing(p.minds))

LEMMA SameSeeing ==
    ASSUME NEW new, NEW old, SameSight(new, old)
    PROVE  Seeing(new) = Seeing(old)
BY DEF SameSight, Seeing

LEMMA ScanKeeps ==
    ASSUME BusSound, NEW p, Clear(p), NEW o \in Characters
    PROVE  Clear(Scan(p, o))
<1> DEFINE present == {b \in Characters \ {o} : places[b] = places[o]}
           visible == p.minds[o].visible
           seen == FoldLeft(LAMBDA q, b : IF b \in present \ visible
                                            THEN Deliver(q, o, "entity_seen", b, 0) ELSE q,
                            p, Agents)
           lost == FoldLeft(LAMBDA q, b : IF b \in visible \ present
                                            THEN Deliver(q, o, "entity_lost", b, 0) ELSE q,
                            seen, Agents)
           V == Seeing(p.minds)
           N == Len(Agents)
           S == PairsIn(o, present \ visible, N)
           T == PairsIn(o, visible \ present, N)
           c == <<o, present \ visible, "entity_seen", V, p.minds>>
           d == <<o, visible \ present, "entity_lost", V \cup S, seen.minds>>
           v == Scan(p, o)
<1>1. /\ c[1] = o /\ c[2] = present \ visible /\ c[3] = "entity_seen" /\ c[4] = V /\ c[5] = p.minds
  OBVIOUS
<1>2. /\ d[1] = o /\ d[2] = visible \ present /\ d[3] = "entity_lost" /\ d[4] = V \cup S
      /\ d[5] = seen.minds
  OBVIOUS
<1>3. \A A : PairsIn(o, A, N) = {<<o, b>> : b \in Characters \cap A}
  BY AgentsOnce DEF PairsIn
<1>4. \A b \in Characters : <<o, b>> \in V <=> b \in visible
  BY DEF Seeing
<1>5. present \subseteq Characters
  OBVIOUS
<1>6. v = [lost EXCEPT !.minds[o] = Looking(@, present)]
  BY DEF Scan
<1> HIDE DEF c, d, V, v, present, visible
<1>7. Looks!Folded(c, p, Agents) = seen
  BY <1>1 DEF Sighted, FoldLeft, MapThenFoldSet, Max,
              Looks!Folded, Looks!MapThenFoldSet, Looks!Greatest
<1>8. Perceiving(seen, V \cup S) /\ SameSight(seen.minds, p.minds)
  <2> HIDE DEF seen
  <2>1. Perceiving(p, c[4])
    BY <1>1 DEF Clear, V
  <2>2. \A b \in Characters : b \in c[2] => (c[3] = "entity_seen" <=> <<c[1], b>> \notin c[4])
    BY <1>1, <1>4
  <2>3. SightedUpTo(c, N, seen)
    BY <1>1, <1>7, <2>1, <2>2, SightedKeeps DEF Sights
  <2> QED BY <1>1, <2>3 DEF SightedUpTo, InSight
<1>9. Looks!Folded(d, seen, Agents) = lost
  <2> HIDE DEF seen
  <2> QED BY <1>2 DEF Sighted, FoldLeft, MapThenFoldSet, Max,
              Looks!Folded, Looks!MapThenFoldSet, Looks!Greatest
<1> HIDE DEF seen, lost
<1>10. Perceiving(lost, (V \cup S) \ T) /\ SameSight(lost.minds, seen.minds)
  <2>1. \A b \in Characters : b \in d[2] => (d[3] = "entity_seen" <=> <<d[1], b>> \notin d[4])
    BY <1>2, <1>4
  <2>2. SightedUpTo(d, N, lost)
    BY <1>2, <1>8, <1>9, <2>1, SightedKeeps DEF Sights
  <2> QED BY <1>2, <2>2 DEF SightedUpTo, InSight
<1>11. /\ DOMAIN lost = {"minds", "facts", "bus"} /\ lost.facts \in Nat
       /\ DOMAIN lost.minds = Characters /\ \A a \in Characters : MindSound(lost.minds[a])
       /\ SameSight(lost.minds, p.minds)
  BY <1>8, <1>10 DEF Perceiving, MindsAre, SameSight
<1>12. /\ DOMAIN v = {"minds", "facts", "bus"} /\ v.facts = lost.facts /\ v.bus = lost.bus
       /\ DOMAIN v.minds = Characters
       /\ \A a \in Characters \ {o} : v.minds[a] = lost.minds[a]
       /\ v.minds[o] = [lost.minds[o] EXCEPT !.visible = present]
  BY <1>6, <1>11 DEF Looking
<1>13. /\ DOMAIN v.minds[o] = {"inbox", "visible"} /\ v.minds[o].visible = present
       /\ v.minds[o].inbox = lost.minds[o].inbox
  BY <1>11, <1>12 DEF MindSound
<1>14. MindsAre(v.minds)
  BY <1>11, <1>12, <1>13 DEF MindsAre, MindSound
<1>15. Seeing(v.minds) = (V \cup S) \ T
  <2>1. ASSUME NEW a \in Characters, NEW b \in Characters
        PROVE  <<a, b>> \in Seeing(v.minds) <=> <<a, b>> \in (V \cup S) \ T
    <3>1. <<a, b>> \in V <=> b \in p.minds[a].visible
      BY DEF V, Seeing
    <3>2. <<a, b>> \in Seeing(v.minds) <=> b \in v.minds[a].visible
      BY DEF Seeing
    <3>3. CASE a = o
      BY <1>3, <1>4, <1>13, <3>2, <3>3
    <3>4. CASE a # o
      <4>1. v.minds[a].visible = p.minds[a].visible
        BY <1>11, <1>12, <3>4 DEF SameSight
      <4> QED BY <1>3, <3>1, <3>2, <3>4, <4>1
    <3> QED BY <3>3, <3>4
  <2>2. Seeing(v.minds) \subseteq Characters \X Characters
    BY DEF Seeing
  <2>3. (V \cup S) \ T \subseteq Characters \X Characters
    BY <1>3 DEF V, Seeing
  <2> DEFINE X == Seeing(v.minds)
             Y == (V \cup S) \ T
  <2> HIDE DEF X, Y
  <2>4. \A a, b \in Characters : <<a, b>> \in X <=> <<a, b>> \in Y
    BY <2>1 DEF X, Y
  <2>5. X \subseteq Characters \X Characters /\ Y \subseteq Characters \X Characters
    BY <2>2, <2>3 DEF X, Y
  <2>6. X = Y
    BY <2>4, <2>5
  <2> QED BY <2>6 DEF X, Y
<1>16. Clear(v)
  BY <1>10, <1>11, <1>12, <1>14, <1>15 DEF Clear, Perceiving
<1> QED BY <1>16 DEF v

LEMMA RouteKeeps ==
    ASSUME BusSound, NEW p, Clear(p), NEW n \in 1..Len(bus)
    PROVE  Clear(Route(p, n))
<1> DEFINE e == bus[n]
           near == {b \in Characters \ {e.agent} : places[b] = places[e.agent]}
           watching == {o \in Characters : e.agent \in p.minds[o].visible}
           heard == DeliverAll(p, near, "heard_speech", e.agent, n)
           shown == DeliverAll(p, watching, "visible_activity_started", e.agent, n)
           told == [Happens(e.agent, "speech.delivered", near) EXCEPT !.cause = n]
           V == Seeing(p.minds)
<1>1. Perceiving(p, V) /\ EventSound(e)
  BY DEF Clear, BusSound
<1>2. {"heard_speech", "visible_activity_started"} \subseteq DOMAIN Saliences \ Sights
  BY DEF Saliences, Sights
<1>3. near \subseteq Characters
  OBVIOUS
<1> HIDE DEF near, watching, V
<1>4. CASE e.type = "speech.started"
  <2> DEFINE v == [heard EXCEPT !.bus = Append(@, told)]
  <2>1. Route(p, n) = v
    BY <1>4 DEF Route, near
  <2>2. Perceiving(heard, V) /\ SameSight(heard.minds, p.minds)
    BY <1>1, <1>2, DeliverAllKeeps
  <2>3. told.type = "speech.delivered" /\ told.agent = e.agent /\ told.target = near
        /\ told.tick = tick
    BY DEF Happens
  <2>4. EventSound(told)
    BY <1>1, <1>3, <1>4, <2>3 DEF EventSound
  <2> HIDE DEF heard, told, e
  <2>5. DOMAIN heard = {"minds", "facts", "bus"}
    BY <2>2 DEF Perceiving
  <2>6. /\ DOMAIN v = {"minds", "facts", "bus"} /\ v.minds = heard.minds
        /\ v.facts = heard.facts /\ v.bus = Append(heard.bus, told)
    BY <2>5
  <2> HIDE DEF v
  <2>7. Grown(v.bus, bus, tick, Perceptions) /\ Grown(v.bus, heard.bus, tick, {told.type})
    <3>1. Grown(v.bus, bus, tick, Perceptions)
      BY <2>2, <2>3, <2>4, <2>6, GrowsByOne DEF Perceiving, Perceptions
    <3>2. IsSeq(heard.bus)
      BY <2>2 DEF Perceiving, Grown
    <3>3. Grown(heard.bus, heard.bus, tick, {told.type})
      BY <3>2, NotGrown
    <3>4. Grown(v.bus, heard.bus, tick, {told.type})
      BY <2>3, <2>4, <2>6, <3>3, GrowsByOne
    <3> QED BY <3>1, <3>4
  <2>8. Agrees(v.bus, V)
    <3>1. \A i \in (Len(heard.bus) + 1)..Len(v.bus) : \A o, c \in Characters : ~Sighting(v.bus[i], o, c)
      BY <2>3, <2>7 DEF Grown, Sighting
    <3> QED BY <2>2, <2>7, <3>1, AgreesOn DEF Perceiving
  <2>9. Perceiving(v, V)
    BY <2>2, <2>6, <2>7, <2>8 DEF Perceiving
  <2>10. Seeing(v.minds) = V
    BY <2>2, <2>6, SameSeeing DEF V
  <2> QED BY <2>1, <2>9, <2>10 DEF Clear
<1>5. CASE e.type = "activity.changed"
  <2>1. Route(p, n) = shown
    BY <1>5 DEF Route, watching
  <2>2. Perceiving(shown, V) /\ SameSight(shown.minds, p.minds)
    BY <1>1, <1>2, DeliverAllKeeps
  <2>3. Seeing(shown.minds) = V
    BY <2>2, SameSeeing DEF V
  <2> QED BY <2>1, <2>2, <2>3 DEF Clear
<1>6. CASE e.type \notin {"speech.started", "activity.changed"}
  <2>1. Route(p, n) = p
    BY <1>6 DEF Route
  <2> QED BY <2>1
<1> QED BY <1>4, <1>5, <1>6

ScanOf(c, p, o) == Scan(p, o)
RouteOf(c, p, n) == Route(p, n)
StillClear(c, i, p) == Clear(p)

Scanning == INSTANCE FoldFacts WITH Op <- ScanOf, P <- StillClear
Routing == INSTANCE FoldFacts WITH Op <- RouteOf, P <- StillClear

\* The minds, and that the sightings on the bus are what is in sight.
SightInvariant ==
    /\ facts \in Nat /\ MindsAre(minds) /\ Agrees(bus, Seeing(minds))
    /\ saved # None => MindsAre(saved.minds)

LEMMA PerceiveClears ==
    ASSUME BusSound, SightInvariant, Perceive
    PROVE  Clear([minds |-> minds', facts |-> facts', bus |-> bus'])
<1> DEFINE base == [minds |-> minds, facts |-> facts, bus |-> bus]
           scanned == FoldLeft(Scan, base, Agents)
           routed == FoldLeft(Route, scanned, Unread("perception"))
           N == Len(bus) - cursor["perception"]
<1>1. /\ BusSound /\ N \in Nat /\ DOMAIN Unread("perception") = 1..N
      /\ \A i \in 1..N : Unread("perception")[i] \in 1..Len(bus)
  BY UnreadListed DEF BusSound
<1>2. Clear(base)
  <2>1. Grown(bus, bus, tick, Perceptions)
    BY <1>1, NotGrown DEF BusSound
  <2> QED BY <2>1 DEF SightInvariant, Clear, Perceiving
<1> HIDE DEF base
<1>3. Clear(scanned)
  <2>1. StillClear(0, 0, base)
    BY <1>2 DEF StillClear
  <2>2. \A i \in 1..Len(Agents) : \A q : StillClear(0, i - 1, q)
                                          => StillClear(0, i, ScanOf(0, q, Agents[i]))
    BY <1>1, AgentsOnce, ScanKeeps DEF StillClear, ScanOf
  <2>3. StillClear(0, Len(Agents), Scanning!Folded(0, base, Agents))
    BY <2>1, <2>2, AgentsOnce, Scanning!Keeps, LeastOf
  <2>4. Scanning!Folded(0, base, Agents) = scanned
    BY DEF ScanOf, FoldLeft, MapThenFoldSet, Max,
           Scanning!Folded, Scanning!MapThenFoldSet, Scanning!Greatest
  <2> QED BY <2>3, <2>4 DEF StillClear
<1> HIDE DEF scanned
<1>4. Clear(routed)
  <2>1. StillClear(0, 0, scanned)
    BY <1>3 DEF StillClear
  <2>2. \A i \in 1..N : \A q : StillClear(0, i - 1, q)
                                => StillClear(0, i, RouteOf(0, q, Unread("perception")[i]))
    BY <1>1, RouteKeeps DEF StillClear, RouteOf
  <2>3. StillClear(0, N, Routing!Folded(0, scanned, Unread("perception")))
    BY <1>1, <2>1, <2>2, Routing!Keeps, LeastOf
  <2>4. Routing!Folded(0, scanned, Unread("perception")) = routed
    BY DEF RouteOf, FoldLeft, MapThenFoldSet, Max,
           Routing!Folded, Routing!MapThenFoldSet, Routing!Greatest
  <2> QED BY <2>3, <2>4 DEF StillClear
<1>5. minds' = routed.minds /\ facts' = routed.facts /\ bus' = routed.bus
  BY DEF Perceive, scanned, base
<1> HIDE DEF routed
<1> QED BY <1>4, <1>5 DEF Clear, Perceiving

LEMMA PerceiveKeeps ==
    ASSUME BusSound, SightInvariant, Perceive
    PROVE  /\ Grown(bus', bus, tick, Perceptions) /\ SightInvariant'
           /\ MemoryInvariant => MemoryInvariant'
           /\ DOMAIN cursor' = DOMAIN cursor
           /\ \A r \in DOMAIN cursor' : cursor'[r] \in 0..Len(bus')
<1>1. /\ facts' \in Nat /\ MindsAre(minds') /\ Grown(bus', bus, tick, Perceptions)
      /\ Agrees(bus', Seeing(minds'))
  BY PerceiveClears DEF Clear, Perceiving
<1>2. /\ phase = "perceive" /\ cursor' = [cursor EXCEPT !["perception"] = Len(bus)]
      /\ UNCHANGED <<work, memories, tick, saved>>
  BY DEF Perceive, restarts
<1>3. /\ "perception" \in DOMAIN cursor /\ Len(bus) \in Nat /\ Len(bus') \in Nat
      /\ Len(bus) <= Len(bus') /\ tick \in Nat
      /\ \A r \in DOMAIN cursor : cursor[r] \in 0..Len(bus)
  BY <1>1, SeqParts DEF BusSound, Grown
<1>4. /\ cursor'["memory"] = cursor["memory"] /\ DOMAIN cursor' = DOMAIN cursor
      /\ \A r \in DOMAIN cursor' : cursor'[r] \in 0..Len(bus')
  BY <1>2, <1>3
<1>5. ASSUME MemoryInvariant PROVE MemoryInvariant'
  <2>1. \A m \in Range(memories) : Old(m, bus) => m.tick < tick
    BY <1>2, <1>5 DEF MemoryInvariant, MemoriesPlaced
  <2> QED BY <1>1, <1>2, <1>3, <1>4, <1>5, <2>1, EmissionKeeps
<1>6. SightInvariant'
  BY <1>1, <1>2 DEF SightInvariant, MindsAre, MindSound, FactSound, Agrees, Following, Latest, Sighting, IsSeq, Seeing
<1> QED BY <1>1, <1>4, <1>5, <1>6

-----------------------------------------------------------------------------
(* The goals tell the bus of themselves.                                   *)

GoalEvents ==
    {"goal.activated", "goal.progressed", "goal.succeeded", "goal.failed", "goal.expired"}

Told(emits) == IsSeq(emits) /\ \A i \in 1..Len(emits) : emits[i] \in GoalEvents

LEMMA ToldOne ==
    ASSUME NEW type \in GoalEvents
    PROVE  Told(<<type>>)
<1>1. <<type>> = [i \in 1..1 |-> <<type>>[i]] /\ Len(<<type>>) = 1 /\ <<type>>[1] = type
  OBVIOUS
<1>2. IsSeq(<<type>>)
  BY <1>1, Listed
<1> QED BY <1>1, <1>2 DEF Told

LEMMA ToldNothing == Told(<<>>)
BY NothingListed DEF Told

LEMMA ToldBoth ==
    ASSUME NEW s, NEW t, Told(s), Told(t)
    PROVE  Told(s \o t)
<1>0. IsSeq(s) /\ IsSeq(t) /\ Len(s) \in Nat /\ Len(t) \in Nat
  BY SeqParts DEF Told
<1>1. /\ IsSeq(s \o t) /\ Len(s \o t) = Len(s) + Len(t) /\ Len(s) \in Nat /\ Len(t) \in Nat
      /\ \A i \in 1..Len(s) : (s \o t)[i] = s[i]
      /\ \A i \in 1..Len(t) : (s \o t)[Len(s) + i] = t[i]
  BY <1>0, Joined
<1>2. ASSUME NEW i \in 1..Len(s \o t) PROVE (s \o t)[i] \in GoalEvents
  <2>1. CASE i \in 1..Len(s)
    BY <2>1, <1>1 DEF Told
  <2>2. CASE i \notin 1..Len(s)
    <3>1. i - Len(s) \in 1..Len(t) /\ (s \o t)[i] = t[i - Len(s)]
      BY <1>1, <2>2
    <3> QED BY <3>1 DEF Told
  <2> QED BY <2>1, <2>2
<1> QED BY <1>1, <1>2 DEF Told

\* What an evaluation emits.
LEMMA EvaluatedTells ==
    ASSUME NEW def, NEW goal, NEW events, NEW context
    PROVE  Told(Evaluated(def, goal, events, context).emits)
<1> DEFINE waits == \/ goal.status \in Closed
                    \/ goal.status = "pending" /\ def.from # None /\ context.now < def.from
           assessed == Assessed(def, goal, events, context)
           progress == IF Of(def, "success") = {} THEN goal.progress
                       ELSE ProgressOf(def, assessed.parts)
           risen == [assessed EXCEPT !.progress = progress]
           verdict == Verdict(def, risen, context.now)
           told(yes, type) == IF yes THEN <<type>> ELSE <<>>
           closing == IF verdict = "active" THEN <<>> ELSE <<Closing[verdict]>>
           one == told(goal.status = "pending", "goal.activated")
           two == told(progress > goal.progress, "goal.progressed")
           v == Evaluated(def, goal, events, context)
<1>1. Told(one) /\ Told(two)
  BY ToldOne, ToldNothing DEF GoalEvents
<1>2. verdict \in {"failed", "succeeded", "expired", "active"}
  <2> HIDE DEF risen
  <2> QED BY DEF Verdict
<1>3. Told(closing)
  <2> HIDE DEF verdict
  <2>1. verdict # "active" => Closing[verdict] \in GoalEvents
    BY <1>2 DEF Closing, GoalEvents
  <2> QED BY <2>1, ToldOne, ToldNothing
<1>4. Told((one \o two) \o closing)
  BY <1>1, <1>3, ToldBoth
<1>5. v = CASE waits -> [goal |-> goal, emits |-> <<>>]
            [] ~waits /\ def.criteria = <<>> ->
                 [goal |-> [goal EXCEPT !.status = "active"], emits |-> one]
            [] ~waits /\ def.criteria # <<>> ->
                 [goal |-> [risen EXCEPT !.status = verdict], emits |-> (one \o two) \o closing]
  BY DEF Evaluated
<1> HIDE DEF v, waits, risen, verdict, one, two, closing
<1>6. v.emits \in {<<>>, one, (one \o two) \o closing}
  BY <1>5
<1> QED BY <1>1, <1>4, <1>6, ToldNothing DEF v

EvaluationOf(c, p, g) == EvaluateGoal(p, g)

EvaluatedUpTo(c, i, p) ==
    DOMAIN p = {"goals", "bus"} /\ Grown(p.bus, bus, tick, GoalEvents)

Evaluating == INSTANCE FoldFacts WITH Op <- EvaluationOf, P <- EvaluatedUpTo

LEMMA EvaluateKeeps ==
    ASSUME BusSound, Evaluate
    PROVE  /\ Grown(bus', bus, tick, GoalEvents)
           /\ MemoryInvariant => MemoryInvariant'
           /\ DOMAIN cursor' = DOMAIN cursor
           /\ \A r \in DOMAIN cursor' : cursor'[r] \in 0..Len(bus')
<1> DEFINE base == [goals |-> goals, bus |-> bus]
           order == [g \in DOMAIN Plans |-> g]
           done == FoldLeft(EvaluateGoal, base, order)
           N == Len(Plans)
<1>1. N \in Nat /\ DOMAIN Plans = 1..N /\ DOMAIN order = 1..N
  BY PlansAssumption
<1>2. EvaluatedUpTo(0, 0, base)
  BY NotGrown DEF EvaluatedUpTo, BusSound
<1>3. ASSUME NEW i \in 1..N, NEW p, EvaluatedUpTo(0, i - 1, p)
      PROVE  EvaluatedUpTo(0, i, EvaluationOf(0, p, order[i]))
  <2> DEFINE def == Plans[i]
             read == [k \in DOMAIN Unread("goals") |-> bus[Unread("goals")[k]]]
             result == Evaluated(def, p.goals[i], read, [now |-> tick, place |-> places[def.owner]])
             emits == result.emits
             s == [k \in DOMAIN emits |-> [Happens(def.owner, emits[k], None) EXCEPT !.about = i]]
             v == EvaluateGoal(p, i)
  <2>1. DOMAIN v = {"goals", "bus"} /\ v.bus = p.bus \o s
    BY Zenon DEF EvaluateGoal
  <2>2. Told(emits)
    BY EvaluatedTells
  <2> HIDE DEF emits
  <2>3. DOMAIN emits = 1..Len(emits) /\ Len(emits) \in Nat
    BY <2>2, SeqParts DEF Told
  <2>4. s = [k \in 1..Len(emits) |-> s[k]]
    BY <2>3
  <2>5. IsSeq(s) /\ Len(s) = Len(emits)
    BY <2>3, <2>4, Listed
  <2>6. ASSUME NEW k \in 1..Len(emits)
        PROVE  EventSound(s[k]) /\ s[k].tick = tick /\ s[k].type \in GoalEvents
    <3>1. s[k].type = emits[k] /\ s[k].tick = tick
      BY <2>3 DEF Happens
    <3>2. emits[k] \in GoalEvents
      BY <2>2 DEF Told
    <3> QED BY <3>1, <3>2 DEF EventSound, Memorable, GoalEvents
  <2> HIDE DEF s, v
  <2>7. Grown(p.bus \o s, bus, tick, GoalEvents)
    BY <1>3, <2>5, <2>6, GrowsByMany DEF EvaluatedUpTo
  <2>8. order[i] = i
    BY <1>1
  <2> QED BY <2>1, <2>7, <2>8, Zenon DEF EvaluatedUpTo, EvaluationOf, v
<1>4. EvaluatedUpTo(0, N, Evaluating!Folded(0, base, order))
  BY <1>1, <1>2, <1>3, Evaluating!Keeps, LeastOf
<1>5. Evaluating!Folded(0, base, order) = done
  BY DEF EvaluationOf, FoldLeft, MapThenFoldSet, Max,
         Evaluating!Folded, Evaluating!MapThenFoldSet, Evaluating!Greatest
<1>6. /\ phase = "evaluate" /\ bus' = done.bus /\ cursor' = [cursor EXCEPT !["goals"] = Len(bus)]
      /\ UNCHANGED <<work, memories, tick, saved>>
  BY DEF Evaluate, restarts
<1>7. Grown(bus', bus, tick, GoalEvents)
  BY <1>4, <1>5, <1>6 DEF EvaluatedUpTo
<1>8. /\ "goals" \in DOMAIN cursor /\ Len(bus) \in Nat /\ Len(bus') \in Nat
      /\ Len(bus) <= Len(bus') /\ tick \in Nat
      /\ \A r \in DOMAIN cursor : cursor[r] \in 0..Len(bus)
  BY <1>7, SeqParts DEF BusSound, Grown
<1>9. /\ cursor'["memory"] = cursor["memory"] /\ DOMAIN cursor' = DOMAIN cursor
      /\ \A r \in DOMAIN cursor' : cursor'[r] \in 0..Len(bus')
  BY <1>6, <1>8
<1> HIDE DEF done, base, order
<1>10. ASSUME MemoryInvariant PROVE MemoryInvariant'
  <2>1. UNCHANGED <<work, memories, tick, saved>>
    BY <1>6
  <2>2. \A m \in Range(memories) : Old(m, bus) => m.tick < tick
    BY <1>6, <1>10 DEF MemoryInvariant, MemoriesPlaced
  <2> QED BY <1>7, <1>8, <1>9, <1>10, <2>1, <2>2, EmissionKeeps
<1> QED BY <1>7, <1>9, <1>10

-----------------------------------------------------------------------------
(* Every step.                                                             *)

\* What holds also of a run that was continued.
BusInvariant ==
    /\ BusSound /\ IsSeq(work) /\ SightInvariant
    /\ saved # None => saved.tick \in Nat

ReadersInvariant == BusInvariant /\ (continued \/ MemoryInvariant)

LEMMA ReadersGoOn ==
    ASSUME ReadersInvariant, NEW types, Grown(bus', bus, tick', types),
           tick' \in Nat, tick <= tick', DOMAIN cursor' = DOMAIN cursor,
           \A r \in DOMAIN cursor' : cursor'[r] \in 0..Len(bus'), IsSeq(work'),
           UNCHANGED <<saved, continued>>, SightInvariant', MemoryInvariant => MemoryInvariant'
    PROVE  ReadersInvariant'
<1>1. BusSound'
  BY BusGrows DEF ReadersInvariant, BusInvariant
<1>2. BusInvariant'
  BY <1>1 DEF ReadersInvariant, BusInvariant, IsSeq
<1> QED BY <1>2 DEF ReadersInvariant

\* What leaves the sight of all as it is, and tells the bus of no sighting.
LEMMA OutOfSight ==
    ASSUME SightInvariant, NEW t, NEW types, Grown(bus', bus, t, types),
           "perception.delivered" \notin types, SameSight(minds', minds), MindsAre(minds'),
           facts' = facts, saved' = saved
    PROVE  SightInvariant'
<1>1. \A i \in (Len(bus) + 1)..Len(bus') : \A o, c \in Characters : ~Sighting(bus'[i], o, c)
  BY DEF Grown, Sighting
<1>2. Agrees(bus', Seeing(minds))
  BY <1>1, AgreesOn DEF SightInvariant
<1>3. Seeing(minds') = Seeing(minds)
  BY SameSeeing
<1>4. Agrees(bus', Seeing(minds'))
  BY <1>2, <1>3
<1> QED BY <1>4 DEF SightInvariant, MindsAre, MindSound, FactSound, Agrees, Following, Latest, Sighting, IsSeq, Seeing

LEMMA SightLeft ==
    ASSUME SightInvariant, NEW t, NEW types, Grown(bus', bus, t, types),
           "perception.delivered" \notin types, UNCHANGED <<minds, facts, saved>>
    PROVE  SightInvariant'
<1>1. MindsAre(minds') /\ SameSight(minds', minds)
  BY DEF SightInvariant, MindsAre, SameSight
<1> QED BY <1>1, OutOfSight

LEMMA TickKeeps ==
    ASSUME ReadersInvariant, NEW event,
           event # None => /\ EventSound([event EXCEPT !.tick = tick'])
                           /\ [event EXCEPT !.tick = tick'].tick = tick'
                           /\ [event EXCEPT !.tick = tick'].type # "perception.delivered",
           Tick(event)
    PROVE  ReadersInvariant'
<1> DEFINE e == [event EXCEPT !.tick = tick']
           types == {e.type} \ {"perception.delivered"}
<1>1. /\ tick' = tick + 1 /\ UNCHANGED <<work, memories, saved, continued, cursor, minds, facts>>
      /\ bus' = IF event = None THEN bus ELSE Append(bus, e)
  BY DEF Tick, readers, restarts
<1>2. /\ IsSeq(bus) /\ tick \in Nat /\ \A r \in DOMAIN cursor : cursor[r] \in 0..Len(bus)
      /\ Len(bus) \in Nat
  BY SeqParts DEF ReadersInvariant, BusInvariant, BusSound
<1>3. Grown(bus', bus, tick', types)
  <2>1. Grown(bus, bus, tick', types)
    BY <1>2, NotGrown
  <2>2. CASE event = None
    BY <1>1, <2>1, <2>2
  <2>3. CASE event # None
    <3>1. EventSound(e) /\ e.tick = tick' /\ e.type \in types
      BY <2>3
    <3> HIDE DEF e, types
    <3> QED BY <1>1, <2>1, <2>3, <3>1, GrowsByOne
  <2> QED BY <2>2, <2>3
<1> HIDE DEF e
<1>4. "perception.delivered" \notin types
  OBVIOUS
<1> HIDE DEF types
<1>5. SightInvariant'
  BY <1>1, <1>3, <1>4, SightLeft DEF ReadersInvariant, BusInvariant
<1>6. Len(bus') \in Nat /\ Len(bus) <= Len(bus')
  BY <1>3, SeqParts DEF Grown
<1>8. \A r \in DOMAIN cursor' : cursor'[r] \in 0..Len(bus')
  BY <1>1, <1>2, <1>6
<1>9. tick' \in Nat /\ tick <= tick'
  BY <1>1, <1>2
<1>10. ASSUME MemoryInvariant PROVE MemoryInvariant'
  <2>1. ASSUME NEW m \in Range(memories) PROVE m.tick < tick'
    <3>1. m.tick \in Nat /\ m.tick <= tick
      BY <1>10 DEF MemoryInvariant, MemoriesPlaced, Remembered
    <3> QED BY <1>1, <1>2, <3>1
  <2> QED BY <1>1, <1>3, <1>8, <1>9, <1>10, <2>1, EmissionKeeps
<1>11. IsSeq(work') /\ DOMAIN cursor' = DOMAIN cursor
  BY <1>1 DEF ReadersInvariant, BusInvariant
<1> QED BY <1>1, <1>3, <1>5, <1>8, <1>9, <1>10, <1>11, ReadersGoOn

LEMMA HappeningKeeps ==
    ASSUME ReadersInvariant, Happening
    PROVE  ReadersInvariant'
<1>2. ASSUME NEW a \in Characters, NEW b,
             NEW type \in {"speech.started", "action.completed", "activity.changed",
                           "system1.activated", "system1.resolved"}
      PROVE  LET e == [Happens(a, type, b) EXCEPT !.tick = tick'] IN
             EventSound(e) /\ e.tick = tick' /\ e.type # "perception.delivered"
  <2> DEFINE e == [Happens(a, type, b) EXCEPT !.tick = tick']
  <2>1. e.agent = a /\ e.type = type /\ e.tick = tick'
    BY DEF Happens
  <2> HIDE DEF e
  <2>2. EventSound(e)
    BY <2>1 DEF EventSound
  <2> QED BY <2>1, <2>2 DEF e
<1>3. CASE Nothing
  BY <1>3, TickKeeps DEF Nothing
<1>4. ASSUME NEW a \in Characters, NEW b \in Characters, Speak(a, b) PROVE ReadersInvariant'
  BY <1>2, <1>4, TickKeeps DEF Speak
<1>5. ASSUME NEW a \in Characters, Finish(a) \/ ChangeActivity(a) PROVE ReadersInvariant'
  BY <1>2, <1>5, TickKeeps DEF Finish, ChangeActivity
<1>6. ASSUME NEW a \in Characters, Walk(a) PROVE ReadersInvariant'
  BY <1>6, TickKeeps DEF Walk
<1>7. ASSUME NEW a \in Characters, Alarm(a) \/ Calm(a) PROVE ReadersInvariant'
  BY <1>2, <1>7, TickKeeps DEF Alarm, Calm
<1> QED BY <1>3, <1>4, <1>5, <1>6, <1>7 DEF Happening

LEMMA ThinkKeeps ==
    ASSUME ReadersInvariant, NEW asked, Think(asked)
    PROVE  ReadersInvariant'
<1>1. /\ phase = "think" /\ phase' = "drain"
      /\ minds' = [a \in Characters |->
                     IF a \in asked THEN [minds[a] EXCEPT !.inbox = <<>>] ELSE minds[a]]
      /\ UNCHANGED <<bus, cursor, facts, work, memories, tick, saved, continued>>
  BY DEF Think, restarts
<1>2. /\ IsSeq(bus) /\ tick \in Nat /\ \A r \in DOMAIN cursor : cursor[r] \in 0..Len(bus)
      /\ \A a \in Characters : MindSound(minds[a])
  BY DEF ReadersInvariant, BusInvariant, BusSound, SightInvariant, MindsAre
<1>3. Grown(bus, bus, tick, {})
  BY <1>2, NotGrown
<1>4. MindsAre(minds') /\ SameSight(minds', minds)
  <2>1. ASSUME NEW a \in Characters
        PROVE  MindSound(minds'[a]) /\ minds'[a].visible = minds[a].visible
    <3>1. CASE a \notin asked
      BY <1>1, <1>2, <3>1
    <3>2. CASE a \in asked
      <4>1. minds'[a] = [minds[a] EXCEPT !.inbox = <<>>] /\ DOMAIN minds[a] = {"inbox", "visible"}
        BY <1>1, <1>2, <3>2 DEF MindSound
      <4>2. /\ DOMAIN minds'[a] = {"inbox", "visible"} /\ minds'[a].inbox = <<>>
            /\ minds'[a].visible = minds[a].visible
        BY <4>1
      <4>3. Range(<<>>) = {}
        BY DEF Range
      <4> QED BY <4>2, <4>3, NothingListed DEF MindSound
    <3> QED BY <3>1, <3>2
  <2> QED BY <1>1, <2>1 DEF MindsAre, SameSight
<1>5. SightInvariant'
  BY <1>1, <1>3, <1>4, OutOfSight DEF ReadersInvariant, BusInvariant
<1>6. tick <= tick /\ tick' \in Nat /\ tick <= tick'
  BY <1>1, <1>2
<1>7. ASSUME MemoryInvariant PROVE MemoryInvariant'
  <2>1. \A m \in Range(memories) : Old(m, bus) => m.tick < tick
    BY <1>1, <1>7 DEF MemoryInvariant, MemoriesPlaced
  <2> QED BY <1>1, <1>2, <1>3, <1>6, <1>7, <2>1, EmissionKeeps
<1>8. IsSeq(work') /\ Grown(bus', bus, tick', {}) /\ DOMAIN cursor' = DOMAIN cursor
      /\ \A r \in DOMAIN cursor' : cursor'[r] \in 0..Len(bus')
  BY <1>1, <1>2, <1>3 DEF ReadersInvariant, BusInvariant
<1> QED BY <1>1, <1>5, <1>6, <1>7, <1>8, ReadersGoOn

LEMMA SaveKeeps ==
    ASSUME ReadersInvariant, Save
    PROVE  ReadersInvariant'
<1>1. /\ phase' = phase
      /\ UNCHANGED <<bus, cursor, facts, minds, work, memories, tick, continued>>
      /\ saved'.minds = minds /\ saved'.memories = memories /\ saved'.tick = tick
  BY DEF Save, Checkpoint, readers
<1>2. BusSound'
  BY <1>1 DEF ReadersInvariant, BusInvariant, BusSound, EventSound, IsSeq
<1>3. ASSUME MemoryInvariant PROVE MemoryInvariant'
  <2>1. MemoriesPlaced'
    BY <1>1, <1>3 DEF MemoryInvariant, MemoriesPlaced, Remembered, Old, Current, IsSeq
  <2>2. SavedSound'
    BY <1>1, <1>3 DEF MemoryInvariant, BusSound, MemoriesPlaced, SavedSound, Remembered, IsSeq
  <2>3. Requested(bus', work', memories', PairsTo(cursor'["memory"]))
    BY <1>1, <1>3 DEF MemoryInvariant
  <2> QED BY <1>2, <2>1, <2>2, <2>3 DEF MemoryInvariant
<1>4. facts' \in Nat /\ MindsAre(minds') /\ Agrees(bus', Seeing(minds')) /\ MindsAre(saved'.minds)
  BY <1>1 DEF ReadersInvariant, BusInvariant, SightInvariant
<1>5. SightInvariant'
  BY <1>4 DEF SightInvariant, MindsAre, MindSound, FactSound, Agrees, Following, Latest, Sighting, IsSeq, Seeing
<1>6. IsSeq(work') /\ saved'.tick \in Nat
  BY <1>1 DEF ReadersInvariant, BusInvariant, BusSound
<1>7. BusInvariant'
  BY <1>2, <1>5, <1>6 DEF BusInvariant, IsSeq
<1> QED BY <1>1, <1>3, <1>7 DEF ReadersInvariant

\* A run whose bus is empty: nothing has been asked and nothing seen of it.
LEMMA FreshRun ==
    ASSUME bus' = <<>>, work' = <<>>, facts' = 0, DOMAIN cursor' = {"perception", "goals", "memory"},
           \A r \in DOMAIN cursor' : cursor'[r] = 0, tick' \in Nat, MindsAre(minds'),
           phase' = "world", saved' = None
    PROVE  BusInvariant' /\ (Remembered(memories', tick') => MemoryInvariant')
<1>1. IsSeq(<<>>) /\ Len(<<>>) = 0 /\ 1..0 = {} /\ DOMAIN <<>> = {}
  BY NothingListed
<1>2. BusSound'
  BY <1>1 DEF BusSound, IsSeq
<1>3. \A m : Old(m, <<>>)
  BY <1>1 DEF Old
<1>4. ASSUME Remembered(memories', tick') PROVE MemoriesPlaced'
  <2>1. \A m : Old(m, bus')
    BY <1>3
  <2> QED BY <1>4, <2>1 DEF MemoriesPlaced, Remembered, Old, Current, IsSeq
<1>5. SavedSound'
  BY DEF SavedSound
<1>6. Requested(bus', work', memories', PairsTo(cursor'["memory"]))
  <2>1. PairsTo(0) = {}
    BY <1>1 DEF PairsTo
  <2>2. Requested(<<>>, <<>>, memories', {})
    BY <1>1 DEF Requested
  <2>3. cursor'["memory"] = 0
    OBVIOUS
  <2> QED BY <2>1, <2>2, <2>3
<1>7. Remembered(memories', tick') => MemoryInvariant'
  BY <1>2, <1>4, <1>5, <1>6 DEF MemoryInvariant
<1>8. Agrees(<<>>, Seeing(minds'))
  BY <1>1 DEF Agrees
<1>9. Agrees(bus', Seeing(minds'))
  BY <1>8
<1>10. SightInvariant'
  BY <1>9 DEF SightInvariant, MindsAre, MindSound, FactSound, Agrees, Following, Latest, Sighting, IsSeq, Seeing
<1>11. IsSeq(work')
  BY <1>1
<1> QED BY <1>2, <1>7, <1>10, <1>11 DEF BusInvariant, IsSeq

LEMMA BranchKeeps ==
    ASSUME ReadersInvariant, Branch
    PROVE  ReadersInvariant'
<1>1. /\ saved # None /\ bus' = <<>> /\ cursor' = [r \in DOMAIN cursor |-> 0] /\ facts' = 0
      /\ minds' = saved.minds /\ memories' = saved.memories /\ tick' = saved.tick
      /\ work' = <<>> /\ phase' = "world" /\ saved' = None /\ continued' = continued
  BY DEF Branch
<1>2. /\ DOMAIN cursor = {"perception", "goals", "memory"} /\ tick' \in Nat
      /\ MindsAre(minds')
  BY <1>1 DEF ReadersInvariant, BusInvariant, BusSound, SightInvariant
<1>3. MemoryInvariant => Remembered(memories', tick')
  BY <1>1 DEF MemoryInvariant, SavedSound
<1>4. DOMAIN cursor' = {"perception", "goals", "memory"} /\ \A r \in DOMAIN cursor' : cursor'[r] = 0
  BY <1>1, <1>2
<1>5. BusInvariant' /\ (Remembered(memories', tick') => MemoryInvariant')
  BY <1>1, <1>2, <1>4, FreshRun
<1> QED BY <1>1, <1>3, <1>5 DEF ReadersInvariant

\* The bus goes on, and is read from its beginning.
LEMMA ContinueKeeps ==
    ASSUME ReadersInvariant, Continue
    PROVE  ReadersInvariant'
<1>1. /\ cursor' = [r \in DOMAIN cursor |-> 0] /\ facts' = 0 /\ work' = <<>> /\ continued'
      /\ UNCHANGED <<bus, minds, tick, saved>>
  BY DEF Continue
<1>2. /\ DOMAIN cursor' = DOMAIN cursor /\ Len(bus) \in Nat
      /\ \A r \in DOMAIN cursor' : cursor'[r] = 0
  BY <1>1, SeqParts DEF ReadersInvariant, BusInvariant, BusSound
<1>3. \A r \in DOMAIN cursor' : cursor'[r] \in 0..Len(bus)
  BY <1>2
<1>4. BusSound'
  BY <1>1, <1>2, <1>3 DEF ReadersInvariant, BusInvariant, BusSound, EventSound, IsSeq
<1>5. facts' \in Nat /\ MindsAre(minds') /\ Agrees(bus', Seeing(minds'))
      /\ (saved' # None => MindsAre(saved'.minds))
  BY <1>1 DEF ReadersInvariant, BusInvariant, SightInvariant
<1>6. SightInvariant'
  BY <1>5 DEF SightInvariant, MindsAre, MindSound, FactSound, Agrees, Following, Latest, Sighting, IsSeq, Seeing
<1>7. IsSeq(work') /\ (saved' # None => saved'.tick \in Nat)
  BY <1>1, NothingListed DEF ReadersInvariant, BusInvariant
<1>8. BusInvariant'
  BY <1>4, <1>6, <1>7 DEF BusInvariant, IsSeq
<1> QED BY <1>1, <1>8 DEF ReadersInvariant

LEMMA InitHolds ==
    ASSUME Init
    PROVE  ReadersInvariant
<1>0. /\ bus = <<>> /\ work = <<>> /\ facts = 0 /\ memories = <<>> /\ tick = 0 /\ phase = "world"
      /\ saved = None /\ cursor = [r \in {"perception", "goals", "memory"} |-> 0]
      /\ minds = [a \in Characters |-> [inbox |-> <<>>, visible |-> {}]]
  BY DEF Init
<1>1. IsSeq(<<>>) /\ Len(<<>>) = 0 /\ 1..0 = {} /\ DOMAIN <<>> = {} /\ Range(<<>>) = {}
  BY NothingListed DEF Range
<1>2. BusSound
  BY <1>0, <1>1 DEF BusSound
<1>3. MemoriesPlaced
  BY <1>0, <1>1 DEF MemoriesPlaced, Remembered, IsInjective
<1>4. SavedSound
  BY <1>0 DEF SavedSound
<1>5. Requested(bus, work, memories, PairsTo(cursor["memory"]))
  <2>1. PairsTo(0) = {} /\ cursor["memory"] = 0
    BY <1>0, <1>1 DEF PairsTo
  <2>2. Requested(<<>>, <<>>, memories, {})
    BY <1>1 DEF Requested
  <2> QED BY <1>0, <2>1, <2>2
<1>6. SightInvariant
  <2>1. MindsAre(minds)
    BY <1>0, <1>1 DEF MindsAre, MindSound
  <2>2. Agrees(<<>>, Seeing(minds))
    BY <1>1 DEF Agrees
  <2> QED BY <1>0, <2>1, <2>2 DEF SightInvariant
<1>7. IsSeq(work)
  BY <1>0, <1>1
<1> QED BY <1>0, <1>2, <1>3, <1>4, <1>5, <1>6, <1>7
        DEF ReadersInvariant, BusInvariant, MemoryInvariant

\* A system that only tells the bus, or changes the queue.
LEMMA QuietSight ==
    ASSUME ReadersInvariant, NEW types, Grown(bus', bus, tick, types),
           "perception.delivered" \notin types,
           UNCHANGED <<minds, facts, saved, continued, tick>>, IsSeq(work'),
           DOMAIN cursor' = DOMAIN cursor,
           \A r \in DOMAIN cursor' : cursor'[r] \in 0..Len(bus'),
           MemoryInvariant => MemoryInvariant'
    PROVE  ReadersInvariant'
<1>1. tick \in Nat /\ tick <= tick /\ SightInvariant
  BY DEF ReadersInvariant, BusInvariant, BusSound
<1>2. SightInvariant'
  BY <1>1, SightLeft
<1>3. Grown(bus', bus, tick', types) /\ tick' \in Nat /\ tick <= tick'
  BY <1>1
<1> QED BY <1>2, <1>3, ReadersGoOn

LEMMA StepKeeps ==
    ASSUME ReadersInvariant, [Next]_vars
    PROVE  ReadersInvariant'
<1>0. /\ BusSound /\ SightInvariant /\ IsSeq(work) /\ tick \in Nat /\ tick <= tick /\ Len(bus) \in Nat
      /\ \A r \in DOMAIN cursor : cursor[r] \in 0..Len(bus)
  BY SeqParts DEF ReadersInvariant, BusInvariant, BusSound
<1>1. CASE Happening
  BY <1>1, HappeningKeeps
<1>2. CASE Perceive
  <2>1. UNCHANGED <<tick, saved, continued, work>>
    BY <1>2 DEF Perceive, restarts
  <2>2. IsSeq(work') /\ tick' \in Nat /\ tick <= tick'
    BY <1>0, <2>1
  <2>3. /\ Grown(bus', bus, tick', Perceptions) /\ SightInvariant'
        /\ MemoryInvariant => MemoryInvariant'
        /\ DOMAIN cursor' = DOMAIN cursor
        /\ \A r \in DOMAIN cursor' : cursor'[r] \in 0..Len(bus')
    BY <1>0, <1>2, <2>1, PerceiveKeeps
  <2> QED BY <2>1, <2>2, <2>3, ReadersGoOn
<1>3. CASE Evaluate
  <2>1. /\ "perception.delivered" \notin GoalEvents
        /\ UNCHANGED <<minds, facts, saved, continued, tick, work>>
    BY <1>3 DEF GoalEvents, Evaluate, restarts
  <2>2. IsSeq(work')
    BY <1>0, <2>1
  <2> QED BY <1>0, <1>3, <2>1, <2>2, EvaluateKeeps, QuietSight
<1>4. CASE Memorise
  <2>1. /\ "perception.delivered" \notin Asking
        /\ UNCHANGED <<minds, facts, saved, continued, tick>>
        /\ cursor' = [cursor EXCEPT !["memory"] = Len(bus)]
    BY <1>4 DEF Asking, Memorise, restarts
  <2>2. Grown(bus', bus, tick, Asking) /\ IsSeq(work')
    BY <1>0, <1>4, MemoriseGrows
  <2>3. /\ DOMAIN cursor' = DOMAIN cursor /\ Len(bus') \in Nat /\ Len(bus) <= Len(bus')
        /\ \A r \in DOMAIN cursor : cursor'[r] \in 0..Len(bus)
    BY <1>0, <2>1, <2>2, SeqParts DEF Grown
  <2>4. \A r \in DOMAIN cursor' : cursor'[r] \in 0..Len(bus')
    BY <1>0, <2>3
  <2> QED BY <1>4, <2>1, <2>2, <2>3, <2>4, MemoriseKeeps, QuietSight
<1>5. CASE \E asked \in SUBSET (Deciders \ alarmed) : Think(asked)
  BY <1>5, ThinkKeeps
<1>6. ASSUME Grown(bus', bus, tick, Settlements), IsSeq(work'),
             MemoryInvariant => MemoryInvariant',
             UNCHANGED <<minds, facts, saved, continued, tick, cursor>>
      PROVE  ReadersInvariant'
  <2>1. "perception.delivered" \notin Settlements
    BY DEF Settlements
  <2>2. DOMAIN cursor' = DOMAIN cursor /\ Len(bus') \in Nat /\ Len(bus) <= Len(bus')
    BY <1>6, SeqParts DEF Grown
  <2>3. \A r \in DOMAIN cursor' : cursor'[r] \in 0..Len(bus')
    BY <1>0, <1>6, <2>2
  <2> QED BY <1>6, <2>1, <2>2, <2>3, QuietSight
<1>7. ASSUME NEW fails \in BOOLEAN, Drain(fails) PROVE ReadersInvariant'
  <2>1. UNCHANGED <<minds, facts, saved, continued, tick, cursor>>
    BY <1>7 DEF Drain, restarts
  <2> QED BY <1>0, <1>6, <1>7, <2>1, DrainKeeps, DrainGrows
<1>8. CASE Finalise
  <2>1. UNCHANGED <<minds, facts, saved, continued, tick, cursor>>
    BY <1>8 DEF Finalise, restarts
  <2> QED BY <1>0, <1>6, <1>8, <2>1, FinaliseKeeps, FinaliseGrows
<1>9. CASE Save
  BY <1>9, SaveKeeps
<1>10. CASE Branch
  BY <1>10, BranchKeeps
<1>11. CASE Continue
  BY <1>11, ContinueKeeps
<1>12. CASE UNCHANGED vars
  <2>1. UNCHANGED <<bus, cursor, facts, minds, work, memories, tick, phase, saved, continued>>
    BY <1>12 DEF vars
  <2>2. ASSUME MemoryInvariant PROVE MemoryInvariant'
    <3>1. BusSound' /\ MemoriesPlaced' /\ SavedSound'
      BY <2>1, <2>2 DEF MemoryInvariant, BusSound, MemoriesPlaced, SavedSound,
                        Remembered, Old, Current, IsSeq, EventSound
    <3>2. Requested(bus', work', memories', PairsTo(cursor'["memory"]))
      BY <2>1, <2>2 DEF MemoryInvariant
    <3> QED BY <3>1, <3>2 DEF MemoryInvariant
  <2>3. Grown(bus', bus, tick, {}) /\ "perception.delivered" \notin {}
    BY <2>1, NotGrown DEF ReadersInvariant, BusInvariant, BusSound
  <2>4. DOMAIN cursor' = DOMAIN cursor /\ IsSeq(work')
        /\ \A r \in DOMAIN cursor' : cursor'[r] \in 0..Len(bus')
    BY <1>0, <2>1
  <2> QED BY <2>1, <2>2, <2>3, <2>4, QuietSight
<1> QED BY <1>1, <1>2, <1>3, <1>4, <1>5, <1>7, <1>8, <1>9, <1>10, <1>11, <1>12 DEF Next

\* The readers stay in step with the bus: the sightings on the bus are what the minds have
\* in sight, and, unless the run was continued with its events, each event that was read and
\* each character it concerns is queued, remembered or given up exactly once
\* (memory_recording.py, perception/system.py).
THEOREM ReadersHold == Spec => []ReadersInvariant
<1>1. Init => ReadersInvariant
  BY InitHolds
<1>2. ReadersInvariant /\ [Next]_vars => ReadersInvariant'
  BY StepKeeps
<1> QED BY <1>1, <1>2, PTL DEF Spec

LEMMA InvariantRemembers ==
    ASSUME MemoryInvariant
    PROVE  EachRememberedOnce
<1> DEFINE waiting == [i \in DOMAIN work |->
                         [agent |-> work[i].agent, event |-> work[i].event, tick |-> work[i].tick]]
           kept == memories \o waiting
           M == Len(memories)
           N == Len(work)
           k == cursor["memory"]
<1>1. /\ IsSeq(memories) /\ IsInjective(memories) /\ M \in Nat /\ DOMAIN memories = 1..M
      /\ DOMAIN work = 1..N /\ N \in Nat /\ Len(bus) \in Nat /\ DOMAIN bus = 1..Len(bus)
      /\ k \in 0..Len(bus)
  BY SeqParts DEF MemoryInvariant, BusSound, MemoriesPlaced, Remembered, Requested
<1>2. /\ IsSeq(waiting) /\ Len(waiting) = N
      /\ \A i \in 1..N : waiting[i] = Kernel(work[i])
  <2>1. waiting = [i \in 1..N |-> waiting[i]] /\ \A i \in 1..N : waiting[i] = Kernel(work[i])
    BY <1>1 DEF Kernel
  <2> QED BY <1>1, <2>1, Listed
<1> HIDE DEF waiting
<1>3. /\ IsSeq(kept) /\ Len(kept) = M + N /\ DOMAIN kept = 1..(M + N)
      /\ \A i \in 1..M : kept[i] = memories[i]
      /\ \A i \in 1..N : kept[M + i] = Kernel(work[i])
  <2>0. IsSeq(memories) /\ IsSeq(waiting)
    BY <1>1, <1>2
  <2>1. /\ IsSeq(kept) /\ Len(kept) = M + Len(waiting)
        /\ \A i \in 1..M : kept[i] = memories[i]
        /\ \A i \in 1..Len(waiting) : kept[M + i] = waiting[i]
    BY <2>0, Joined
  <2> HIDE DEF kept
  <2> QED BY <1>2, <2>1, SeqParts
<1> HIDE DEF kept
<1>4. ASSUME NEW i \in 1..N
      PROVE  /\ ItemSound(bus, work[i]) /\ Kernel(work[i]).tick = bus[work[i].event].tick
             /\ Kernel(work[i]) \notin Range(memories)
             /\ \A j \in 1..N : Kernel(work[i]) = Kernel(work[j]) => i = j
  <2>1. ItemSound(bus, work[i]) /\ ~Kept(memories, bus, work[i].event, work[i].agent)
    BY DEF MemoryInvariant, Requested
  <2>2. Kernel(work[i]) \notin Range(memories)
    BY <2>1 DEF Kept, Kernel, ItemSound
  <2>3. \A j \in 1..N : work[i].event = work[j].event /\ work[i].agent = work[j].agent => i = j
    BY DEF MemoryInvariant, Requested
  <2> QED BY <2>1, <2>2, <2>3 DEF Kernel, ItemSound
<1>5. IsInjective(kept)
  <2> SUFFICES ASSUME NEW i \in 1..(M + N), NEW j \in 1..(M + N), kept[i] = kept[j] PROVE i = j
    BY <1>3 DEF IsInjective
  <2>1. \A l \in 1..(M + N) : l \in 1..M \/ (l - M \in 1..N /\ l = M + (l - M))
    BY <1>1
  <2>2. CASE i \in 1..M /\ j \in 1..M
    <3>1. memories[i] = memories[j] /\ i \in DOMAIN memories /\ j \in DOMAIN memories
      BY <1>1, <1>3, <2>2
    <3> QED BY Zenon, <1>1, <3>1 DEF IsInjective
  <2>3. CASE i - M \in 1..N /\ j - M \in 1..N
    <3>1. kept[M + (i - M)] = Kernel(work[i - M]) /\ kept[M + (j - M)] = Kernel(work[j - M])
      BY <1>3, <2>3
    <3>0. M + (i - M) = i /\ M + (j - M) = j
      BY <1>1
    <3>2. i - M = j - M
      BY <1>4, <2>3, <3>0, <3>1
    <3> QED BY <1>1, <3>2
  <2>4. \A l \in 1..M, m \in 1..(M + N) : m - M \in 1..N => kept[l] # kept[m]
    <3> SUFFICES ASSUME NEW l \in 1..M, NEW m \in 1..(M + N), m - M \in 1..N PROVE kept[l] # kept[m]
      OBVIOUS
    <3>1. kept[l] \in Range(memories)
      BY <1>1, <1>3 DEF Range
    <3>2. kept[m] = Kernel(work[m - M])
      BY <1>1, <1>3
    <3> QED BY <1>4, <3>1, <3>2
  <2> QED BY <2>1, <2>2, <2>3, <2>4
<1>6. /\ \A m \in Range(memories) : m \in ToSet(kept)
      /\ \A i \in 1..N : Kernel(work[i]) \in ToSet(kept)
  <2>1. \A l \in 1..(M + N) : kept[l] \in ToSet(kept)
    BY <1>3 DEF ToSet
  <2>2. ASSUME NEW m \in Range(memories) PROVE m \in ToSet(kept)
    <3>1. PICK l \in 1..M : m = memories[l]
      BY <1>1 DEF Range
    <3>2. l \in 1..(M + N) /\ kept[l] = m
      BY <1>1, <1>3, <3>1
    <3> QED BY <2>1, <3>2
  <2>3. ASSUME NEW i \in 1..N PROVE Kernel(work[i]) \in ToSet(kept)
    <3>1. M + i \in 1..(M + N) /\ kept[M + i] = Kernel(work[i])
      BY <1>1, <1>3
    <3> QED BY <2>1, <3>1
  <2> QED BY <2>2, <2>3
<1>7. ASSUME NEW n \in 1..k, bus[n].type \in Memorable, NEW r \in Recipients(bus[n])
      PROVE  \/ [agent |-> r, event |-> n, tick |-> bus[n].tick] \in ToSet(kept)
             \/ FailedIn(bus, n, r)
  <2>1. n \in 1..Len(bus) /\ EventSound(bus[n])
    BY <1>1 DEF MemoryInvariant, BusSound
  <2>2. r \in Characters
    BY <1>7, <2>1 DEF EventSound, Recipients
  <2>3. <<n, r>> \in PairsTo(k)
    BY <2>2 DEF PairsTo
  <2>4. Waits(work, n, r) \/ Kept(memories, bus, n, r) \/ FailedIn(bus, n, r)
    BY <1>7, <2>1, <2>2, <2>3 DEF MemoryInvariant, Requested
  <2>5. CASE Waits(work, n, r)
    <3>1. PICK i \in 1..N : work[i].event = n /\ work[i].agent = r
      BY <2>5 DEF Waits
    <3>2. Kernel(work[i]) = [agent |-> r, event |-> n, tick |-> bus[n].tick]
      BY <1>4, <3>1 DEF Kernel
    <3> QED BY <1>6, <3>2
  <2>6. CASE Kept(memories, bus, n, r)
    <3>1. PICK m \in Range(memories) : m.event = n /\ m.agent = r /\ m.tick = bus[n].tick
      BY <2>6 DEF Kept
    <3>2. m = [agent |-> m.agent, event |-> m.event, tick |-> m.tick]
      BY DEF MemoryInvariant, MemoriesPlaced, Remembered
    <3> QED BY <1>6, <3>1, <3>2
  <2> QED BY <2>4, <2>5, <2>6
<1>8. \A n, r : FailedIn(bus, n, r) =>
        \E i, j \in DOMAIN bus :
            /\ bus[i].type = "memory.requested" /\ bus[i].agent = r /\ bus[i].cause = n
            /\ bus[j].type \in {"memory.failed", "memory.cancelled"} /\ bus[j].cause = i
  BY <1>1 DEF FailedIn
<1> QED BY <1>5, <1>7, <1>8 DEF EachRememberedOnce, kept, waiting

\* Until a run is continued with its events, whatever is remembered is remembered once, and
\* whatever was read by the recorder of memories is remembered, queued, failed or cancelled:
\* for any characters and doings, any number of ticks, of alarms that hold items back, and of
\* branches from checkpoints (memory_recording.py).
THEOREM RememberedOnce == Spec => [](continued \/ EachRememberedOnce)
<1>1. ReadersInvariant => continued \/ EachRememberedOnce
  BY InvariantRemembers DEF ReadersInvariant
<1> QED BY <1>1, ReadersHold, PTL

\* To each observer another character comes into sight and goes out of sight in turn, for
\* any places, inbox limits and ages of facts, in branches and in runs that were continued
\* (perception/system.py).
THEOREM SightingsTakeTurns == Spec => []SightingsAlternate
<1>1. ReadersInvariant => SightingsAlternate
  <2> SUFFICES ASSUME ReadersInvariant, NEW o \in Characters, NEW b \in Characters,
                      NEW m \in DOMAIN bus, NEW n \in DOMAIN bus,
                      Sighting(bus[m], o, b), Sighting(bus[n], o, b), m < n,
                      \A i \in DOMAIN bus : Sighting(bus[i], o, b) => i <= m \/ n <= i
               PROVE  bus[m].about.kind # bus[n].about.kind
    BY DEF SightingsAlternate, Sighting, Sights
  <2>1. DOMAIN bus = 1..Len(bus) /\ Agrees(bus, Seeing(minds))
    BY SeqParts DEF ReadersInvariant, BusInvariant, BusSound, SightInvariant
  <2>2. Following(bus, o, b, m, n)
    BY <2>1 DEF Following
  <2>3. \A x, y \in 1..Len(bus) :
           Following(bus, o, b, x, y) => bus[x].about.kind # bus[y].about.kind
    BY <2>1 DEF Agrees
  <2> QED BY <2>1, <2>2, <2>3
<1> QED BY <1>1, ReadersHold, PTL

-----------------------------------------------------------------------------
(* What the goals are, and what they have counted.                         *)

GoalStatuses == {"pending", "active", "succeeded", "failed", "expired"}

GoalFields == {"status", "progress", "matched", "evidence", "parts", "counts"}

\* A criterion is matched when its part is whole.
Measures(def, goal) ==
    /\ DOMAIN goal = GoalFields
    /\ goal.parts \in [DOMAIN def.criteria -> 0..Scale]
    /\ goal.counts \in [DOMAIN def.criteria -> Nat]
    /\ goal.matched = {i \in DOMAIN def.criteria : goal.parts[i] = Scale}

Bad(def, goal) == Of(def, "failure") \cap goal.matched
Good(def, goal) == Of(def, "success") \cap goal.matched

Complete(def, goal) ==
    Good(def, goal) # {} /\ (def.policy = "ALL" => Good(def, goal) = Of(def, "success"))

Begins(def, t) == def.from = None \/ t >= def.from

Settled(def, goal, t) ==
    /\ goal.status \in GoalStatuses
    /\ goal.status = "pending" => t = 0 \/ ~Begins(def, t)
    /\ goal.status = "active" => Bad(def, goal) = {} /\ ~Complete(def, goal) /\ ~Late(def, t)
    /\ goal.status = "succeeded" => Bad(def, goal) = {} /\ Complete(def, goal)
    /\ goal.status = "failed" => Bad(def, goal) # {}
    /\ goal.status = "expired" => Bad(def, goal) = {} /\ ~Complete(def, goal) /\ Late(def, t)

Speech(x) == [type |-> "speech.started", agent |-> x[2], target |-> x[3]]

\* What of h a criterion counts.
Since(def, i, h) ==
    {x \in h : Begins(def, x[1]) /\ Matches(def.owner, def.criteria[i], Speech(x))}

Counts(def, goal, h) ==
    \A i \in DOMAIN def.criteria :
        /\ def.criteria[i].kind = "count" /\ goal.status \in {"pending", "active"}
        /\ i \notin goal.matched
        => goal.counts[i] = Cardinality(Since(def, i, h))

\* The goal after the evaluation of tick t, when h has been spoken.
GoalSound(def, goal, h, t) ==
    /\ Measures(def, goal) /\ goal.status \in GoalStatuses
    /\ goal.status = "active" => Begins(def, t)
    /\ def.criteria # <<>> => Settled(def, goal, t)
    /\ Counts(def, goal, h)

Spoken(h, t) ==
    /\ t \in Nat /\ h \in SUBSET (Nat \X Characters \X Characters) /\ IsFiniteSet(h)
    /\ \A x \in h : x[1] <= t

GoalsSound(gs, h, t) ==
    /\ Spoken(h, t) /\ DOMAIN gs = DOMAIN Plans
    /\ \A g \in DOMAIN Plans : GoalSound(Plans[g], gs[g], h, t)

\* The interactions on the bus b after its first k events.
Interacting(b, k) == {n \in (k + 1)..Len(b) : b[n].type \in Interactions}

\* What was said in this tick, and is still to be read.
Fresh == {x \in history : x[1] = tick}

ToBeRead(b, k) ==
    \/ Interacting(b, k) = {} /\ Fresh = {}
    \/ \E n \in (k + 1)..Len(b), a, c \in Characters :
          /\ Interacting(b, k) = {n} /\ b[n].type = "speech.started"
          /\ b[n].agent = a /\ b[n].target = c
          /\ Fresh = {<<tick, a, c>>}

Due == phase \in {"perceive", "evaluate"}

GoalInvariant ==
    /\ Due => /\ tick \in Nat \ {0} /\ GoalsSound(goals, history \ Fresh, tick - 1)
              /\ ToBeRead(bus, cursor["goals"])
    /\ ~Due => GoalsSound(goals, history, tick) /\ Interacting(bus, cursor["goals"]) = {}
    /\ saved # None => GoalsSound(saved.goals, saved.history, saved.tick)

-----------------------------------------------------------------------------
(* The progress of a goal.                                                 *)

LEMMA Products ==
    ASSUME NEW s \in Nat, NEW n \in Nat
    PROVE  /\ s * n \in Nat /\ s * (n + 1) = s * n + s
           /\ n > 0 => \A b \in 0..s : n * b >= s * n <=> b = s
<1>1. s * n \in Nat /\ s * (n + 1) = s * n + s
  OBVIOUS
<1>2. ASSUME n > 0, NEW b \in 0..s, b # s PROVE ~(n * b >= s * n)
  <2>1. PICK d \in Nat : d > 0 /\ s = b + d
    <3>1. s - b \in Nat /\ s - b > 0 /\ s = b + (s - b)
      BY <1>2
    <3> QED BY <3>1
  <2>2. s * n = n * b + n * d /\ n * b \in Nat
    BY <2>1
  <2>3. n * d > 0
    BY <1>2, <2>1
  <2> QED BY <2>2, <2>3
<1>3. n * s >= s * n
  OBVIOUS
<1> QED BY <1>1, <1>2, <1>3

\* The parts of the criteria of c[1] are added.
Adding(c, x, i) == IF i \in c[1] THEN x + c[2][i] ELSE x

AddedUpTo(c, i, x) ==
    LET S == c[1] \cap (1..i) IN
    /\ x \in Nat /\ IsFiniteSet(S) /\ x <= Scale * Cardinality(S)
    /\ x = Scale * Cardinality(S) <=> \A j \in S : c[2][j] = Scale

Sums == INSTANCE FoldFacts WITH Op <- Adding, P <- AddedUpTo

\* The best part of the criteria of c[1] is taken.
Bettering(c, x, i) == IF i \in c[1] /\ c[2][i] > x THEN c[2][i] ELSE x

BestUpTo(c, i, x) ==
    x \in 0..Scale /\ (x = Scale <=> \E j \in c[1] \cap (1..i) : c[2][j] = Scale)

Bests == INSTANCE FoldFacts WITH Op <- Bettering, P <- BestUpTo

LEMMA AddingKeeps ==
    ASSUME NEW c, NEW n \in Nat, c[1] \subseteq 1..n, c[2] \in [1..n -> 0..Scale],
           NEW i \in 1..n, NEW x, AddedUpTo(c, i - 1, x)
    PROVE  AddedUpTo(c, i, Adding(c, x, i))
<1> DEFINE R == c[1] \cap (1..(i - 1))
           S == c[1] \cap (1..i)
           m == Cardinality(R)
           y == c[2][i]
<1>1. /\ x \in Nat /\ IsFiniteSet(R) /\ x <= Scale * m
      /\ x = Scale * m <=> \A j \in R : c[2][j] = Scale
  BY DEF AddedUpTo
<1>2. m \in Nat /\ Scale \in Nat /\ y \in 0..Scale
  BY <1>1, FS_CardinalityType, ScaleAssumption
<1>3. i \notin R /\ \A j \in Nat : j \in 1..i <=> j \in 1..(i - 1) \/ j = i
  OBVIOUS
<1>4. CASE i \notin c[1]
  <2>1. S = R
    BY <1>3, <1>4
  <2> QED BY <1>1, <1>4, <2>1 DEF Adding, AddedUpTo
<1>5. CASE i \in c[1]
  <2>1. S = R \cup {i}
    BY <1>3, <1>5
  <2>2. IsFiniteSet(S) /\ Cardinality(S) = m + 1
    <3>1. IsFiniteSet(R) /\ i \notin R
      BY <1>1, <1>3
    <3> HIDE DEF R, S
    <3>2. IsFiniteSet(R \cup {i}) /\ Cardinality(R \cup {i}) = Cardinality(R) + 1
      BY <3>1, FS_AddElement, Zenon
    <3> QED BY <2>1, <3>2
  <2>3. Scale * m \in Nat /\ Scale * (m + 1) = Scale * m + Scale
    BY <1>2, Products
  <2>4. Adding(c, x, i) = x + y
    BY <1>5 DEF Adding
  <2> HIDE DEF y
  <2>5. /\ x + y \in Nat /\ x + y <= Scale * (m + 1)
        /\ x + y = Scale * (m + 1) <=> x = Scale * m /\ y = Scale
    <3> DEFINE q == Scale * m
    <3>1. q \in Nat /\ Scale * (m + 1) = q + Scale /\ x <= q /\ x \in Nat
          /\ y \in 0..Scale /\ Scale \in Nat
      BY <1>1, <1>2, <2>3
    <3> HIDE DEF q
    <3>2. x + y \in Nat /\ x + y <= q + Scale /\ (x + y = q + Scale <=> x = q /\ y = Scale)
      BY <3>1
    <3> QED BY <3>1, <3>2 DEF q
  <2>6. (\A j \in S : c[2][j] = Scale) <=> (\A j \in R : c[2][j] = Scale) /\ y = Scale
    BY <2>1 DEF y
  <2> HIDE DEF m, R, S
  <2>7. /\ x + y \in Nat /\ IsFiniteSet(S) /\ x + y <= Scale * Cardinality(S)
        /\ x + y = Scale * Cardinality(S) <=> \A j \in S : c[2][j] = Scale
    BY <1>1, <2>2, <2>5, <2>6
  <2> QED BY <2>4, <2>7 DEF AddedUpTo, S
<1> QED BY <1>4, <1>5

LEMMA BetteringKeeps ==
    ASSUME NEW c, NEW n \in Nat, c[1] \subseteq 1..n, c[2] \in [1..n -> 0..Scale],
           NEW i \in 1..n, NEW x, BestUpTo(c, i - 1, x)
    PROVE  BestUpTo(c, i, Bettering(c, x, i))
<1> DEFINE R == c[1] \cap (1..(i - 1))
           S == c[1] \cap (1..i)
           y == c[2][i]
<1>1. x \in 0..Scale /\ (x = Scale <=> \E j \in R : c[2][j] = Scale)
  BY DEF BestUpTo
<1>2. Scale \in Nat /\ y \in 0..Scale
  BY ScaleAssumption
<1>3. i \notin R /\ \A j \in Nat : j \in 1..i <=> j \in 1..(i - 1) \/ j = i
  OBVIOUS
<1>4. (\E j \in S : c[2][j] = Scale) <=> (\E j \in R : c[2][j] = Scale) \/ (i \in c[1] /\ y = Scale)
  <2>1. S = IF i \in c[1] THEN R \cup {i} ELSE R
    BY <1>3
  <2> QED BY <2>1
<1>5. Bettering(c, x, i) = IF i \in c[1] /\ y > x THEN y ELSE x
  BY DEF Bettering
<1> HIDE DEF y, R, S
<1>6. LET z == IF i \in c[1] /\ y > x THEN y ELSE x IN
      z \in 0..Scale /\ (z = Scale <=> x = Scale \/ (i \in c[1] /\ y = Scale))
  BY <1>1, <1>2
<1> QED BY <1>1, <1>4, <1>5, <1>6 DEF BestUpTo, S

\* Progress is whole when all the criteria of success are, or any of them is.
LEMMA ProgressIsWhole ==
    ASSUME NEW def, NEW n \in Nat, DOMAIN def.criteria = 1..n, NEW parts \in [1..n -> 0..Scale],
           Of(def, "success") # {}
    PROVE  LET S == Of(def, "success") IN
           ProgressOf(def, parts) >= Scale * Cardinality(S)
           <=> IF def.policy = "ALL" THEN \A j \in S : parts[j] = Scale
                                     ELSE \E j \in S : parts[j] = Scale
<1> DEFINE S == Of(def, "success")
           c == <<S, parts>>
           all == [i \in DOMAIN def.criteria |-> i]
           more(x, i) == IF i \in S THEN x + parts[i] ELSE x
           best(x, i) == IF i \in S /\ parts[i] > x THEN parts[i] ELSE x
<1>1. S \subseteq 1..n /\ S \cap (1..n) = S /\ S \cap (1..0) = {} /\ c[1] = S /\ c[2] = parts
  BY DEF Of
<1>2. DOMAIN all = 1..n /\ \A i \in 1..n : all[i] = i
  OBVIOUS
<1>3. IsFiniteSet(S) /\ Cardinality(S) \in Nat /\ Cardinality(S) > 0 /\ Scale \in Nat \ {0}
  <2>1. IsFiniteSet(1..n)
    <3>1. 1 \in Int /\ n \in Int
      OBVIOUS
    <3> QED BY <3>1, FS_Interval, Zenon
  <2>2. IsFiniteSet(S)
    BY <1>1, <2>1, FS_Subset
  <2>3. Cardinality(S) \in Nat /\ Cardinality(S) # 0
    BY <2>2, FS_CardinalityType, FS_EmptySet
  <2> QED BY <2>2, <2>3, ScaleAssumption
<1>4. Sums!Folded(c, 0, all) = FoldLeft(more, 0, all)
  BY <1>1 DEF Adding, FoldLeft, MapThenFoldSet, Max,
         Sums!Folded, Sums!MapThenFoldSet, Sums!Greatest
<1>5. Bests!Folded(c, 0, all) = FoldLeft(best, 0, all)
  BY <1>1 DEF Bettering, FoldLeft, MapThenFoldSet, Max,
         Bests!Folded, Bests!MapThenFoldSet, Bests!Greatest
<1>6. ProgressOf(def, parts) = IF def.policy = "ALL" THEN FoldLeft(more, 0, all)
                               ELSE Cardinality(S) * FoldLeft(best, 0, all)
  BY DEF ProgressOf
<1> HIDE DEF all, S, c
<1>7. AddedUpTo(c, n, Sums!Folded(c, 0, all))
  <2>1. AddedUpTo(c, 0, 0)
    BY <1>1, <1>3, FS_EmptySet DEF AddedUpTo
  <2>2. \A i \in 1..n : \A x : AddedUpTo(c, i - 1, x) => AddedUpTo(c, i, Adding(c, x, all[i]))
    BY <1>1, <1>2, AddingKeeps
  <2> QED BY <1>2, <2>1, <2>2, Sums!Keeps, LeastOf
<1>8. BestUpTo(c, n, Bests!Folded(c, 0, all))
  <2>1. BestUpTo(c, 0, 0)
    BY <1>1, <1>3 DEF BestUpTo
  <2>2. \A i \in 1..n : \A x : BestUpTo(c, i - 1, x) => BestUpTo(c, i, Bettering(c, x, all[i]))
    BY <1>1, <1>2, BetteringKeeps
  <2> QED BY <1>2, <2>1, <2>2, Bests!Keeps, LeastOf
<1> DEFINE sum == FoldLeft(more, 0, all)
           top == FoldLeft(best, 0, all)
<1>9. /\ sum \in Nat /\ sum <= Scale * Cardinality(S)
      /\ sum = Scale * Cardinality(S) <=> \A j \in S : parts[j] = Scale
  BY <1>1, <1>4, <1>7 DEF AddedUpTo
<1>10. top \in 0..Scale /\ (top = Scale <=> \E j \in S : parts[j] = Scale)
  BY <1>1, <1>5, <1>8 DEF BestUpTo
<1> HIDE DEF sum, top
<1>11. Scale * Cardinality(S) \in Nat /\ (Cardinality(S) * top >= Scale * Cardinality(S) <=> top = Scale)
  BY <1>3, <1>10, Products
<1>12. ProgressOf(def, parts) = IF def.policy = "ALL" THEN sum ELSE Cardinality(S) * top
  BY <1>6 DEF sum, top
<1>13. CASE def.policy = "ALL"
  <2>1. sum >= Scale * Cardinality(S) <=> sum = Scale * Cardinality(S)
    BY <1>9, <1>11
  <2> QED BY <1>9, <1>12, <1>13, <2>1 DEF S
<1>14. CASE def.policy # "ALL"
  BY <1>10, <1>11, <1>12, <1>14 DEF S
<1> QED BY <1>13, <1>14

-----------------------------------------------------------------------------
(* The criteria of a goal are measured.                                    *)

Found(def, i, events) ==
    Cardinality({n \in DOMAIN events : Matches(def.owner, def.criteria[i], events[n])})

Countable(def) ==
    \A i \in DOMAIN def.criteria :
        def.criteria[i].kind = "count" => def.criteria[i].type \in Interactions
                                          /\ def.criteria[i].minimum \in Nat \ {0}

LEMMA MeasuredIsSound ==
    ASSUME NEW def, Countable(def), NEW i \in DOMAIN def.criteria, NEW goal, goal.counts[i] \in Nat,
           NEW events, IsFiniteSet(DOMAIN events), NEW context
    PROVE  LET m == Measured(def.owner, goal, i, def.criteria[i], events, context) IN
           /\ m.part \in 0..Scale /\ m.count \in Nat
           /\ i \in goal.matched => m.part = Scale
           /\ i \notin goal.matched /\ def.criteria[i].kind = "count"
              => m.count = goal.counts[i] + Found(def, i, events)
<1> DEFINE c == def.criteria[i]
           S == {n \in DOMAIN events : Matches(def.owner, c, events[n])}
           found == Cardinality(S)
           total == goal.counts[i] + found
           m == Measured(def.owner, goal, i, c, events, context)
<1>1. Scale \in Nat
  BY ScaleAssumption
<1>2. found \in Nat /\ total \in Nat
  <2>1. IsFiniteSet(S)
    BY FS_Subset
  <2>2. found \in Nat
    BY <2>1, FS_CardinalityType
  <2> QED BY <2>2
<1>3. Found(def, i, events) = found
  BY DEF Found
<1>4. CASE i \in goal.matched
  <2>1. m = [part |-> Scale, count |-> goal.counts[i], new |-> FALSE]
    BY <1>4 DEF Measured
  <2> QED BY <1>1, <1>4, <2>1
<1>5. CASE i \notin goal.matched /\ c.kind = "count"
  <2> DEFINE share == Scale \div c.minimum
             part == Lesser(Scale, total * share)
  <2>1. m = [part |-> part, count |-> total, new |-> found > 0]
    BY <1>5 DEF Measured, Counted
  <2>2. share \in Nat
    BY <1>1, <1>5 DEF Countable
  <2> HIDE DEF share
  <2>3. total * share \in Nat
    BY <1>2, <2>2
  <2>4. part \in 0..Scale
    BY <1>1, <2>3 DEF Lesser
  <2> HIDE DEF part, m, found, c
  <2> QED BY <1>2, <1>3, <1>5, <2>1, <2>4 DEF m, c
<1>6. CASE i \notin goal.matched /\ c.kind # "count"
  <2>1. m.part \in {Scale, 0} /\ m.count = 0
    BY <1>6 DEF Measured
  <2> QED BY <1>1, <1>6, <2>1
<1> QED BY <1>4, <1>5, <1>6

\* One criterion is measured: c is the goal's definition, the goal, the events and the world.
Assess(def, events, context, g, i) ==
    LET m == Measured(def.owner, g, i, def.criteria[i], events, context) IN
    [g EXCEPT !.parts[i] = m.part, !.counts[i] = m.count,
              !.matched = Met(@, i, m.part),
              !.evidence = IF m.new THEN Append(@, <<i, context.now>>) ELSE @]

Assessing(c, g, i) == Assess(c[1], c[3], c[4], g, i)

AssessedUpTo(c, i, g) ==
    /\ Measures(c[1], g) /\ g.status = c[2].status
    /\ \A j \in DOMAIN c[1].criteria :
          /\ j > i => g.counts[j] = c[2].counts[j] /\ (j \in g.matched <=> j \in c[2].matched)
          /\ j <= i /\ c[1].criteria[j].kind = "count" /\ j \notin g.matched
             => /\ j \notin c[2].matched
                /\ g.counts[j] = c[2].counts[j] + Found(c[1], j, c[3])

Assessments == INSTANCE FoldFacts WITH Op <- Assessing, P <- AssessedUpTo

LEMMA AssessingKeeps ==
    ASSUME NEW c, NEW n \in Nat, DOMAIN c[1].criteria = 1..n, Countable(c[1]),
           IsFiniteSet(DOMAIN c[3]), NEW i \in 1..n, NEW g, AssessedUpTo(c, i - 1, g)
    PROVE  AssessedUpTo(c, i, Assessing(c, g, i))
<1> DEFINE def == c[1]
           D == DOMAIN c[1].criteria
           m == Measured(c[1].owner, g, i, c[1].criteria[i], c[3], c[4])
           h == Assessing(c, g, i)
<1>1. /\ DOMAIN g = GoalFields /\ g.parts \in [D -> 0..Scale] /\ g.counts \in [D -> Nat]
      /\ g.matched = {j \in D : g.parts[j] = Scale}
      /\ g.status = c[2].status /\ D = 1..n /\ i \in D /\ i > i - 1
  BY DEF AssessedUpTo, Measures
<1>2. /\ m.part \in 0..Scale /\ m.count \in Nat
      /\ i \in g.matched => m.part = Scale
      /\ i \notin g.matched /\ c[1].criteria[i].kind = "count"
         => m.count = g.counts[i] + Found(c[1], i, c[3])
  <2>1. g.counts[i] \in Nat /\ i \in DOMAIN c[1].criteria
    BY <1>1
  <2> DEFINE events == c[3]
             context == c[4]
  <2>2. Countable(def) /\ IsFiniteSet(DOMAIN events) /\ i \in DOMAIN def.criteria
    BY <2>1
  <2>3. m = Measured(def.owner, g, i, def.criteria[i], events, context)
    OBVIOUS
  <2> HIDE DEF def, events, context, m
  <2>4. LET k == Measured(def.owner, g, i, def.criteria[i], events, context) IN
        /\ k.part \in 0..Scale /\ k.count \in Nat
        /\ i \in g.matched => k.part = Scale
        /\ i \notin g.matched /\ def.criteria[i].kind = "count"
           => k.count = g.counts[i] + Found(def, i, events)
    BY <2>1, <2>2, MeasuredIsSound
  <2> QED BY <2>3, <2>4 DEF def, events
<1>3. /\ DOMAIN h = GoalFields /\ h.status = g.status
      /\ h.parts = [g.parts EXCEPT ![i] = m.part] /\ h.counts = [g.counts EXCEPT ![i] = m.count]
      /\ h.matched = Met(g.matched, i, m.part)
  BY <1>1 DEF Assessing, Assess, GoalFields
<1> HIDE DEF m, h, D
<1>4. h.parts \in [D -> 0..Scale] /\ h.counts \in [D -> Nat]
  <2>1. /\ g.parts \in [D -> 0..Scale] /\ g.counts \in [D -> Nat] /\ i \in D
        /\ h.parts = [g.parts EXCEPT ![i] = m.part] /\ h.counts = [g.counts EXCEPT ![i] = m.count]
        /\ m.part \in 0..Scale /\ m.count \in Nat
    BY <1>1, <1>2, <1>3, Zenon
  <2> QED BY <2>1
<1>5. \A j \in D : /\ j # i => h.parts[j] = g.parts[j] /\ h.counts[j] = g.counts[j]
                   /\ h.parts[i] = m.part /\ h.counts[i] = m.count
  BY <1>1, <1>3
<1>6. /\ \A j \in D : j # i => (j \in h.matched <=> j \in g.matched)
      /\ i \in h.matched <=> m.part = Scale
      /\ h.matched \subseteq D
  <2>1. g.matched \subseteq D /\ i \in D /\ (i \in g.matched => m.part = Scale)
    BY <1>1, <1>2
  <2>2. h.matched = IF m.part = Scale THEN g.matched \cup {i} ELSE g.matched
    BY <1>3 DEF Met
  <2>3. CASE m.part = Scale
    BY <2>1, <2>2, <2>3
  <2>4. CASE m.part # Scale
    BY <2>1, <2>2, <2>4
  <2> QED BY <2>3, <2>4
<1>7. h.matched = {j \in D : h.parts[j] = Scale}
  <2>1. ASSUME NEW j \in D PROVE j \in h.matched <=> h.parts[j] = Scale
    <3>1. CASE j = i
      BY <3>1, <1>5, <1>6
    <3>2. CASE j # i
      BY <3>2, <1>1, <1>5, <1>6
    <3> QED BY <3>1, <3>2
  <2> QED BY <1>6, <2>1
<1>8. Measures(c[1], h)
  BY <1>3, <1>4, <1>7 DEF Measures, D
<1>9. ASSUME NEW j \in D, j > i
      PROVE  h.counts[j] = c[2].counts[j] /\ (j \in h.matched <=> j \in c[2].matched)
  <2>1. j # i /\ j > i - 1
    BY <1>1, <1>9
  <2>2. g.counts[j] = c[2].counts[j] /\ (j \in g.matched <=> j \in c[2].matched)
    BY <2>1 DEF AssessedUpTo, D
  <2> QED BY <2>1, <2>2, <1>5, <1>6
<1>10. ASSUME NEW j \in D, j <= i, c[1].criteria[j].kind = "count", j \notin h.matched
       PROVE  j \notin c[2].matched /\ h.counts[j] = c[2].counts[j] + Found(c[1], j, c[3])
  <2>1. CASE j = i
    <3>1. i \notin g.matched
      BY <1>2, <1>6, <1>10, <2>1
    <3>2. g.counts[i] = c[2].counts[i] /\ (i \in g.matched <=> i \in c[2].matched)
      BY <1>1 DEF AssessedUpTo, D
    <3> QED BY <1>2, <1>5, <1>10, <2>1, <3>1, <3>2
  <2>2. CASE j # i
    <3>1. j <= i - 1
      BY <1>1, <1>10, <2>2
    <3>2. j \notin g.matched
      BY <1>6, <1>10, <2>2
    <3>3. h.counts[j] = g.counts[j]
      BY <1>5, <2>2
    <3> QED BY <3>1, <3>2, <3>3, <1>10 DEF AssessedUpTo, D
  <2> QED BY <2>1, <2>2
<1>11. AssessedUpTo(c, i, h)
  BY <1>1, <1>3, <1>8, <1>9, <1>10 DEF AssessedUpTo, D
<1> QED BY <1>11 DEF h

\* What a goal's criteria are after an assessment.
LEMMA AssessedMeasures ==
    ASSUME NEW def, NEW n \in Nat, DOMAIN def.criteria = 1..n, Countable(def),
           NEW goal, Measures(def, goal), NEW events, IsFiniteSet(DOMAIN events), NEW context
    PROVE  LET h == Assessed(def, goal, events, context) IN
           /\ Measures(def, h) /\ h.status = goal.status
           /\ \A j \in 1..n :
                 def.criteria[j].kind = "count" /\ j \notin h.matched
                 => /\ j \notin goal.matched
                    /\ h.counts[j] = goal.counts[j] + Found(def, j, events)
<1> DEFINE c == <<def, goal, events, context>>
           all == [i \in DOMAIN def.criteria |-> i]
           h == FoldLeft(LAMBDA g, i : Assess(def, events, context, g, i), goal, all)
<1>1. c[1] = def /\ c[2] = goal /\ c[3] = events /\ c[4] = context
  OBVIOUS
<1>2. DOMAIN all = 1..n /\ \A i \in 1..n : all[i] = i
  OBVIOUS
<1>3. Assessed(def, goal, events, context) = h
  BY DEF Assessed, Assess
<1>4. Assessments!Folded(c, goal, all) = h
  BY <1>1 DEF Assessing, FoldLeft, MapThenFoldSet, Max,
         Assessments!Folded, Assessments!MapThenFoldSet, Assessments!Greatest
<1> HIDE DEF c, all, h
<1>5. AssessedUpTo(c, 0, goal)
  <2>1. \A j \in 1..n : ~(j <= 0)
    OBVIOUS
  <2> QED BY <1>1, <2>1 DEF AssessedUpTo
<1>6. \A i \in 1..n : \A g : AssessedUpTo(c, i - 1, g) => AssessedUpTo(c, i, Assessing(c, g, all[i]))
  BY <1>1, <1>2, AssessingKeeps
<1>7. AssessedUpTo(c, n, Assessments!Folded(c, goal, all))
  BY <1>2, <1>5, <1>6, Assessments!Keeps, LeastOf
<1>8. AssessedUpTo(c, n, h)
  BY <1>4, <1>7
<1>9. \A j \in 1..n : j <= n
  OBVIOUS
<1> QED BY <1>1, <1>3, <1>8, <1>9 DEF AssessedUpTo

-----------------------------------------------------------------------------
(* What an evaluation makes of a goal.                                     *)

Planned(def) ==
    /\ Countable(def) /\ def.policy \in {"ALL", "ANY"}
    /\ def.from \in Nat \cup {None} /\ def.by \in Nat \cup {None}
    /\ IsSeq(def.criteria)

\* The verdict is what the criteria and the deadline give.
LEMMA VerdictSettles ==
    ASSUME NEW def, Planned(def), NEW h, Measures(def, h), NEW t, NEW x,
           Of(def, "success") # {} => x = ProgressOf(def, h.parts),
           NEW risen, risen = [h EXCEPT !.progress = x],
           NEW v, v = [risen EXCEPT !.status = Verdict(def, risen, t)]
    PROVE  /\ Measures(def, v) /\ v.matched = h.matched /\ v.counts = h.counts
           /\ Settled(def, v, t)
<1> DEFINE verdict == Verdict(def, risen, t)
           n == Len(def.criteria)
           S == Of(def, "success")
           F == Of(def, "failure")
<1>1. /\ DOMAIN h = GoalFields /\ h.parts \in [1..n -> 0..Scale] /\ DOMAIN def.criteria = 1..n
      /\ h.matched = {i \in 1..n : h.parts[i] = Scale} /\ n \in Nat
  BY SeqParts DEF Measures, Planned
<1>2. /\ DOMAIN risen = GoalFields /\ risen.progress = x /\ risen.parts = h.parts
  BY <1>1 DEF GoalFields
<1>3. /\ DOMAIN v = GoalFields /\ v.status = verdict /\ v.parts = h.parts /\ v.counts = h.counts
      /\ v.matched = h.matched
  BY <1>1 DEF GoalFields
<1>5. Fails(def, risen) <=> Bad(def, v) # {}
  <2>1. F \subseteq 1..n
    BY <1>1 DEF Of
  <2> QED BY <1>1, <1>2, <1>3, <2>1 DEF Fails, Bad
<1>6. Whole(def, risen) <=> Complete(def, v)
  <2>1. S \subseteq 1..n
    BY <1>1 DEF Of
  <2>2. Good(def, v) = {i \in S : h.parts[i] = Scale}
    BY <1>1, <1>3, <2>1 DEF Good
  <2>3. CASE S = {}
    BY <2>2, <2>3 DEF Whole, Complete
  <2>4. CASE S # {}
    <3>1. x >= Scale * Cardinality(S) <=> IF def.policy = "ALL" THEN \A j \in S : h.parts[j] = Scale
                                                               ELSE \E j \in S : h.parts[j] = Scale
      <4>1. /\ n \in Nat /\ DOMAIN def.criteria = 1..n
            /\ h.parts \in [1..n -> 0..Scale] /\ Of(def, "success") # {}
        BY <1>1, <2>4
      <4> QED BY <4>1, ProgressIsWhole, ZenonT(40)
    <3>2. Whole(def, risen) <=> x >= Scale * Cardinality(S)
      BY <1>2, <2>4 DEF Whole
    <3> HIDE DEF S
    <3>3. Complete(def, v) <=> Good(def, v) # {} /\ (def.policy = "ALL" => Good(def, v) = S)
      BY DEF Complete, S
    <3> QED BY <2>2, <2>4, <3>1, <3>2, <3>3
  <2> QED BY <2>3, <2>4
<1>7. verdict = CASE Fails(def, risen) -> "failed"
                  [] ~Fails(def, risen) /\ Whole(def, risen) -> "succeeded"
                  [] OTHER -> IF Late(def, t) THEN "expired" ELSE "active"
  BY DEF Verdict
<1> HIDE DEF verdict, S, F
<1>8. Settled(def, v, t)
  <2>1. CASE Fails(def, risen)
    BY <1>3, <1>5, <1>7, <2>1 DEF Settled, GoalStatuses
  <2>2. CASE ~Fails(def, risen) /\ Whole(def, risen)
    BY <1>3, <1>5, <1>6, <1>7, <2>2 DEF Settled, GoalStatuses
  <2>3. CASE ~Fails(def, risen) /\ ~Whole(def, risen)
    <3>1. verdict = IF Late(def, t) THEN "expired" ELSE "active"
      BY <1>7, <2>3
    <3> QED BY <1>3, <1>5, <1>6, <2>3, <3>1 DEF Settled, GoalStatuses
  <2> QED BY <2>1, <2>2, <2>3
<1>9. Measures(def, v)
  BY <1>1, <1>3 DEF Measures
<1> QED BY <1>3, <1>8, <1>9

\* What has been said in tick t is counted by the goals that have begun.
Heeds(def, old, new, t, events) ==
    \A i \in DOMAIN def.criteria : def.criteria[i].kind = "count" =>
        Cardinality(Since(def, i, new)) =
            IF Begins(def, t) THEN Cardinality(Since(def, i, old)) + Found(def, i, events)
                              ELSE Cardinality(Since(def, i, old))

LEMMA EvaluatedIsSound ==
    ASSUME NEW def, Planned(def), NEW goal, NEW old, NEW new, NEW t \in Nat \ {0}, NEW events,
           GoalSound(def, goal, old, t - 1), Heeds(def, old, new, t, events),
           IsFiniteSet(DOMAIN events), NEW context, context.now = t
    PROVE  GoalSound(def, Evaluated(def, goal, events, context).goal, new, t)
<1> DEFINE waits == \/ goal.status \in Closed
                    \/ goal.status = "pending" /\ def.from # None /\ context.now < def.from
           assessed == Assessed(def, goal, events, context)
           progress == IF Of(def, "success") = {} THEN goal.progress
                       ELSE ProgressOf(def, assessed.parts)
           risen == [assessed EXCEPT !.progress = progress]
           verdict == Verdict(def, risen, context.now)
           v == Evaluated(def, goal, events, context).goal
           n == Len(def.criteria)
<1>1. v = IF waits THEN goal
          ELSE IF def.criteria = <<>> THEN [goal EXCEPT !.status = "active"]
          ELSE [risen EXCEPT !.status = verdict]
  BY DEF Evaluated
<1>2. /\ Measures(def, goal) /\ goal.status \in GoalStatuses
      /\ goal.status = "active" => Begins(def, t - 1)
      /\ def.criteria # <<>> => Settled(def, goal, t - 1)
      /\ Counts(def, goal, old)
  BY DEF GoalSound
<1>3. /\ def.from \in Nat \cup {None} /\ def.by \in Nat \cup {None}
      /\ DOMAIN def.criteria = 1..n /\ n \in Nat
  BY SeqParts DEF Planned
<1>4. /\ Begins(def, t - 1) => Begins(def, t)
      /\ Late(def, t - 1) => Late(def, t)
  BY <1>3 DEF Begins, Late
<1> SUFFICES GoalSound(def, v, new, t)
  OBVIOUS
<1> HIDE DEF v, assessed
<1>5. CASE goal.status \in Closed
  <2>1. v = goal /\ goal.status \notin {"pending", "active"}
    BY <1>1, <1>5 DEF Closed
  <2>2. def.criteria # <<>> => Settled(def, goal, t)
    BY <1>2, <1>4, <1>5, <2>1 DEF Settled
  <2>3. Counts(def, goal, new)
    BY <2>1 DEF Counts
  <2>4. goal.status # "active"
    BY <2>1
  <2> QED BY <1>2, <2>1, <2>2, <2>3, <2>4 DEF GoalSound
<1>6. CASE goal.status = "pending" /\ def.from # None /\ context.now < def.from
  <2>1. v = goal /\ ~Begins(def, t)
    BY <1>1, <1>3, <1>6 DEF Begins
  <2>2. def.criteria # <<>> => Settled(def, goal, t)
    BY <1>6, <2>1 DEF Settled, GoalStatuses
  <2>3. Counts(def, goal, new)
    BY <1>2, <2>1 DEF Counts, Heeds
  <2> QED BY <1>2, <1>6, <2>1, <2>2, <2>3 DEF GoalSound
<1>7. CASE ~waits
  <2>1. goal.status \in {"pending", "active"} /\ Begins(def, t)
    BY <1>2, <1>3, <1>4, <1>7 DEF GoalStatuses, Closed, Begins
  <2>2. CASE def.criteria = <<>>
    <3>1. n = 0 /\ 1..n = {}
      BY <2>2, NothingListed
    <3>2. v = [goal EXCEPT !.status = "active"]
      BY <1>1, <1>7, <2>2
    <3>3. /\ DOMAIN v = GoalFields /\ v.status = "active" /\ v.parts = goal.parts
          /\ v.counts = goal.counts /\ v.matched = goal.matched
      BY <1>2, <3>2 DEF Measures, GoalFields
    <3>4. Measures(def, v)
      BY <1>2, <3>3 DEF Measures
    <3>5. Counts(def, v, new)
      BY <1>3, <3>1 DEF Counts
    <3> QED BY <2>1, <2>2, <3>3, <3>4, <3>5 DEF GoalSound, GoalStatuses
  <2>3. CASE def.criteria # <<>>
    <3>1. /\ Measures(def, assessed) /\ assessed.status = goal.status
          /\ \A j \in 1..n :
                def.criteria[j].kind = "count" /\ j \notin assessed.matched
                => /\ j \notin goal.matched
                   /\ assessed.counts[j] = goal.counts[j] + Found(def, j, events)
      BY <1>2, <1>3, AssessedMeasures DEF Planned, assessed
    <3>2. Of(def, "success") # {} => progress = ProgressOf(def, assessed.parts)
      OBVIOUS
    <3>3. v = [risen EXCEPT !.status = Verdict(def, risen, t)]
      BY <1>1, <1>7, <2>3
    <3> HIDE DEF progress
    <3>4. risen = [assessed EXCEPT !.progress = progress]
      OBVIOUS
    <3> HIDE DEF risen, verdict
    <3>5. /\ Measures(def, v) /\ v.matched = assessed.matched /\ v.counts = assessed.counts
          /\ Settled(def, v, t)
      <4>1. Planned(def) /\ Measures(def, assessed)
        BY <3>1
      <4>2. Measures(def, v) /\ Settled(def, v, t)
        <5>1. Measures(def, v)
          BY <3>2, <3>3, <3>4, <4>1, VerdictSettles, Zenon
        <5>2. Settled(def, v, t)
          BY <3>2, <3>3, <3>4, <4>1, VerdictSettles, Zenon
        <5> QED BY <5>1, <5>2
      <4>3. v.matched = assessed.matched
        BY <3>2, <3>3, <3>4, <4>1, VerdictSettles, SMT
      <4>4. v.counts = assessed.counts
        BY <3>2, <3>3, <3>4, <4>1, VerdictSettles, SMT
      <4> QED BY <4>2, <4>3, <4>4
    <3>6. Counts(def, v, new)
      <4>1. ASSUME NEW i \in DOMAIN def.criteria, def.criteria[i].kind = "count", i \notin v.matched
            PROVE  v.counts[i] = Cardinality(Since(def, i, new))
        <5>1. i \notin goal.matched /\ v.counts[i] = goal.counts[i] + Found(def, i, events)
          BY <1>3, <3>1, <3>5, <4>1
        <5>2. goal.counts[i] = Cardinality(Since(def, i, old))
          BY <1>2, <2>1, <4>1, <5>1 DEF Counts
        <5>3. Cardinality(Since(def, i, new)) = Cardinality(Since(def, i, old)) + Found(def, i, events)
          BY <2>1, <4>1 DEF Heeds
        <5> QED BY <5>1, <5>2, <5>3
      <4> QED BY <4>1 DEF Counts
    <3>7. v.status \in GoalStatuses
      BY <3>5 DEF Settled
    <3> QED BY <2>1, <3>5, <3>6, <3>7 DEF GoalSound
  <2> QED BY <2>2, <2>3
<1> QED BY <1>5, <1>6, <1>7

-----------------------------------------------------------------------------
(* The goals read what was said.                                           *)

LEMMA EveryPlan ==
    ASSUME NEW g \in DOMAIN Plans
    PROVE  Planned(Plans[g]) /\ Plans[g].owner \in Characters
<1> DEFINE p == Plans[g]
           C == p.criteria
<1>1. p \in ToSet(Plans)
  BY DEF ToSet
<1> HIDE DEF p
<1>2. /\ p.owner \in Characters /\ p.policy \in {"ALL", "ANY"}
      /\ p.from \in Nat \cup {None} /\ p.by \in Nat \cup {None}
      /\ C \in Seq(ToSet(C))
      /\ \A c \in ToSet(C) : c.kind = "count" => c.type \in Interactions /\ c.minimum \in Nat \ {0}
  BY <1>1, PlansAssumption
<1> HIDE DEF C
<1>3. ToSet(C) = Range(C) /\ \A i \in DOMAIN C : C[i] \in ToSet(C)
  BY DEF ToSet, Range
<1>4. IsSeq(C)
  BY <1>2, <1>3 DEF IsSeq
<1>5. Countable(p)
  BY <1>2, <1>3 DEF Countable, C
<1> QED BY <1>2, <1>4, <1>5 DEF Planned, C, p

\* What the event of a speech is to a criterion is what the speech is.
LEMMA SpeechMatches ==
    ASSUME NEW owner, NEW c, NEW e, NEW t, NEW a, NEW b,
           e.type = "speech.started", e.agent = a, e.target = b
    PROVE  Matches(owner, c, e) <=> Matches(owner, c, Speech(<<t, a, b>>))
<1> DEFINE s == Speech(<<t, a, b>>)
<1>1. s.type = "speech.started" /\ s.agent = a /\ s.target = b
  BY DEF Speech
<1> HIDE DEF s
<1>2. Matches(owner, c, e) <=> Matches(owner, c, s)
  BY <1>1 DEF Matches
<1> QED BY <1>2 DEF s

\* A tick in which n is the only one of N to match adds one, and adds it once.
LEMMA OneFound ==
    ASSUME NEW N \in Nat, NEW n \in 1..N, NEW P, P \subseteq 1..N, \A j \in P : j = n
    PROVE  Cardinality(P) = IF n \in P THEN 1 ELSE 0
<1>1. CASE n \in P
  <2>1. P = {n}
    BY <1>1
  <2> QED BY <1>1, <2>1, FS_Singleton
<1>2. CASE n \notin P
  <2>1. P = {}
    BY <1>2
  <2> QED BY <1>2, <2>1, FS_EmptySet
<1> QED BY <1>1, <1>2

LEMMA SpeechIsHeeded ==
    ASSUME NEW def, Planned(def), BusSound, tick \in Nat \ {0},
           ToBeRead(bus, cursor["goals"]), Spoken(history \ Fresh, tick - 1)
    PROVE  Heeds(def, history \ Fresh, history, tick,
                 [i \in DOMAIN Unread("goals") |-> bus[Unread("goals")[i]]])
<1> DEFINE k == cursor["goals"]
           N == Len(bus) - k
           read == [i \in DOMAIN Unread("goals") |-> bus[Unread("goals")[i]]]
           old == history \ Fresh
<1>1. /\ N \in Nat /\ k \in 0..Len(bus) /\ Len(bus) \in Nat
      /\ DOMAIN read = 1..N /\ \A j \in 1..N : read[j] = bus[k + j] /\ k + j \in (k + 1)..Len(bus)
  <2>1. "goals" \in DOMAIN cursor /\ k \in 0..Len(bus) /\ Len(bus) \in Nat
    BY SeqParts DEF BusSound
  <2>2. /\ N \in Nat /\ DOMAIN Unread("goals") = 1..N
        /\ \A j \in 1..N : Unread("goals")[j] = k + j /\ Unread("goals")[j] \in 1..Len(bus)
    BY <2>1, UnreadListed
  <2> QED BY <2>1, <2>2
<1> HIDE DEF read
<1>2. SUFFICES ASSUME NEW i \in DOMAIN def.criteria, def.criteria[i].kind = "count"
               PROVE  Cardinality(Since(def, i, history)) =
                        IF Begins(def, tick) THEN Cardinality(Since(def, i, old)) + Found(def, i, read)
                                             ELSE Cardinality(Since(def, i, old))
  BY DEF Heeds, read
<1> DEFINE c == def.criteria[i]
           P == {j \in 1..N : Matches(def.owner, c, read[j])}
           was == Since(def, i, old)
           is == Since(def, i, history)
<1>3. c.type \in Interactions
  BY <1>2 DEF Planned, Countable
<1>4. Found(def, i, read) = Cardinality(P)
  BY <1>1 DEF Found
<1>5. \A j \in P : k + j \in Interacting(bus, k)
  <2> SUFFICES ASSUME NEW j \in P PROVE k + j \in Interacting(bus, k)
    OBVIOUS
  <2>1. read[j].type = c.type /\ read[j] = bus[k + j] /\ k + j \in (k + 1)..Len(bus)
    BY <1>1 DEF Matches
  <2> QED BY <1>3, <2>1 DEF Interacting
<1>6. IsFiniteSet(was) /\ Cardinality(was) \in Nat
  <2>1. IsFiniteSet(old) /\ was \subseteq old
    BY DEF Spoken, Since
  <2> HIDE DEF was, old
  <2> QED BY <2>1, FS_Subset, FS_CardinalityType
<1>7. is = was \cup {x \in Fresh : Begins(def, x[1]) /\ Matches(def.owner, c, Speech(x))}
  <2>1. history = old \cup Fresh
    BY DEF Fresh
  <2> QED BY <2>1 DEF Since
<1>8. CASE Interacting(bus, k) = {} /\ Fresh = {}
  <2>1. P = {}
    BY <1>5, <1>8
  <2>2. Found(def, i, read) = 0 /\ is = was
    BY <1>4, <1>7, <1>8, <2>1, FS_EmptySet
  <2> HIDE DEF was, is
  <2>3. Cardinality(was) + 0 = Cardinality(was)
    BY <1>6
  <2> QED BY <2>2, <2>3 DEF was, is
<1>9. ASSUME NEW n \in (k + 1)..Len(bus), NEW a \in Characters, NEW b \in Characters,
             Interacting(bus, k) = {n}, bus[n].type = "speech.started",
             bus[n].agent = a, bus[n].target = b, Fresh = {<<tick, a, b>>}
      PROVE  Cardinality(is) = IF Begins(def, tick) THEN Cardinality(was) + Found(def, i, read)
                                                    ELSE Cardinality(was)
  <2> DEFINE m == n - k
             x == <<tick, a, b>>
             met == Matches(def.owner, c, Speech(x))
  <2>1. m \in 1..N /\ k + m = n /\ read[m] = bus[n] /\ x[1] = tick
    BY <1>1, <1>9
  <2>2. m \in P <=> met
    BY <1>9, <2>1, SpeechMatches
  <2>3. \A j \in P : j = m
    <3> SUFFICES ASSUME NEW j \in P PROVE j = m
      OBVIOUS
    <3>1. k + j = n /\ j \in Nat /\ k \in Nat
      BY <1>1, <1>5, <1>9
    <3> QED BY <3>1
  <2>4. Found(def, i, read) = IF met THEN 1 ELSE 0
    <3>1. P \subseteq 1..N
      OBVIOUS
    <3> HIDE DEF P, m, met, N
    <3>2. Cardinality(P) = IF m \in P THEN 1 ELSE 0
      BY <1>1, <2>1, <2>3, <3>1, OneFound
    <3> QED BY <1>4, <2>2, <3>2
  <2>5. is = IF Begins(def, tick) /\ met THEN was \cup {x} ELSE was
    BY <1>7, <1>9, <2>1
  <2>6. x \notin was
    <3>1. \A y \in old : y[1] <= tick - 1
      BY DEF Spoken
    <3>2. was \subseteq old
      BY DEF Since
    <3>3. ~(tick <= tick - 1)
      OBVIOUS
    <3> HIDE DEF x, old, was
    <3> QED BY <2>1, <3>1, <3>2, <3>3
  <2> HIDE DEF was, is, x, met, m, P
  <2>7. Cardinality(was \cup {x}) = Cardinality(was) + 1
    BY <1>6, <2>6, FS_AddElement
  <2>8. CASE Begins(def, tick) /\ met
    BY <2>4, <2>5, <2>7, <2>8
  <2>9. CASE Begins(def, tick) /\ ~met
    <3>1. is = was /\ Found(def, i, read) = 0
      BY <2>4, <2>5, <2>9
    <3> QED BY <1>6, <2>9, <3>1
  <2>10. CASE ~Begins(def, tick)
    BY <2>5, <2>10
  <2> QED BY <2>8, <2>9, <2>10
<1> QED BY <1>8, <1>9 DEF ToBeRead

JudgedUpTo(c, i, p) ==
    /\ DOMAIN p = {"goals", "bus"} /\ DOMAIN p.goals = DOMAIN Plans
    /\ \A j \in DOMAIN Plans : /\ j <= i => GoalSound(Plans[j], p.goals[j], history, tick)
                               /\ j > i => p.goals[j] = goals[j]

Judging == INSTANCE FoldFacts WITH Op <- EvaluationOf, P <- JudgedUpTo

LEMMA GoalsAreJudged ==
    ASSUME MemoryInvariant, GoalInvariant, Evaluate
    PROVE  GoalsSound(goals', history, tick)
<1> DEFINE base == [goals |-> goals, bus |-> bus]
           order == [g \in DOMAIN Plans |-> g]
           done == FoldLeft(EvaluateGoal, base, order)
           N == Len(Plans)
           read == [k \in DOMAIN Unread("goals") |-> bus[Unread("goals")[k]]]
           old == history \ Fresh
<1>1. N \in Nat /\ DOMAIN Plans = 1..N /\ DOMAIN order = 1..N /\ \A i \in 1..N : order[i] = i
  BY PlansAssumption
<1>2. /\ tick \in Nat \ {0} /\ GoalsSound(goals, old, tick - 1) /\ ToBeRead(bus, cursor["goals"])
      /\ BusSound
  BY DEF GoalInvariant, Due, Evaluate, MemoryInvariant
<1>3. JudgedUpTo(0, 0, base)
  <2>1. \A j \in 1..N : ~(j <= 0)
    OBVIOUS
  <2> QED BY <1>1, <1>2, <2>1 DEF JudgedUpTo, GoalsSound
<1>4. IsFiniteSet(DOMAIN read)
  <2>1. DOMAIN read = 1..(Len(bus) - cursor["goals"]) /\ Len(bus) - cursor["goals"] \in Int /\ 1 \in Int
    BY <1>2, SeqParts DEF BusSound, Unread
  <2> QED BY <2>1, FS_Interval, Zenon
<1>5. ASSUME NEW i \in 1..N, NEW p, JudgedUpTo(0, i - 1, p)
      PROVE  JudgedUpTo(0, i, EvaluationOf(0, p, order[i]))
  <2> DEFINE def == Plans[i]
             context == [now |-> tick, place |-> places[def.owner]]
             goal == p.goals[i]
             done1 == Evaluated(def, goal, read, context)
             v == EvaluateGoal(p, i)
  <2>1. i \in DOMAIN Plans /\ ~(i <= i - 1) /\ i > i - 1 /\ Planned(def)
    BY <1>1, EveryPlan
  <2>2. goal = goals[i] /\ GoalSound(def, goal, old, tick - 1)
    BY <1>2, <2>1, <1>5 DEF JudgedUpTo, GoalsSound
  <2>3. Heeds(def, old, history, tick, read)
    BY <1>2, <2>1, SpeechIsHeeded DEF GoalsSound
  <2>4. context.now = tick
    OBVIOUS
  <2>5. DOMAIN v = {"goals", "bus"} /\ v.goals = [p.goals EXCEPT ![i] = done1.goal]
    BY DEF EvaluateGoal
  <2> HIDE DEF read, context, def, goal, v, old
  <2>6. GoalSound(def, Evaluated(def, goal, read, context).goal, history, tick)
    BY <1>2, <1>4, <2>1, <2>2, <2>3, <2>4, EvaluatedIsSound
  <2>7. GoalSound(def, done1.goal, history, tick)
    BY <2>6
  <2> HIDE DEF done1
  <2>8. DOMAIN p.goals = DOMAIN Plans
    BY <1>5 DEF JudgedUpTo
  <2>9. v.goals[i] = done1.goal /\ DOMAIN v.goals = DOMAIN Plans
        /\ \A j \in DOMAIN Plans : j # i => v.goals[j] = p.goals[j]
    BY <2>1, <2>5, <2>8
  <2>10. ASSUME NEW j \in DOMAIN Plans
         PROVE  /\ j <= i => GoalSound(Plans[j], v.goals[j], history, tick)
                /\ j > i => v.goals[j] = goals[j]
    <3>1. CASE j = i
      BY <1>1, <2>7, <2>9, <3>1 DEF def
    <3>2. CASE j # i
      <4>1. (j <= i => j <= i - 1) /\ (j > i => j > i - 1)
        BY <1>1, <3>2
      <4>2. /\ j <= i - 1 => GoalSound(Plans[j], p.goals[j], history, tick)
            /\ j > i - 1 => p.goals[j] = goals[j]
        BY <1>5 DEF JudgedUpTo
      <4> QED BY <2>9, <3>2, <4>1, <4>2
    <3> QED BY <3>1, <3>2
  <2>11. JudgedUpTo(0, i, v)
    BY <2>5, <2>9, <2>10 DEF JudgedUpTo
  <2> QED BY <1>1, <2>11 DEF EvaluationOf, v
<1>6. JudgedUpTo(0, N, Judging!Folded(0, base, order))
  BY <1>1, <1>3, <1>5, Judging!Keeps, LeastOf
<1>7. Judging!Folded(0, base, order) = done
  BY DEF EvaluationOf, FoldLeft, MapThenFoldSet, Max,
         Judging!Folded, Judging!MapThenFoldSet, Judging!Greatest
<1>8. goals' = done.goals
  BY DEF Evaluate
<1> HIDE DEF done, base, order
<1>9. Spoken(history, tick)
  <2>1. /\ Spoken(old, tick - 1) /\ history = old \cup Fresh /\ \A x \in Fresh : x[1] = tick
    BY <1>2 DEF GoalsSound, Fresh
  <2>2. Fresh \in SUBSET (Nat \X Characters \X Characters) /\ IsFiniteSet(Fresh)
    <3>1. CASE Fresh = {}
      BY <3>1, FS_EmptySet
    <3>2. CASE \E a, c \in Characters : Fresh = {<<tick, a, c>>}
      <4>1. PICK a \in Characters, c \in Characters : Fresh = {<<tick, a, c>>}
        BY <3>2
      <4>2. <<tick, a, c>> \in Nat \X Characters \X Characters
        BY <1>2
      <4>3. IsFiniteSet({<<tick, a, c>>})
        BY FS_Singleton
      <4> HIDE DEF Fresh
      <4> QED BY <4>1, <4>2, <4>3
    <3> QED BY <1>2, <3>1, <3>2 DEF ToBeRead
  <2> HIDE DEF old
  <2>3. IsFiniteSet(history)
    BY <2>1, <2>2, FS_Union DEF Spoken
  <2> QED BY <1>2, <2>1, <2>2, <2>3 DEF Spoken
<1>10. \A j \in DOMAIN Plans : j <= N
  BY <1>1
<1> QED BY <1>6, <1>7, <1>8, <1>9, <1>10 DEF JudgedUpTo, GoalsSound

-----------------------------------------------------------------------------
(* The steps, and the goals.                                               *)

\* What is no interaction leaves what is to be read.
LEMMA NoInteraction ==
    ASSUME NEW new, NEW old, NEW t, NEW types, Grown(new, old, t, types),
           types \cap Interactions = {}, NEW k \in 0..Len(old)
    PROVE  Interacting(new, k) = Interacting(old, k) /\ (ToBeRead(old, k) => ToBeRead(new, k))
<1>1. /\ Len(old) \in Nat /\ Len(new) \in Nat /\ Len(old) <= Len(new) /\ k \in Nat /\ k <= Len(old)
      /\ \A i \in 1..Len(old) : new[i] = old[i]
      /\ \A i \in (Len(old) + 1)..Len(new) : new[i].type \notin Interactions
  BY SeqParts DEF Grown
<1>2. ASSUME NEW n \in (k + 1)..Len(old)
      PROVE  n \in (k + 1)..Len(new) /\ new[n] = old[n]
  BY <1>1
<1>3. ASSUME NEW n \in (k + 1)..Len(new), new[n].type \in Interactions
      PROVE  n \in (k + 1)..Len(old)
  BY <1>1, <1>3
<1>4. Interacting(new, k) = Interacting(old, k)
  BY <1>2, <1>3 DEF Interacting
<1>5. ASSUME NEW n \in (k + 1)..Len(old), NEW a \in Characters, NEW c \in Characters,
             Interacting(old, k) = {n}, old[n].type = "speech.started",
             old[n].agent = a, old[n].target = c, Fresh = {<<tick, a, c>>}
      PROVE  ToBeRead(new, k)
  BY <1>2, <1>4, <1>5 DEF ToBeRead
<1> QED BY <1>4, <1>5 DEF ToBeRead

LEMMA QuietKeeps ==
    ASSUME BusSound, GoalInvariant, NEW types, Grown(bus', bus, tick, types),
           types \cap Interactions = {}, UNCHANGED <<goals, history, tick, saved>>,
           cursor'["goals"] = cursor["goals"], Due' <=> Due
    PROVE  GoalInvariant'
<1> DEFINE k == cursor["goals"]
<1>1. k \in 0..Len(bus)
  BY DEF BusSound
<1> HIDE DEF k
<1>2. Interacting(bus', k) = Interacting(bus, k) /\ (ToBeRead(bus, k) => ToBeRead(bus', k))
  BY <1>1, NoInteraction
<1>3. Due => /\ tick \in Nat \ {0} /\ GoalsSound(goals, history \ Fresh, tick - 1)
             /\ ToBeRead(bus', k)
  BY <1>2 DEF GoalInvariant, k
<1>4. Fresh' = Fresh
  BY DEF Fresh
<1>5. Due' => /\ tick' \in Nat \ {0} /\ GoalsSound(goals', history' \ Fresh', tick' - 1)
  BY <1>3, <1>4
<1>6. Due' => ToBeRead(bus, cursor["goals"])'
  BY <1>3, <1>4 DEF ToBeRead, k
<1>7. ~Due' => GoalsSound(goals', history', tick') /\ Interacting(bus', cursor'["goals"]) = {}
  BY <1>2 DEF GoalInvariant, k
<1>8. saved' # None => GoalsSound(saved'.goals, saved'.history, saved'.tick)
  BY DEF GoalInvariant
<1> QED BY <1>5, <1>6, <1>7, <1>8 DEF GoalInvariant

LEMMA TickMakesDue ==
    ASSUME BusSound, GoalInvariant, NEW event, Tick(event),
           history' = history, event # None => event.type \notin Interactions
    PROVE  GoalInvariant'
<1> DEFINE k == cursor["goals"]
           e == [event EXCEPT !.tick = tick']
<1>1. /\ phase = "world" /\ phase' = "perceive" /\ tick' = tick + 1
      /\ UNCHANGED <<goals, cursor, saved>>
      /\ bus' = IF event = None THEN bus ELSE Append(bus, e)
  BY DEF Tick, readers, restarts
<1>2. GoalsSound(goals, history, tick) /\ Interacting(bus, k) = {} /\ tick \in Nat
  BY <1>1 DEF GoalInvariant, Due, GoalsSound, Spoken
<1>3. Fresh' = {} /\ history' \ Fresh' = history
  <2>1. \A x \in history : x[1] \in Nat /\ x[1] <= tick
    BY <1>2 DEF GoalsSound, Spoken
  <2>2. \A x \in history : x[1] # tick'
    BY <1>1, <1>2, <2>1
  <2>3. Fresh' = {x \in history : x[1] = tick'}
    BY DEF Fresh
  <2> QED BY <2>2, <2>3
<1>4. Interacting(bus', k) = {}
  <2>1. CASE event = None
    BY <1>1, <1>2, <2>1
  <2>2. CASE event # None
    <3>1. IsSeq(bus) /\ k \in 0..Len(bus)
      BY DEF BusSound
    <3>2. e.type \notin Interactions
      <4>1. e.type = event.type
        OBVIOUS
      <4> QED BY <2>2, <4>1
    <3> HIDE DEF e, k
    <3>3. /\ Len(bus') = Len(bus) + 1 /\ Len(bus) \in Nat
          /\ \A i \in 1..Len(bus) : bus'[i] = bus[i]
          /\ bus'[Len(bus) + 1] = e
      BY <1>1, <2>2, <3>1, Appended, SeqParts
    <3> QED BY <1>2, <3>1, <3>2, <3>3 DEF Interacting
  <2> QED BY <2>1, <2>2
<1>5. ToBeRead(bus, cursor["goals"])'
  BY <1>1, <1>3, <1>4 DEF ToBeRead
<1>6. tick' \in Nat \ {0} /\ tick' - 1 = tick
  BY <1>1, <1>2
<1>7. GoalsSound(goals', history' \ Fresh', tick' - 1)
  BY <1>1, <1>2, <1>3, <1>6
<1>8. Due' /\ (saved' # None => GoalsSound(saved'.goals, saved'.history, saved'.tick))
  BY <1>1 DEF GoalInvariant, Due
<1> QED BY <1>5, <1>6, <1>7, <1>8 DEF GoalInvariant

LEMMA SpeakIsDue ==
    ASSUME BusSound, GoalInvariant, NEW a \in Characters, NEW b \in Characters, Speak(a, b)
    PROVE  GoalInvariant'
<1> DEFINE k == cursor["goals"]
           e == [Happens(a, "speech.started", b) EXCEPT !.tick = tick']
           n == Len(bus) + 1
           x == <<tick', a, b>>
<1>1. /\ phase = "world" /\ phase' = "perceive" /\ tick' = tick + 1
      /\ UNCHANGED <<goals, cursor, saved>>
      /\ bus' = IF Happens(a, "speech.started", b) = None THEN bus ELSE Append(bus, e)
      /\ history' = history \cup {x}
  BY DEF Speak, Tick, readers, restarts
<1>2. GoalsSound(goals, history, tick) /\ Interacting(bus, k) = {} /\ tick \in Nat
  BY <1>1 DEF GoalInvariant, Due, GoalsSound, Spoken
<1>3. Fresh' = {x} /\ history' \ Fresh' = history
  <2>1. \A y \in history : y[1] \in Nat /\ y[1] <= tick
    BY <1>2 DEF GoalsSound, Spoken
  <2>2. (\A y \in history : y[1] # tick') /\ x[1] = tick'
    BY <1>1, <1>2, <2>1
  <2>3. Fresh' = {y \in history' : y[1] = tick'}
    BY DEF Fresh
  <2> HIDE DEF x
  <2> QED BY <1>1, <2>2, <2>3
<1>4. /\ e.type = "speech.started" /\ e.agent = a /\ e.target = b
      /\ Happens(a, "speech.started", b) # None
  <2>1. tick \in Nat
    BY DEF BusSound
  <2>2. Happens(a, "speech.started", b)
        \in [type : {"speech.started"}, agent : Characters, target : Characters,
            cause : {0}, about : {None}, tick : Nat]
    BY <2>1 DEF Happens
  <2>3. Happens(a, "speech.started", b) # None
    BY <2>2, NoneAssumption
  <2>4. e.type = "speech.started" /\ e.agent = a /\ e.target = b
    BY DEF Happens
  <2> QED BY <2>3, <2>4
<1>5. IsSeq(bus) /\ k \in 0..Len(bus) /\ Len(bus) \in Nat
  BY SeqParts DEF BusSound
<1> HIDE DEF e, x, k
<1>6. /\ Len(bus') = n /\ \A i \in 1..Len(bus) : bus'[i] = bus[i]
      /\ bus'[n] = e
  BY <1>1, <1>4, <1>5, Appended
<1>7. Interacting(bus', k) = {n} /\ n \in (k + 1)..Len(bus')
  BY <1>2, <1>4, <1>5, <1>6 DEF Interacting, Interactions
<1>8. ToBeRead(bus, cursor["goals"])'
  BY <1>1, <1>3, <1>4, <1>6, <1>7 DEF ToBeRead, x, k
<1>9. tick' \in Nat \ {0} /\ tick' - 1 = tick
  BY <1>1, <1>2
<1>10. GoalsSound(goals', history' \ Fresh', tick' - 1)
  BY <1>1, <1>2, <1>3, <1>9
<1>11. Due' /\ (saved' # None => GoalsSound(saved'.goals, saved'.history, saved'.tick))
  BY <1>1 DEF GoalInvariant, Due
<1> QED BY <1>8, <1>9, <1>10, <1>11 DEF GoalInvariant

LEMMA HappeningIsDue ==
    ASSUME BusSound, GoalInvariant, Happening
    PROVE  GoalInvariant'
<1>1. CASE Nothing
  BY <1>1, TickMakesDue DEF Nothing, world
<1>2. ASSUME NEW a \in Characters, NEW b \in Characters, Speak(a, b) PROVE GoalInvariant'
  BY <1>2, SpeakIsDue
<1>3. ASSUME NEW a \in Characters,
             NEW type \in {"action.completed", "activity.changed", "system1.activated", "system1.resolved"}
      PROVE  Happens(a, type, None).type \notin Interactions
  BY DEF Happens, Interactions
<1>4. ASSUME NEW a \in Characters, Finish(a) \/ ChangeActivity(a) PROVE GoalInvariant'
  BY <1>3, <1>4, TickMakesDue DEF Finish, ChangeActivity, world
<1>5. ASSUME NEW a \in Characters, Walk(a) PROVE GoalInvariant'
  BY <1>5, TickMakesDue DEF Walk
<1>6. ASSUME NEW a \in Characters, Alarm(a) \/ Calm(a) PROVE GoalInvariant'
  BY <1>3, <1>6, TickMakesDue DEF Alarm, Calm
<1> QED BY <1>1, <1>2, <1>4, <1>5, <1>6 DEF Happening

LEMMA EvaluateSettles ==
    ASSUME MemoryInvariant, GoalInvariant, Evaluate
    PROVE  GoalInvariant'
<1>1. /\ phase' = "memorise" /\ cursor' = [cursor EXCEPT !["goals"] = Len(bus)]
      /\ UNCHANGED <<tick, history, saved>>
  BY DEF Evaluate, world, restarts
<1>2. GoalsSound(goals', history', tick')
  BY <1>1, GoalsAreJudged
<1>3. BusSound /\ Grown(bus', bus, tick, GoalEvents)
  BY EvaluateKeeps DEF MemoryInvariant
<1>4. cursor'["goals"] = Len(bus) /\ Len(bus) \in Nat
  BY <1>1, <1>3, SeqParts DEF BusSound
<1>5. Interacting(bus', Len(bus)) = {}
  BY <1>3 DEF Grown, Interacting, Interactions, GoalEvents
<1>6. ~Due' /\ (saved' # None => GoalsSound(saved'.goals, saved'.history, saved'.tick))
  BY <1>1 DEF GoalInvariant, Due
<1> QED BY <1>2, <1>4, <1>5, <1>6 DEF GoalInvariant

LEMMA SaveKeepsGoals ==
    ASSUME GoalInvariant, Save
    PROVE  GoalInvariant'
<1>1. /\ phase = "world" /\ UNCHANGED <<bus, cursor, goals, tick, phase, history>>
      /\ saved'.goals = goals /\ saved'.history = history /\ saved'.tick = tick
  BY DEF Save, Checkpoint, readers, world
<1>2. GoalsSound(goals, history, tick) /\ Interacting(bus, cursor["goals"]) = {}
  BY <1>1 DEF GoalInvariant, Due
<1>3. /\ GoalsSound(goals', history', tick') /\ Interacting(bus', cursor'["goals"]) = {} /\ ~Due'
      /\ GoalsSound(saved'.goals, saved'.history, saved'.tick)
  BY <1>1, <1>2 DEF Due
<1> QED BY <1>3 DEF GoalInvariant

LEMMA BranchKeepsGoals ==
    ASSUME BusSound, GoalInvariant, Branch
    PROVE  GoalInvariant'
<1>1. /\ saved # None /\ bus' = <<>> /\ goals' = saved.goals /\ tick' = saved.tick
      /\ history' = saved.history /\ phase' = "world" /\ saved' = None
  BY DEF Branch
<1>2. GoalsSound(goals', history', tick') /\ ~Due'
  BY <1>1 DEF GoalInvariant, Due
<1>3. cursor'["goals"] = 0
  BY DEF Branch, BusSound
<1>4. Interacting(bus', cursor'["goals"]) = {}
  BY <1>1, <1>3 DEF Interacting
<1> QED BY <1>1, <1>2, <1>4 DEF GoalInvariant

LEMMA GoalsBegin ==
    ASSUME Init
    PROVE  GoalInvariant
<1>1. /\ bus = <<>> /\ cursor["goals"] = 0 /\ tick = 0 /\ phase = "world" /\ saved = None
      /\ history = {} /\ goals = [g \in DOMAIN Plans |-> NewGoal(Plans[g].criteria)]
  BY DEF Init
<1>2. Scale \in Nat \ {0}
  BY ScaleAssumption
<1>3. ASSUME NEW def
      PROVE  GoalSound(def, NewGoal(def.criteria), {}, 0)
  <2> DEFINE goal == NewGoal(def.criteria)
  <2>1. /\ DOMAIN goal = GoalFields /\ goal.status = "pending" /\ goal.matched = {}
        /\ goal.parts = [i \in DOMAIN def.criteria |-> 0]
        /\ goal.counts = [i \in DOMAIN def.criteria |-> 0]
    BY DEF NewGoal, GoalFields
  <2> HIDE DEF goal
  <2>2. Measures(def, goal)
    BY <1>2, <2>1 DEF Measures
  <2>3. Settled(def, goal, 0)
    BY <2>1 DEF Settled, GoalStatuses
  <2>4. Counts(def, goal, {})
    <3>1. ASSUME NEW i \in DOMAIN def.criteria
          PROVE  goal.counts[i] = Cardinality(Since(def, i, {}))
      <4>1. Since(def, i, {}) = {} /\ goal.counts[i] = 0
        BY <2>1 DEF Since
      <4> QED BY <4>1, FS_EmptySet
    <3> QED BY <3>1 DEF Counts
  <2>5. goal.status \in GoalStatuses /\ goal.status # "active"
    BY <2>1 DEF GoalStatuses
  <2> QED BY <2>2, <2>3, <2>4, <2>5 DEF GoalSound, goal
<1>4. GoalsSound(goals, history, tick)
  <2>1. Spoken({}, 0)
    BY FS_EmptySet DEF Spoken
  <2>2. \A g \in DOMAIN Plans : goals[g] = NewGoal(Plans[g].criteria)
    BY <1>1
  <2> QED BY <1>1, <1>3, <2>1, <2>2 DEF GoalsSound
<1>5. Interacting(bus, cursor["goals"]) = {}
  BY <1>1 DEF Interacting
<1> QED BY <1>1, <1>4, <1>5 DEF GoalInvariant, Due

LEMMA StepKeepsGoals ==
    ASSUME ReadersInvariant, ~continued, GoalInvariant, [Next]_vars
    PROVE  continued' \/ GoalInvariant'
<1>1. MemoryInvariant /\ SightInvariant /\ BusSound
  BY DEF ReadersInvariant, MemoryInvariant, BusInvariant
<1>2. CASE Happening
  BY <1>1, <1>2, HappeningIsDue
<1>3. CASE Perceive
  <2>1. Grown(bus', bus, tick, Perceptions) /\ Perceptions \cap Interactions = {}
    BY <1>1, <1>3, PerceiveClears DEF Clear, Perceiving, Perceptions, Interactions
  <2>2. UNCHANGED <<goals, history, tick, saved>> /\ cursor'["goals"] = cursor["goals"] /\ (Due' <=> Due)
    BY <1>1, <1>3 DEF Perceive, world, restarts, Due, BusSound
  <2> QED BY <1>1, <2>1, <2>2, QuietKeeps
<1>4. CASE Evaluate
  BY <1>1, <1>4, EvaluateSettles
<1>5. CASE Memorise
  <2>1. Grown(bus', bus, tick, Asking) /\ Asking \cap Interactions = {}
    BY <1>1, <1>5, MemoriseKeeps DEF Asking, Interactions
  <2>2. UNCHANGED <<goals, history, tick, saved>> /\ cursor'["goals"] = cursor["goals"] /\ (Due' <=> Due)
    BY <1>1, <1>5 DEF Memorise, world, restarts, Due, BusSound
  <2> QED BY <1>1, <2>1, <2>2, QuietKeeps
<1>6. ASSUME NEW asked, Think(asked) PROVE GoalInvariant'
  <2>1. UNCHANGED <<bus, goals, history, tick, saved, cursor>> /\ (Due' <=> Due)
    BY <1>6 DEF Think, world, restarts, Due
  <2>2. Grown(bus', bus, tick, {}) /\ {} \cap Interactions = {}
    BY <1>1, <2>1, NotGrown DEF BusSound
  <2> QED BY <1>1, <2>1, <2>2, QuietKeeps
<1>7. ASSUME NEW fails \in BOOLEAN, Drain(fails) PROVE GoalInvariant'
  <2>1. Grown(bus', bus, tick, Settlements) /\ Settlements \cap Interactions = {}
    BY <1>1, <1>7, DrainKeeps DEF Settlements, Interactions
  <2>2. UNCHANGED <<goals, history, tick, saved, cursor>> /\ (Due' <=> Due)
    BY <1>7 DEF Drain, world, restarts, Due
  <2> QED BY <1>1, <2>1, <2>2, QuietKeeps
<1>8. CASE Finalise
  <2>1. Grown(bus', bus, tick, Settlements) /\ Settlements \cap Interactions = {}
    BY <1>1, <1>8, FinaliseKeeps DEF Settlements, Interactions
  <2>2. UNCHANGED <<goals, history, tick, saved, cursor>> /\ (Due' <=> Due)
    BY <1>8 DEF Finalise, world, restarts, Due
  <2> QED BY <1>1, <2>1, <2>2, QuietKeeps
<1>9. CASE Save
  BY <1>9, SaveKeepsGoals
<1>10. CASE Branch
  BY <1>1, <1>10, BranchKeepsGoals
<1>11. CASE UNCHANGED vars
  <2>1. UNCHANGED <<bus, goals, history, tick, saved, cursor>> /\ (Due' <=> Due)
    BY <1>11 DEF vars, Due
  <2>2. Grown(bus', bus, tick, {}) /\ {} \cap Interactions = {}
    BY <1>1, <2>1, NotGrown DEF BusSound
  <2> QED BY <1>1, <2>1, <2>2, QuietKeeps
<1>12. CASE Continue
  BY <1>12 DEF Continue
<1> QED BY <1>2, <1>3, <1>4, <1>5, <1>6, <1>7, <1>8, <1>9, <1>10, <1>11, <1>12 DEF Next

\* Continued stays continued.
LEMMA ContinuedForGood ==
    ASSUME continued, [Next]_vars
    PROVE  continued'
BY DEF Next, Happening, Nothing, Speak, Finish, ChangeActivity, Walk, Alarm, Calm, Tick,
       Perceive, Evaluate, Memorise, Think, Drain, Finalise, Save, Branch, Continue, restarts, vars

\* Until a run is continued with its events,
\* what a goal is follows from what was said: between the evaluations nothing is left unread, and
\* in a tick that is being read one speech at most is still to be counted, by each goal that has
\* begun (goals.py, GoalSystem).
THEOREM GoalsHold == Spec => [](continued \/ GoalInvariant)
<1>1. Init => continued \/ GoalInvariant
  BY GoalsBegin
<1>2. ReadersInvariant /\ (continued \/ GoalInvariant) /\ [Next]_vars
        => (continued \/ GoalInvariant)'
  BY StepKeepsGoals, ContinuedForGood
<1> QED BY <1>1, <1>2, ReadersHold, PTL DEF Spec

LEMMA SoundGoalsCount ==
    ASSUME GoalInvariant
    PROVE  CountsAreReal
<1> SUFFICES ASSUME NEW g \in DOMAIN Plans, NEW i \in DOMAIN Plans[g].criteria, ~Due,
                    Plans[g].criteria[i].kind = "count",
                    goals[g].status \in {"pending", "active"}, i \notin goals[g].matched
             PROVE  LET def == Plans[g]
                        since == {x \in history :
                                    /\ x[1] >= (IF def.from = None THEN 0 ELSE def.from)
                                    /\ Matches(def.owner, def.criteria[i],
                                               [type |-> "speech.started", agent |-> x[2], target |-> x[3]])}
                    IN goals[g].counts[i] = Cardinality(since)
  BY DEF CountsAreReal, Due
<1>1. GoalSound(Plans[g], goals[g], history, tick) /\ Spoken(history, tick)
  BY DEF GoalInvariant, GoalsSound
<1>2. goals[g].counts[i] = Cardinality(Since(Plans[g], i, history))
  BY <1>1 DEF GoalSound, Counts
<1>3. ASSUME NEW x \in history
      PROVE  Begins(Plans[g], x[1]) <=> x[1] >= (IF Plans[g].from = None THEN 0 ELSE Plans[g].from)
  <2>1. x[1] \in Nat
    BY <1>1 DEF Spoken
  <2> QED BY <2>1 DEF Begins
<1> QED BY <1>2, <1>3 DEF Since, Speech

LEMMA SoundGoalsSettle ==
    ASSUME GoalInvariant
    PROVE  GoalsSettled
<1> SUFFICES ASSUME NEW g \in DOMAIN Plans, ~Due, Plans[g].criteria # <<>>
             PROVE  LET def == Plans[g]
                        goal == goals[g]
                        good == Of(def, "success") \cap goal.matched
                        bad == Of(def, "failure") \cap goal.matched
                        whole == good # {} /\ (def.policy = "ALL" => good = Of(def, "success"))
                        late == def.by # None /\ tick >= def.by
                    IN CASE goal.status = "pending" ->
                              tick = 0 \/ (def.from # None /\ tick < def.from)
                         [] goal.status = "active" -> bad = {} /\ ~whole /\ ~late
                         [] goal.status = "succeeded" -> bad = {} /\ whole
                         [] goal.status = "failed" -> bad # {}
                         [] goal.status = "expired" -> bad = {} /\ ~whole /\ late
  BY DEF GoalsSettled, Due
<1> DEFINE def == Plans[g]
           goal == goals[g]
<1>1. Settled(def, goal, tick) /\ tick \in Nat /\ def.from \in Nat \cup {None}
  BY EveryPlan DEF GoalInvariant, GoalsSound, GoalSound, Spoken, Planned
<1> HIDE DEF def, goal
<1>2. goal.status = "pending" => tick = 0 \/ (def.from # None /\ tick < def.from)
  BY <1>1 DEF Settled, Begins
<1>3. /\ goal.status \in GoalStatuses
      /\ goal.status = "active" => Bad(def, goal) = {} /\ ~Complete(def, goal) /\ ~Late(def, tick)
      /\ goal.status = "succeeded" => Bad(def, goal) = {} /\ Complete(def, goal)
      /\ goal.status = "failed" => Bad(def, goal) # {}
      /\ goal.status = "expired" => Bad(def, goal) = {} /\ ~Complete(def, goal) /\ Late(def, tick)
  BY <1>1 DEF Settled
<1>4. /\ Bad(def, goal) = Of(def, "failure") \cap goal.matched
      /\ Good(def, goal) = Of(def, "success") \cap goal.matched
      /\ Complete(def, goal) <=> /\ Good(def, goal) # {}
                                 /\ def.policy = "ALL" => Good(def, goal) = Of(def, "success")
      /\ Late(def, tick) <=> def.by # None /\ tick >= def.by
  BY DEF Bad, Good, Complete, Late
<1>5. goal.status \in {"pending", "active", "succeeded", "failed", "expired"}
  BY <1>3 DEF GoalStatuses
<1>6. CASE goal.status = "pending"
  BY <1>2, <1>6 DEF def, goal
<1>7. CASE goal.status = "active"
  BY <1>3, <1>4, <1>7 DEF def, goal
<1>8. CASE goal.status = "succeeded"
  BY <1>3, <1>4, <1>8 DEF def, goal
<1>9. CASE goal.status = "failed"
  BY <1>3, <1>4, <1>9 DEF def, goal
<1>10. CASE goal.status = "expired"
  BY <1>3, <1>4, <1>10 DEF def, goal
<1> QED BY <1>5, <1>6, <1>7, <1>8, <1>9, <1>10, Zenon DEF goal

\* Until a run is continued with its events, a goal has counted the interactions that took place
\* since it became active, none left out and none counted twice, in its branches too, and its
\* status is what its criteria and its deadline give it (goals.py, _evaluate_goal and
\* _criterion_progress).
THEOREM GoalsCountReal == Spec => [](continued \/ GoalsAreReal)
<1>1. continued \/ GoalInvariant => continued \/ GoalsAreReal
  BY SoundGoalsCount, SoundGoalsSettle DEF GoalsAreReal
<1> QED BY <1>1, GoalsHold, PTL
=============================================================================
