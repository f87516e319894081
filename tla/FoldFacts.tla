------------------------------ MODULE FoldFacts ------------------------------
(***************************************************************************)
(* Induction over a fold.  Folded(c, base, seq) folds Op over a sequence;   *)
(* c is what Op knows besides the result so far and the next element.  What *)
(* P says of the first i elements, it says of all of them in the end.       *)
(*                                                                         *)
(* A module that folds a step instantiates this one with the step for Op    *)
(* and its invariant for P, and cites Keeps: the provers instantiate no      *)
(* operator themselves.                                                     *)
(***************************************************************************)
EXTENDS Integers, Sequences, Folds, TLAPS

CONSTANTS Op(_,_,_), P(_,_,_)

Greatest(s) == CHOOSE x \in s : \A y \in s : x >= y

\* FoldLeft, and FoldSet, of Op.
Folded(c, base, seq) ==
    MapThenFoldSet(LAMBDA x, p : Op(c, p, x), base, LAMBDA i : seq[i], Greatest, DOMAIN seq)

Gathered(c, base, S) ==
    MapThenFoldSet(LAMBDA x, p : Op(c, p, x), base, LAMBDA x : x, LAMBDA s : CHOOSE x \in s : TRUE, S)

-----------------------------------------------------------------------------
(* Numbers.  That every set of numbers has a least one is a premise here: it *)
(* is proved where this module is instantiated, from WellFoundedInduction,   *)
(* which each instance would otherwise bring along.                         *)

\* What holds of 0, and of the successor of each number it holds of, holds of all.
LEMMA NatInduct ==
    ASSUME NEW S, 0 \in S, \A i \in Nat : i \in S => i + 1 \in S,
           \A N \in SUBSET Nat : N # {} => \E lo \in N : \A up \in N : lo <= up
    PROVE Nat \subseteq S
<1> SUFFICES ASSUME Nat \ S # {} PROVE FALSE
  OBVIOUS
<1>1. PICK m \in Nat \ S : \A n \in Nat \ S : m <= n
  OBVIOUS
<1>2. m # 0
  OBVIOUS
<1>3. m - 1 \in Nat /\ m - 1 \in S
  BY <1>1, <1>2
<1> QED BY <1>3

\* The greatest number of a set.
LEMMA MaxOf ==
    ASSUME NEW k \in Nat, NEW s \in SUBSET (1..k), k \in s
    PROVE Greatest(s) = k
<1>1. \A y \in s : k >= y
  OBVIOUS
<1>2. \A x \in s : (\A y \in s : x >= y) => x = k
  OBVIOUS
<1> QED BY <1>1, <1>2 DEF Greatest

-----------------------------------------------------------------------------
(* Folds.                                                                  *)

\* The results of a fold, each from the one before.
IsRun(run, c, base, n, seq) ==
    /\ run[0] = base /\ \A i \in 1..n : run[i] = Op(c, run[i-1], seq[i])
    /\ Folded(c, base, seq) = run[n]

\* A fold goes through a run.
\* The function that FoldLeft recurs on exists for the numbers up to k, for all k.
LEMMA Runs ==
    ASSUME NEW c, NEW base, NEW n \in Nat, NEW seq, DOMAIN seq = 1..n,
           \A N \in SUBSET Nat : N # {} => \E lo \in N : \A up \in N : lo <= up
    PROVE  \E run : IsRun(run, c, base, n, seq)
<1> DEFINE Rec(it, k) == it = [s \in SUBSET (1..k) |-> IF s = {} THEN base ELSE Op(c, it[s \ {Greatest(s)}], seq[Greatest(s)])]
<1>1. ASSUME NEW k \in Nat, NEW it, Rec(it, k)
      PROVE  \E new : Rec(new, k + 1)
  <2> DEFINE new == [s \in SUBSET (1..(k+1)) |-> IF k + 1 \in s THEN Op(c, it[s \ {k + 1}], seq[k + 1]) ELSE it[s]]
  <2>1. ASSUME NEW s \in SUBSET (1..(k+1)) 
        PROVE new[s] = IF s = {} THEN base ELSE Op(c, new[s \ {Greatest(s)}], seq[Greatest(s)])
    <3>1. CASE k + 1 \in s
      <4>1. Greatest(s) = k + 1
        BY <3>1, MaxOf
      <4>2. s \ {k + 1} \in SUBSET (1..(k+1)) /\ new[s \ {k+1}] = it[s \ {k+1}]
        OBVIOUS
      <4> QED BY <3>1, <4>1, <4>2
    <3>2. CASE k + 1 \notin s
      <4>1. s \in SUBSET (1..k)
        BY <3>2
      <4>2. CASE s = {}
        BY <4>2, <4>1, <3>2, <1>1
      <4>3. CASE s # {}
        <5> DEFINE t == s \ {Greatest(s)}
        <5>1. t \subseteq s
          OBVIOUS
        <5> HIDE DEF t
        <5>2. t \in SUBSET (1..k) /\ t \in SUBSET (1..(k+1)) /\ k+1 \notin t
          BY <5>1, <4>1, <3>2
        <5>3. new[t] = it[t] /\ new[s] = it[s]
          BY <5>2, <3>2
        <5>4. it[s] = Op(c, it[t], seq[Greatest(s)])
          BY <1>1, <4>1, <4>3 DEF t
        <5> QED BY <4>3, <5>3, <5>4 DEF t
      <4> QED BY <4>2, <4>3
    <3> QED BY <3>1, <3>2
  <2>2. Rec(new, k + 1)
    BY <2>1
  <2> QED BY <2>2
<1>2. \E it : Rec(it, 0)
  <2> DEFINE new == [s \in SUBSET (1..0) |-> base]
  <2>1. \A s \in SUBSET (1..0) : s = {}
    OBVIOUS
  <2>2. Rec(new, 0)
    BY <2>1
  <2> QED BY <2>2
<1>3. \E it : Rec(it, n)
  <2> DEFINE S == {k \in Nat : \E it : Rec(it, k)}
  <2>1. Nat \subseteq S
     <3> HIDE DEF Rec
     <3>1. 0 \in S
       BY <1>2
     <3>2. \A i \in Nat : i \in S => i + 1 \in S
       BY <1>1
     <3> HIDE DEF S
     <3> QED BY <3>1, <3>2, NatInduct
  <2> QED BY <2>1
<1> DEFINE it == CHOOSE it : Rec(it, n)
<1>4. Rec(it, n)
  BY <1>3
<1>5. Folded(c, base, seq) = it[1..n]
  BY DEF Folded, MapThenFoldSet
<1> HIDE DEF it
<1> DEFINE run == [i \in 0..n |-> it[1..i]]
<1>6. run[0] = base
  <2>1. 1..0 = {} /\ 1..0 \in SUBSET (1..n)
    OBVIOUS
  <2> QED BY <1>4, <2>1
<1>7. ASSUME NEW i \in 1..n PROVE run[i] = Op(c, run[i-1], seq[i])
  <2>0. i \in Nat /\ i <= n /\ 1 <= i
    OBVIOUS
  <2>1. 1..i \in SUBSET (1..n) /\ i \in 1..i /\ i - 1 \in 0..n /\ i \in 0..n
    BY <2>0
  <2>4. (1..i) \ {i} = 1..(i-1)
    BY <2>0
  <2>2. Greatest(1..i) = i
    BY <2>0, <2>1, MaxOf
  <2>3. it[1..i] = Op(c, it[(1..i) \ {i}], seq[i])
    BY <1>4, <2>1, <2>2
  <2> QED BY <2>1, <2>3, <2>4
<1> HIDE DEF run, Rec
<1>8. run[n] = it[1..n]
  BY DEF run
<1>9. IsRun(run, c, base, n, seq)
  BY <1>5, <1>6, <1>7, <1>8 DEF IsRun
<1> QED BY <1>9

\* What every step keeps, the fold keeps.
LEMMA Keeps ==
    ASSUME NEW c, NEW base, NEW n \in Nat, NEW seq, DOMAIN seq = 1..n, P(c, 0, base),
           \A i \in 1..n : \A p : P(c, i - 1, p) => P(c, i, Op(c, p, seq[i])),
           \A N \in SUBSET Nat : N # {} => \E lo \in N : \A up \in N : lo <= up
    PROVE  P(c, n, Folded(c, base, seq))
<1>0. PICK run : IsRun(run, c, base, n, seq)
  BY Runs
<1>1. /\ run[0] = base /\ \A i \in 1..n : run[i] = Op(c, run[i-1], seq[i])
      /\ Folded(c, base, seq) = run[n]
  BY <1>0 DEF IsRun
<1> DEFINE S == {i \in Nat : i <= n => P(c, i, run[i])}
<1>2. 0 \in S
  BY <1>1
<1>3. \A i \in Nat : i \in S => i + 1 \in S
  <2> SUFFICES ASSUME NEW i \in Nat, i + 1 <= n, P(c, i, run[i]) PROVE P(c, i + 1, run[i + 1])
    OBVIOUS
  <2>1. i + 1 \in 1..n /\ (i + 1) - 1 = i
    OBVIOUS
  <2> QED BY <1>1, <2>1
<1> HIDE DEF S
<1>4. n \in S
  BY <1>2, <1>3, NatInduct
<1> QED BY <1>1, <1>4 DEF S

LEMMA OneMore ==
    ASSUME NEW c, NEW base, NEW n \in Nat, NEW seq, DOMAIN seq = 1..n,
           NEW m, m \in Nat, m = n + 1, NEW more, DOMAIN more = 1..m,
           \A i \in 1..n : more[i] = seq[i],
           \A N \in SUBSET Nat : N # {} => \E lo \in N : \A up \in N : lo <= up
    PROVE  Folded(c, base, more) = Op(c, Folded(c, base, seq), more[m])
<1>1. PICK r : IsRun(r, c, base, n, seq)
  BY Runs
<1>2. PICK q : IsRun(q, c, base, m, more)
  BY Runs
<1> DEFINE Same == {i \in Nat : i <= n => r[i] = q[i]}
<1>3. 0 \in Same
  BY <1>1, <1>2 DEF IsRun
<1>4. ASSUME NEW i \in Nat, i \in Same PROVE i + 1 \in Same
  <2> SUFFICES ASSUME i + 1 <= n PROVE r[i + 1] = q[i + 1]
    OBVIOUS
  <2>1. i + 1 \in 1..n /\ i + 1 \in 1..m /\ (i + 1) - 1 = i /\ r[i] = q[i]
    BY <1>4
  <2> QED BY <1>1, <1>2, <2>1 DEF IsRun
<1> HIDE DEF Same
<1>5. Nat \subseteq Same
  BY <1>3, <1>4, NatInduct
<1>6. r[n] = q[n]
  BY <1>5 DEF Same
<1>7. m \in 1..m /\ m - 1 = n
  OBVIOUS
<1> QED BY <1>1, <1>2, <1>6, <1>7 DEF IsRun

\* A fold goes on with what is appended.
LEMMA GoesOn ==
    ASSUME NEW c, NEW base, NEW T, NEW seq \in Seq(T), NEW x \in T,
           \A N \in SUBSET Nat : N # {} => \E lo \in N : \A up \in N : lo <= up
    PROVE  Folded(c, base, Append(seq, x)) = Op(c, Folded(c, base, seq), x)
<1> DEFINE n == Len(seq)
           more == Append(seq, x)
<1>1. /\ n \in Nat /\ n + 1 \in Nat /\ DOMAIN seq = 1..n
      /\ DOMAIN more = 1..(n + 1) /\ more[n + 1] = x /\ \A i \in 1..n : more[i] = seq[i]
  OBVIOUS
<1> HIDE DEF n, more
<1>2. Folded(c, base, more) = Op(c, Folded(c, base, seq), more[n + 1])
  BY <1>1, OneMore
<1> QED BY <1>1, <1>2 DEF more

-----------------------------------------------------------------------------
(* Folds over sets, where P says of the elements of a set what it says of   *)
(* those that were folded so far.                                          *)

\* What every step keeps, in whatever order, the fold over a finite set keeps: a set each of
\* whose subsets has a size, that is less when an element is taken away.
LEMMA KeepsAll ==
    ASSUME NEW c, NEW base, NEW S, P(c, {}, base),
           \E n \in Nat : \E size \in [SUBSET S -> 0..n] :
               \A s \in SUBSET S : \A x \in s : size[s \ {x}] < size[s],
           \A T \in SUBSET S : \A x \in S \ T : \A p : P(c, T, p) => P(c, T \cup {x}, Op(c, p, x)),
           \A N \in SUBSET Nat : N # {} => \E lo \in N : \A up \in N : lo <= up
    PROVE  P(c, S, Gathered(c, base, S))
<1>16. PICK n \in Nat : \E size \in [SUBSET S -> 0..n] :
                      \A s \in SUBSET S : \A x \in s : size[s \ {x}] < size[s]
  OBVIOUS
<1>0. PICK size \in [SUBSET S -> 0..n] :
                      \A s \in SUBSET S : \A x \in s : size[s \ {x}] < size[s]
  BY <1>16
<1> DEFINE Small(k) == {s \in SUBSET S : size[s] <= k}
           Least(s) == CHOOSE x \in s : TRUE
           Rest(s) == s \ {Least(s)}
           Rec(it, k) == it = [s \in Small(k) |-> IF s = {} THEN base ELSE Op(c, it[Rest(s)], Least(s))]
<1>1. ASSUME NEW s \in SUBSET S, s # {}
      PROVE  /\ Least(s) \in s /\ Rest(s) \in SUBSET S
             /\ size[s] \in Nat /\ size[Rest(s)] \in Nat /\ size[Rest(s)] < size[s]
  <2>1. Least(s) \in s
    BY <1>1
  <2> HIDE DEF Least
  <2> QED BY <1>0, <2>1
<1>2. \A s \in SUBSET S : size[s] \in Nat /\ (size[s] <= 0 => s = {})
  <2>1. ASSUME NEW s \in SUBSET S, NEW x \in s PROVE size[s] > 0
    <3>1. s \ {x} \in SUBSET S
      OBVIOUS
    <3>2. size[s \ {x}] \in Nat /\ size[s] \in Nat /\ size[s \ {x}] < size[s]
      BY <1>0, <3>1
    <3> QED BY <3>2
  <2>2. \A s \in SUBSET S : size[s] \in Nat
    BY <1>0
  <2> QED BY <2>1, <2>2
<1> HIDE DEF Least
<1>3. ASSUME NEW k \in Nat, NEW it, Rec(it, k) PROVE \E new : Rec(new, k + 1)
  <2> DEFINE new == [s \in Small(k + 1) |-> IF s = {} THEN base ELSE Op(c, it[Rest(s)], Least(s))]
  <2>1. ASSUME NEW s \in Small(k + 1), s # {} PROVE new[Rest(s)] = it[Rest(s)]
    <3> DEFINE t == Rest(s)
    <3>1. t \in Small(k) /\ t \in Small(k + 1)
      <4>1. t \in SUBSET S /\ size[t] \in Nat /\ size[s] \in Nat
            /\ size[t] < size[s] /\ size[s] <= k + 1
        BY <2>1, <1>1, <1>2
      <4> HIDE DEF t
      <4> QED BY <4>1
    <3> HIDE DEF t, Rest, Small
    <3>2. new[t] = IF t = {} THEN base ELSE Op(c, it[Rest(t)], Least(t))
      BY <3>1
    <3>3. it[t] = IF t = {} THEN base ELSE Op(c, it[Rest(t)], Least(t))
      BY <1>3, <3>1
    <3> QED BY <3>2, <3>3 DEF t
  <2> HIDE DEF Rest, Small
  <2>2. \A s \in Small(k + 1) : new[s] = IF s = {} THEN base ELSE Op(c, new[Rest(s)], Least(s))
    BY <2>1
  <2>3. Rec(new, k + 1)
    BY <2>2
  <2> QED BY <2>3
<1>4. \E it : Rec(it, 0)
  <2> DEFINE new == [s \in Small(0) |-> base]
  <2>1. \A s \in Small(0) : s = {}
    BY <1>2
  <2> HIDE DEF Small
  <2>2. Rec(new, 0)
    BY <2>1
  <2> QED BY <2>2
<1>5. \A k \in Nat : \E it : Rec(it, k)
  <2> DEFINE N == {k \in Nat : \E it : Rec(it, k)}
  <2> HIDE DEF Rec
  <2>1. 0 \in N /\ \A k \in Nat : k \in N => k + 1 \in N
    BY <1>3, <1>4
  <2> HIDE DEF N
  <2>2. Nat \subseteq N
    BY <2>1, NatInduct
  <2> QED BY <2>2 DEF N
<1> DEFINE it == CHOOSE it : Rec(it, n)
<1>6. Small(n) = SUBSET S
  BY <1>0
<1>7. Rec(it, n)
  <2> HIDE DEF Rec
  <2> QED BY <1>5
<1>8. it = CHOOSE f : f = [s \in SUBSET S |-> IF s = {} THEN base ELSE Op(c, f[Rest(s)], Least(s))]
  BY <1>6
<1>9. Gathered(c, base, S) = it[S]
  BY <1>8 DEF Gathered, MapThenFoldSet, Least
<1> HIDE DEF it
<1>10. \A s \in SUBSET S : it[s] = IF s = {} THEN base ELSE Op(c, it[Rest(s)], Least(s))
  BY <1>6, <1>7
<1> HIDE DEF Rec
<1> DEFINE Done == {k \in Nat : \A s \in Small(k) : P(c, s, it[s])}
<1>11. 0 \in Done
  <2>1. ASSUME NEW s \in Small(0) PROVE P(c, s, it[s])
    <3>1. s = {} /\ s \in SUBSET S
      BY <1>2
    <3> QED BY <3>1, <1>10
  <2> HIDE DEF Small
  <2> QED BY <2>1
<1>12. ASSUME NEW k \in Nat, k \in Done PROVE k + 1 \in Done
  <2>1. ASSUME NEW s \in Small(k + 1) PROVE P(c, s, it[s])
    <3> DEFINE x == Least(s)
               t == Rest(s)
    <3>0. CASE s = {}
      BY <3>0, <1>10
    <3>1. CASE s # {}
      <4>2. x \in s /\ t \in SUBSET S /\ t \in Small(k)
        <5>1. /\ x \in s /\ t \in SUBSET S /\ size[t] \in Nat /\ size[s] \in Nat
              /\ size[t] < size[s] /\ size[s] <= k + 1
          BY <1>1, <3>1
        <5> HIDE DEF x, t
        <5> QED BY <5>1
      <4>3. s = t \cup {x} /\ x \in S \ t
        BY <4>2
      <4>4. it[s] = Op(c, it[t], x)
        BY <1>10, <3>1
      <4> HIDE DEF x, t, Small
      <4>5. P(c, t, it[t])
        BY <1>12, <4>2
      <4> QED BY <4>2, <4>3, <4>4, <4>5
    <3> QED BY <3>0, <3>1
  <2> HIDE DEF Small
  <2> QED BY <2>1
<1> HIDE DEF Done, Small
<1>13. n \in Done
  BY <1>11, <1>12, NatInduct
<1>14. P(c, S, it[S])
  BY <1>6, <1>13 DEF Done
<1> QED BY <1>9, <1>14
=============================================================================
