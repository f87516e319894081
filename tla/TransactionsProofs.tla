------------------------- MODULE TransactionsProofs -------------------------
(***************************************************************************)
(* For any number of customers, clerks, points and goods: no transaction   *)
(* makes a system raise, every exchange is due, and the economy implements *)
(* the ledger.                                                             *)
(*                                                                         *)
(* The argument: a character plans one action at a time, and while it waits *)
(* for a transaction its request carries the id of that action, so every   *)
(* end of a request is an end of the action that made it.  What connects    *)
(* the two ends in time is the schedule: a request completes after the      *)
(* iteration of System 1 and is seen by the plan before the next one.      *)
(***************************************************************************)
EXTENDS Transactions, TLAPS, SequenceTheorems, FiniteSetTheorems, WellFoundedInduction

\* A character plans one action at a time, which has not ended.
PlanSound(c) ==
    /\ c.plan.queue = <<>> \/ (c.plan.current = None /\ Len(c.plan.queue) = 1)
    /\ \A id \in CurrentIds(c) \union QueuedIds(c) :
           id \in DOMAIN c.story /\ EndsOf(c, id) = {}
    /\ c.preempted => PlanIdle(c)

\* A request serves the current action, and is paid when it is completed.
RequestSound(c) ==
    /\ c.request = None <=> c.plan.current = None
    /\ c.request = None <=> c.plan.waiting = "no"
    /\ c.request # None =>
         /\ c.request.id = c.plan.current.id
         /\ <<c.request.point, c.request.offer>> \in Deals
         /\ c.request.by \in {None, c.request.operator}
         /\ c.request.status \in {"requested", "awaiting_staff", "awaiting_authorization"}
              => c.request.by = None
         /\ c.request.status \in {"awaiting_staff", "awaiting_authorization"}
              => c.request.point \in Staffed /\ c.request.left \in 1..Patience[c.request.point]

\* An execution is that of a running request.
ExecutionSound(c) ==
    /\ c.execution # None <=> Waits(c, {"running"})
    /\ c.execution # None =>
         /\ c.execution.id = c.request.id
         /\ c.execution.point = c.request.point /\ c.execution.offer = c.request.offer
         /\ c.execution.operator = c.request.by
         /\ c.execution.left \in 1..Lasts[c.execution.offer]

\* Paid once by a completed action, or by one that is about to complete.
Accounted(c) ==
    /\ \A n \in DOMAIN c.paid : c.paid[n] \in DOMAIN c.story
    /\ \A id \in DOMAIN c.story :
         \/ Times(c, id) = 0 /\ "completed" \notin EndsOf(c, id)
         \/ Times(c, id) = 1 /\ EndsOf(c, id) = {"completed"}
         \/ /\ Times(c, id) = 1 /\ EndsOf(c, id) = {}
            /\ Waits(c, {"completed"}) /\ c.request.id = id
    /\ Waits(c, {"completed"}) => Times(c, c.request.id) = 1

Sound(a, c) ==
    /\ c \in Characters(a) /\ ~c.raised
    /\ PlanSound(c)
    /\ a \in Customers => RequestSound(c) /\ ExecutionSound(c) /\ Accounted(c)
    /\ a \in Clerks => c.plan.current = None /\ c.plan.waiting = "no" /\ c.paid = <<>>

\* Clerks act only when they are there.
Working == \A k \in Clerks : k \in present \/ PlanIdle(person[k])

\* The iteration that is due is due for a reason; what was running when the
\* system began still runs until its turn; the plan is the first to see a
\* completed request.
Scheduled ==
    /\ turn # 0 => Due(person, active, present, turn)
    /\ \A a \in active : turn \in (2 * N + 1)..(2 * N + a) => person[a].execution # None
    /\ \A a \in Customers : Waits(person[a], {"completed"}) =>
                                turn \in 0..a \/ turn > 2 * N

Ledger ==
    /\ purse \in [Customers -> Holdings] /\ shelf \in [Points -> Holdings]
    /\ present \subseteq Clerks /\ available \subseteq Points
    /\ turn \in Turns \union {0} /\ active \subseteq Customers

People == /\ person = [a \in Agents |-> person[a]]
          /\ \A a \in Agents : Sound(a, person[a])

Inv == People /\ Ledger /\ StaffedIsAuthorized /\ Working /\ Scheduled

\* The numbers below a number, as a relation.
Less == {ss \in Nat \X Nat : ss[1] < ss[2]}

-----------------------------------------------------------------------------
(* The schedule.                                                           *)

\* A set of numbers has a least one.
LEMMA LessIsWellFounded == IsWellFoundedOn(Less, Nat)
BY NatLessThanWellFounded DEF OpToRel, Less

LEMMA LeastExists ==
    ASSUME NEW S \in SUBSET Nat, S # {}
    PROVE  \E x \in S : \A y \in S : x <= y
<1>1. PICK x \in S : \A y \in S : ~ (<<y, x>> \in Less)
  BY LessIsWellFounded, WFMin
<1>2. \A y \in S : ~ (y < x)
  BY <1>1 DEF Less
<1> QED BY <1>2

LEMMA AgentsAreNumbers ==
    /\ N \in Nat /\ N >= 1 /\ Agents = 1..N
    /\ Customers \subseteq 1..N /\ Clerks \subseteq 1..N
<1>1. N \in Nat
  BY PeopleAssumption, FS_CardinalityType DEF N
<1>2. Customers \subseteq 1..N /\ Clerks \subseteq 1..N /\ Customers # {}
  BY PeopleAssumption DEF Agents
<1>3. PICK c \in 1..N : c \in Customers
  BY <1>2
<1>4. N >= 1
  BY <1>1, <1>3
<1> QED BY <1>1, <1>2, <1>4, PeopleAssumption

\* Division is what it should be.
LEMMA Quotient ==
    ASSUME NEW d \in Nat, d >= 1, NEW k \in Nat, NEW r \in Nat, r < d
    PROVE  (k * d + r) \div d = k /\ (k * d + r) % d = r
<1> DEFINE x == k * d + r
           q == x \div d
           m == x % d
<1>1. x \in Nat /\ k * d \in Nat
  OBVIOUS
<1>2. q \in Int /\ m \in 0..(d - 1) /\ x = d * q + m
  BY <1>1
<1> HIDE DEF q, m
<1>3. d * (k - q) = m - r
  BY <1>2
<1>4. ~ (k > q)
  <2> SUFFICES ASSUME k > q PROVE FALSE
    OBVIOUS
  <2>1. k - q \in Nat /\ k - q >= 1
    BY <1>2
  <2>2. d * (k - q) >= d
    BY <2>1
  <2> QED BY <1>2, <1>3, <2>2
<1>5. ~ (k < q)
  <2> SUFFICES ASSUME k < q PROVE FALSE
    OBVIOUS
  <2>1. q - k \in Nat /\ q - k >= 1
    BY <1>2
  <2>2. d * (q - k) >= d
    BY <2>1
  <2>3. d * (q - k) = r - m
    BY <1>2, <1>3
  <2> QED BY <1>2, <2>2, <2>3
<1>6. k = q
  BY <1>2, <1>4, <1>5
<1> QED BY <1>2, <1>6 DEF q, m

\* The iterations of a tick, phase by phase.
LEMMA TurnIs ==
    ASSUME NEW k \in 0..5, NEW a \in 1..N
    PROVE  /\ k * N + a \in Turns
           /\ PhaseOf(k * N + a) = Phases[k + 1] /\ AgentOf(k * N + a) = a
<1>1. N \in Nat /\ N >= 1
  BY AgentsAreNumbers
<1>2. k * N \in Nat /\ k * N + a - 1 = k * N + (a - 1) /\ a - 1 \in Nat /\ a - 1 < N
  BY <1>1
<1>3. (k * N + a - 1) \div N = k /\ (k * N + a - 1) % N = a - 1
  BY <1>1, <1>2, Quotient
<1>4. Turns = 1..(6 * N)
  BY DEF Turns, Phases
<1>5. k * N + a \in 1..(6 * N)
  BY <1>1, <1>2
<1>6. AgentOf(k * N + a) = a
  BY <1>1, <1>2, <1>3 DEF AgentOf
<1>7. PhaseOf(k * N + a) = Phases[k + 1]
  BY <1>1, <1>2, <1>3 DEF PhaseOf
<1> QED BY <1>4, <1>5, <1>6, <1>7

LEMMA TurnSplits ==
    ASSUME NEW n \in Turns
    PROVE  \E k \in 0..5 : \E a \in 1..N : n = k * N + a
<1>1. N \in Nat /\ N >= 1
  BY AgentsAreNumbers
<1>2. n \in 1..(6 * N)
  BY DEF Turns, Phases
<1>3. /\ n <= N => n = 0 * N + n /\ n \in 1..N
      /\ n > N /\ n <= 2 * N => n = 1 * N + (n - N) /\ n - N \in 1..N
      /\ n > 2 * N /\ n <= 3 * N => n = 2 * N + (n - 2 * N) /\ n - 2 * N \in 1..N
      /\ n > 3 * N /\ n <= 4 * N => n = 3 * N + (n - 3 * N) /\ n - 3 * N \in 1..N
      /\ n > 4 * N /\ n <= 5 * N => n = 4 * N + (n - 4 * N) /\ n - 4 * N \in 1..N
      /\ n > 5 * N => n = 5 * N + (n - 5 * N) /\ n - 5 * N \in 1..N
  BY <1>1, <1>2
<1> QED BY <1>1, <1>2, <1>3

\* Who is due, by the number of the iteration.
LEMMA DueIs ==
    ASSUME NEW n \in Turns
    PROVE  /\ AgentOf(n) \in 1..N
           /\ PhaseOf(n) = "plan" => n = AgentOf(n)
           /\ PhaseOf(n) = "arbitrate" => n = N + AgentOf(n)
           /\ PhaseOf(n) = "advance" => n = 2 * N + AgentOf(n)
           /\ PhaseOf(n) = "request" => n = 3 * N + AgentOf(n)
           /\ PhaseOf(n) = "staff" => n = 4 * N + AgentOf(n)
           /\ PhaseOf(n) = "decide" => n = 5 * N + AgentOf(n)
           /\ PhaseOf(n) \in {"plan", "arbitrate", "advance", "request", "staff", "decide"}
           /\ n \in 1..N => PhaseOf(n) = "plan"
           /\ n \in (2 * N + 1)..(3 * N) => PhaseOf(n) = "advance"
<1>1. PICK k \in 0..5, a \in 1..N : n = k * N + a
  BY TurnSplits
<1>2. AgentOf(n) = a /\ PhaseOf(n) = Phases[k + 1]
  BY <1>1, TurnIs
<1>3. N \in Nat /\ N >= 1
  BY AgentsAreNumbers
<1>4. /\ Phases[1] = "plan" /\ Phases[2] = "arbitrate" /\ Phases[3] = "advance"
      /\ Phases[4] = "request" /\ Phases[5] = "staff" /\ Phases[6] = "decide"
  BY DEF Phases
<1>5. /\ k = 0 => PhaseOf(n) = "plan" /\ n = a
      /\ k = 1 => PhaseOf(n) = "arbitrate" /\ n = N + a
      /\ k = 2 => PhaseOf(n) = "advance" /\ n = 2 * N + a
      /\ k = 3 => PhaseOf(n) = "request" /\ n = 3 * N + a
      /\ k = 4 => PhaseOf(n) = "staff" /\ n = 4 * N + a
      /\ k = 5 => PhaseOf(n) = "decide" /\ n = 5 * N + a
  BY <1>1, <1>2, <1>3, <1>4
<1>6. k \in {0, 1, 2, 3, 4, 5}
  OBVIOUS
<1> QED BY <1>2, <1>3, <1>5, <1>6

\* The next iteration is the first later one that is due.
LEMMA NextTurnIs ==
    ASSUME turn \in Turns \union {0}, NEW persons, NEW begun, NEW here
    PROVE  LET next == NextTurn(persons, begun, here) IN
           /\ next \in Turns \union {0}
           /\ next # 0 => next > turn /\ Due(persons, begun, here, next)
           /\ \A m \in Turns : m > turn /\ Due(persons, begun, here, m) => next # 0 /\ next <= m
<1> DEFINE later == {n \in Turns : n > turn /\ Due(persons, begun, here, n)}
           next == NextTurn(persons, begun, here)
<1>1. Turns \subseteq Nat /\ 0 \notin Turns
  BY AgentsAreNumbers DEF Turns
<1>2. CASE later = {}
  BY <1>2 DEF NextTurn
<1>3. CASE later # {}
  <2>1. \E n \in later : \A m \in later : n <= m
    <3>1. later \in SUBSET Nat
      BY <1>1
    <3> HIDE DEF later
    <3> QED BY <1>3, <3>1, LeastExists
  <2>2. next \in later /\ \A m \in later : next <= m
    <3>1. next = CHOOSE n \in later : \A m \in later : n <= m
      BY <1>3 DEF NextTurn
    <3> HIDE DEF later, next
    <3> QED BY <2>1, <3>1
  <2> QED BY <1>1, <2>2
<1> QED BY <1>2, <1>3

-----------------------------------------------------------------------------
(* Plans and their stories.                                                *)

\* The same transaction, apart from the plan and its story.
Alike(c, d) ==
    /\ d.at = c.at /\ d.preempted = c.preempted /\ d.request = c.request
    /\ d.execution = c.execution /\ d.paid = c.paid /\ d.raised = c.raised

\* What one more event adds to the ends of the actions ids.
EndsWith(c, d, ids, event) ==
    /\ DOMAIN d.story = DOMAIN c.story
    /\ \A id \in DOMAIN c.story :
         EndsOf(d, id) = IF id \in ids THEN EndsOf(c, id) \union ({event} \intersect Terminal)
                                       ELSE EndsOf(c, id)

LEMMA TellIs ==
    ASSUME NEW a, NEW c \in Characters(a), NEW ids, NEW event \in Events
    PROVE  LET d == Tell(c, ids, event) IN
           /\ d \in Characters(a) /\ d.plan = c.plan /\ Alike(c, d)
           /\ EndsWith(c, d, ids, event)
<1> DEFINE d == Tell(c, ids, event)
           story == [i \in DOMAIN c.story |-> IF i \in ids THEN Append(c.story[i], event)
                                                           ELSE c.story[i]]
<1>1. c.story \in Seq(Seq(Events))
  BY DEF Characters
<1>2. \A i \in DOMAIN c.story :
          c.story[i] \in Seq(Events) /\ Append(c.story[i], event) \in Seq(Events)
  BY <1>1
<1>3. story \in Seq(Seq(Events)) /\ DOMAIN story = DOMAIN c.story
  <2>1. DOMAIN c.story = 1..Len(c.story) /\ Len(c.story) \in Nat
    BY <1>1
  <2>2. story \in [1..Len(c.story) -> Seq(Events)]
    BY <1>2, <2>1
  <2> QED BY <2>1, <2>2
<1>4. d = [c EXCEPT !.story = story]
  BY DEF Tell
<1> HIDE DEF story, d
<1>5. /\ d \in Characters(a) /\ d.plan = c.plan /\ d.story = story /\ Alike(c, d)
  BY <1>3, <1>4 DEF Characters, Alike
<1>6. ASSUME NEW id \in DOMAIN c.story
      PROVE  EndsOf(d, id) = IF id \in ids THEN EndsOf(c, id) \union ({event} \intersect Terminal)
                                           ELSE EndsOf(c, id)
  <2>1. CASE id \notin ids
    BY <1>5, <2>1 DEF EndsOf, story
  <2>2. CASE id \in ids
    <3>1. d.story[id] = Append(c.story[id], event)
      BY <1>5, <2>2 DEF story
    <3> DEFINE w == c.story[id]
               v == Append(w, event)
    <3>2. /\ w \in Seq(Events) /\ Len(v) = Len(w) + 1 /\ Len(w) \in Nat
          /\ DOMAIN w = 1..Len(w) /\ DOMAIN v = 1..Len(v)
          /\ v[Len(w) + 1] = event /\ \A n \in 1..Len(w) : v[n] = w[n]
      BY <1>2
    <3> HIDE DEF w, v
    <3>3. {v[n] : n \in DOMAIN v} = {w[n] : n \in DOMAIN w} \union {event}
      <4>1. DOMAIN v = DOMAIN w \union {Len(w) + 1}
        BY <3>2
      <4> QED BY <3>2, <4>1
    <3> QED BY <2>2, <3>1, <3>3 DEF EndsOf, w, v
  <2> QED BY <2>1, <2>2
<1> QED BY <1>3, <1>5, <1>6 DEF d, EndsWith

\* Another plan, the same story.
LEMMA ReplanIs ==
    ASSUME NEW a, NEW c \in Characters(a), NEW plan \in Plans(a)
    PROVE  LET d == [c EXCEPT !.plan = plan] IN
           /\ d \in Characters(a) /\ d.plan = plan /\ Alike(c, d) /\ d.story = c.story
           /\ \A b, ids, event : EndsWith(b, c, ids, event) => EndsWith(b, d, ids, event)
<1> DEFINE d == [c EXCEPT !.plan = plan]
<1>1. d \in Characters(a) /\ d.plan = plan /\ Alike(c, d) /\ d.story = c.story
  BY DEF Characters, Alike
<1> HIDE DEF d
<1>2. \A id : EndsOf(d, id) = EndsOf(c, id)
  BY <1>1 DEF EndsOf
<1>3. \A b, ids, event : EndsWith(b, c, ids, event) => EndsWith(b, d, ids, event)
  BY <1>1, <1>2 DEF EndsWith
<1> QED BY <1>1, <1>3 DEF d

\* The plan without a current action.
LEMMA EndCurrentIs ==
    ASSUME NEW a, NEW c \in Characters(a), NEW event \in Events
    PROVE  LET d == EndCurrent(c, event) IN
           /\ d \in Characters(a) /\ Alike(c, d)
           /\ d.plan = [EmptyPlan EXCEPT !.open = c.plan.open, !.queue = c.plan.queue]
           /\ EndsWith(c, d, CurrentIds(c), event)
<1> DEFINE t == Tell(c, CurrentIds(c), event)
           plan == [EmptyPlan EXCEPT !.open = c.plan.open, !.queue = c.plan.queue]
<1>1. t \in Characters(a) /\ Alike(c, t) /\ EndsWith(c, t, CurrentIds(c), event)
  BY TellIs
<1>2. plan \in Plans(a)
  BY DEF EmptyPlan, Plans, Characters
<1>3. EndCurrent(c, event) = [t EXCEPT !.plan = plan]
  BY DEF EndCurrent
<1> HIDE DEF t
<1>4. LET d == [t EXCEPT !.plan = plan] IN
      /\ d \in Characters(a) /\ d.plan = plan /\ Alike(t, d)
      /\ EndsWith(c, d, CurrentIds(c), event)
  <2> HIDE DEF plan
  <2> QED BY <1>1, <1>2, ReplanIs
<1> QED BY <1>1, <1>3, <1>4 DEF Alike

\* A plan with nothing in it.
LEMMA EmptyIsIdle ==
    ASSUME NEW c, c.plan.queue = <<>>, c.plan.current = None
    PROVE  PlanIdle(c) /\ CurrentIds(c) = {} /\ QueuedIds(c) = {}
BY DEF PlanIdle, CurrentIds, QueuedIds

LEMMA ClearIs ==
    ASSUME NEW a, NEW c \in Characters(a)
    PROVE  LET d == ClearPlanLineage(c) IN
           /\ d \in Characters(a) /\ d.plan = EmptyPlan /\ PlanIdle(d) /\ Alike(c, d)
           /\ EndsWith(c, d, CurrentIds(c) \union QueuedIds(c), "cancelled")
<1> DEFINE t == Tell(c, CurrentIds(c) \union QueuedIds(c), "cancelled")
<1>1. /\ t \in Characters(a) /\ Alike(c, t)
      /\ EndsWith(c, t, CurrentIds(c) \union QueuedIds(c), "cancelled")
  BY TellIs DEF Events, Terminal
<1>2. EmptyPlan \in Plans(a) /\ EmptyPlan.queue = <<>> /\ EmptyPlan.current = None
  BY DEF EmptyPlan, Plans
<1>3. ClearPlanLineage(c) = [t EXCEPT !.plan = EmptyPlan]
  BY DEF ClearPlanLineage
<1> HIDE DEF t
<1>4. /\ [t EXCEPT !.plan = EmptyPlan] \in Characters(a)
      /\ [t EXCEPT !.plan = EmptyPlan].plan = EmptyPlan
      /\ Alike(c, [t EXCEPT !.plan = EmptyPlan])
      /\ EndsWith(c, [t EXCEPT !.plan = EmptyPlan], CurrentIds(c) \union QueuedIds(c), "cancelled")
  BY <1>1, <1>2, ReplanIs DEF Alike
<1> QED BY <1>2, <1>3, <1>4 DEF PlanIdle

\* The end of the only action of a plan.
LEMMA CompleteIs ==
    ASSUME NEW a, NEW c \in Characters(a), c.plan.queue = <<>>
    PROVE  LET d == CompletePlanAction(c) IN
           /\ d \in Characters(a) /\ PlanIdle(d) /\ d.plan.waiting = "no" /\ Alike(c, d)
           /\ EndsWith(c, d, CurrentIds(c), "completed")
<1> DEFINE e == EndCurrent(c, "completed")
           open == c.plan.queue # <<>>
<1>1. /\ e \in Characters(a) /\ Alike(c, e)
      /\ e.plan = [EmptyPlan EXCEPT !.open = c.plan.open, !.queue = c.plan.queue]
      /\ EndsWith(c, e, CurrentIds(c), "completed")
  BY EndCurrentIs DEF Events, Terminal
<1>2. e.plan.queue = <<>> /\ e.plan.current = None /\ e.plan.waiting = "no"
  BY <1>1 DEF EmptyPlan
<1>3. CompletePlanAction(c) = [e EXCEPT !.plan = [e.plan EXCEPT !.open = open]]
  BY DEF CompletePlanAction
<1>4. open \in BOOLEAN
  OBVIOUS
<1> HIDE DEF e, open
<1>5. /\ [e.plan EXCEPT !.open = open] \in Plans(a)
      /\ [e.plan EXCEPT !.open = open].queue = <<>>
      /\ [e.plan EXCEPT !.open = open].current = None
      /\ [e.plan EXCEPT !.open = open].waiting = "no"
  BY <1>1, <1>2, <1>4 DEF Characters, Plans
<1> DEFINE plan == [e.plan EXCEPT !.open = open]
<1>6. LET d == [e EXCEPT !.plan = plan] IN
      /\ d \in Characters(a) /\ d.plan = plan /\ Alike(e, d)
      /\ EndsWith(c, d, CurrentIds(c), "completed")
  <2>1. plan \in Plans(a)
    BY <1>5
  <2> HIDE DEF plan
  <2> QED BY <1>1, <2>1, ReplanIs
<1> QED BY <1>1, <1>3, <1>5, <1>6 DEF Alike, PlanIdle

LEMMA FailIs ==
    ASSUME NEW a, NEW c \in Characters(a), c.plan.queue = <<>>
    PROVE  LET d == FailPlanAction(c) IN
           /\ d \in Characters(a) /\ PlanIdle(d) /\ d.plan.waiting = "no" /\ Alike(c, d)
           /\ EndsWith(c, d, CurrentIds(c), "failed")
<1> DEFINE e == EndCurrent(c, "failed")
           d == ClearPlanLineage(e)
<1>1. /\ e \in Characters(a) /\ Alike(c, e)
      /\ e.plan = [EmptyPlan EXCEPT !.open = c.plan.open, !.queue = c.plan.queue]
      /\ EndsWith(c, e, CurrentIds(c), "failed")
  BY EndCurrentIs DEF Events, Terminal
<1>2. e.plan.queue = <<>> /\ e.plan.current = None
  BY <1>1 DEF EmptyPlan
<1>3. CurrentIds(e) = {} /\ QueuedIds(e) = {}
  BY <1>2, EmptyIsIdle
<1>4. /\ d \in Characters(a) /\ d.plan = EmptyPlan /\ PlanIdle(d) /\ Alike(e, d)
      /\ EndsWith(e, d, CurrentIds(e) \union QueuedIds(e), "cancelled")
  BY <1>1, ClearIs
<1>5. d = FailPlanAction(c)
  BY DEF FailPlanAction
<1>6. d.plan.waiting = "no"
  BY <1>4 DEF EmptyPlan
<1> HIDE DEF d, e
<1> QED BY <1>1, <1>3, <1>4, <1>5, <1>6 DEF Alike, EndsWith

-----------------------------------------------------------------------------
(* What is paid, and for which action.                                     *)

LEMMA TimesIsNat ==
    ASSUME NEW c, c.paid \in Seq(Nat), NEW id
    PROVE  /\ Times(c, id) \in Nat
           /\ \A d : d.paid = c.paid => Times(d, id) = Times(c, id)
<1>1. Len(c.paid) \in Nat /\ DOMAIN c.paid = 1..Len(c.paid)
  OBVIOUS
<1>2. IsFiniteSet(DOMAIN c.paid)
  BY <1>1, FS_Interval
<1>3. IsFiniteSet({n \in DOMAIN c.paid : c.paid[n] = id})
  BY <1>2, FS_Subset
<1>4. Times(c, id) \in Nat
  BY <1>3, FS_CardinalityType DEF Times
<1> QED BY <1>4 DEF Times

LEMMA PayingCounts ==
    ASSUME NEW c, NEW d, NEW x \in Nat, c.paid \in Seq(Nat), d.paid = Append(c.paid, x)
    PROVE  \A id : Times(d, id) = IF id = x THEN Times(c, id) + 1 ELSE Times(c, id)
<1> TAKE id
<1> DEFINE w == c.paid
           v == d.paid
           S == {n \in DOMAIN w : w[n] = id}
           T == {n \in DOMAIN v : v[n] = id}
<1>1. /\ Len(w) \in Nat /\ Len(v) = Len(w) + 1
      /\ DOMAIN w = 1..Len(w) /\ DOMAIN v = 1..Len(v)
      /\ v[Len(w) + 1] = x /\ \A n \in 1..Len(w) : v[n] = w[n]
  OBVIOUS
<1>2. IsFiniteSet(S)
  <2>1. IsFiniteSet(DOMAIN w)
    BY <1>1, FS_Interval
  <2> QED BY <2>1, FS_Subset
<1> HIDE DEF w, v
<1>3. Len(w) + 1 \notin S
  BY <1>1
<1>4. T = IF id = x THEN S \union {Len(w) + 1} ELSE S
  <2>1. DOMAIN v = DOMAIN w \union {Len(w) + 1}
    BY <1>1
  <2> QED BY <1>1, <2>1
<1> HIDE DEF S, T
<1>5. Cardinality(T) = IF id = x THEN Cardinality(S) + 1 ELSE Cardinality(S)
  BY <1>2, <1>3, <1>4, FS_AddElement
<1> QED BY <1>5 DEF Times, S, T, w, v

\* What is planned is open; it is paid exactly when it is about to complete.
LEMMA PlannedIsOpen ==
    ASSUME NEW a \in Customers, NEW c, Sound(a, c)
    PROVE  /\ \A id \in CurrentIds(c) \union QueuedIds(c) :
                  /\ id \in DOMAIN c.story /\ EndsOf(c, id) = {}
                  /\ Times(c, id) = IF Waits(c, {"completed"}) THEN 1 ELSE 0
           /\ \A id \in DOMAIN c.story \ (CurrentIds(c) \union QueuedIds(c)) :
                  \/ Times(c, id) = 0 /\ "completed" \notin EndsOf(c, id)
                  \/ Times(c, id) = 1 /\ EndsOf(c, id) = {"completed"}
<1>1. PlanSound(c) /\ RequestSound(c) /\ Accounted(c)
  BY DEF Sound
<1>2. CASE Waits(c, {"completed"})
  <2>1. /\ c.plan.current # None /\ c.request.id = c.plan.current.id
        /\ Times(c, c.request.id) = 1
    BY <1>1, <1>2 DEF RequestSound, Waits, Accounted
  <2>2. c.plan.queue = <<>> /\ CurrentIds(c) = {c.request.id}
    BY <1>1, <2>1 DEF PlanSound, CurrentIds
  <2>3. QueuedIds(c) = {}
    BY <2>2 DEF QueuedIds
  <2> QED BY <1>1, <1>2, <2>1, <2>2, <2>3 DEF PlanSound, Accounted
<1>3. CASE ~Waits(c, {"completed"})
  BY <1>1, <1>3 DEF PlanSound, Accounted
<1> QED BY <1>2, <1>3

\* A character whose plan ended, whatever it was waiting for.
LEMMA EndedIsSound ==
    ASSUME NEW a \in Agents, NEW c, Sound(a, c), NEW d \in Characters(a), NEW b,
           NEW event \in Terminal,
           a \in Customers => (Waits(c, {"completed"}) <=> event = "completed"),
           b.story = c.story \/ \A id \in DOMAIN c.story : EndsOf(b, id) = EndsOf(c, id),
           DOMAIN b.story = DOMAIN c.story,
           EndsWith(b, d, CurrentIds(c) \union QueuedIds(c), event),
           PlanIdle(d), d.plan.waiting = "no", d.request = None, d.execution = None,
           d.paid = c.paid, ~d.raised
    PROVE  Sound(a, d)
<1> DEFINE ids == CurrentIds(c) \union QueuedIds(c)
<1>1. /\ DOMAIN d.story = DOMAIN c.story
      /\ \A id \in DOMAIN c.story :
           EndsOf(d, id) = IF id \in ids THEN EndsOf(c, id) \union ({event} \intersect Terminal)
                                         ELSE EndsOf(c, id)
  BY DEF EndsWith, EndsOf
<1>2. d.plan.queue = <<>> /\ d.plan.current = None
  BY DEF PlanIdle
<1>3. CurrentIds(d) = {} /\ QueuedIds(d) = {}
  BY <1>2, EmptyIsIdle
<1>4. PlanSound(d)
  BY <1>2, <1>3 DEF PlanSound
<1>5. ASSUME a \in Customers PROVE RequestSound(d) /\ ExecutionSound(d) /\ Accounted(d)
  <2>1. RequestSound(d) /\ ExecutionSound(d)
    BY <1>2 DEF RequestSound, ExecutionSound, Waits
  <2>2. c \in Characters(a) /\ Accounted(c)
    BY <1>5 DEF Sound
  <2>3. \A id : Times(d, id) = Times(c, id)
    BY DEF Times
  <2>4. \A id \in DOMAIN d.story :
          \/ Times(d, id) = 0 /\ "completed" \notin EndsOf(d, id)
          \/ Times(d, id) = 1 /\ EndsOf(d, id) = {"completed"}
    <3> TAKE id \in DOMAIN d.story
    <3>1. CASE id \in ids
      <4>1. /\ EndsOf(c, id) = {}
            /\ Times(c, id) = IF Waits(c, {"completed"}) THEN 1 ELSE 0
        BY <1>5, <3>1, PlannedIsOpen
      <4>2. EndsOf(d, id) = {event}
        BY <1>1, <3>1, <4>1
      <4> QED BY <1>5, <2>3, <4>1, <4>2 DEF Terminal
    <3>2. CASE id \notin ids
      <4>1. \/ Times(c, id) = 0 /\ "completed" \notin EndsOf(c, id)
            \/ Times(c, id) = 1 /\ EndsOf(c, id) = {"completed"}
        BY <1>1, <1>5, <3>2, PlannedIsOpen
      <4> QED BY <1>1, <2>3, <3>2, <4>1
    <3> QED BY <3>1, <3>2
  <2>5. \A n \in DOMAIN d.paid : d.paid[n] \in DOMAIN d.story
    BY <1>1, <2>2 DEF Accounted
  <2> QED BY <2>1, <2>4, <2>5 DEF Accounted, Waits
<1>6. a \in Clerks => d.plan.current = None /\ d.plan.waiting = "no" /\ d.paid = <<>>
  BY <1>2 DEF Sound
<1> QED BY <1>4, <1>5, <1>6 DEF Sound

-----------------------------------------------------------------------------
(* Each operation keeps a character sound.                                 *)

\* The fields of a character, its plan, its request and its execution.
LEMMA Fields ==
    ASSUME NEW a, NEW c \in Characters(a)
    PROVE  /\ c.plan \in Plans(a) /\ c.plan.queue \in Seq(Actions(a))
           /\ c.plan.current \in Actions(a) \union {None}
           /\ c.plan.waiting \in {"no", "transaction"}
           /\ c.story \in Seq(Seq(Events)) /\ c.at \in Places
           /\ c.preempted \in BOOLEAN /\ c.raised \in BOOLEAN
           /\ c.request \in Requests \union {None}
           /\ c.execution \in Executions \union {None}
           /\ a \notin Customers => c.request = None /\ c.execution = None
           /\ c.paid \in Seq(Nat)
BY DEF Characters, Plans

\* The request of a customer is replaced.
LEMMA RequestIs ==
    ASSUME NEW a \in Customers, NEW c \in Characters(a), NEW r \in Requests \union {None}
    PROVE  LET d == [c EXCEPT !.request = r] IN
           /\ d \in Characters(a) /\ d.request = r
           /\ d.plan = c.plan /\ d.story = c.story /\ d.at = c.at /\ d.paid = c.paid
           /\ d.preempted = c.preempted /\ d.execution = c.execution /\ d.raised = c.raised
BY DEF Characters

\* Only the request changes, and it still serves the same action.
LEMMA RequestSoundly ==
    ASSUME NEW a \in Customers, NEW c, Sound(a, c), NEW d \in Characters(a),
           c.request # None, d.request \in Requests,
           d.plan = c.plan, d.story = c.story, d.paid = c.paid,
           d.preempted = c.preempted, ~d.raised,
           d.request.id = c.request.id,
           d.request.point = c.request.point, d.request.offer = c.request.offer,
           d.request.by \in {None, d.request.operator},
           d.request.status \in {"requested", "awaiting_staff", "awaiting_authorization"}
              => d.request.by = None,
           d.request.status \in {"awaiting_staff", "awaiting_authorization"}
              => d.request.point \in Staffed /\ d.request.left \in 1..Patience[d.request.point],
           ~Waits(c, {"completed"}), d.request.status # "completed",
           ExecutionSound(d)
    PROVE  Sound(a, d)
<1>1. \A id : EndsOf(d, id) = EndsOf(c, id) /\ Times(d, id) = Times(c, id)
  BY DEF EndsOf, Times
<1>2. CurrentIds(d) = CurrentIds(c) /\ QueuedIds(d) = QueuedIds(c)
      /\ (PlanIdle(d) <=> PlanIdle(c))
  BY DEF CurrentIds, QueuedIds, PlanIdle
<1>3. PlanSound(d)
  BY <1>1, <1>2 DEF Sound, PlanSound
<1>4. d.request # None
  BY NoneAssumption
<1>5. RequestSound(d)
  BY <1>4 DEF Sound, RequestSound
<1>6. Accounted(d)
  BY <1>1, <1>4 DEF Sound, Accounted, Waits
<1>7. a \notin Clerks
  BY PeopleAssumption
<1> QED BY <1>3, <1>5, <1>6, <1>7 DEF Sound

\* The plan sees the end of a request.
LEMMA CheckIsSound ==
    ASSUME NEW a \in Agents, NEW c, Sound(a, c), c.plan.waiting = "transaction"
    PROVE  LET d == CheckTransaction(c) IN
           /\ Sound(a, d) /\ ~Waits(d, {"completed"})
           /\ d.plan.current # None \/ d.plan.queue = <<>>
           /\ d.execution = c.execution
           /\ d = c \/ d.request = None
<1>1. a \in Customers
  BY DEF Sound, Agents
<1>2. /\ c \in Characters(a) /\ ~c.raised /\ PlanSound(c)
      /\ RequestSound(c) /\ ExecutionSound(c)
  BY <1>1 DEF Sound
<1>3. /\ c.request # None /\ c.plan.current # None /\ c.plan.queue = <<>>
      /\ QueuedIds(c) = {}
  BY <1>2 DEF RequestSound, PlanSound, QueuedIds
<1> DEFINE b == [c EXCEPT !.request = None]
<1>4. /\ b \in Characters(a) /\ b.request = None
      /\ b.plan = c.plan /\ b.story = c.story /\ b.at = c.at /\ b.paid = c.paid
      /\ b.preempted = c.preempted /\ b.execution = c.execution /\ b.raised = c.raised
  BY <1>1, <1>2, RequestIs
<1>5. CASE Waits(c, {"failed"})
  <2> DEFINE d == FailPlanAction(b)
  <2>0. ~Waits(c, {"completed"})
    BY <1>5 DEF Waits
  <2>1. CheckTransaction(c) = d
    BY <1>3, <1>5, <2>0 DEF CheckTransaction
  <2>2. c.execution = None /\ ~Waits(c, {"completed"})
    BY <1>2, <1>5 DEF ExecutionSound, Waits
  <2> HIDE DEF b
  <2>3. /\ d \in Characters(a) /\ PlanIdle(d) /\ d.plan.waiting = "no" /\ Alike(b, d)
        /\ EndsWith(b, d, CurrentIds(b), "failed")
    BY <1>3, <1>4, FailIs
  <2>4. CurrentIds(b) = CurrentIds(c) \union QueuedIds(c)
    BY <1>3, <1>4 DEF CurrentIds
  <2> HIDE DEF d
  <2>5. Sound(a, d)
    BY <1>2, <1>4, <2>2, <2>3, <2>4, EndedIsSound DEF Terminal, Alike
  <2> QED BY <1>4, <2>1, <2>2, <2>3, <2>5 DEF Alike, PlanIdle, Waits
<1>6. CASE Waits(c, {"completed"})
  <2> DEFINE d == CompletePlanAction(b)
  <2>0. ~Waits(c, {"failed"})
    BY <1>6 DEF Waits
  <2>1. CheckTransaction(c) = d
    BY <1>3, <1>6, <2>0 DEF CheckTransaction
  <2>2. c.execution = None
    BY <1>2, <1>6 DEF ExecutionSound, Waits
  <2> HIDE DEF b
  <2>3. /\ d \in Characters(a) /\ PlanIdle(d) /\ d.plan.waiting = "no" /\ Alike(b, d)
        /\ EndsWith(b, d, CurrentIds(b), "completed")
    BY <1>3, <1>4, CompleteIs
  <2>4. CurrentIds(b) = CurrentIds(c) \union QueuedIds(c)
    BY <1>3, <1>4 DEF CurrentIds
  <2> HIDE DEF d
  <2>5. Sound(a, d)
    BY <1>2, <1>4, <1>6, <2>2, <2>3, <2>4, EndedIsSound DEF Terminal, Alike
  <2> QED BY <1>4, <2>1, <2>2, <2>3, <2>5 DEF Alike, PlanIdle, Waits
<1>7. CASE ~Waits(c, {"failed"}) /\ ~Waits(c, {"completed"})
  BY <1>3, <1>7 DEF CheckTransaction
<1> QED BY <1>5, <1>6, <1>7

\* The next action of a plan becomes the current one.
LEMMA TakeIs ==
    ASSUME NEW a \in Agents, NEW c, Sound(a, c), c.plan.current = None, c.plan.queue # <<>>
    PROVE  LET d == TakeNext(c)
               e == Tell(d, CurrentIds(d), "started") IN
           /\ e \in Characters(a) /\ Alike(c, e)
           /\ e.plan.queue = <<>> /\ e.plan.current \in Actions(a)
           /\ e.plan.current # None /\ e.plan.waiting = c.plan.waiting
           /\ CurrentIds(e) = CurrentIds(c) \union QueuedIds(c)
           /\ DOMAIN e.story = DOMAIN c.story
           /\ \A id \in DOMAIN c.story : EndsOf(e, id) = EndsOf(c, id)
<1>1. c \in Characters(a) /\ Len(c.plan.queue) = 1
  BY DEF Sound, PlanSound
<1> DEFINE plan == [c.plan EXCEPT !.current = Head(c.plan.queue), !.queue = Tail(@)]
           d == TakeNext(c)
           e == Tell(d, CurrentIds(d), "started")
<1>2. /\ c.plan.queue \in Seq(Actions(a)) /\ c.plan \in Plans(a)
  BY <1>1, Fields
<1>3. /\ Head(c.plan.queue) \in Actions(a) /\ Tail(c.plan.queue) = <<>>
      /\ Head(c.plan.queue) = c.plan.queue[1] /\ DOMAIN c.plan.queue = {1}
  <2> DEFINE q == c.plan.queue
  <2>1. q \in Seq(Actions(a)) /\ q # <<>> /\ Len(q) = 1
    BY <1>1, <1>2
  <2> HIDE DEF q
  <2>2. Head(q) = q[1] /\ Head(q) \in Actions(a)
    BY <2>1
  <2>3. Tail(q) = <<>>
    <3>1. Tail(q) \in Seq(Actions(a)) /\ Len(Tail(q)) = 0
      BY <2>1, HeadTailProperties
    <3> QED BY <3>1, EmptySeq
  <2>4. DOMAIN q = {1}
    BY <2>1
  <2> QED BY <2>2, <2>3, <2>4 DEF q
<1>4. /\ plan \in Plans(a) /\ plan.queue = <<>> /\ plan.current = Head(c.plan.queue)
      /\ plan.waiting = c.plan.waiting
  <2> DEFINE h == Head(c.plan.queue)
             t == Tail(c.plan.queue)
  <2>1. h \in Actions(a) /\ t = <<>> /\ t \in Seq(Actions(a))
    BY <1>3, EmptySeq
  <2>2. plan = [c.plan EXCEPT !.current = h, !.queue = t]
    BY <1>2 DEF Plans
  <2> HIDE DEF h, t, plan
  <2>3. plan.current = h /\ plan.queue = t /\ plan.waiting = c.plan.waiting /\ plan \in Plans(a)
    BY <1>2, <2>1, <2>2 DEF Plans
  <2> QED BY <2>1, <2>3 DEF h
<1>5. d = [c EXCEPT !.plan = plan]
  BY DEF TakeNext
<1> HIDE DEF plan
<1>6. /\ d \in Characters(a) /\ d.plan = plan /\ Alike(c, d) /\ d.story = c.story
  BY <1>1, <1>4, <1>5, ReplanIs
<1> HIDE DEF d
<1>7. /\ e \in Characters(a) /\ e.plan = d.plan /\ Alike(d, e)
      /\ EndsWith(d, e, CurrentIds(d), "started")
  BY <1>6, TellIs DEF Events
<1> HIDE DEF e
<1>8. plan.current # None
  BY <1>3, <1>4, NoneAssumption
<1>9. CurrentIds(e) = CurrentIds(c) \union QueuedIds(c)
  BY <1>3, <1>4, <1>6, <1>7, <1>8 DEF CurrentIds, QueuedIds
<1>10. \A id \in DOMAIN c.story : EndsOf(e, id) = EndsOf(c, id)
  BY <1>6, <1>7 DEF EndsWith, EndsOf, Terminal
<1>11. DOMAIN e.story = DOMAIN c.story
  BY <1>6, <1>7 DEF EndsWith
<1> QED BY <1>3, <1>4, <1>6, <1>7, <1>8, <1>9, <1>10, <1>11 DEF Alike, d, e

\* A plan action that cannot start is failed.
LEMMA TakenFailsSoundly ==
    ASSUME NEW a \in Agents, NEW c, Sound(a, c), c.request = None, c.execution = None,
           NEW e \in Characters(a), Alike(c, e), e.plan.queue = <<>>,
           CurrentIds(e) = CurrentIds(c) \union QueuedIds(c),
           DOMAIN e.story = DOMAIN c.story,
           \A id \in DOMAIN c.story : EndsOf(e, id) = EndsOf(c, id)
    PROVE  /\ Sound(a, FailPlanAction(e)) /\ Alike(c, FailPlanAction(e))
           /\ a \in Clerks => /\ Sound(a, CompletePlanAction(e))
                              /\ Alike(c, CompletePlanAction(e))
<1> DEFINE d == FailPlanAction(e)
           f == CompletePlanAction(e)
<1>1. /\ d \in Characters(a) /\ PlanIdle(d) /\ d.plan.waiting = "no" /\ Alike(e, d)
      /\ EndsWith(e, d, CurrentIds(e), "failed")
  BY FailIs
<1>2. /\ f \in Characters(a) /\ PlanIdle(f) /\ f.plan.waiting = "no" /\ Alike(e, f)
      /\ EndsWith(e, f, CurrentIds(e), "completed")
  BY CompleteIs
<1> HIDE DEF d, f
<1>3. ~c.raised /\ ~Waits(c, {"completed"})
  BY DEF Sound, Waits
<1>4. Sound(a, d)
  BY <1>1, <1>3, EndedIsSound DEF Terminal, Alike
<1>5. a \in Clerks => Sound(a, f)
  <2> SUFFICES ASSUME a \in Clerks PROVE Sound(a, f)
    OBVIOUS
  <2>1. a \notin Customers
    BY PeopleAssumption
  <2> QED BY <1>2, <1>3, <2>1, EndedIsSound DEF Terminal, Alike
<1> QED BY <1>1, <1>2, <1>4, <1>5 DEF Alike, d, f

\* A customer starts a transaction, or fails to.
LEMMA TransactIsSound ==
    ASSUME NEW a \in Customers, NEW c, Sound(a, c), c.plan.current = None,
           c.plan.queue # <<>>
    PROVE  LET d == TakeNext(c)
               e == Tell(d, CurrentIds(d), "started")
               f == StartTransact(a, e) IN
           /\ e.plan.current.act = "TRANSACT"
           /\ Sound(a, f) /\ f.execution = c.execution
           /\ f.request = None \/ f.request.status = "requested"
<1> DEFINE d == TakeNext(c)
           e == Tell(d, CurrentIds(d), "started")
           f == StartTransact(a, e)
           x == e.plan.current
<1>1. a \in Agents /\ a \notin Clerks
  BY PeopleAssumption DEF Agents
<1>2. /\ e \in Characters(a) /\ Alike(c, e)
      /\ e.plan.queue = <<>> /\ x \in Actions(a)
      /\ x # None /\ e.plan.waiting = c.plan.waiting
      /\ CurrentIds(e) = CurrentIds(c) \union QueuedIds(c)
      /\ DOMAIN e.story = DOMAIN c.story
      /\ \A id \in DOMAIN c.story : EndsOf(e, id) = EndsOf(c, id)
  BY <1>1, TakeIs
<1> HIDE DEF d, e
<1>3. x.act = "TRANSACT" /\ x.target \in Deals /\ x.id \in Nat
  BY <1>2 DEF Actions
<1>4. /\ c \in Characters(a) /\ ~c.raised /\ PlanSound(c) /\ RequestSound(c)
      /\ ExecutionSound(c) /\ Accounted(c)
  BY DEF Sound
<1>5. c.request = None /\ c.execution = None
  BY <1>4 DEF RequestSound, ExecutionSound, Waits
<1>6. CASE ~AtCounter(a, x.target[1])
  <2>1. f = FailPlanAction(e)
    BY <1>6 DEF StartTransact
  <2>2. Sound(a, FailPlanAction(e)) /\ Alike(c, FailPlanAction(e))
    BY <1>1, <1>2, <1>5, TakenFailsSoundly
  <2> QED BY <1>3, <1>5, <2>1, <2>2 DEF Alike, e, d
<1>7. CASE AtCounter(a, x.target[1])
  <2> DEFINE r == [id |-> x.id, point |-> x.target[1], offer |-> x.target[2],
                   status |-> "requested", left |-> 0, operator |-> None, by |-> None]
             plan == [e.plan EXCEPT !.waiting = "transaction"]
             g == [e EXCEPT !.plan = plan]
  <2>1. f = [g EXCEPT !.request = r]
    BY <1>2, <1>5, <1>7 DEF StartTransact, Alike
  <2>2. r \in Requests /\ r # None
    <3>1. /\ x.target[1] \in Points /\ x.target[2] \in OfferIds
      BY <1>3 DEF Deals
    <3>2. r \in Requests
      BY <1>3, <3>1 DEF Requests, Pending
    <3> QED BY <3>2, NoneAssumption
  <2>3. plan \in Plans(a) /\ plan.current = x /\ plan.queue = <<>>
        /\ plan.waiting = "transaction"
    BY <1>2 DEF Characters, Plans
  <2>4. /\ r.id = x.id /\ <<r.point, r.offer>> = x.target /\ r.by = None
        /\ r.status = "requested"
    BY <1>3 DEF Deals
  <2> HIDE DEF r, plan
  <2>5. g \in Characters(a) /\ g.plan = plan /\ Alike(e, g) /\ g.story = e.story
    BY <1>2, <2>3, ReplanIs
  <2> HIDE DEF g
  <2>6. /\ f \in Characters(a) /\ f.request = r
        /\ f.plan = plan /\ f.story = e.story /\ f.paid = c.paid
        /\ f.preempted = c.preempted /\ f.execution = None /\ ~f.raised
    BY <1>2, <1>4, <1>5, <2>1, <2>2, <2>5, RequestIs DEF Alike
  <2> HIDE DEF f
  <2>7. \A id \in DOMAIN c.story : EndsOf(f, id) = EndsOf(c, id) /\ Times(f, id) = Times(c, id)
    BY <1>2, <2>6 DEF EndsOf, Times
  <2>8. CurrentIds(f) = CurrentIds(c) \union QueuedIds(c) /\ QueuedIds(f) = {}
    BY <1>2, <2>3, <2>6 DEF CurrentIds, QueuedIds
  <2>9. ~c.preempted
    BY <1>4 DEF PlanSound, PlanIdle
  <2>10. PlanSound(f)
    BY <1>2, <1>4, <2>3, <2>6, <2>7, <2>8, <2>9 DEF PlanSound
  <2>11. RequestSound(f)
    BY <1>2, <1>3, <2>2, <2>3, <2>4, <2>6 DEF RequestSound
  <2>12. ExecutionSound(f) /\ ~Waits(f, {"completed"})
    BY <2>2, <2>4, <2>6 DEF ExecutionSound, Waits
  <2>13. Accounted(f)
    BY <1>2, <1>4, <1>5, <2>6, <2>7, <2>12 DEF Accounted, Waits
  <2>14. Sound(a, f)
    BY <1>1, <2>6, <2>10, <2>11, <2>12, <2>13 DEF Sound
  <2> QED BY <1>3, <1>5, <2>4, <2>6, <2>14 DEF e, d, f
<1> QED BY <1>6, <1>7

LEMMA RequestFields ==
    ASSUME NEW r \in Requests
    PROVE  /\ r.id \in Nat /\ r.point \in Points /\ r.offer \in OfferIds /\ r.left \in Nat
           /\ r.operator \in Clerks \union {None} /\ r.by \in Clerks \union {None}
           /\ r.status \in Pending \union {"running"} \union Ended
BY DEF Requests

\* A request that has not completed fails.
LEMMA FailedIsSound ==
    ASSUME NEW a \in Customers, NEW c, Sound(a, c), c.request # None,
           ~Waits(c, {"completed"}), c.execution = None
    PROVE  Sound(a, Fail(c)) /\ Fail(c).paid = c.paid /\ Waits(Fail(c), {"failed"})
           /\ Fail(c).execution = None
<1> DEFINE r == [c.request EXCEPT !.status = "failed"]
           d == [c EXCEPT !.request = r]
<1>1. c \in Characters(a) /\ ~c.raised /\ RequestSound(c)
  BY DEF Sound
<1>2. c.request \in Requests
  BY <1>1, Fields
<1>3. /\ r \in Requests /\ r.status = "failed"
      /\ r.id = c.request.id /\ r.point = c.request.point /\ r.offer = c.request.offer
      /\ r.operator = c.request.operator /\ r.by = c.request.by
  BY <1>2 DEF Requests, Ended
<1>4. Fail(c) = d
  BY DEF Fail
<1> HIDE DEF r
<1>5. /\ d \in Characters(a) /\ d.request = r
      /\ d.plan = c.plan /\ d.story = c.story /\ d.paid = c.paid
      /\ d.preempted = c.preempted /\ d.execution = c.execution /\ d.raised = c.raised
  BY <1>1, <1>3, RequestIs
<1> HIDE DEF d
<1>6. ExecutionSound(d) /\ Waits(d, {"failed"})
  BY <1>3, <1>5, NoneAssumption DEF ExecutionSound, Waits
<1>7. d.request.by \in {None, d.request.operator}
  BY <1>1, <1>3, <1>5 DEF RequestSound
<1>8. Sound(a, d)
  BY <1>1, <1>3, <1>5, <1>6, <1>7, RequestSoundly
<1> QED BY <1>4, <1>5, <1>6, <1>8

\* A transaction that is cancelled fails its request.
LEMMA CancelledIsSound ==
    ASSUME NEW a \in Customers, NEW c, Sound(a, c), c.execution # None
    PROVE  LET d == CancelTransaction(c) IN
           Sound(a, d) /\ d.paid = c.paid /\ Waits(d, {"failed"})
<1> DEFINE r == [c.request EXCEPT !.status = "failed"]
           b == [c EXCEPT !.execution = None]
           d == [b EXCEPT !.request = r]
<1>1. c \in Characters(a) /\ ~c.raised /\ RequestSound(c) /\ ExecutionSound(c)
  BY DEF Sound
<1>2. c.request # None /\ c.request \in Requests /\ c.request.status = "running"
  BY <1>1, Fields DEF ExecutionSound, Waits
<1>3. /\ r \in Requests /\ r.status = "failed"
      /\ r.id = c.request.id /\ r.point = c.request.point /\ r.offer = c.request.offer
      /\ r.operator = c.request.operator /\ r.by = c.request.by
  BY <1>2 DEF Requests, Ended
<1>4. CancelTransaction(c) = d
  BY <1>1, <1>2 DEF CancelTransaction, Characters
<1> HIDE DEF r
<1>5. /\ b \in Characters(a) /\ b.execution = None /\ b.request = c.request
      /\ b.plan = c.plan /\ b.story = c.story /\ b.paid = c.paid
      /\ b.preempted = c.preempted /\ b.raised = c.raised
  BY <1>1 DEF Characters
<1> HIDE DEF b
<1>6. /\ d \in Characters(a) /\ d.request = r
      /\ d.plan = c.plan /\ d.story = c.story /\ d.paid = c.paid
      /\ d.preempted = c.preempted /\ d.execution = None /\ d.raised = c.raised
  BY <1>3, <1>5, RequestIs
<1> HIDE DEF d
<1>7. ExecutionSound(d) /\ Waits(d, {"failed"})
  BY <1>3, <1>6, NoneAssumption DEF ExecutionSound, Waits
<1>8. d.request.by \in {None, d.request.operator} /\ ~Waits(c, {"completed"})
  BY <1>1, <1>2, <1>3, <1>6 DEF RequestSound, Waits
<1>9. Sound(a, d)
  BY <1>1, <1>2, <1>3, <1>6, <1>7, <1>8, RequestSoundly
<1> QED BY <1>4, <1>6, <1>7, <1>9

\* System 1 takes everything from the customer.
LEMMA PreemptedIsSound ==
    ASSUME NEW a \in Customers, NEW c, Sound(a, c), ~Waits(c, {"completed"})
    PROVE  Sound(a, Preempt(c)) /\ Preempt(c).request = None
<1> DEFINE b == ClearPlanLineage(c)
           k == CancelTransaction(b)
           d == [k EXCEPT !.request = None, !.preempted = TRUE]
<1>1. c \in Characters(a) /\ ~c.raised
  BY DEF Sound
<1>2. /\ b \in Characters(a) /\ b.plan = EmptyPlan /\ PlanIdle(b) /\ Alike(c, b)
      /\ EndsWith(c, b, CurrentIds(c) \union QueuedIds(c), "cancelled")
  BY <1>1, ClearIs
<1> HIDE DEF b
<1>3. /\ k.plan = b.plan /\ k.story = b.story /\ k.at = b.at /\ k.paid = b.paid
      /\ k.raised = b.raised /\ k.execution = None
      /\ k = [b EXCEPT !.execution = k.execution, !.request = k.request]
  <2>1. CASE b.execution = None
    BY <1>2, <2>1 DEF CancelTransaction, Characters
  <2>2. CASE b.execution # None
    <3> DEFINE q == IF b.request = None THEN None ELSE [b.request EXCEPT !.status = "failed"]
    <3>1. k = [b EXCEPT !.execution = None, !.request = q]
      BY <1>2, <2>2 DEF CancelTransaction, Characters
    <3> HIDE DEF q, k
    <3> QED BY <1>2, <3>1 DEF Characters
  <2> QED BY <2>1, <2>2
<1> HIDE DEF k
<1>4. /\ d \in Characters(a) /\ d.plan = EmptyPlan /\ d.story = b.story
      /\ d.paid = c.paid /\ ~d.raised /\ d.execution = None /\ d.request = None
  <2>1. d = [b EXCEPT !.execution = None, !.request = None, !.preempted = TRUE]
    BY <1>2, <1>3 DEF Characters
  <2> HIDE DEF d
  <2> QED BY <1>1, <1>2, <2>1 DEF Characters, Alike
<1> HIDE DEF d
<1>5. /\ d.plan.waiting = "no" /\ PlanIdle(d)
      /\ EndsWith(c, d, CurrentIds(c) \union QueuedIds(c), "cancelled")
  BY <1>2, <1>4 DEF EmptyPlan, PlanIdle, EndsWith, EndsOf
<1>6. a \in Agents
  BY DEF Agents
<1>7. Sound(a, d)
  BY <1>4, <1>5, <1>6, EndedIsSound DEF Terminal
<1>8. Preempt(c) = d
  BY DEF Preempt, d, k, b
<1> QED BY <1>4, <1>7, <1>8

\* System 1 lets go of a customer.
LEMMA ReleasedIsSound ==
    ASSUME NEW a \in Agents, NEW c, Sound(a, c), NEW at \in Places
    PROVE  /\ Sound(a, [c EXCEPT !.preempted = FALSE])
           /\ [c EXCEPT !.preempted = FALSE].request = c.request
           /\ Sound(a, [c EXCEPT !.at = at])
           /\ [c EXCEPT !.at = at].request = c.request
           /\ PlanIdle(c) => PlanIdle([c EXCEPT !.at = at])
<1> DEFINE d == [c EXCEPT !.preempted = FALSE]
           e == [c EXCEPT !.at = at]
<1>1. c \in Characters(a)
  BY DEF Sound
<1>2. /\ d \in Characters(a) /\ d.plan = c.plan /\ d.story = c.story /\ d.paid = c.paid
      /\ d.preempted = FALSE /\ d.request = c.request /\ d.execution = c.execution
      /\ d.raised = c.raised
  BY <1>1 DEF Characters
<1>3. /\ e \in Characters(a) /\ e.plan = c.plan /\ e.story = c.story /\ e.paid = c.paid
      /\ e.preempted = c.preempted /\ e.request = c.request /\ e.execution = c.execution
      /\ e.raised = c.raised
  BY <1>1 DEF Characters
<1> HIDE DEF d, e
<1>4. ASSUME NEW f \in {d, e}
      PROVE  Sound(a, f)
  <2>1. /\ \A id : EndsOf(f, id) = EndsOf(c, id) /\ Times(f, id) = Times(c, id)
        /\ CurrentIds(f) = CurrentIds(c) /\ QueuedIds(f) = QueuedIds(c)
        /\ (PlanIdle(f) <=> PlanIdle(c))
    BY <1>2, <1>3 DEF EndsOf, Times, CurrentIds, QueuedIds, PlanIdle
  <2>2. PlanSound(f)
    BY <1>2, <1>3, <2>1 DEF Sound, PlanSound
  <2>3. a \in Customers => RequestSound(f) /\ ExecutionSound(f)
    BY <1>2, <1>3 DEF Sound, RequestSound, ExecutionSound, Waits
  <2>4. a \in Customers => Accounted(f)
    BY <1>2, <1>3, <2>1 DEF Sound, Accounted, Waits
  <2> QED BY <1>2, <1>3, <2>2, <2>3, <2>4 DEF Sound
<1> QED BY <1>2, <1>3, <1>4 DEF d, e, PlanIdle

\* An iteration of a running transaction cancels it, goes on, or is paid.
LEMMA AdvancedIsSound ==
    ASSUME NEW a \in Customers, NEW c, Sound(a, c), c.execution # None
    PROVE  LET d == Advanced(a, c) IN
           /\ Sound(a, d)
           /\ d.request # None /\ d.request.status \in {"failed", "running", "completed"}
           /\ d.request.status = "running" => d.request = c.request
           /\ \/ d.paid = c.paid
              \/ /\ Affordable(a, c.request.point, c.request.offer)
                 /\ Len(d.paid) > Len(c.paid)
<1> DEFINE x == c.execution
           y == [x EXCEPT !.left = @ - 1]
           d == [c EXCEPT !.execution = y]
<1>1. /\ c \in Characters(a) /\ ~c.raised /\ PlanSound(c) /\ RequestSound(c)
      /\ ExecutionSound(c) /\ Accounted(c) /\ a \notin Clerks
  BY PeopleAssumption DEF Sound
<1>2. /\ c.request # None /\ c.request \in Requests /\ c.request.status = "running"
      /\ x \in Executions /\ ~Waits(c, {"completed"})
  BY <1>1, Fields DEF ExecutionSound, Waits
<1>3. /\ x.id = c.request.id /\ x.point = c.request.point /\ x.offer = c.request.offer
      /\ x.operator = c.request.by /\ x.left \in 1..Lasts[x.offer]
  BY <1>1 DEF ExecutionSound
<1>4. Lasts[x.offer] \in Nat
  <2>1. <<x.point, x.offer>> \in Deals
    BY <1>1, <1>2, <1>3 DEF RequestSound
  <2>2. <<x.point, x.offer>>[2] = x.offer
    OBVIOUS
  <2> QED BY <2>1, <2>2, GoodsAssumption
<1>5. CASE ~Allowed(a, x.point, x.offer, x.operator)
  <2>1. Advanced(a, c) = CancelTransaction(c)
    BY <1>5 DEF Advanced
  <2>2. Sound(a, CancelTransaction(c)) /\ CancelTransaction(c).paid = c.paid
        /\ Waits(CancelTransaction(c), {"failed"})
    BY CancelledIsSound
  <2> QED BY <2>1, <2>2 DEF Waits
<1> SUFFICES ASSUME Allowed(a, x.point, x.offer, x.operator)
             PROVE  LET f == Advanced(a, c) IN
                    /\ Sound(a, f)
                    /\ f.request # None /\ f.request.status \in {"failed", "running", "completed"}
                    /\ f.request.status = "running" => f.request = c.request
                    /\ \/ f.paid = c.paid
                       \/ /\ Affordable(a, c.request.point, c.request.offer)
                          /\ Len(f.paid) > Len(c.paid)
  BY <1>5
<1>6. Affordable(a, x.point, x.offer)
  BY DEF Allowed
<1>7. d = [c EXCEPT !.execution.left = @ - 1] /\ y.left = x.left - 1 /\ d.execution = y
  BY <1>1, <1>2 DEF Characters, Executions
<1>8. CASE x.left - 1 > 0
  <2>1. Advanced(a, c) = d
    BY <1>7, <1>8 DEF Advanced
  <2>2. /\ y \in Executions /\ y.id = x.id /\ y.point = x.point /\ y.offer = x.offer
        /\ y.operator = x.operator /\ y.left \in 1..Lasts[y.offer]
    BY <1>2, <1>3, <1>4, <1>8 DEF Executions
  <2> HIDE DEF y
  <2>3. /\ d \in Characters(a) /\ d.plan = c.plan /\ d.story = c.story /\ d.paid = c.paid
        /\ d.preempted = c.preempted /\ d.request = c.request /\ d.execution = y
        /\ ~d.raised
    BY <1>1, <2>2 DEF Characters
  <2> HIDE DEF d
  <2>4. y # None
    BY <2>2, NoneAssumption
  <2>5. ExecutionSound(d)
    BY <1>2, <1>3, <2>2, <2>3, <2>4 DEF ExecutionSound, Waits
  <2>6. Sound(a, d)
    BY <1>1, <1>2, <2>3, <2>5, RequestSoundly DEF RequestSound
  <2> QED BY <1>2, <2>1, <2>3, <2>6
<1>9. CASE ~(x.left - 1 > 0)
  <2> DEFINE r == [c.request EXCEPT !.status = "completed"]
             f == [c EXCEPT !.execution = None, !.request = r, !.paid = Append(c.paid, x.id)]
  <2>1. Advanced(a, c) = [d EXCEPT !.execution = None, !.request.status = "completed",
                                   !.paid = Append(@, x.id)]
    BY <1>6, <1>7, <1>9 DEF Advanced
  <2>2. Advanced(a, c) = f
    BY <1>1, <2>1 DEF Characters
  <2>3. /\ r \in Requests /\ r.status = "completed"
        /\ r.id = c.request.id /\ r.point = c.request.point /\ r.offer = c.request.offer
        /\ r.operator = c.request.operator /\ r.by = c.request.by
    BY <1>2 DEF Requests, Ended
  <2> HIDE DEF r
  <2>4. c.paid \in Seq(Nat) /\ x.id \in Nat
    BY <1>1, <1>2, Fields DEF Executions
  <2>5. /\ f \in Characters(a) /\ f.plan = c.plan /\ f.story = c.story
        /\ f.paid = Append(c.paid, x.id)
        /\ f.preempted = c.preempted /\ f.request = r /\ f.execution = None /\ ~f.raised
    <3> DEFINE w == Append(c.paid, x.id)
    <3>1. w \in Seq(Nat) /\ f = [c EXCEPT !.execution = None, !.request = r, !.paid = w]
      BY <2>4
    <3> HIDE DEF w, f
    <3>2. /\ f \in Characters(a) /\ f.plan = c.plan /\ f.story = c.story /\ f.paid = w
          /\ f.preempted = c.preempted /\ f.request = r /\ f.execution = None /\ ~f.raised
      BY <1>1, <2>3, <3>1 DEF Characters
    <3> QED BY <3>2 DEF w
  <2> HIDE DEF f
  <2>6. /\ \A id : EndsOf(f, id) = EndsOf(c, id)
        /\ CurrentIds(f) = CurrentIds(c) /\ QueuedIds(f) = QueuedIds(c)
        /\ (PlanIdle(f) <=> PlanIdle(c))
    BY <2>5 DEF EndsOf, CurrentIds, QueuedIds, PlanIdle
  <2>7. \A id : Times(f, id) = IF id = x.id THEN Times(c, id) + 1 ELSE Times(c, id)
    <3>1. c.paid \in Seq(Nat) /\ x.id \in Nat /\ f.paid = Append(c.paid, x.id)
      BY <2>4, <2>5
    <3> HIDE DEF x
    <3> QED BY <3>1, PayingCounts
  <2>8. PlanSound(f)
    BY <1>1, <2>5, <2>6 DEF PlanSound
  <2>9. r # None
    BY <2>3, NoneAssumption
  <2>10. RequestSound(f)
    BY <1>1, <1>2, <2>3, <2>5, <2>9 DEF RequestSound
  <2>11. ExecutionSound(f) /\ Waits(f, {"completed"})
    BY <2>3, <2>5, <2>9 DEF ExecutionSound, Waits
  <2>12. /\ x.id \in DOMAIN c.story /\ EndsOf(c, x.id) = {} /\ Times(c, x.id) = 0
    <3>1. x.id \in CurrentIds(c)
      BY <1>1, <1>2, <1>3 DEF RequestSound, CurrentIds
    <3> QED BY <1>2, <3>1, PlannedIsOpen
  <2>13. Accounted(f)
    <3>1. \A n \in DOMAIN f.paid : f.paid[n] \in DOMAIN f.story
      <4>1. DOMAIN f.paid = DOMAIN c.paid \union {Len(c.paid) + 1}
            /\ f.paid[Len(c.paid) + 1] = x.id
            /\ \A n \in DOMAIN c.paid : f.paid[n] = c.paid[n]
        BY <2>4, <2>5
      <4> QED BY <1>1, <2>5, <2>12, <4>1 DEF Accounted
    <3>2. \A id \in DOMAIN f.story :
            \/ Times(f, id) = 0 /\ "completed" \notin EndsOf(f, id)
            \/ Times(f, id) = 1 /\ EndsOf(f, id) = {"completed"}
            \/ /\ Times(f, id) = 1 /\ EndsOf(f, id) = {}
               /\ Waits(f, {"completed"}) /\ f.request.id = id
      <4> TAKE id \in DOMAIN f.story
      <4>1. CASE id = x.id
        BY <1>3, <2>3, <2>5, <2>6, <2>7, <2>11, <2>12, <4>1
      <4>2. CASE id # x.id
        BY <1>1, <1>2, <2>5, <2>6, <2>7, <4>2 DEF Accounted
      <4> QED BY <4>1, <4>2
    <3>3. Times(f, f.request.id) = 1
      BY <1>3, <2>3, <2>5, <2>7, <2>12
    <3> QED BY <3>1, <3>2, <3>3 DEF Accounted
  <2>14. Sound(a, f)
    BY <1>1, <2>5, <2>8, <2>10, <2>11, <2>13 DEF Sound
  <2>15. Len(f.paid) > Len(c.paid)
    BY <2>4, <2>5
  <2> QED BY <1>3, <1>6, <2>2, <2>3, <2>5, <2>9, <2>14, <2>15
<1>10. x.left - 1 > 0 \/ ~(x.left - 1 > 0)
  OBVIOUS
<1> QED BY <1>8, <1>9, <1>10

\* A request that starts runs from then on.
LEMMA StartedIsSound ==
    ASSUME NEW a \in Customers, NEW c, Sound(a, c), c.execution = None,
           Waits(c, {"requested", "authorized"})
    PROVE  LET d == Started(a, c) IN
           /\ Sound(a, d)
           /\ d.request # None /\ d.request.status \in {"failed", "running", "completed"}
           /\ d.request.status = "running" =>
                /\ d.request.point = c.request.point /\ d.request.by = c.request.by
                /\ d.request.operator = c.request.operator
           /\ \/ d.paid = c.paid
              \/ /\ Affordable(a, c.request.point, c.request.offer)
                 /\ Len(d.paid) > Len(c.paid)
<1> DEFINE r == c.request
           q == [r EXCEPT !.status = "running"]
           x == [point |-> r.point, offer |-> r.offer, id |-> r.id,
                 left |-> Lasts[r.offer], operator |-> r.by]
           e == [c EXCEPT !.request = q, !.execution = x]
<1>1. /\ c \in Characters(a) /\ ~c.raised /\ RequestSound(c)
      /\ ~Waits(c, {"completed"}) /\ r # None
  BY DEF Sound, Waits
<1>2. r \in Requests
  BY <1>1, Fields
<1>3. CASE ~(Allowed(a, r.point, r.offer, r.by) /\ HasRoom(a, r.point))
  <2>1. Started(a, c) = Fail(c)
    BY <1>3 DEF Started
  <2>2. Sound(a, Fail(c)) /\ Fail(c).paid = c.paid /\ Waits(Fail(c), {"failed"})
    BY <1>1, FailedIsSound
  <2> QED BY <2>1, <2>2 DEF Waits
<1>4. CASE Allowed(a, r.point, r.offer, r.by) /\ HasRoom(a, r.point)
  <2>1. Started(a, c) = Advanced(a, e)
    BY <1>1, <1>4 DEF Started, Characters
  <2>2. Lasts[r.offer] \in Nat /\ Lasts[r.offer] \in 1..Lasts[r.offer]
    <3>1. <<r.point, r.offer>> \in Deals /\ <<r.point, r.offer>>[2] = r.offer
      BY <1>1 DEF RequestSound
    <3>2. Lasts[r.offer] \in Nat \ {0}
      BY <3>1, GoodsAssumption
    <3> QED BY <3>2
  <2>3. /\ q \in Requests /\ q.status = "running"
        /\ q.id = r.id /\ q.point = r.point /\ q.offer = r.offer
        /\ q.operator = r.operator /\ q.by = r.by
    BY <1>2 DEF Requests
  <2>4. x \in Executions
    BY <1>2, <2>2 DEF Requests, Executions
  <2>5. /\ x.id = r.id /\ x.point = r.point /\ x.offer = r.offer /\ x.operator = r.by
        /\ x.left = Lasts[r.offer]
    OBVIOUS
  <2> HIDE DEF q, x
  <2>6. /\ e \in Characters(a) /\ e.plan = c.plan /\ e.story = c.story /\ e.paid = c.paid
        /\ e.preempted = c.preempted /\ e.request = q /\ e.execution = x /\ ~e.raised
    BY <1>1, <2>3, <2>4 DEF Characters
  <2> HIDE DEF e
  <2>7. q # None /\ x # None
    BY <2>3, <2>4, NoneAssumption
  <2>8. ExecutionSound(e)
    BY <2>2, <2>3, <2>5, <2>6, <2>7 DEF ExecutionSound, Waits
  <2>9. Sound(a, e)
    BY <1>1, <2>3, <2>6, <2>8, RequestSoundly DEF RequestSound
  <2> DEFINE d == Advanced(a, e)
  <2>10. /\ Sound(a, d)
         /\ d.request # None /\ d.request.status \in {"failed", "running", "completed"}
         /\ d.request.status = "running" => d.request = e.request
         /\ \/ d.paid = e.paid
            \/ /\ Affordable(a, e.request.point, e.request.offer)
               /\ Len(d.paid) > Len(e.paid)
    BY <2>6, <2>7, <2>9, AdvancedIsSound
  <2> HIDE DEF d
  <2>11. Started(a, c) = d
    BY <2>1 DEF d
  <2> QED BY <2>3, <2>6, <2>10, <2>11
<1> QED BY <1>3, <1>4

\* A request waits, and not forever.
LEMMA TimedOutIsSound ==
    ASSUME NEW a \in Customers, NEW c, Sound(a, c), c.execution = None,
           Waits(c, {"awaiting_staff", "awaiting_authorization"})
    PROVE  LET d == TimedOut(c) IN
           /\ Sound(a, d) /\ d.paid = c.paid
           /\ d.request # None
           /\ d.request.status \in {"failed", "awaiting_staff", "awaiting_authorization"}
<1> DEFINE r == c.request
<1>1. /\ c \in Characters(a) /\ ~c.raised /\ RequestSound(c)
      /\ ~Waits(c, {"completed"}) /\ r # None
      /\ r.status \in {"awaiting_staff", "awaiting_authorization"}
  BY DEF Sound, Waits
<1>2. r \in Requests
  BY <1>1, Fields
<1>3. r.point \in Staffed /\ r.left \in 1..Patience[r.point] /\ Patience[r.point] \in Nat
  BY <1>1, PostsAssumption DEF RequestSound
<1>4. r.by = None
  BY <1>1 DEF RequestSound
<1>5. ASSUME NEW q \in Requests, q.id = r.id, q.point = r.point, q.offer = r.offer,
             q.operator = r.operator, q.by = r.by,
             q.status = "failed" \/ (q.status = r.status /\ q.left \in 1..Patience[r.point])
      PROVE  LET d == [c EXCEPT !.request = q] IN
             /\ Sound(a, d) /\ d.paid = c.paid /\ d.request = q /\ d.request # None
  <2> DEFINE d == [c EXCEPT !.request = q]
  <2>1. /\ d \in Characters(a) /\ d.request = q
        /\ d.plan = c.plan /\ d.story = c.story /\ d.paid = c.paid
        /\ d.preempted = c.preempted /\ d.execution = c.execution /\ d.raised = c.raised
    BY <1>1, RequestIs
  <2> HIDE DEF d
  <2>2. q # None
    BY NoneAssumption
  <2>3. ExecutionSound(d)
    BY <1>1, <1>5, <2>1, <2>2 DEF ExecutionSound, Waits
  <2>4. Sound(a, d)
    BY <1>1, <1>3, <1>4, <1>5, <2>1, <2>3, RequestSoundly
  <2> QED BY <2>1, <2>2, <2>4 DEF d
<1>6. CASE r.left > 1
  <2> DEFINE q == [r EXCEPT !.left = r.left - 1]
  <2>1. TimedOut(c) = [c EXCEPT !.request = q]
    BY <1>1, <1>2, <1>6 DEF TimedOut, Characters, Requests
  <2>2. /\ q \in Requests /\ q.status = r.status /\ q.left = r.left - 1
        /\ q.id = r.id /\ q.point = r.point /\ q.offer = r.offer
        /\ q.operator = r.operator /\ q.by = r.by
    BY <1>2, <1>3, <1>6 DEF Requests
  <2>3. q.left \in 1..Patience[r.point]
    BY <1>3, <1>6, <2>2
  <2> HIDE DEF q
  <2> QED BY <1>1, <1>5, <2>1, <2>2, <2>3
<1>7. CASE ~(r.left > 1)
  <2> DEFINE q == [r EXCEPT !.left = 0, !.status = "failed"]
  <2>1. TimedOut(c) = [c EXCEPT !.request = q]
    <3>1. TimedOut(c) = Fail([c EXCEPT !.request.left = 0])
      BY <1>7 DEF TimedOut
    <3>2. [c EXCEPT !.request.left = 0] = [c EXCEPT !.request = [r EXCEPT !.left = 0]]
      BY <1>1, <1>2 DEF Characters
    <3> QED BY <1>1, <1>2, <3>1, <3>2 DEF Fail, Characters, Requests
  <2>2. /\ q \in Requests /\ q.status = "failed"
        /\ q.id = r.id /\ q.point = r.point /\ q.offer = r.offer
        /\ q.operator = r.operator /\ q.by = r.by
    BY <1>2 DEF Requests, Ended
  <2> HIDE DEF q
  <2> QED BY <1>5, <2>1, <2>2
<1> QED BY <1>6, <1>7

\* A new request fails, waits for staff, or starts where nobody is needed.
LEMMA PreparedIsSound ==
    ASSUME NEW a \in Customers, NEW c, Sound(a, c), c.execution = None,
           Waits(c, {"requested"})
    PROVE  LET d == Prepared(a, c) IN
           /\ Sound(a, d)
           /\ d.request # None
           /\ d.request.status \in {"failed", "running", "completed", "awaiting_staff"}
           /\ d.request.status = "running" => d.request.point \notin Staffed
           /\ \/ d.paid = c.paid
              \/ /\ Affordable(a, c.request.point, c.request.offer)
                 /\ Len(d.paid) > Len(c.paid)
<1> DEFINE r == c.request
           q == [r EXCEPT !.status = "awaiting_staff", !.left = Patience[r.point]]
           e == [c EXCEPT !.request = q]
<1>1. /\ c \in Characters(a) /\ ~c.raised /\ RequestSound(c)
      /\ ~Waits(c, {"completed"}) /\ r # None /\ r.status = "requested"
  BY DEF Sound, Waits
<1>2. r \in Requests
  BY <1>1, Fields
<1>3. CASE ~Acceptable(a, r.point, r.offer)
  <2>1. Prepared(a, c) = Fail(c)
    BY <1>3 DEF Prepared
  <2>2. Sound(a, Fail(c)) /\ Fail(c).paid = c.paid /\ Waits(Fail(c), {"failed"})
    BY <1>1, FailedIsSound
  <2> QED BY <2>1, <2>2 DEF Waits
<1>4. CASE Acceptable(a, r.point, r.offer) /\ r.point \in Staffed
  <2>1. Prepared(a, c) = e
    BY <1>1, <1>2, <1>4 DEF Prepared, Characters
  <2>2. Patience[r.point] \in Nat /\ Patience[r.point] \in 1..Patience[r.point]
    BY <1>4, PostsAssumption
  <2>3. /\ q \in Requests /\ q.status = "awaiting_staff" /\ q.left = Patience[r.point]
        /\ q.id = r.id /\ q.point = r.point /\ q.offer = r.offer
        /\ q.operator = r.operator /\ q.by = r.by
    BY <1>2, <2>2 DEF Requests, Pending
  <2> HIDE DEF q
  <2>4. /\ e \in Characters(a) /\ e.request = q
        /\ e.plan = c.plan /\ e.story = c.story /\ e.paid = c.paid
        /\ e.preempted = c.preempted /\ e.execution = c.execution /\ e.raised = c.raised
    BY <1>1, <2>3, RequestIs
  <2> HIDE DEF e
  <2>5. q # None /\ r.by = None
    BY <1>1, <2>3, NoneAssumption DEF RequestSound
  <2>6. ExecutionSound(e)
    BY <2>3, <2>4, <2>5 DEF ExecutionSound, Waits
  <2>7. Sound(a, e)
    BY <1>1, <1>4, <2>2, <2>3, <2>4, <2>5, <2>6, RequestSoundly
  <2> QED BY <2>1, <2>3, <2>4, <2>5, <2>7
<1>5. CASE Acceptable(a, r.point, r.offer) /\ r.point \notin Staffed
  <2>1. Prepared(a, c) = Started(a, c)
    BY <1>5 DEF Prepared
  <2>2. Waits(c, {"requested", "authorized"})
    BY <1>1 DEF Waits
  <2> HIDE DEF r
  <2> QED BY <1>5, <2>1, <2>2, StartedIsSound DEF r
<1> QED BY <1>3, <1>4, <1>5

\* An iteration of the transaction system over a pending request.
LEMMA RequestedIsSound ==
    ASSUME NEW a \in Customers, NEW c, Sound(a, c), c.execution = None, Waits(c, Pending)
    PROVE  LET d == Requested(a, c) IN
           /\ Sound(a, d)
           /\ d.request # None /\ d.request.status # "authorized"
           /\ d.request.status = "running" /\ d.request.point \in Staffed =>
                /\ c.request.status = "authorized"
                /\ d.request.point = c.request.point /\ d.request.by = c.request.by
                /\ d.request.operator = c.request.operator
           /\ \/ d.paid = c.paid
              \/ /\ Affordable(a, c.request.point, c.request.offer)
                 /\ Len(d.paid) > Len(c.paid)
<1>1. c.request # None /\ c.request.status \in Pending
  BY DEF Waits
<1>2. CASE c.request.status = "requested"
  <2>1. Requested(a, c) = Prepared(a, c) /\ Waits(c, {"requested"})
    BY <1>1, <1>2 DEF Requested, Waits
  <2> QED BY <2>1, PreparedIsSound
<1>3. CASE c.request.status = "authorized"
  <2>1. Requested(a, c) = Started(a, c) /\ Waits(c, {"requested", "authorized"})
    BY <1>1, <1>3 DEF Requested, Waits
  <2> QED BY <1>3, <2>1, StartedIsSound
<1>4. CASE c.request.status \in {"awaiting_staff", "awaiting_authorization"}
  <2>1. Requested(a, c) = TimedOut(c)
        /\ Waits(c, {"awaiting_staff", "awaiting_authorization"})
    BY <1>1, <1>4 DEF Requested, Waits
  <2> QED BY <2>1, TimedOutIsSound
<1> QED BY <1>1, <1>2, <1>3, <1>4 DEF Pending

\* A clerk is sent to a request that waits for one.
LEMMA AssignedIsSound ==
    ASSUME NEW a \in Customers, NEW c, Sound(a, c), Waits(c, {"awaiting_staff"}),
           NEW k \in Clerks
    PROVE  LET d == Assign(c, k) IN
           /\ Sound(a, d) /\ d.execution = c.execution
           /\ d.request # None /\ d.request.status = "awaiting_authorization"
<1> DEFINE r == c.request
           q == [r EXCEPT !.operator = k, !.status = "awaiting_authorization"]
           d == [c EXCEPT !.request = q]
<1>1. /\ c \in Characters(a) /\ ~c.raised /\ RequestSound(c) /\ ExecutionSound(c)
      /\ ~Waits(c, {"completed"}) /\ r # None /\ r.status = "awaiting_staff"
  BY DEF Sound, Waits
<1>2. r \in Requests
  BY <1>1, Fields
<1>3. Assign(c, k) = d
  BY <1>1, <1>2 DEF Assign, Characters, Requests
<1>4. /\ q \in Requests /\ q.status = "awaiting_authorization" /\ q.left = r.left
      /\ q.id = r.id /\ q.point = r.point /\ q.offer = r.offer
      /\ q.operator = k /\ q.by = r.by
  BY <1>2 DEF Requests, Pending
<1> HIDE DEF q
<1>5. /\ d \in Characters(a) /\ d.request = q
      /\ d.plan = c.plan /\ d.story = c.story /\ d.paid = c.paid
      /\ d.preempted = c.preempted /\ d.execution = c.execution /\ d.raised = c.raised
  BY <1>1, <1>4, RequestIs
<1> HIDE DEF d
<1>6. q # None /\ r.by = None /\ c.execution = None
  BY <1>1, <1>4, NoneAssumption DEF RequestSound, ExecutionSound, Waits
<1>7. ExecutionSound(d)
  BY <1>4, <1>5, <1>6 DEF ExecutionSound, Waits
<1>8. Sound(a, d)
  BY <1>1, <1>4, <1>5, <1>6, <1>7, RequestSoundly DEF RequestSound
<1> QED BY <1>3, <1>4, <1>5, <1>6, <1>8

\* The clerk that was sent authorizes the request.
LEMMA AuthorizedIsSound ==
    ASSUME NEW a \in Customers, NEW c, Sound(a, c), Waits(c, {"awaiting_authorization"}),
           NEW k \in Clerks, c.request.operator = k
    PROVE  LET d == Authorized(c, k) IN
           /\ Sound(a, d) /\ d.execution = c.execution
           /\ d.request # None /\ d.request.status = "authorized"
           /\ d.request.by = k /\ d.request.operator = k /\ d.request.point = c.request.point
<1> DEFINE r == c.request
           q == [r EXCEPT !.by = k, !.status = "authorized"]
           d == [c EXCEPT !.request = q]
<1>1. /\ c \in Characters(a) /\ ~c.raised /\ RequestSound(c) /\ ExecutionSound(c)
      /\ ~Waits(c, {"completed"}) /\ r # None /\ r.status = "awaiting_authorization"
  BY DEF Sound, Waits
<1>2. r \in Requests
  BY <1>1, Fields
<1>3. Authorized(c, k) = d
  BY <1>1, <1>2 DEF Authorized, Characters, Requests
<1>4. /\ q \in Requests /\ q.status = "authorized" /\ q.left = r.left
      /\ q.id = r.id /\ q.point = r.point /\ q.offer = r.offer
      /\ q.operator = k /\ q.by = k
  BY <1>2 DEF Requests, Pending
<1> HIDE DEF q
<1>5. /\ d \in Characters(a) /\ d.request = q
      /\ d.plan = c.plan /\ d.story = c.story /\ d.paid = c.paid
      /\ d.preempted = c.preempted /\ d.execution = c.execution /\ d.raised = c.raised
  BY <1>1, <1>4, RequestIs
<1> HIDE DEF d
<1>6. q # None /\ c.execution = None
  BY <1>1, <1>4, NoneAssumption DEF ExecutionSound, Waits
<1>7. ExecutionSound(d)
  BY <1>4, <1>5, <1>6 DEF ExecutionSound, Waits
<1>8. Sound(a, d)
  BY <1>1, <1>4, <1>5, <1>6, <1>7, RequestSoundly
<1> QED BY <1>3, <1>4, <1>5, <1>6, <1>8

\* An action is queued in an empty plan.
LEMMA QueuedIsSound ==
    ASSUME NEW a \in Agents, NEW c, Sound(a, c), PlanIdle(c), ~c.preempted,
           NEW act, NEW target,
           NewAction(c, act, target, "plan") \in Actions(a)
    PROVE  LET d == QueueAction(c, act, target, "plan") IN
           Sound(a, d) /\ d.request = c.request /\ d.execution = c.execution
<1> DEFINE x == NewAction(c, act, target, "plan")
           w == c.story
           n == Len(w) + 1
           story == Append(w, <<"queued">>)
           plan == [c.plan EXCEPT !.open = TRUE, !.queue = Append(c.plan.queue, x)]
           d == [c EXCEPT !.story = story, !.plan = plan]
<1>1. /\ c \in Characters(a) /\ ~c.raised /\ PlanSound(c)
      /\ w \in Seq(Seq(Events)) /\ c.plan \in Plans(a) /\ c.paid \in Seq(Nat)
      /\ c.plan.queue = <<>> /\ c.plan.current = None
  BY Fields DEF Sound, PlanIdle
<1>2. x.id = n
  BY DEF NewAction
<1>3. d = QueueAction(c, act, target, "plan")
  <2>1. Announce(c) = [c EXCEPT !.story = story]
    BY DEF Announce
  <2> HIDE DEF x, story
  <2> QED BY <1>1, <2>1 DEF QueueAction, Characters, Plans, x
<1>4. /\ story \in Seq(Seq(Events)) /\ DOMAIN story = DOMAIN w \union {n}
      /\ n \notin DOMAIN w /\ story[n] = <<"queued">>
      /\ \A id \in DOMAIN w : story[id] = w[id]
  <2> HIDE DEF w
  <2>1. <<"queued">> \in Seq(Events)
    BY DEF Events
  <2> QED BY <1>1, <2>1
<1>5. /\ plan \in Plans(a) /\ plan.current = None /\ plan.waiting = c.plan.waiting
      /\ Len(plan.queue) = 1 /\ DOMAIN plan.queue = {1} /\ plan.queue[1] = x
  <2> DEFINE q == Append(c.plan.queue, x)
  <2> HIDE DEF x
  <2>1. q \in Seq(Actions(a)) /\ Len(q) = 1 /\ DOMAIN q = {1} /\ q[1] = x
    <3>1. x \in Actions(a)
      BY DEF x
    <3>2. <<>> \in Seq(Actions(a)) /\ Len(<<>>) = 0
      BY EmptySeq
    <3> QED BY <1>1, <3>1, <3>2
  <2> HIDE DEF q
  <2> QED BY <1>1, <2>1 DEF Plans, q
<1> HIDE DEF x, story, plan
<1>6. /\ d \in Characters(a) /\ d.plan = plan /\ d.story = story /\ d.paid = c.paid
      /\ d.preempted = c.preempted /\ d.request = c.request
      /\ d.execution = c.execution /\ d.raised = c.raised
  BY <1>1, <1>4, <1>5 DEF Characters
<1> HIDE DEF d
<1>7. /\ \A id \in DOMAIN w : EndsOf(d, id) = EndsOf(c, id)
      /\ EndsOf(d, n) = {}
  <2>1. \A id \in DOMAIN w : EndsOf(d, id) = EndsOf(c, id)
    BY <1>4, <1>6 DEF EndsOf
  <2>2. DOMAIN story[n] = {1} /\ story[n][1] = "queued"
    BY <1>4
  <2> QED BY <1>6, <2>1, <2>2 DEF EndsOf, Terminal
<1>8. CurrentIds(d) = {} /\ QueuedIds(d) = {n}
  BY <1>2, <1>5, <1>6 DEF CurrentIds, QueuedIds
<1>9. PlanSound(d)
  BY <1>1, <1>4, <1>5, <1>6, <1>7, <1>8 DEF PlanSound
<1>10. ASSUME a \in Customers
       PROVE  RequestSound(d) /\ ExecutionSound(d) /\ Accounted(d)
  <2>1. RequestSound(c) /\ ExecutionSound(c) /\ Accounted(c)
    BY <1>10 DEF Sound
  <2>2. RequestSound(d) /\ ExecutionSound(d)
    BY <1>1, <1>5, <1>6, <2>1 DEF RequestSound, ExecutionSound, Waits
  <2>3. \A id : Times(d, id) = Times(c, id)
    BY <1>6 DEF Times
  <2>4. Times(c, n) = 0
    <3>1. {k \in DOMAIN c.paid : c.paid[k] = n} = {}
      BY <1>4, <2>1 DEF Accounted
    <3> QED BY <3>1, FS_EmptySet DEF Times
  <2>5. Accounted(d)
    <3>1. ~Waits(c, {"completed"}) /\ ~Waits(d, {"completed"})
      BY <1>1, <1>6, <2>1 DEF RequestSound, Waits
    <3>2. \A id \in DOMAIN d.story :
            \/ Times(d, id) = 0 /\ "completed" \notin EndsOf(d, id)
            \/ Times(d, id) = 1 /\ EndsOf(d, id) = {"completed"}
      <4> TAKE id \in DOMAIN d.story
      <4>1. CASE id = n
        BY <1>7, <2>3, <2>4, <4>1
      <4>2. CASE id \in DOMAIN w
        BY <1>7, <2>1, <2>3, <3>1, <4>2 DEF Accounted
      <4> QED BY <1>4, <1>6, <4>1, <4>2
    <3>3. \A m \in DOMAIN d.paid : d.paid[m] \in DOMAIN d.story
      BY <1>4, <1>6, <2>1 DEF Accounted
    <3> QED BY <3>1, <3>2, <3>3 DEF Accounted
  <2> QED BY <2>2, <2>5
<1>11. a \in Clerks => d.plan.current = None /\ d.plan.waiting = "no" /\ d.paid = <<>>
  BY <1>5, <1>6 DEF Sound
<1>12. Sound(a, d)
  BY <1>1, <1>6, <1>9, <1>10, <1>11 DEF Sound
<1> QED BY <1>3, <1>6, <1>12

-----------------------------------------------------------------------------
(* The steps of a tick.                                                    *)

LEMMA AgentKinds ==
    /\ \A a \in Agents : a \in Customers \/ a \in Clerks
    /\ \A a \in Customers : a \in Agents /\ a \notin Clerks
    /\ \A a \in Clerks : a \in Agents /\ a \notin Customers
BY PeopleAssumption DEF Agents

\* One character changes, and is sound.
LEMMA OneChanges ==
    ASSUME Inv, NEW a \in Agents, NEW d, Sound(a, d), person' = [person EXCEPT ![a] = d]
    PROVE  /\ People' /\ person'[a] = d
           /\ \A b \in Agents \ {a} : person'[b] = person[b]
<1>1. person = [b \in Agents |-> person[b]] /\ \A b \in Agents : Sound(b, person[b])
  BY DEF Inv, People
<1>2. person'[a] = d /\ \A b \in Agents \ {a} : person'[b] = person[b]
  BY <1>1
<1>3. person' = [b \in Agents |-> person'[b]]
  BY <1>1
<1>4. \A b \in Agents : Sound(b, person'[b])
  BY <1>1, <1>2
<1> QED BY <1>2, <1>3, <1>4 DEF People

\* What must be known of a step to know the next iteration.
LEMMA NextIsScheduled ==
    ASSUME Inv, People', turn # 0, Pass,
           \A b \in Agents \ {AgentOf(turn)} :
               /\ person'[b].execution = person[b].execution
               /\ Waits(person'[b], {"completed"}) => Waits(person[b], {"completed"}),
           turn <= 2 * N => ~Waits(person'[AgentOf(turn)], {"completed"})
    PROVE  Scheduled' /\ turn' \in Turns \union {0} /\ active' \subseteq Customers
<1> DEFINE a == AgentOf(turn)
<1>1. N \in Nat /\ N >= 1 /\ Agents = 1..N /\ Turns \subseteq Nat /\ 0 \notin Turns
  BY AgentsAreNumbers DEF Turns
<1>2. turn \in Turns /\ a \in 1..N
  BY DueIs DEF Inv, Ledger
<1>3. \A b \in Agents : b \notin Customers => person'[b].execution = None
  <2> TAKE b \in Agents
  <2>1. person'[b] \in Characters(b)
    BY DEF People, Sound
  <2> QED BY <2>1, Fields
<1>4. active' = IF PhaseOf(turn) \in {"plan", "arbitrate"} THEN Executing(person') ELSE active
  BY DEF Pass
<1>5. active' \subseteq Customers
  BY <1>3, <1>4 DEF Executing, Inv, Ledger
<1>6. turn' = NextTurn(person', active', present')
  BY <1>4 DEF Pass
<1>7. /\ turn' \in Turns \union {0}
      /\ turn' # 0 => turn' > turn /\ Due(person', active', present', turn')
      /\ \A m \in Turns : m > turn /\ Due(person', active', present', m) => turn' # 0 /\ turn' <= m
  BY <1>2, <1>6, NextTurnIs
<1>71. turn' \in Nat /\ turn \in Nat /\ 2 * N \in Nat
  BY <1>1, <1>2, <1>7
<1>8. ASSUME NEW b \in active', turn' \in (2 * N + 1)..(2 * N + b)
      PROVE  person'[b].execution # None
  <2>1. b \in 1..N
    BY <1>5, AgentsAreNumbers
  <2>2. CASE PhaseOf(turn) \in {"plan", "arbitrate"}
    BY <1>4, <2>2 DEF Executing
  <2>3. CASE PhaseOf(turn) \notin {"plan", "arbitrate"}
    <3>1. b \in active
      BY <1>4, <2>3
    <3>2. turn' > turn
      BY <1>1, <1>7, <1>8
    <3>3. turn > 2 * N
      <4>1. /\ turn \in {2 * N + a, 3 * N + a, 4 * N + a, 5 * N + a} /\ a \in 1..N
        BY <1>2, <2>3, DueIs
      <4> HIDE DEF a
      <4> QED BY <1>1, <4>1
    <3>4. turn < 2 * N + b /\ turn \in (2 * N + 1)..(2 * N + b)
      BY <1>71, <1>8, <2>1, <3>2, <3>3
    <3>5. person[b].execution # None
      BY <3>1, <3>4 DEF Inv, Scheduled
    <3>6. b # a
      <4>1. turn \in (2 * N + 1)..(3 * N)
        BY <1>1, <2>1, <3>4
      <4>2. turn = 2 * N + a
        BY <1>2, <4>1, DueIs
      <4> QED BY <1>1, <1>2, <2>1, <3>4, <4>2
    <3> QED BY <1>1, <2>1, <3>5, <3>6
  <2> QED BY <2>2, <2>3
<1>9. ASSUME NEW b \in Customers, Waits(person'[b], {"completed"})
      PROVE  turn' \in 0..b \/ turn' > 2 * N
  <2>1. b \in 1..N /\ b \in Agents
    BY AgentsAreNumbers, AgentKinds
  <2>2. CASE turn > 2 * N
    BY <1>7, <1>71, <2>1, <2>2
  <2>3. CASE turn <= 2 * N
    <3>1. b # a
      BY <1>9, <2>3
    <3>2. Waits(person[b], {"completed"})
      BY <1>9, <2>1, <3>1
    <3>3. turn \in 1..b
      BY <1>1, <1>2, <2>1, <2>3, <3>2 DEF Inv, Scheduled
    <3>4. turn = a
      BY <1>1, <1>2, <2>1, <3>3, DueIs
    <3>5. b > turn /\ b \in Turns /\ PhaseOf(b) = "plan" /\ AgentOf(b) = b
      <4>1. 0 * N + b = b
        BY <1>1, <2>1
      <4>2. b \in Turns /\ PhaseOf(b) = Phases[1] /\ AgentOf(b) = b
        BY <2>1, <4>1, TurnIs
      <4> QED BY <1>2, <2>1, <3>1, <3>3, <3>4, <4>2 DEF Phases
    <3>6. ~PlanIdle(person'[b])
      <4>1. RequestSound(person'[b])
        BY <2>1 DEF People, Sound
      <4> QED BY <1>9, <4>1 DEF RequestSound, PlanIdle, Waits
    <3>7. Due(person', active', present', b)
      BY <3>5, <3>6 DEF Due
    <3> QED BY <1>1, <1>7, <2>1, <3>5, <3>7
  <2> QED BY <1>1, <1>2, <2>2, <2>3
<1>10. \A b \in active' : turn' \in (2 * N + 1)..(2 * N + b) => person'[b].execution # None
  BY <1>8
<1>11. \A b \in Customers : Waits(person'[b], {"completed"}) => turn' \in 0..b \/ turn' > 2 * N
  BY <1>9
<1>12. Scheduled'
  BY <1>7, <1>10, <1>11 DEF Scheduled
<1> QED BY <1>5, <1>7, <1>12

\* The beginning of a tick.
LEMMA BeginTickInv == ASSUME Inv, BeginTick PROVE Inv'
<1>1. /\ turn = 0 /\ person' = person /\ present' = present /\ active' = {}
      /\ purse' = purse /\ shelf' = shelf
      /\ turn' = NextTurn(person, {}, present)
  BY DEF BeginTick
<1>2. available' \subseteq Points
  BY DEF BeginTick, Inv, Ledger
<1>3. People' /\ StaffedIsAuthorized' /\ Working'
  BY <1>1 DEF Inv, People, StaffedIsAuthorized, Working
<1>4. /\ turn' \in Turns \union {0}
      /\ turn' # 0 => turn' > turn /\ Due(person', active', present', turn')
      /\ \A m \in Turns : m > turn /\ Due(person', active', present', m) => turn' # 0 /\ turn' <= m
  BY <1>1, NextTurnIs
<1>5. ASSUME NEW b \in Customers, Waits(person[b], {"completed"})
      PROVE  turn' \in 0..b
  <2>1. b \in 1..N /\ b \in Agents /\ N \in Nat /\ Turns \subseteq Nat
    BY AgentsAreNumbers, AgentKinds DEF Turns
  <2>2. b \in Turns /\ PhaseOf(b) = "plan" /\ AgentOf(b) = b
    <3>1. 0 * N + b = b
      BY <2>1
    <3> QED BY <2>1, <3>1, TurnIs DEF Phases
  <2>3. RequestSound(person[b])
    BY <2>1 DEF Inv, People, Sound
  <2>4. Due(person', active', present', b)
    BY <1>1, <1>5, <2>2, <2>3 DEF Due, RequestSound, PlanIdle, Waits
  <2> QED BY <1>1, <1>4, <2>1, <2>2, <2>4
<1>6. Scheduled'
  <2>1. \A b \in active' : turn' \in (2 * N + 1)..(2 * N + b) => person'[b].execution # None
    BY <1>1
  <2>2. \A b \in Customers : Waits(person'[b], {"completed"}) => turn' \in 0..b \/ turn' > 2 * N
    BY <1>1, <1>5
  <2> QED BY <1>4, <2>1, <2>2 DEF Scheduled
<1>7. Ledger'
  BY <1>1, <1>2, <1>4 DEF Inv, Ledger
<1> QED BY <1>3, <1>6, <1>7 DEF Inv

\* What is handed out at a staffed point was authorized by its clerk.
Authority(c, here) ==
    Waits(c, {"authorized", "running"}) /\ c.request.point \in Staffed
      => /\ c.request.by = c.request.operator
         /\ c.request.by \in here /\ PostOf[c.request.by] = c.request.point

LEMMA AuthorityIs ==
    /\ StaffedIsAuthorized <=> \A a \in Customers : Authority(person[a], present)
    /\ StaffedIsAuthorized' <=> \A a \in Customers : Authority(person'[a], present')
BY DEF StaffedIsAuthorized, Authority

\* More clerks, the same authority; it depends on the request alone.
LEMMA AuthorityGrows ==
    ASSUME NEW c, NEW d, NEW here, NEW there, Authority(c, here), here \subseteq there,
           d.request = c.request
    PROVE  Authority(d, there)
BY DEF Authority, Waits

\* An iteration that changes only the character it is about.
LEMMA OneStepInv ==
    ASSUME Inv, turn # 0, Pass, NEW d, Sound(AgentOf(turn), d),
           person' = [person EXCEPT ![AgentOf(turn)] = d],
           turn <= 2 * N => ~Waits(d, {"completed"}),
           present \subseteq present', present' \subseteq Clerks, available' = available,
           purse' \in [Customers -> Holdings], shelf' \in [Points -> Holdings],
           AgentOf(turn) \in Customers => Authority(d, present'),
           AgentOf(turn) \in Clerks => AgentOf(turn) \in present' \/ PlanIdle(d)
    PROVE  Inv'
<1> DEFINE a == AgentOf(turn)
<1>1. a \in Agents
  BY DueIs, AgentsAreNumbers DEF Inv, Ledger
<1> HIDE DEF a
<1>2. /\ People' /\ person'[a] = d
      /\ \A b \in Agents \ {a} : person'[b] = person[b]
  BY <1>1, OneChanges DEF a
<1>3. Scheduled' /\ turn' \in Turns \union {0} /\ active' \subseteq Customers
  BY <1>2, NextIsScheduled DEF a
<1>4. StaffedIsAuthorized'
  <2>1. ASSUME NEW b \in Customers PROVE Authority(person'[b], present')
    <3>1. CASE b = a
      BY <1>2, <3>1 DEF a
    <3>2. CASE b # a
      <4>1. person'[b].request = person[b].request
        BY <1>2, <3>2, AgentKinds
      <4>2. Authority(person[b], present)
        BY AuthorityIs DEF Inv
      <4> QED BY <4>1, <4>2, AuthorityGrows
    <3> QED BY <3>1, <3>2
  <2> QED BY <2>1, AuthorityIs
<1>5. Working'
  <2>1. ASSUME NEW k \in Clerks PROVE k \in present' \/ PlanIdle(person'[k])
    <3>1. CASE k = a
      BY <1>2, <3>1 DEF a
    <3>2. CASE k # a
      <4>1. person'[k] = person[k]
        BY <1>2, <3>2, AgentKinds
      <4> QED BY <4>1 DEF Inv, Working
    <3> QED BY <3>1, <3>2
  <2> QED BY <2>1 DEF Working
<1>6. Ledger'
  BY <1>3 DEF Inv, Ledger
<1> QED BY <1>2, <1>3, <1>4, <1>5, <1>6 DEF Inv

\* An exchange both sides can pay leaves both with amounts.
LEMMA ExchangeIs ==
    ASSUME Inv, NEW a \in Customers, NEW p, NEW o, <<p, o>> \in Deals,
           Affordable(a, p, o), Exchange(a, p, o)
    PROVE  purse' \in [Customers -> Holdings] /\ shelf' \in [Points -> Holdings]
<1>1. /\ purse \in [Customers -> Holdings] /\ shelf \in [Points -> Holdings]
  BY DEF Inv, Ledger
<1>2. p \in Points /\ Gives[o] \in [Goods -> Nat] /\ Receives[o] \in [Goods -> Nat]
  <2>1. <<p, o>>[1] = p /\ <<p, o>>[2] = o
    OBVIOUS
  <2> QED BY <2>1, GoodsAssumption DEF Deals
<1>3. /\ Swapped(purse[a], Gives[o], Receives[o]) \in Holdings
      /\ Swapped(shelf[p], Receives[o], Gives[o]) \in Holdings
  <2>1. \A i \in Goods : /\ purse[a][i] \in Nat /\ shelf[p][i] \in Nat
                         /\ Gives[o][i] \in Nat /\ Receives[o][i] \in Nat
    BY <1>1, <1>2 DEF Holdings
  <2>2. \A i \in Goods : purse[a][i] >= Gives[o][i] /\ shelf[p][i] >= Receives[o][i]
    BY DEF Affordable, CanDebit
  <2>3. \A i \in Goods : /\ purse[a][i] - Gives[o][i] + Receives[o][i] \in Nat
                         /\ shelf[p][i] - Receives[o][i] + Gives[o][i] \in Nat
    BY <2>1, <2>2
  <2> QED BY <2>3 DEF Swapped, Holdings
<1> QED BY <1>1, <1>2, <1>3 DEF Exchange

\* A customer that is settled keeps the amounts what they are, and trades.
LEMMA SettledIs ==
    ASSUME Inv, NEW a \in Customers, NEW d, person[a].request # None, Settled(a, d),
           \/ d.paid = person[a].paid
           \/ /\ Affordable(a, person[a].request.point, person[a].request.offer)
              /\ Len(d.paid) > Len(person[a].paid)
    PROVE  /\ purse' \in [Customers -> Holdings] /\ shelf' \in [Points -> Holdings]
           /\ Trade \/ UNCHANGED held
<1> DEFINE p == person[a].request.point
           o == person[a].request.offer
<1>1. Sound(a, person[a])
  BY AgentKinds DEF Inv, People
<1>2. <<p, o>> \in Deals
  BY <1>1 DEF Sound, RequestSound
<1>3. CASE Len(d.paid) > Len(person[a].paid)
  <2>1. Exchange(a, p, o)
    BY <1>3 DEF Settled
  <2>2. Affordable(a, p, o)
    <3>1. Len(person[a].paid) \in Nat
      BY <1>1, Fields DEF Sound
    <3> QED BY <1>3, <3>1
  <2>3. p \in Points /\ o \in Offers[p]
    <3>1. <<p, o>>[1] = p /\ <<p, o>>[2] = o
      OBVIOUS
    <3> QED BY <1>2, <3>1 DEF Deals
  <2>4. Trade
    BY <2>1, <2>2, <2>3 DEF Trade
  <2> QED BY <1>2, <2>1, <2>2, <2>4, ExchangeIs
<1>4. CASE ~(Len(d.paid) > Len(person[a].paid))
  <2>1. purse' = purse /\ shelf' = shelf
    BY <1>4 DEF Settled, held
  <2> QED BY <2>1 DEF Inv, Ledger, held
<1> QED BY <1>3, <1>4

\* What every iteration can rely on.
LEMMA IterationIs ==
    ASSUME Inv, NEW phase, InPhase(phase), Pass
    PROVE  /\ turn \in Turns /\ turn # 0 /\ PhaseOf(turn) = phase
           /\ Due(person, active, present, turn)
           /\ AgentOf(turn) \in Agents
           /\ Sound(AgentOf(turn), person[AgentOf(turn)])
           /\ AgentOf(turn) \in Customers => Authority(person[AgentOf(turn)], present)
<1>1. turn \in Turns /\ turn # 0 /\ PhaseOf(turn) = phase
  BY DEF InPhase, Inv, Ledger
<1>2. Due(person, active, present, turn)
  BY <1>1 DEF Inv, Scheduled
<1>3. AgentOf(turn) \in Agents
  BY <1>1, DueIs, AgentsAreNumbers
<1> QED BY <1>1, <1>2, <1>3, AuthorityIs DEF Inv, People

\* System 1 takes a customer, gives it back, or leaves it alone.
LEMMA ArbitrateInv == ASSUME Inv, Arbitrate PROVE Inv'
<1> DEFINE a == AgentOf(turn)
           c == person[a]
<1>1. /\ InPhase("arbitrate") /\ Pass /\ purse' = purse /\ shelf' = shelf
      /\ present' = present /\ available' = available
      /\ \/ person' = person
         \/ c.preempted /\ person' = [person EXCEPT ![a] = [c EXCEPT !.preempted = FALSE]]
         \/ ~c.preempted /\ person' = [person EXCEPT ![a] = Preempt(c)]
  BY DEF Arbitrate
<1>2. /\ turn \in Turns /\ turn # 0 /\ PhaseOf(turn) = "arbitrate"
      /\ Due(person, active, present, turn) /\ a \in Agents /\ Sound(a, c)
      /\ a \in Customers => Authority(c, present)
  BY <1>1, IterationIs
<1>3. a \in Customers
  BY <1>2 DEF Due
<1>4. ~Waits(c, {"completed"})
  <2>1. turn = N + a /\ a \in 1..N /\ N \in Nat
    BY <1>2, DueIs, AgentsAreNumbers
  <2> QED BY <1>3, <2>1 DEF Inv, Scheduled
<1> HIDE DEF a, c
<1>5. PICK d : /\ person' = [person EXCEPT ![a] = d] /\ Sound(a, d)
               /\ d.request = c.request \/ d.request = None
  <2>1. CASE person' = person
    <3>1. person' = [person EXCEPT ![a] = c]
      BY <1>2, <2>1 DEF Inv, People, c
    <3> QED BY <1>2, <3>1
  <2>2. CASE person' = [person EXCEPT ![a] = [c EXCEPT !.preempted = FALSE]]
    <3>1. c.at \in Places
      BY <1>2, Fields DEF Sound
    <3> QED BY <1>2, <2>2, <3>1, ReleasedIsSound
  <2>3. CASE person' = [person EXCEPT ![a] = Preempt(c)]
    BY <1>2, <1>3, <1>4, <2>3, PreemptedIsSound
  <2> QED BY <1>1, <2>1, <2>2, <2>3
<1>6. ~Waits(d, {"completed"}) /\ Authority(d, present)
  BY <1>2, <1>3, <1>4, <1>5 DEF Waits, Authority
<1>7. a \notin Clerks /\ present' \subseteq Clerks
      /\ purse' \in [Customers -> Holdings] /\ shelf' \in [Points -> Holdings]
  BY <1>1, <1>3, AgentKinds DEF Inv, Ledger
<1> QED BY <1>1, <1>2, <1>5, <1>6, <1>7, OneStepInv DEF a

\* An iteration over a running transaction; it may trade.
LEMMA AdvanceInv == ASSUME Inv, Advance PROVE Inv' /\ (Trade \/ UNCHANGED held)
<1> DEFINE a == AgentOf(turn)
           c == person[a]
           d == Advanced(a, c)
<1>1. /\ InPhase("advance") /\ Pass /\ Settled(a, d)
      /\ present' = present /\ available' = available
  BY DEF Advance
<1>2. /\ turn \in Turns /\ turn # 0 /\ PhaseOf(turn) = "advance"
      /\ Due(person, active, present, turn) /\ a \in Agents /\ Sound(a, c)
      /\ a \in Customers => Authority(c, present)
  BY <1>1, IterationIs
<1>3. a \in active /\ a \in Customers
  BY <1>2 DEF Due, Inv, Ledger
<1>4. turn = 2 * N + a /\ a \in 1..N /\ N \in Nat
  BY <1>2, DueIs, AgentsAreNumbers
<1>5. c.execution # None
  BY <1>3, <1>4 DEF Inv, Scheduled
<1>6. c.request # None /\ Authority(c, present) /\ c.request.status = "running"
  BY <1>2, <1>3, <1>5 DEF Sound, ExecutionSound, Waits
<1>7. /\ Sound(a, d)
      /\ d.request # None /\ d.request.status \in {"failed", "running", "completed"}
      /\ d.request.status = "running" => d.request = c.request
      /\ \/ d.paid = c.paid
         \/ /\ Affordable(a, c.request.point, c.request.offer)
            /\ Len(d.paid) > Len(c.paid)
  BY <1>2, <1>3, <1>5, AdvancedIsSound
<1> HIDE DEF d
<1>8. Authority(d, present)
  BY <1>6, <1>7 DEF Authority, Waits
<1>9. /\ purse' \in [Customers -> Holdings] /\ shelf' \in [Points -> Holdings]
      /\ Trade \/ UNCHANGED held
  BY <1>1, <1>3, <1>6, <1>7, SettledIs
<1>10. person' = [person EXCEPT ![a] = d]
  BY <1>1 DEF Settled
<1>11. a \notin Clerks /\ present' \subseteq Clerks /\ ~(turn <= 2 * N)
  BY <1>1, <1>3, <1>4, AgentKinds DEF Inv, Ledger
<1> HIDE DEF a
<1> QED BY <1>1, <1>2, <1>7, <1>8, <1>9, <1>10, <1>11, OneStepInv DEF a

\* An iteration over a request that is pending; it may trade.
LEMMA RequestInv == ASSUME Inv, Request PROVE Inv' /\ (Trade \/ UNCHANGED held)
<1> DEFINE a == AgentOf(turn)
           c == person[a]
           d == Requested(a, c)
<1>1. /\ InPhase("request") /\ Pass /\ Settled(a, d)
      /\ present' = present /\ available' = available
  BY DEF Request
<1>2. /\ turn \in Turns /\ turn # 0 /\ PhaseOf(turn) = "request"
      /\ Due(person, active, present, turn) /\ a \in Agents /\ Sound(a, c)
      /\ a \in Customers => Authority(c, present)
  BY <1>1, IterationIs
<1>3. c.execution = None /\ Waits(c, Pending) /\ c.request # None
  BY <1>2 DEF Due, Waits
<1>4. a \in Customers
  <2>1. c \in Characters(a)
    BY <1>2 DEF Sound
  <2> QED BY <1>3, <2>1, Fields
<1>5. turn = 3 * N + a /\ a \in 1..N /\ N \in Nat
  BY <1>2, DueIs, AgentsAreNumbers
<1>6. /\ Sound(a, d)
      /\ d.request # None /\ d.request.status # "authorized"
      /\ d.request.status = "running" /\ d.request.point \in Staffed =>
           /\ c.request.status = "authorized"
           /\ d.request.point = c.request.point /\ d.request.by = c.request.by
           /\ d.request.operator = c.request.operator
      /\ \/ d.paid = c.paid
         \/ /\ Affordable(a, c.request.point, c.request.offer)
            /\ Len(d.paid) > Len(c.paid)
  BY <1>2, <1>3, <1>4, RequestedIsSound
<1> HIDE DEF d
<1>7. Authority(d, present)
  BY <1>2, <1>3, <1>4, <1>6 DEF Authority, Waits
<1>8. /\ purse' \in [Customers -> Holdings] /\ shelf' \in [Points -> Holdings]
      /\ Trade \/ UNCHANGED held
  BY <1>1, <1>3, <1>4, <1>6, SettledIs
<1>9. person' = [person EXCEPT ![a] = d]
  BY <1>1 DEF Settled
<1>10. a \notin Clerks /\ present' \subseteq Clerks /\ ~(turn <= 2 * N)
  BY <1>1, <1>4, <1>5, AgentKinds DEF Inv, Ledger
<1> HIDE DEF a
<1> QED BY <1>1, <1>2, <1>6, <1>7, <1>8, <1>9, <1>10, OneStepInv DEF a

\* A clerk is spawned, or found, for a request that waits for one.
LEMMA StaffInv == ASSUME Inv, Staff PROVE Inv'
<1> DEFINE a == AgentOf(turn)
           c == person[a]
           k == ClerkOf(c.request.point)
<1>1. /\ InPhase("staff") /\ Pass /\ purse' = purse /\ shelf' = shelf
      /\ available' = available
      /\ present' = IF Blocked(k) /\ k \notin present THEN present ELSE present \union {k}
      /\ person' = IF k \in present' THEN [person EXCEPT ![a] = Assign(@, k)] ELSE person
  BY DEF Staff
<1>2. /\ turn \in Turns /\ turn # 0 /\ PhaseOf(turn) = "staff"
      /\ Due(person, active, present, turn) /\ a \in Agents /\ Sound(a, c)
      /\ a \in Customers => Authority(c, present)
  BY <1>1, IterationIs
<1>3. Waits(c, {"awaiting_staff"}) /\ c.request # None /\ c.request.status = "awaiting_staff"
  BY <1>2 DEF Due, Waits
<1>4. a \in Customers
  <2>1. c \in Characters(a)
    BY <1>2 DEF Sound
  <2> QED BY <1>3, <2>1, Fields
<1>5. turn = 4 * N + a /\ a \in 1..N /\ N \in Nat
  BY <1>2, DueIs, AgentsAreNumbers
<1>6. k \in Clerks
  <2>1. c.request.point \in Staffed
    BY <1>2, <1>3, <1>4 DEF Sound, RequestSound
  <2> QED BY <2>1 DEF Staffed, ClerkOf
<1> HIDE DEF k
<1>7. present \subseteq present' /\ present' \subseteq Clerks
  BY <1>1, <1>6 DEF Inv, Ledger
<1>8. PICK d : /\ person' = [person EXCEPT ![a] = d] /\ Sound(a, d)
               /\ d = c \/ d.request.status = "awaiting_authorization"
  <2>1. CASE k \in present'
    <3>1. person' = [person EXCEPT ![a] = Assign(c, k)]
      BY <1>1, <2>1
    <3>2. Sound(a, Assign(c, k)) /\ Assign(c, k).request.status = "awaiting_authorization"
      BY <1>2, <1>3, <1>4, <1>6, AssignedIsSound
    <3> QED BY <3>1, <3>2
  <2>2. CASE k \notin present'
    <3>1. person' = [person EXCEPT ![a] = c]
      BY <1>1, <1>2, <2>2 DEF Inv, People
    <3> QED BY <1>2, <3>1
  <2> QED BY <2>1, <2>2
<1> HIDE DEF c
<1>9. Authority(d, present')
  <2>1. CASE d = c
    BY <1>2, <1>4, <1>7, <2>1, AuthorityGrows
  <2>2. CASE d.request.status = "awaiting_authorization"
    BY <2>2 DEF Authority, Waits
  <2> QED BY <1>8, <2>1, <2>2
<1>10. /\ a \notin Clerks /\ ~(turn <= 2 * N)
       /\ purse' \in [Customers -> Holdings] /\ shelf' \in [Points -> Holdings]
  BY <1>1, <1>4, <1>5, AgentKinds DEF Inv, Ledger
<1> HIDE DEF a
<1> QED BY <1>1, <1>2, <1>7, <1>8, <1>9, <1>10, OneStepInv DEF a

\* A controller moves its character, or queues an action for it.
LEMMA DecideInv == ASSUME Inv, Decide PROVE Inv'
<1> DEFINE a == AgentOf(turn)
           s == person[a]
<1>1. /\ InPhase("decide") /\ Pass /\ purse' = purse /\ shelf' = shelf
      /\ present' = present /\ available' = available
      /\ \E c \in Moved(a, s) : \E d \in {c} \union Decided(a, c) :
           person' = [person EXCEPT ![a] = d]
  BY DEF Decide
<1>2. /\ turn \in Turns /\ turn # 0 /\ PhaseOf(turn) = "decide"
      /\ Due(person, active, present, turn) /\ a \in Agents /\ Sound(a, s)
      /\ a \in Customers => Authority(s, present)
  BY <1>1, IterationIs
<1>3. a \in Customers \union present
  BY <1>2 DEF Due
<1>4. turn = 5 * N + a /\ a \in 1..N /\ N \in Nat
  BY <1>2, DueIs, AgentsAreNumbers
<1>5. PICK c \in Moved(a, s) : \E d \in {c} \union Decided(a, c) :
          person' = [person EXCEPT ![a] = d]
  BY <1>1
<1>51. PICK d \in {c} \union Decided(a, c) : person' = [person EXCEPT ![a] = d]
  BY <1>5
<1> HIDE DEF a, s
<1>6. Sound(a, c) /\ c.request = s.request
  <2>1. CASE c = s
    BY <1>2, <2>1
  <2>2. CASE \E p \in Places : c = [s EXCEPT !.at = p]
    <3>1. PICK p \in Places : c = [s EXCEPT !.at = p]
      BY <2>2
    <3>2. Sound(a, [s EXCEPT !.at = p]) /\ [s EXCEPT !.at = p].request = s.request
      BY <1>2, ReleasedIsSound
    <3> QED BY <3>1, <3>2
  <2>3. c = s \/ \E p \in Places : c = [s EXCEPT !.at = p]
    BY <1>5 DEF Moved
  <2> QED BY <2>1, <2>2, <2>3
<1>7. Sound(a, d) /\ d.request = s.request
  <2>1. CASE d = c
    BY <1>6, <2>1
  <2>2. CASE d \in Decided(a, c)
    <3>1. PICK x \in Options(a) : /\ d = QueueAction(c, x[1], x[2], "plan")
                                  /\ PlanIdle(c) /\ ~c.preempted
      BY <2>2 DEF Decided
    <3>2. NewAction(c, x[1], x[2], "plan") \in Actions(a)
      <4>1. Len(c.story) + 1 \in Nat
        <5>1. c.story \in Seq(Seq(Events))
          BY <1>6, Fields DEF Sound
        <5> QED BY <5>1
      <4>2. CASE a \in Customers
        <5>1. x[1] = "TRANSACT" /\ x[2] \in Deals
          BY <3>1, <4>2 DEF Options
        <5> QED BY <4>1, <4>2, <5>1 DEF NewAction, Actions
      <4>3. CASE a \notin Customers
        <5>1. PICK b \in Customers : /\ x = <<"SERVE_TRANSACTION", <<b, person[b].request.id>>>>
                                     /\ Waits(person[b], {"awaiting_authorization"})
          BY <3>1, <4>3 DEF Options
        <5>2. person[b].request.id \in Nat
          <6>1. person[b] \in Characters(b)
            BY AgentKinds DEF Inv, People, Sound
          <6>2. person[b].request \in Requests
            BY <5>1, <6>1, Fields DEF Waits
          <6> QED BY <6>2, RequestFields
        <5> QED BY <4>1, <4>3, <5>1, <5>2 DEF NewAction, Actions
      <4> QED BY <4>2, <4>3
    <3> QED BY <1>2, <1>6, <3>1, <3>2, QueuedIsSound
  <2> QED BY <1>51, <2>1, <2>2
<1>8. a \in Customers => Authority(d, present')
  BY <1>1, <1>2, <1>7, AuthorityGrows
<1>9. /\ a \in Clerks => a \in present' /\ present \subseteq present'
      /\ present' \subseteq Clerks /\ ~(turn <= 2 * N)
      /\ purse' \in [Customers -> Holdings] /\ shelf' \in [Points -> Holdings]
  BY <1>1, <1>3, <1>4, AgentKinds DEF Inv, Ledger
<1> QED BY <1>1, <1>2, <1>51, <1>7, <1>8, <1>9, OneStepInv DEF a

\* A clerk serves the request it was sent to, if it still can.
LEMMA ServeInv ==
    ASSUME Inv, InPhase("plan"), Pass, AgentOf(turn) \in Clerks,
           person[AgentOf(turn)].plan.current = None,
           person[AgentOf(turn)].plan.queue # <<>>,
           person' = StartNext(AgentOf(turn), person[AgentOf(turn)]),
           UNCHANGED <<purse, shelf, present, available>>
    PROVE  Inv'
<1> DEFINE a == AgentOf(turn)
           c == person[a]
           d == TakeNext(c)
           e == Tell(d, CurrentIds(d), "started")
           served == {x \in Named(e.plan.current.target) : Serviceable(a, x)}
<1>1. /\ turn \in Turns /\ turn # 0 /\ PhaseOf(turn) = "plan"
      /\ a \in Agents /\ Sound(a, c) /\ a \in Clerks /\ a \notin Customers
  BY IterationIs, AgentKinds
<1>2. c \in Characters(a) /\ c.request = None /\ c.execution = None
  BY <1>1, Fields DEF Sound
<1>3. /\ e \in Characters(a) /\ Alike(c, e)
      /\ e.plan.queue = <<>> /\ e.plan.current \in Actions(a)
      /\ CurrentIds(e) = CurrentIds(c) \union QueuedIds(c)
      /\ DOMAIN e.story = DOMAIN c.story
      /\ \A id \in DOMAIN c.story : EndsOf(e, id) = EndsOf(c, id)
  BY <1>1, TakeIs
<1>4. e.plan.current.act # "TRANSACT"
  BY <1>1, <1>3 DEF Actions
<1>5. person' = IF served = {} THEN [person EXCEPT ![a] = FailPlanAction(e)]
                ELSE [person EXCEPT ![a] = CompletePlanAction(e),
                                    ![CHOOSE x \in served : TRUE] = Authorized(@, a)]
  BY <1>4 DEF StartNext
<1> HIDE DEF d, e
<1>6. /\ Sound(a, FailPlanAction(e)) /\ Alike(c, FailPlanAction(e))
      /\ Sound(a, CompletePlanAction(e)) /\ Alike(c, CompletePlanAction(e))
  BY <1>1, <1>2, <1>3, TakenFailsSoundly
<1>7. a \in present
  <2>1. ~PlanIdle(c)
    BY DEF PlanIdle
  <2> QED BY <1>1, <2>1 DEF Inv, Working
<1>8. /\ present' = present /\ present' \subseteq Clerks /\ available' = available
      /\ purse' \in [Customers -> Holdings] /\ shelf' \in [Points -> Holdings]
      /\ purse' = purse /\ shelf' = shelf
  BY DEF Inv, Ledger
<1>9. CASE served = {}
  <2> DEFINE f == FailPlanAction(e)
  <2>1. person' = [person EXCEPT ![a] = f] /\ Sound(a, f) /\ ~Waits(f, {"completed"})
    BY <1>2, <1>5, <1>6, <1>9 DEF Alike, Waits
  <2> HIDE DEF f, a
  <2> QED BY <1>1, <1>7, <1>8, <2>1, OneStepInv DEF a
<1>10. CASE served # {}
  <2> DEFINE x == CHOOSE x \in served : TRUE
             f == CompletePlanAction(e)
             g == Authorized(person[x], a)
  <2>1. x \in served
    <3> HIDE DEF served
    <3> QED BY <1>10
  <2> HIDE DEF x
  <2>2. /\ x \in Customers /\ person[x].request # None /\ Serviceable(a, x)
    BY <2>1 DEF Named, Waits
  <2>3. x # a /\ x \in Agents /\ Sound(x, person[x])
    BY <1>1, <2>2, AgentKinds DEF Inv, People
  <2>4. person' = [person EXCEPT ![a] = f, ![x] = g]
    BY <1>5, <1>10, <2>3 DEF x
  <2> HIDE DEF served, f
  <2>5. /\ Waits(person[x], {"awaiting_authorization"}) /\ person[x].request.operator = a
        /\ PostOf[a] = person[x].request.point
    BY <2>2 DEF Serviceable, Waits
  <2>6. /\ Sound(x, g) /\ g.execution = person[x].execution
        /\ g.request # None /\ g.request.status = "authorized"
        /\ g.request.by = a /\ g.request.operator = a
        /\ g.request.point = person[x].request.point
    BY <1>1, <2>2, <2>3, <2>5, AuthorizedIsSound
  <2> HIDE DEF g, a, c
  <2>7. person = [b \in Agents |-> person[b]]
    BY DEF Inv, People
  <2>8. /\ person'[a] = f /\ person'[x] = g
        /\ \A b \in Agents : b # a /\ b # x => person'[b] = person[b]
        /\ person' = [b \in Agents |-> person'[b]]
    BY <1>1, <2>3, <2>4, <2>7
  <2>9. Sound(a, f) /\ f.request = None
    BY <1>2, <1>6 DEF Alike, f
  <2>10. People'
    <3>1. \A b \in Agents : Sound(b, person'[b])
      BY <2>6, <2>8, <2>9 DEF Inv, People
    <3> QED BY <2>8, <3>1 DEF People
  <2>11. ~Waits(f, {"completed"}) /\ ~Waits(g, {"completed"})
    BY <2>6, <2>9 DEF Waits
  <2>12. \A b \in Agents \ {a} :
           /\ person'[b].execution = person[b].execution
           /\ Waits(person'[b], {"completed"}) => Waits(person[b], {"completed"})
    BY <2>6, <2>8, <2>11
  <2>13. ~Waits(person'[a], {"completed"})
    BY <2>8, <2>11
  <2>14. Scheduled' /\ turn' \in Turns \union {0} /\ active' \subseteq Customers
    BY <1>1, <2>10, <2>12, <2>13, NextIsScheduled DEF a
  <2>15. StaffedIsAuthorized'
    <3>1. ASSUME NEW b \in Customers PROVE Authority(person'[b], present')
      <4>1. CASE b = x
        BY <1>7, <1>8, <2>5, <2>6, <2>8, <4>1 DEF Authority
      <4>2. CASE b # x
        <5>1. person'[b] = person[b]
          BY <1>1, <2>8, <4>2, AgentKinds
        <5>2. Authority(person[b], present)
          BY AuthorityIs DEF Inv
        <5> QED BY <1>8, <5>1, <5>2
      <4> QED BY <4>1, <4>2
    <3> QED BY <3>1, AuthorityIs
  <2>16. Working'
    <3>1. ASSUME NEW k \in Clerks PROVE k \in present' \/ PlanIdle(person'[k])
      <4>1. CASE k = a
        BY <1>7, <1>8, <4>1
      <4>2. CASE k # a
        <5>1. person'[k] = person[k]
          BY <2>2, <2>8, <4>2, AgentKinds
        <5> QED BY <1>8, <5>1 DEF Inv, Working
      <4> QED BY <4>1, <4>2
    <3> QED BY <3>1 DEF Working
  <2>17. Ledger'
    BY <1>8, <2>14 DEF Inv, Ledger
  <2> QED BY <2>10, <2>14, <2>15, <2>16, <2>17 DEF Inv
<1> QED BY <1>9, <1>10

\* An iteration over a plan that is not idle.
LEMMA PlanInv == ASSUME Inv, Plan PROVE Inv'
<1> DEFINE a == AgentOf(turn)
           c == person[a]
           d == IF c.plan.waiting = "transaction" THEN CheckTransaction(c) ELSE c
<1>1. /\ InPhase("plan") /\ Pass /\ person' = ExecutePlan(a)
      /\ UNCHANGED <<purse, shelf, present, available>>
  BY DEF Plan
<1>2. /\ turn \in Turns /\ turn # 0 /\ PhaseOf(turn) = "plan"
      /\ Due(person, active, present, turn) /\ a \in Agents /\ Sound(a, c)
      /\ a \in Customers => Authority(c, present)
  BY <1>1, IterationIs
<1>3. ~PlanIdle(c) /\ ~c.preempted
  BY <1>2 DEF Due, Sound, PlanSound
<1>4. c \in Characters(a)
  BY <1>2 DEF Sound
<1>5. /\ Sound(a, d) /\ ~Waits(d, {"completed"})
      /\ d = c \/ d.request = None
      /\ c.plan.waiting = "transaction" => d.plan.current # None \/ d.plan.queue = <<>>
  <2>1. CASE c.plan.waiting = "transaction"
    <3>1. d = CheckTransaction(c)
      BY <2>1
    <3> QED BY <1>2, <2>1, <3>1, CheckIsSound
  <2>2. CASE c.plan.waiting # "transaction"
    <3>1. d = c
      BY <2>2
    <3>2. c.plan.waiting = "no"
      BY <1>4, <2>2, Fields
    <3>3. c.request = None
      <4>1. CASE a \in Customers
        BY <1>2, <3>2, <4>1 DEF Sound, RequestSound
      <4>2. CASE a \notin Customers
        BY <1>4, <4>2, Fields
      <4> QED BY <4>1, <4>2
    <3> QED BY <1>2, <2>2, <3>1, <3>3 DEF Waits
  <2> QED BY <2>1, <2>2
<1>6. person' = IF d.plan.current # None \/ d.plan.queue = <<>> THEN [person EXCEPT ![a] = d]
                ELSE StartNext(a, d)
  BY <1>1, <1>3 DEF ExecutePlan
<1>7. /\ present' = present /\ present' \subseteq Clerks /\ available' = available
      /\ purse' \in [Customers -> Holdings] /\ shelf' \in [Points -> Holdings]
      /\ a \in Clerks => a \in present'
  BY <1>1, <1>3 DEF Inv, Ledger, Working
<1>8. CASE d.plan.current # None \/ d.plan.queue = <<>>
  <2> HIDE DEF d
  <2>1. person' = [person EXCEPT ![a] = d]
    BY <1>6, <1>8
  <2>2. a \in Customers => Authority(d, present')
    BY <1>2, <1>5, <1>7 DEF Authority, Waits
  <2> HIDE DEF a, c
  <2> QED BY <1>1, <1>2, <1>5, <1>7, <2>1, <2>2, OneStepInv DEF a
<1>9. CASE ~(d.plan.current # None \/ d.plan.queue = <<>>)
  <2>1. d = c /\ c.plan.current = None /\ c.plan.queue # <<>>
    BY <1>5, <1>9
  <2>2. person' = StartNext(a, c)
    BY <1>6, <1>9, <2>1
  <2>3. CASE a \in Customers
    <3> DEFINE t == TakeNext(c)
               e == Tell(t, CurrentIds(t), "started")
               f == StartTransact(a, e)
    <3>1. /\ e.plan.current.act = "TRANSACT" /\ Sound(a, f)
          /\ f.request = None \/ f.request.status = "requested"
      BY <1>2, <2>1, <2>3, TransactIsSound
    <3>2. person' = [person EXCEPT ![a] = f]
      BY <2>2, <3>1 DEF StartNext
    <3> HIDE DEF f
    <3>3. ~Waits(f, {"completed"}) /\ Authority(f, present')
      BY <3>1 DEF Waits, Authority
    <3> HIDE DEF a, c, d
    <3> QED BY <1>1, <1>2, <1>7, <3>1, <3>2, <3>3, OneStepInv DEF a
  <2>4. CASE a \in Clerks
    BY <1>1, <2>1, <2>2, <2>4, ServeInv
  <2> QED BY <1>2, <2>3, <2>4, AgentKinds
<1> QED BY <1>8, <1>9

\* Nobody has a plan or a request at first.
LEMMA InitInv == ASSUME Init PROVE Inv
<1>1. PICK p \in [Agents -> Places] : person = [a \in Agents |-> Newborn(p[a])]
  <2>1. person \in [Agents -> {Newborn(p) : p \in Places}]
    BY DEF Init
  <2> DEFINE p == [a \in Agents |-> CHOOSE q \in Places : person[a] = Newborn(q)]
  <2>2. \A a \in Agents : p[a] \in Places /\ person[a] = Newborn(p[a])
    BY <2>1
  <2> HIDE DEF p
  <2>3. [a \in Agents |-> p[a]] \in [Agents -> Places]
    BY <2>2
  <2>4. person = [a \in Agents |-> Newborn([b \in Agents |-> p[b]][a])]
    BY <2>1, <2>2
  <2> QED BY <2>3, <2>4
<1>2. ASSUME NEW a \in Agents PROVE Sound(a, person[a])
  <2> DEFINE c == person[a]
  <2>1. /\ c.plan = EmptyPlan /\ c.story = <<>> /\ c.at \in Places /\ c.preempted = FALSE
        /\ c.request = None /\ c.execution = None /\ c.paid = <<>> /\ c.raised = FALSE
        /\ c = [plan |-> c.plan, story |-> c.story, at |-> c.at, preempted |-> c.preempted,
                request |-> c.request, execution |-> c.execution, paid |-> c.paid,
                raised |-> c.raised]
    BY <1>1 DEF Newborn
  <2>2. EmptyPlan \in Plans(a) /\ EmptyPlan.queue = <<>> /\ EmptyPlan.current = None
        /\ EmptyPlan.waiting = "no"
    BY EmptySeq DEF EmptyPlan, Plans
  <2> HIDE DEF c
  <2>3. c \in Characters(a)
    BY <2>1, <2>2, EmptySeq DEF Characters
  <2>4. PlanIdle(c) /\ CurrentIds(c) = {} /\ QueuedIds(c) = {}
    BY <2>1, <2>2, EmptyIsIdle
  <2>5. PlanSound(c)
    BY <2>1, <2>2, <2>4 DEF PlanSound
  <2>6. RequestSound(c) /\ ExecutionSound(c)
    BY <2>1, <2>2 DEF RequestSound, ExecutionSound, Waits
  <2>7. Accounted(c)
    BY <2>1 DEF Accounted, Waits
  <2> QED BY <2>1, <2>2, <2>3, <2>5, <2>6, <2>7 DEF Sound, c
<1>3. People
  <2>1. person = [a \in Agents |-> person[a]]
    BY <1>1
  <2> QED BY <1>2, <2>1 DEF People
<1>4. \A a \in Agents : person[a].request = None /\ PlanIdle(person[a])
  BY <1>1 DEF Newborn, EmptyPlan, PlanIdle
<1>5. StaffedIsAuthorized /\ Working
  BY <1>4, AgentKinds DEF StaffedIsAuthorized, Working, Waits
<1>6. Scheduled
  BY <1>4, AgentKinds DEF Scheduled, Init, Waits
<1>7. Ledger
  BY GoodsAssumption DEF Ledger, Init, LedgerInit, Holdings
<1> QED BY <1>3, <1>5, <1>6, <1>7 DEF Inv

\* Every step keeps the invariant, and trades or leaves the goods alone.
LEMMA NextInv == ASSUME Inv, [Next]_vars PROVE Inv' /\ (Trade \/ UNCHANGED held)
<1>1. CASE BeginTick
  BY <1>1, BeginTickInv DEF BeginTick, held
<1>2. CASE Plan
  BY <1>2, PlanInv DEF Plan, held
<1>3. CASE Arbitrate
  BY <1>3, ArbitrateInv DEF Arbitrate, held
<1>4. CASE Advance
  BY <1>4, AdvanceInv
<1>5. CASE Request
  BY <1>5, RequestInv
<1>6. CASE Staff
  BY <1>6, StaffInv DEF Staff, held
<1>7. CASE Decide
  BY <1>7, DecideInv DEF Decide, held
<1>8. CASE UNCHANGED vars
  BY <1>8 DEF vars, held, Inv, People, Ledger, StaffedIsAuthorized, Working, Scheduled
<1> QED BY <1>1, <1>2, <1>3, <1>4, <1>5, <1>6, <1>7, <1>8 DEF Next

\* The invariant of the system, whatever its people, points and goods.
THEOREM TransactionsInvariant == SafetySpec => []Inv
<1>1. Init => Inv
  BY InitInv
<1>2. Inv /\ [Next]_vars => Inv'
  BY NextInv
<1> QED BY <1>1, <1>2, PTL DEF SafetySpec

\* No transaction and no exchange raises: what was checked when a request was
\* made is checked again when it is executed, and System 1 clears up.
THEOREM NeverRaise == SafetySpec => []TransactionsNeverRaise
<1>1. Inv => TransactionsNeverRaise
  BY DEF Inv, People, Sound, TransactionsNeverRaise, Raised
<1> QED BY <1>1, TransactionsInvariant, PTL

\* An exchange is due on both ends: its clerk authorized it, and every one
\* belongs to exactly one action that completed.
THEOREM ExchangesDue == SafetySpec => []ExchangesAreDue
<1>1. Inv => PaidIsCompleted
  BY AgentKinds DEF Inv, People, Sound, Accounted, PaidIsCompleted
<1>2. Inv => ExchangesAreDue
  BY <1>1 DEF Inv, ExchangesAreDue
<1> QED BY <1>2, TransactionsInvariant, PTL

\* The economy implements the ledger of whole offers.
THEOREM LedgerImplemented == SafetySpec => ImplementsLedger
<1>1. Init => LedgerInit
  BY DEF Init
<1>2. Inv /\ [Next]_vars => [Trade]_held
  BY NextInv
<1> QED BY <1>1, <1>2, TransactionsInvariant, PTL DEF SafetySpec, ImplementsLedger, LedgerSpec

\* Every component has the type its dataclass declares.
THEOREM TypeCorrect == SafetySpec => []TransactionTypeOK
<1>1. ASSUME Inv, NEW a \in Agents
      PROVE  LET c == person[a] IN
         /\ c \in Characters(a)
         /\ CurrentIds(c) \union QueuedIds(c) \subseteq DOMAIN c.story
         /\ \A n \in DOMAIN c.paid : c.paid[n] \in DOMAIN c.story
         /\ c.request # None =>
              /\ <<c.request.point, c.request.offer>> \in Deals
              /\ c.request.by \in {None, c.request.operator}
              /\ c.request.status \in {"awaiting_staff", "awaiting_authorization"}
                   => c.request.point \in Staffed /\ c.request.left \in 1..Patience[c.request.point]
         /\ c.execution # None =>
              /\ <<c.execution.point, c.execution.offer>> \in Deals
              /\ c.execution.left \in 1..Lasts[c.execution.offer]
  <2> DEFINE c == person[a]
  <2>1. Sound(a, c) /\ c \in Characters(a) /\ PlanSound(c)
    BY <1>1 DEF Inv, People, Sound
  <2> HIDE DEF c
  <2>2. CurrentIds(c) \union QueuedIds(c) \subseteq DOMAIN c.story
    BY <2>1 DEF PlanSound
  <2>3. CASE a \in Customers
    <3>1. RequestSound(c) /\ ExecutionSound(c) /\ Accounted(c)
      BY <2>1, <2>3 DEF Sound
    <3>2. c.execution # None =>
              /\ <<c.execution.point, c.execution.offer>> \in Deals
              /\ c.execution.left \in 1..Lasts[c.execution.offer]
      BY <3>1 DEF RequestSound, ExecutionSound, Waits
    <3> QED BY <2>1, <2>2, <3>1, <3>2 DEF RequestSound, Accounted, c
  <2>4. CASE a \notin Customers
    <3>1. c.request = None /\ c.execution = None
      BY <2>1, <2>4, Fields
    <3>2. c.paid = <<>>
      BY <2>1, <2>4, AgentKinds DEF Sound
    <3> QED BY <2>1, <2>2, <3>1, <3>2 DEF c
  <2> QED BY <2>3, <2>4
<1>2. Inv => TransactionTypeOK
  BY <1>1 DEF Inv, People, Ledger, TransactionTypeOK
<1> QED BY <1>2, TransactionsInvariant, PTL
=============================================================================
