------------------------ MODULE SimulationRunProofs -------------------------
(***************************************************************************)
(* Proofs about a simulation run.  First the cognition barrier of          *)
(* AgentWork alone, for any number of agents, tasks, worker threads and    *)
(* ticks, under any interleaving, with worker faults, and the lemmas about *)
(* the thread pool (FuturePool) they cite; then the run: its types, the    *)
(* engagement half of the barrier, what a stop leaves behind and what a    *)
(* checkpoint may save.                                                    *)
(***************************************************************************)
EXTENDS SimulationRun, TLAPS

-----------------------------------------------------------------------------
(* The pool's operations keep its type.                                    *)

\* A collection yields works of the pool with an answer or a timeout.
LEMMA ReadyType ==
    ASSUME NEW Work, NEW Answer, NEW p \in PoolOf(Work, Answer), NEW x \in Ready(p)
    PROVE  x \in Work \X (Answer \union {"timeout"})
BY DEF PoolOf, Ready, AnsweredWorks

LEMMA PoolOperationsType ==
    ASSUME NEW Work, NEW Answer, NEW p \in PoolOf(Work, Answer)
    PROVE  /\ \A w \in Work : Enqueue(p, w) \in PoolOf(Work, Answer)
           /\ Dispatch(p) \in PoolOf(Work, Answer)
           /\ \A w \in Work : StartWork(p, w) \in PoolOf(Work, Answer)
           /\ \A w \in Work, answer \in Answer : Finish(p, w, answer) \in PoolOf(Work, Answer)
           /\ \A w \in Work : Expire(p, w) \in PoolOf(Work, Answer)
           /\ \A S : Take(p, S) \in PoolOf(Work, Answer)
           /\ Abandon(p) \in PoolOf(Work, Answer)
           /\ Outstanding(p) \subseteq Work
<1>1. \A w \in Work : /\ Enqueue(p, w) \in PoolOf(Work, Answer)
                       /\ StartWork(p, w) \in PoolOf(Work, Answer)
                       /\ Expire(p, w) \in PoolOf(Work, Answer)
  BY DEF PoolOf, Enqueue, StartWork, Expire
<1>2. Dispatch(p) \in PoolOf(Work, Answer) /\ Abandon(p) \in PoolOf(Work, Answer)
  BY DEF PoolOf, Dispatch, Abandon
<1>3. \A w \in Work, answer \in Answer : Finish(p, w, answer) \in PoolOf(Work, Answer)
  <2> SUFFICES ASSUME NEW w \in Work, NEW answer \in Answer
               PROVE  Finish(p, w, answer) \in PoolOf(Work, Answer)
    OBVIOUS
  <2> DEFINE after == IF w \in p.pending THEN p.answered \union {<<w, answer>>} ELSE p.answered
  <2>1. p.answered \in SUBSET (Work \X Answer)
    BY DEF PoolOf
  <2>2. after \in SUBSET (Work \X Answer)
    BY <2>1
  <2>3. Finish(p, w, answer) = [p EXCEPT !.running = @ \ {w}, !.answered = after]
    BY DEF Finish, PoolOf
  <2> HIDE DEF after
  <2> QED
    BY <2>2, <2>3 DEF PoolOf
<1>4. \A S : Take(p, S) \in PoolOf(Work, Answer)
  BY DEF PoolOf, Take
<1>5. Outstanding(p) \subseteq Work
  BY DEF PoolOf, Outstanding
<1> QED
  BY <1>1, <1>2, <1>3, <1>4, <1>5

-----------------------------------------------------------------------------
(* Where the pool's operations put the works.                              *)

\* A collection takes pending works, and one result for each.
LEMMA ReadyIsPending ==
    ASSUME NEW Work, NEW Answer, NEW p \in PoolOf(Work, Answer), Consistent(p)
    PROVE  /\ \A x \in Ready(p) : x[1] \in p.pending
           /\ \A x, y \in Ready(p) : x[1] = y[1] => x = y
<1>1. \A x \in Ready(p) : x[1] \in p.pending
  BY DEF Ready, Consistent, AnsweredWorks
<1>2. ASSUME NEW x \in Ready(p), NEW y \in Ready(p), x[1] = y[1] PROVE x = y
  <2>1. CASE x \in p.answered /\ y \in p.answered
    BY <1>2, <2>1 DEF Consistent
  <2>2. CASE x \notin p.answered /\ y \notin p.answered
    BY <1>2, <2>2 DEF Ready
  <2>3. CASE x \in p.answered /\ y \notin p.answered
    BY <1>2, <2>3 DEF Ready, AnsweredWorks
  <2>4. CASE x \notin p.answered /\ y \in p.answered
    BY <1>2, <2>4 DEF Ready, AnsweredWorks
  <2> QED
    BY <2>1, <2>2, <2>3, <2>4
<1> QED
  BY <1>1, <1>2

\* Which works are outstanding after an operation.
LEMMA OutstandingAfter ==
    ASSUME NEW Work, NEW Answer, NEW p \in PoolOf(Work, Answer), Consistent(p)
    PROVE  /\ Outstanding(Dispatch(p)) = Outstanding(p)
           /\ Outstanding(Abandon(p)) = {}
           /\ \A w : /\ Outstanding(Enqueue(p, w)) = Outstanding(p) \union {w}
                     /\ Outstanding(StartWork(p, w)) = Outstanding(p)
                     /\ Outstanding(Expire(p, w)) = Outstanding(p)
           /\ \A w, answer : Outstanding(Finish(p, w, answer)) = Outstanding(p)
           /\ \A S \in SUBSET p.pending : Outstanding(Take(p, S)) = Outstanding(p) \ S
<1>1. Outstanding(Dispatch(p)) = Outstanding(p) /\ Outstanding(Abandon(p)) = {}
  BY DEF Outstanding, Dispatch, Abandon, PoolOf
<1>2. \A w : /\ Outstanding(Enqueue(p, w)) = Outstanding(p) \union {w}
             /\ Outstanding(StartWork(p, w)) = Outstanding(p)
             /\ Outstanding(Expire(p, w)) = Outstanding(p)
  BY DEF Outstanding, Enqueue, StartWork, Expire, PoolOf
<1>3. \A w, answer : Outstanding(Finish(p, w, answer)) = Outstanding(p)
  BY DEF Outstanding, Finish, PoolOf
<1>4. \A S \in SUBSET p.pending : Outstanding(Take(p, S)) = Outstanding(p) \ S
  BY DEF Outstanding, Take, PoolOf, Consistent
<1> QED
  BY <1>1, <1>2, <1>3, <1>4

\* The operations keep a pool consistent; a new work must not be pending.
LEMMA ConsistentAfter ==
    ASSUME NEW Work, NEW Answer, NEW p \in PoolOf(Work, Answer), Consistent(p)
    PROVE  /\ Consistent(Dispatch(p))
           /\ Consistent(Abandon(p))
           /\ \A w : w \notin p.pending => Consistent(Enqueue(p, w))
           /\ \A w : w \notin AnsweredWorks(p) => Consistent(StartWork(p, w))
           /\ \A w : Consistent(Expire(p, w))
           /\ \A S : Consistent(Take(p, S))
           /\ \A w \in p.running : \A answer : Consistent(Finish(p, w, answer))
<1> USE DEF Consistent, PoolOf, AnsweredWorks
<1>1. Consistent(Dispatch(p))
  BY DEF Dispatch
<1>2. Consistent(Abandon(p))
  BY DEF Abandon
<1>3. ASSUME NEW w, w \notin p.pending PROVE Consistent(Enqueue(p, w))
  BY <1>3 DEF Enqueue
<1>4. ASSUME NEW w, w \notin AnsweredWorks(p) PROVE Consistent(StartWork(p, w))
  BY <1>4 DEF StartWork
<1>5. ASSUME NEW w PROVE Consistent(Expire(p, w))
  BY DEF Expire
<1>6. ASSUME NEW S PROVE Consistent(Take(p, S))
  BY DEF Take
<1>7. ASSUME NEW w \in p.running, NEW answer PROVE Consistent(Finish(p, w, answer))
  <2>1. CASE w \in p.pending
    <3> DEFINE q == Finish(p, w, answer)
    <3>1. q.answered = p.answered \union {<<w, answer>>}
          /\ q.running = p.running \ {w} /\ q.queued = p.queued /\ q.pending = p.pending
      BY <2>1 DEF Finish
    <3>2. w \notin AnsweredWorks(p)
      OBVIOUS
    <3> HIDE DEF q
    <3>3. AnsweredWorks(q) = AnsweredWorks(p) \union {w}
      <4>1. <<w, answer>>[1] = w
        OBVIOUS
      <4>2. \A x : x \in q.answered <=> x \in p.answered \/ x = <<w, answer>>
        BY <3>1
      <4>3. \A v : v \in AnsweredWorks(q) <=> \E x : x \in q.answered /\ x[1] = v
        BY Zenon DEF AnsweredWorks
      <4>4. \A v : v \in AnsweredWorks(p) <=> \E x : x \in p.answered /\ x[1] = v
        BY Zenon DEF AnsweredWorks
      <4>5. \A v : v \in AnsweredWorks(q) <=> v \in AnsweredWorks(p) \/ v = w
        BY <4>1, <4>2, <4>3, <4>4, Zenon
      <4> QED
        BY <4>5, Zenon
    <3>4. \A x, y \in q.answered : x[1] = y[1] => x = y
      BY <3>1, <3>2
    <3>5. Consistent(q)
      BY <2>1, <3>1, <3>2, <3>3, <3>4
    <3> QED
      BY <3>5 DEF q
  <2>2. CASE w \notin p.pending
    BY <2>2 DEF Finish
  <2> QED
    BY <2>1, <2>2
<1> QED
  BY <1>1, <1>2, <1>3, <1>4, <1>5, <1>6, <1>7

-----------------------------------------------------------------------------
(* Type correctness.                                                       *)

LEMMA InitType == Init => TypeOK
BY TasksAssumption, AgentsAssumption
   DEF Init, NoWorkYet, TypeOK, Statuses, Stages, Controller, PoolOf, EmptyPool

\* What a step may do to a controller leaves a controller.
LEMMA ControllerType ==
    ASSUME NEW c \in Controller
    PROVE  /\ \A n \in Nat : Waiting(c, n) \in Controller
           /\ Freed(c) \in Controller
           /\ Revised(c) \in Controller
           /\ Numbered(c) \in Controller
           /\ Disabled(c) \in Controller
           /\ \A r : Cleared(c, r) \in Controller
<1>1. \A n \in Nat : Waiting(c, n) \in Controller
  BY DEF Controller, Waiting
<1>2. Freed(c) \in Controller
  BY DEF Controller, Freed
<1>3. Revised(c) \in Controller
  BY DEF Controller, Revised
<1>4. Numbered(c) \in Controller
  BY DEF Controller, Numbered
<1>5. Disabled(c) \in Controller
  BY DEF Controller, Disabled
<1> QED
  BY <1>1, <1>2, <1>3, <1>4, <1>5 DEF Cleared

LEMMA StepType == TypeOK /\ [Next]_vars => TypeOK'
<1> SUFFICES ASSUME TypeOK, [Next]_vars PROVE TypeOK'
  OBVIOUS
<1> USE DEF TypeOK
<1>1. ASSUME NEW t \in Tasks, BeginTick(t) PROVE TypeOK'
  <2>1. PICK effect \in [Agents -> Effects] :
          /\ controller' = [a \in Agents |-> ControllerAfter(controller[a], effect[a])]
          /\ drive' = [a \in Agents |-> DriveAfter(drive[a], effect[a])]
          /\ occupied' = [a \in Agents |-> OccupiedAfter(occupied[a], effect[a])]
    BY <1>1 DEF BeginTick
  <2>2. controller' \in [Agents -> Controller]
    BY <2>1, ControllerType DEF ControllerAfter
  <2>3. drive' \in [Agents -> {"normal", "critical"}]
    BY <2>1 DEF DriveAfter
  <2>4. occupied' \in [Agents -> SUBSET {"plan", "speech"}]
    BY <2>1 DEF OccupiedAfter
  <2>5. stage' \in [Tasks -> Stages] /\ visit' \in SUBSET Agents
        /\ clock' \in Nat /\ loop' \in Tasks \union {Free}
    BY <1>1 DEF BeginTick, Stages
  <2> QED
    BY <1>1, <2>2, <2>3, <2>4, <2>5 DEF BeginTick, workVars
<1>2. ASSUME NEW t \in Tasks, Evaluate(t) PROVE TypeOK'
  <2> PICK a \in Agents : Ask(t, a) \/ Exhaust(t, a) \/ PassOver(t, a)
    BY <1>2 DEF Evaluate
  <2>1. ASSUME Ask(t, a) PROVE TypeOK'
    <3>1. NewRequest(a) \in Request
      BY DEF NewRequest, Request, Controller
    <3>2. controller' \in [Agents -> Controller]
      <4>1. \A c \in Controller : c.seq + 1 \in Nat
        BY DEF Controller
      <4> QED
        BY <2>1, <4>1, ControllerType DEF Ask, Visiting
    <3>3. pool' \in PoolOf(Request, Answers)
      BY <2>1, <3>1, PoolOperationsType DEF Ask
    <3>4. requestCount' \in Nat /\ visit' \in SUBSET Agents
      BY <2>1 DEF Ask, Visiting
    <3> QED
      BY <2>1, <3>2, <3>3, <3>4 DEF Ask, Visiting
  <2>2. ASSUME Exhaust(t, a) \/ PassOver(t, a) PROVE TypeOK'
    <3>1. controller' \in [Agents -> Controller] /\ visit' \in SUBSET Agents
      BY <2>2, ControllerType DEF Exhaust, PassOver, Visiting
    <3> QED
      BY <2>2, <3>1 DEF Exhaust, PassOver, Visiting, workVars
  <2> QED
    BY <2>1, <2>2
<1>3. ASSUME NEW t \in Tasks, StartDrain(t) PROVE TypeOK'
  BY <1>3, PoolOperationsType DEF StartDrain, worldVars, Stages
<1>4. ASSUME NEW t \in Tasks, Poll(t) PROVE TypeOK'
  <2>1. pool' \in PoolOf(Request, Answers)
    BY <1>4, PoolOperationsType DEF Poll
  <2>2. ASSUME NEW x \in Ready(pool)
        PROVE  [request |-> x[1], result |-> x[2], round |-> round[t]] \in Item
    BY <2>2, ReadyType DEF Item, Results
  <2>3. collected' \in [Tasks -> SUBSET Item]
    BY <1>4, <2>2 DEF Poll
  <2>4. round' \in [Tasks -> Nat] /\ stage' \in [Tasks -> Stages]
        /\ loop' \in Tasks \union {Free}
    BY <1>4 DEF Poll, Stages
  <2> QED
    BY <1>4, <2>1, <2>3, <2>4 DEF Poll, worldVars
<1>5. ASSUME NEW t \in Tasks, PollRaises(t) PROVE TypeOK'
  <2>1. PICK x, taken :
          /\ x \in Ready(pool)
          /\ taken = {x[1]} \union {y[1] : y \in {z \in Ready(pool) : Precedes(z[1], x[1])}}
          /\ pool' = Take(pool, taken)
          /\ abandoned' = abandoned \union taken \union {i.request : i \in collected[t]}
    BY <1>5 DEF PollRaises
  <2>2. taken \in SUBSET Request
    BY <2>1, ReadyType
  <2>3. abandoned' \in SUBSET Request
    BY <2>1, <2>2 DEF Item
  <2>4. pool' \in PoolOf(Request, Answers)
    <3>1. \A S : Take(pool, S) \in PoolOf(Request, Answers)
      BY PoolOperationsType
    <3> QED
      BY <2>1, <3>1
  <2> QED
    BY <1>5, <2>3, <2>4 DEF PollRaises, worldVars, Stages
<1>6. ASSUME NEW t \in Tasks, ApplyNext(t) PROVE TypeOK'
  <2>1. PICK i \in collected[t] : Fail(t, i) \/ Reject(t, i) \/ Commit(t, i)
    BY <1>6 DEF ApplyNext
  <2>2. i \in Item /\ i.request \in Request /\ i.request.agent \in Agents
    BY DEF Item, Request
  <2>3. controller' \in [Agents -> Controller]
    BY <2>1, <2>2, ControllerType DEF Fail, Reject, Commit, ClearPending
  <2>4. settled' \in SUBSET Settlement
    BY <2>1, <2>2 DEF Fail, Reject, Commit, SettleAs, Settlement, Fates
  <2>5. tokens' \in Nat /\ occupied' \in [Agents -> SUBSET {"plan", "speech"}]
    BY <2>1, <2>2 DEF Fail, Reject, Commit, OccupiedBy
  <2>6. collected' \in [Tasks -> SUBSET Item]
    BY <2>1 DEF Fail, Reject, Commit, Applying
  <2> QED
    BY <2>1, <2>3, <2>4, <2>5, <2>6 DEF Fail, Reject, Commit, Applying
<1>7. ASSUME NEW t \in Tasks, FinishDrain(t) \/ EndTick(t) PROVE TypeOK'
  BY <1>7 DEF FinishDrain, EndTick, worldVars, workVars, Stages
<1>8. ASSUME Stop PROVE TypeOK'
  <2>1. controller' \in [Agents -> Controller]
    BY <1>8, ControllerType DEF Stop, CancelAll, ControllerCancelled
  <2>2. pool' \in PoolOf(Request, Answers)
    BY <1>8, PoolOperationsType DEF Stop, CancelAll
  <2>3. settled' \in SUBSET Settlement
    BY <1>8, PoolOperationsType DEF Stop, CancelAll, Settlement, Fates
  <2> QED
    BY <1>8, <2>1, <2>2, <2>3 DEF Stop, Statuses
<1>9. ASSUME WorkerStarts \/ WorkerFinishes \/ DeadlinePasses PROVE TypeOK'
  <2>1. pool.pending \subseteq Request /\ pool.running \subseteq Request
    BY DEF PoolOf
  <2>2. /\ \A w \in Request : StartWork(pool, w) \in PoolOf(Request, Answers)
        /\ \A w \in Request, answer \in Answers :
              Finish(pool, w, answer) \in PoolOf(Request, Answers)
        /\ \A w \in Request : Expire(pool, w) \in PoolOf(Request, Answers)
    BY PoolOperationsType
  <2>3. pool' \in PoolOf(Request, Answers)
    BY <1>9, <2>1, <2>2 DEF WorkerStarts, WorkerFinishes, DeadlinePasses
  <2> QED
    BY <1>9, <2>3 DEF WorkerStarts, WorkerFinishes, DeadlinePasses, poolUnchanged, worldVars
<1>10. CASE UNCHANGED vars
  BY <1>10 DEF vars, worldVars, workVars
<1> QED
  BY <1>1, <1>2, <1>3, <1>4, <1>5, <1>6, <1>7, <1>8, <1>9, <1>10 DEF Next, TickStep

\* Every reachable state of the barrier is well typed, in particular every
\* answer a drain holds belongs to a request, for all values of the constants.
THEOREM TypeCorrect == SafetySpec => []TypeOK
BY InitType, StepType, PTL DEF SafetySpec

-----------------------------------------------------------------------------
(* The inductive invariant, one conjunct at a time.                        *)

LEMMA InitInductive == Init => InductiveInvariant
<1> SUFFICES ASSUME Init PROVE InductiveInvariant
  OBVIOUS
<1>1. TypeOK
  BY InitType
<1>2. /\ pool = EmptyPool /\ settled = {} /\ abandoned = {}
      /\ \A t \in Tasks : collected[t] = {} /\ stage[t] = "idle"
      /\ \A a \in Agents : ~controller[a].pending /\ controller[a].current = 0
                            /\ controller[a].seq = 0
  BY DEF Init, NoWorkYet
<1>3. Outstanding(pool) = {} /\ InDrains = {} /\ SettledRequests = {}
  BY <1>2 DEF Outstanding, EmptyPool, InDrains, Held, SettledRequests
<1>4. Consistent(pool) /\ LoopDiscipline
  BY <1>2 DEF Consistent, AnsweredWorks, EmptyPool, LoopDiscipline
<1>5. Issued = {} /\ Unsettled = {}
  BY <1>2, <1>3 DEF Issued, Unsettled
<1>6. NumberedByAgent /\ OneRequestPerId /\ BarrierComplete
  BY <1>2, <1>5 DEF NumberedByAgent, OneRequestPerId, BarrierComplete
<1>7. EveryIdIssued /\ NoOrphanedRequest
  <2>1. \A a \in Agents : 1..controller[a].seq = {}
    BY <1>2
  <2>2. NoOrphanedRequest
    BY <1>2 DEF NoOrphanedRequest
  <2> QED
    BY <2>1, <2>2 DEF EveryIdIssued
<1>8. OnePlace /\ HeldOnce /\ OneFate
  BY <1>2, <1>3, <1>5 DEF OnePlace, HeldOnce, OneFate
<1> QED
  BY <1>1, <1>4, <1>6, <1>7, <1>8 DEF InductiveInvariant, NothingLostOrDuplicated

\* A step that neither issues nor forgets a request keeps the numbering.
LEMMA Renumbered ==
    ASSUME NumberedByAgent, EveryIdIssued, OneRequestPerId,
           Issued' = Issued, Issued \subseteq Request,
           \A a \in Agents : controller'[a].seq = controller[a].seq
    PROVE  NumberedByAgent' /\ EveryIdIssued' /\ OneRequestPerId'
BY DEF NumberedByAgent, EveryIdIssued, OneRequestPerId, Request

LEMMA IssuedType == TypeOK => Issued \subseteq Request
<1> SUFFICES ASSUME TypeOK PROVE Issued \subseteq Request
  OBVIOUS
<1>1. Outstanding(pool) \subseteq Request
  BY PoolOperationsType DEF TypeOK
<1>2. InDrains \subseteq Request
  BY DEF TypeOK, InDrains, Held, Item
<1>3. SettledRequests \subseteq Request /\ abandoned \subseteq Request
  BY DEF TypeOK, SettledRequests, Settlement
<1> QED
  BY <1>1, <1>2, <1>3 DEF Issued, Unsettled

\* Controllers keep their numbers when they are freed, revised or disabled.
LEMMA SameNumber ==
    ASSUME NEW c \in Controller
    PROVE  /\ Freed(c).seq = c.seq /\ Revised(c).seq = c.seq /\ Disabled(c).seq = c.seq
           /\ \A r : Cleared(c, r).seq = c.seq
           /\ \A effect : ControllerAfter(c, effect).seq = c.seq
           /\ Waiting(Numbered(c), c.seq + 1).seq = c.seq + 1
<1>1. Freed(c).seq = c.seq /\ Revised(c).seq = c.seq /\ Disabled(c).seq = c.seq
  BY DEF Freed, Revised, Disabled, Controller
<1>2. \A r : Cleared(c, r).seq = c.seq
  BY <1>1 DEF Cleared
<1>3. Freed(c) \in Controller /\ Numbered(c) \in Controller
  BY ControllerType
<1>4. \A effect : ControllerAfter(c, effect).seq = c.seq
  <2>1. Revised(Freed(c)).seq = c.seq
    BY <1>1, <1>3 DEF Revised, Controller
  <2> QED
    BY <1>1, <2>1 DEF ControllerAfter
<1>5. Waiting(Numbered(c), c.seq + 1).seq = c.seq + 1
  BY <1>3 DEF Waiting, Numbered, Controller
<1> QED
  BY <1>1, <1>2, <1>4, <1>5

\* A step that leaves the queue, the drains, the settlements and the numbers
\* alone keeps everything in its place.
LEMMA NothingMoved ==
    ASSUME TypeOK, NumberedByAgent, NothingLostOrDuplicated,
           Outstanding(pool)' = Outstanding(pool),
           UNCHANGED <<collected, settled, abandoned>>,
           \A a \in Agents : controller'[a].seq = controller[a].seq
    PROVE  NumberedByAgent' /\ NothingLostOrDuplicated'
<1>1. InDrains' = InDrains /\ SettledRequests' = SettledRequests
  BY DEF InDrains, Held, SettledRequests
<1>2. Unsettled' = Unsettled /\ Issued' = Issued
  BY <1>1 DEF Unsettled, Issued
<1>3. NumberedByAgent' /\ EveryIdIssued' /\ OneRequestPerId'
  BY <1>2, Renumbered, IssuedType DEF NothingLostOrDuplicated
<1>4. OnePlace'
  BY <1>1, <1>2 DEF NothingLostOrDuplicated, OnePlace
<1>5. HeldOnce' /\ OneFate'
  BY DEF NothingLostOrDuplicated, HeldOnce, OneFate
<1> QED
  BY <1>3, <1>4, <1>5 DEF NothingLostOrDuplicated

\* A new request has an id nobody had, so it is in no other place.
LEMMA AskMoves ==
    ASSUME InductiveInvariant, NEW t \in Tasks, NEW a \in Agents, Ask(t, a)
    PROVE  /\ NumberedByAgent' /\ NothingLostOrDuplicated'
           /\ NewRequest(a) \notin Issued
<1> DEFINE new == NewRequest(a)
<1> USE DEF InductiveInvariant
<1>1. controller[a] \in Controller /\ controller[a].seq \in Nat
  BY DEF TypeOK, Controller
<1>2. new \in Request /\ new.agent = a /\ new.seq = controller[a].seq + 1
  BY <1>1 DEF NewRequest, Request, TypeOK, Controller
<1>3. /\ controller'[a].seq = controller[a].seq + 1
      /\ \A b \in Agents \ {a} : controller'[b] = controller[b]
  BY <1>1, SameNumber DEF Ask, TypeOK
<1>4. Issued \subseteq Request /\ \A r \in Issued : r.seq \in 1..controller[r.agent].seq
  BY IssuedType DEF NumberedByAgent
<1>5. new \notin Issued
  BY <1>1, <1>2, <1>4
<1>6. Outstanding(pool)' = Outstanding(pool) \union {new}
  BY OutstandingAfter DEF Ask, TypeOK
<1>7. UNCHANGED <<collected, settled, abandoned>>
  BY DEF Ask
<1>8. InDrains' = InDrains /\ SettledRequests' = SettledRequests
  BY <1>7 DEF InDrains, Held, SettledRequests
<1>9. Unsettled' = Unsettled \union {new} /\ Issued' = Issued \union {new}
  BY <1>6, <1>7, <1>8 DEF Unsettled, Issued
<1> HIDE DEF new
<1>10. \A b \in Agents : controller[b].seq \in Nat
  BY DEF TypeOK, Controller
<1>11. NumberedByAgent'
  <2> SUFFICES ASSUME NEW r \in Issued' PROVE r.seq \in 1..controller'[r.agent].seq
    BY DEF NumberedByAgent
  <2>1. CASE r = new
    BY <2>1, <1>1, <1>2, <1>3
  <2>2. CASE r \in Issued
    <3>1. r.agent \in Agents /\ r.seq \in Nat
      BY <2>2, <1>4 DEF Request
    <3>2. r.seq \in 1..controller[r.agent].seq
      BY <2>2, <1>4
    <3> QED
      BY <3>1, <3>2, <1>1, <1>3
  <2> QED
    BY <2>1, <2>2, <1>9
<1>12. EveryIdIssued'
  <2> SUFFICES ASSUME NEW b \in Agents, NEW n \in 1..controller'[b].seq
               PROVE  \E r \in Issued' : r.agent = b /\ r.seq = n
    BY DEF EveryIdIssued
  <2>1. CASE b = a /\ n = controller[a].seq + 1
    BY <2>1, <1>2, <1>9
  <2>2. CASE ~(b = a /\ n = controller[a].seq + 1)
    <3>1. n \in 1..controller[b].seq
      BY <2>2, <1>3, <1>10
    <3> QED
      BY <3>1, <1>9 DEF NothingLostOrDuplicated, EveryIdIssued
  <2> QED
    BY <2>1, <2>2
<1>13. OneRequestPerId'
  <2>1. \A r \in Issued : ~(r.agent = a /\ r.seq = new.seq)
    BY <1>1, <1>2, <1>4
  <2> QED
    BY <2>1, <1>2, <1>9 DEF NothingLostOrDuplicated, OneRequestPerId
<1>14. OnePlace'
  BY <1>5, <1>6, <1>7, <1>8, <1>9 DEF NothingLostOrDuplicated, OnePlace, Issued, Unsettled
<1>15. HeldOnce' /\ OneFate'
  BY <1>7 DEF NothingLostOrDuplicated, HeldOnce, OneFate
<1> QED
  BY <1>5, <1>11, <1>12, <1>13, <1>14, <1>15 DEF NothingLostOrDuplicated, new

\* A poll moves the requests it takes from the pool to the drain's list.
LEMMA PollMoves ==
    ASSUME InductiveInvariant, NEW t \in Tasks, Poll(t)
    PROVE  NumberedByAgent' /\ NothingLostOrDuplicated' /\ Unsettled' = Unsettled
<1> DEFINE works == {x[1] : x \in Ready(pool)}
           item(x) == [request |-> x[1], result |-> x[2], round |-> round[t]]
<1> USE DEF InductiveInvariant
<1>1. works \in SUBSET pool.pending /\ works \subseteq Outstanding(pool)
  BY ReadyIsPending DEF TypeOK, Outstanding
<1>2. Outstanding(pool)' = Outstanding(pool) \ works
  BY <1>1, OutstandingAfter DEF Poll, TypeOK
<1>3. /\ collected'[t] = collected[t] \union {item(x) : x \in Ready(pool)}
      /\ \A u \in Tasks \ {t} : collected'[u] = collected[u]
  BY DEF Poll, TypeOK
<1>4. \A x \in Ready(pool) : item(x).request = x[1]
  OBVIOUS
<1>5. Held(t)' = Held(t) \union works /\ \A u \in Tasks \ {t} : Held(u)' = Held(u)
  <2>1. {i.request : i \in {item(x) : x \in Ready(pool)}} = works
    BY <1>4
  <2> HIDE DEF item, works
  <2> QED
    BY <1>3, <2>1 DEF Held
<1>6. InDrains' = InDrains \union works
  BY <1>5 DEF InDrains
<1>7. UNCHANGED <<settled, abandoned, controller>> /\ SettledRequests' = SettledRequests
  BY DEF Poll, worldVars, SettledRequests
<1>8. Unsettled' = Unsettled
  BY <1>1, <1>2, <1>6 DEF Unsettled
<1>9. Issued' = Issued
  BY <1>7, <1>8 DEF Issued
<1>10. NumberedByAgent' /\ EveryIdIssued' /\ OneRequestPerId'
  BY <1>7, <1>9, Renumbered, IssuedType DEF NothingLostOrDuplicated
<1>11. OnePlace'
  BY <1>1, <1>2, <1>6, <1>7, <1>8 DEF NothingLostOrDuplicated, OnePlace
<1>12. HeldOnce'
  <2> SUFFICES ASSUME NEW u \in Tasks, NEW v \in Tasks,
                      NEW i \in collected'[u], NEW j \in collected'[v], i.request = j.request
               PROVE  u = v /\ i = j
    BY DEF HeldOnce
  <2> DEFINE new == {item(x) : x \in Ready(pool)}
  <2>1. \A w \in Tasks : \A k \in collected[w] : k.request \in InDrains
    BY DEF InDrains, Held
  <2>2. \A k \in new : k.request \in Outstanding(pool)
    BY <1>1
  <2>3. \A k, l \in new : k.request = l.request => k = l
    BY ReadyIsPending DEF TypeOK
  <2>4. Outstanding(pool) \intersect InDrains = {}
    BY DEF NothingLostOrDuplicated, OnePlace
  <2>5. /\ i \in collected[u] \/ (i \in new /\ u = t)
        /\ j \in collected[v] \/ (j \in new /\ v = t)
    BY <1>3
  <2> HIDE DEF new, item, works
  <2>6. CASE i \in collected[u] /\ j \in collected[v]
    BY <2>6 DEF NothingLostOrDuplicated, HeldOnce
  <2>7. CASE i \in new /\ u = t /\ j \in new /\ v = t
    BY <2>3, <2>7
  <2> QED
    BY <2>1, <2>2, <2>4, <2>5, <2>6, <2>7
<1>13. OneFate'
  BY <1>7 DEF NothingLostOrDuplicated, OneFate
<1> QED
  BY <1>8, <1>10, <1>11, <1>12, <1>13 DEF NothingLostOrDuplicated

\* A drain that raises drops what it held and the futures it had taken.
LEMMA PollRaisesMoves ==
    ASSUME InductiveInvariant, NEW t \in Tasks, PollRaises(t)
    PROVE  NumberedByAgent' /\ NothingLostOrDuplicated' /\ Issued' = Issued
           /\ Unsettled \subseteq Unsettled' \union abandoned' /\ abandoned \subseteq abandoned'
<1> USE DEF InductiveInvariant
<1>1. PICK x, taken :
          /\ x \in Ready(pool)
          /\ taken = {x[1]} \union {y[1] : y \in {z \in Ready(pool) : Precedes(z[1], x[1])}}
          /\ pool' = Take(pool, taken)
          /\ abandoned' = abandoned \union taken \union {i.request : i \in collected[t]}
  BY DEF PollRaises
<1>2. taken \in SUBSET pool.pending /\ taken \subseteq Outstanding(pool)
  BY <1>1, ReadyIsPending DEF TypeOK, Outstanding
<1>3. Outstanding(pool)' = Outstanding(pool) \ taken
  BY <1>1, <1>2, OutstandingAfter DEF TypeOK
<1>4. abandoned' = abandoned \union taken \union Held(t)
  BY <1>1 DEF Held
<1>5. collected'[t] = {} /\ \A u \in Tasks \ {t} : collected'[u] = collected[u]
  BY DEF PollRaises, TypeOK
<1>6. Held(t)' = {} /\ \A u \in Tasks \ {t} : Held(u)' = Held(u)
  BY <1>5 DEF Held
<1>7. \A u \in Tasks \ {t} : Held(u) \intersect Held(t) = {}
  BY DEF Held, NothingLostOrDuplicated, HeldOnce
<1>8. InDrains' = InDrains \ Held(t) /\ Held(t) \subseteq InDrains
  BY <1>6, <1>7 DEF InDrains
<1>9. UNCHANGED <<settled, controller>> /\ SettledRequests' = SettledRequests
  BY DEF PollRaises, worldVars, SettledRequests
<1>10. OnePlace
  BY DEF NothingLostOrDuplicated
<1>11. Unsettled' = Unsettled \ (taken \union Held(t))
  BY <1>2, <1>3, <1>8, <1>10 DEF Unsettled, OnePlace
<1>12. Issued' = Issued
  BY <1>2, <1>4, <1>8, <1>9, <1>11 DEF Issued, Unsettled
<1>13. NumberedByAgent' /\ EveryIdIssued' /\ OneRequestPerId'
  BY <1>9, <1>12, Renumbered, IssuedType DEF NothingLostOrDuplicated
<1>14. OnePlace'
  BY <1>2, <1>3, <1>4, <1>8, <1>9, <1>10, <1>11 DEF OnePlace, Unsettled
<1>15. HeldOnce' /\ OneFate'
  BY <1>5, <1>9 DEF NothingLostOrDuplicated, HeldOnce, OneFate
<1> QED
  BY <1>4, <1>11, <1>12, <1>13, <1>14, <1>15 DEF NothingLostOrDuplicated

\* What the ends of a decision have in common.
Settles(t, i) ==
    /\ Applying(t, i)
    /\ \E fate \in Fates : SettleAs(i.request, fate)
    /\ \/ ClearPending(i.request)
       \/ controller' = [controller EXCEPT ![i.request.agent] = Revised(Freed(@))]

LEMMA EndsSettle ==
    ASSUME NEW t, NEW i, Fail(t, i) \/ Reject(t, i) \/ Commit(t, i)
    PROVE  Settles(t, i)
BY DEF Fail, Reject, Commit, Settles, Fates

\* Applying an item settles its request, once and with one fate.
LEMMA ApplyMoves ==
    ASSUME InductiveInvariant, NEW t \in Tasks, NEW i \in collected[t], Settles(t, i)
    PROVE  /\ NumberedByAgent' /\ NothingLostOrDuplicated'
           /\ Unsettled' = Unsettled \ {i.request}
           /\ i.request \in Unsettled
<1> USE DEF InductiveInvariant
<1>1. i \in Item /\ i.request \in Request /\ i.request.agent \in Agents
  BY DEF TypeOK, Item, Request
<1>2. PICK fate : settled' = settled \union {[request |-> i.request, fate |-> fate]}
  BY DEF Settles, SettleAs
<1>3. /\ collected' = [collected EXCEPT ![t] = @ \ {i}]
      /\ UNCHANGED <<pool, abandoned>>
  BY DEF Settles, Applying
<1>4. /\ collected'[t] = collected[t] \ {i}
      /\ \A u \in Tasks \ {t} : collected'[u] = collected[u]
  BY <1>3 DEF TypeOK
<1>5. \A a \in Agents : controller'[a].seq = controller[a].seq
  <2>1. \A a \in Agents : controller[a] \in Controller
    BY DEF TypeOK
  <2>2. Revised(Freed(controller[i.request.agent])).seq = controller[i.request.agent].seq
    BY <1>1, <2>1, SameNumber, ControllerType
  <2> QED
    BY <1>1, <2>1, <2>2, SameNumber DEF Settles, ClearPending, TypeOK
<1>6. \A u \in Tasks : \A k \in collected[u] : k.request = i.request => u = t /\ k = i
  BY DEF NothingLostOrDuplicated, HeldOnce
<1>7. Held(t)' = Held(t) \ {i.request} /\ i.request \in Held(t)
  BY <1>4, <1>6 DEF Held
<1>8. \A u \in Tasks \ {t} : Held(u)' = Held(u) /\ i.request \notin Held(u)
  BY <1>4, <1>6 DEF Held
<1>9. InDrains' = InDrains \ {i.request} /\ i.request \in InDrains
  BY <1>7, <1>8 DEF InDrains
<1>10. SettledRequests' = SettledRequests \union {i.request}
  <2>1. [request |-> i.request, fate |-> fate].request = i.request
    OBVIOUS
  <2> QED
    BY <1>2, <2>1 DEF SettledRequests
<1>11. OnePlace
  BY DEF NothingLostOrDuplicated
<1>12. Outstanding(pool)' = Outstanding(pool)
  BY <1>3
<1>13. Unsettled' = Unsettled \ {i.request} /\ i.request \in Unsettled
  BY <1>9, <1>11, <1>12 DEF Unsettled, OnePlace
<1>14. Issued' = Issued
  BY <1>3, <1>10, <1>13 DEF Issued
<1>15. NumberedByAgent' /\ EveryIdIssued' /\ OneRequestPerId'
  BY <1>5, <1>14, Renumbered, IssuedType DEF NothingLostOrDuplicated
<1>16. OnePlace'
  BY <1>3, <1>9, <1>10, <1>11, <1>12, <1>13 DEF OnePlace
<1>17. HeldOnce'
  BY <1>4 DEF NothingLostOrDuplicated, HeldOnce
<1>18. OneFate'
  <2>1. \A x \in settled : x.request # i.request
    BY <1>11, <1>13 DEF OnePlace, SettledRequests
  <2> QED
    BY <1>2, <2>1 DEF NothingLostOrDuplicated, OneFate
<1> QED
  BY <1>13, <1>15, <1>16, <1>17, <1>18 DEF NothingLostOrDuplicated

\* Stopping cancels whatever is queued or in flight, and nothing else.
LEMMA CancelMoves ==
    ASSUME InductiveInvariant, CancelAll, UNCHANGED <<collected, abandoned>>
    PROVE  /\ NumberedByAgent' /\ NothingLostOrDuplicated'
           /\ Unsettled' = InDrains
<1> USE DEF InductiveInvariant
<1> DEFINE cancelled == {[request |-> r, fate |-> "cancelled"] : r \in Outstanding(pool)}
<1>1. Outstanding(pool)' = {}
  BY OutstandingAfter DEF CancelAll, TypeOK
<1>2. settled' = settled \union cancelled
  BY DEF CancelAll
<1>3. UNCHANGED <<collected, abandoned>> /\ InDrains' = InDrains
  BY DEF InDrains, Held
<1>4. \A a \in Agents : controller'[a].seq = controller[a].seq
  BY SameNumber DEF CancelAll, ControllerCancelled, TypeOK
<1>5. {x.request : x \in cancelled} = Outstanding(pool)
  <2>1. \A r \in Outstanding(pool) : [request |-> r, fate |-> "cancelled"].request = r
    OBVIOUS
  <2> QED
    BY <2>1
<1>6. \A x, y \in cancelled : x.request = y.request => x = y
  OBVIOUS
<1> HIDE DEF cancelled
<1>7. SettledRequests' = SettledRequests \union Outstanding(pool)
  BY <1>2, <1>5 DEF SettledRequests
<1>8. OnePlace
  BY DEF NothingLostOrDuplicated
<1>9. Unsettled' = InDrains
  BY <1>1, <1>3 DEF Unsettled
<1>10. Issued' = Issued
  BY <1>3, <1>7, <1>9 DEF Issued, Unsettled
<1>11. NumberedByAgent' /\ EveryIdIssued' /\ OneRequestPerId'
  BY <1>4, <1>10, Renumbered, IssuedType DEF NothingLostOrDuplicated
<1>12. OnePlace'
  BY <1>1, <1>3, <1>7, <1>8, <1>9 DEF OnePlace, Unsettled
<1>13. HeldOnce'
  BY <1>3 DEF NothingLostOrDuplicated, HeldOnce
<1>14. OneFate'
  <2>1. \A x \in settled, y \in cancelled : x.request # y.request
    BY <1>5, <1>8 DEF OnePlace, SettledRequests, Unsettled
  <2> QED
    BY <1>2, <1>6, <2>1 DEF NothingLostOrDuplicated, OneFate
<1> QED
  BY <1>9, <1>11, <1>12, <1>13, <1>14 DEF NothingLostOrDuplicated

\* The steps that move no request: systems, gates, the start and the end of a
\* drain, and the threads.
QuietStep ==
    \/ \E t \in Tasks :
          \/ BeginTick(t) \/ StartDrain(t) \/ FinishDrain(t) \/ EndTick(t)
          \/ \E a \in Agents : Exhaust(t, a) \/ PassOver(t, a)
    \/ WorkerStarts \/ WorkerFinishes \/ DeadlinePasses
    \/ UNCHANGED vars

Still ==
    /\ Outstanding(pool)' = Outstanding(pool)
    /\ UNCHANGED <<collected, settled, abandoned>>
    /\ \A a \in Agents : controller'[a].seq = controller[a].seq

LEMMA QuietMoves ==
    ASSUME InductiveInvariant, QuietStep
    PROVE  Still
<1> USE DEF InductiveInvariant, Still
<1>1. \A a \in Agents : controller[a] \in Controller
  BY DEF TypeOK
<1>2. pool \in PoolOf(Request, Answers)
  BY DEF TypeOK
<1>3. ASSUME NEW t \in Tasks, BeginTick(t) PROVE Still
  <2>1. PICK effect \in [Agents -> Effects] :
            controller' = [a \in Agents |-> ControllerAfter(controller[a], effect[a])]
    BY <1>3 DEF BeginTick
  <2> QED
    BY <1>1, <1>3, <2>1, SameNumber DEF BeginTick, workVars
<1>4. ASSUME NEW t \in Tasks, StartDrain(t) PROVE Still
  BY <1>2, <1>4, OutstandingAfter DEF StartDrain, worldVars
<1>5. ASSUME NEW t \in Tasks, FinishDrain(t) \/ EndTick(t) PROVE Still
  BY <1>5 DEF FinishDrain, EndTick, worldVars, workVars
<1>6. ASSUME NEW t \in Tasks, NEW a \in Agents, Exhaust(t, a) \/ PassOver(t, a)
      PROVE  Still
  BY <1>1, <1>6, SameNumber DEF Exhaust, PassOver, workVars, TypeOK
<1>7. ASSUME WorkerStarts \/ WorkerFinishes \/ DeadlinePasses PROVE Still
  BY <1>2, <1>7, OutstandingAfter
     DEF WorkerStarts, WorkerFinishes, DeadlinePasses, poolUnchanged, worldVars
<1>8. CASE UNCHANGED vars
  BY <1>8 DEF vars, workVars, worldVars
<1> QED
  BY <1>3, <1>4, <1>5, <1>6, <1>7, <1>8 DEF QuietStep

-----------------------------------------------------------------------------
(* No orphaned request.                                                    *)

IsFree(c) == c.pending = FALSE /\ c.current = 0
SameWait(c, d) == c.pending = d.pending /\ c.current = d.current

\* The operations on a controller free it, keep its wait, or start one.
LEMMA WaitAfter ==
    ASSUME NEW c \in Controller
    PROVE  /\ IsFree(Freed(c))
           /\ IsFree(Revised(Freed(c)))
           /\ SameWait(Revised(c), c) /\ SameWait(Disabled(c), c)
           /\ \A r : IsFree(Cleared(c, r)) \/ (Cleared(c, r) = c /\ c.current # r.seq)
           /\ \A effect : IsFree(ControllerAfter(c, effect))
                           \/ SameWait(ControllerAfter(c, effect), c)
           /\ Waiting(Numbered(c), c.seq + 1).pending = TRUE
           /\ Waiting(Numbered(c), c.seq + 1).current = c.seq + 1
<1>1. IsFree(Freed(c)) /\ Freed(c) \in Controller
  BY ControllerType DEF Freed, IsFree, Controller
<1>2. \A d \in Controller : SameWait(Revised(d), d) /\ SameWait(Disabled(d), d)
  BY DEF Revised, Disabled, SameWait, Controller
<1>3. IsFree(Revised(Freed(c)))
  BY <1>1, <1>2 DEF IsFree, SameWait
<1>4. \A r : IsFree(Cleared(c, r)) \/ (Cleared(c, r) = c /\ c.current # r.seq)
  BY <1>1 DEF Cleared
<1>5. \A effect : IsFree(ControllerAfter(c, effect)) \/ SameWait(ControllerAfter(c, effect), c)
  BY <1>2, <1>3 DEF ControllerAfter, SameWait
<1>6. /\ Waiting(Numbered(c), c.seq + 1).pending = TRUE
      /\ Waiting(Numbered(c), c.seq + 1).current = c.seq + 1
  BY DEF Waiting, Numbered, Controller
<1> QED
  BY <1>1, <1>2, <1>3, <1>4, <1>5, <1>6

\* An agent that is free, or waits as before for a request that is still there,
\* is no orphan.
LEMMA StillAwaited ==
    ASSUME NoOrphanedRequest,
           \A a \in Agents :
               \/ IsFree(controller'[a])
               \/ /\ SameWait(controller'[a], controller[a])
                  /\ \A r \in Unsettled \union abandoned :
                         r.agent = a /\ r.seq = controller[a].current
                             => r \in Unsettled' \union abandoned'
    PROVE  NoOrphanedRequest'
BY DEF NoOrphanedRequest, IsFree, SameWait

\* Whoever is answered, or cancelled, waits no more.
LEMMA SettledIsNoOrphan ==
    ASSUME InductiveInvariant, NEW t \in Tasks, NEW i \in collected[t], Settles(t, i)
    PROVE  NoOrphanedRequest'
<1> USE DEF InductiveInvariant
<1>1. /\ i.request \in Request /\ i.request.agent \in Agents
      /\ \A a \in Agents : controller[a] \in Controller
  BY DEF TypeOK, Item, Request
<1>2. Unsettled' = Unsettled \ {i.request} /\ abandoned' = abandoned
  BY ApplyMoves DEF Settles, Applying
<1>3. \A a \in Agents \ {i.request.agent} : controller'[a] = controller[a]
  BY <1>1 DEF Settles, ClearPending, TypeOK
<1>4. \/ IsFree(controller'[i.request.agent])
      \/ /\ controller'[i.request.agent] = controller[i.request.agent]
         /\ controller[i.request.agent].current # i.request.seq
  <2> DEFINE c == controller[i.request.agent]
  <2>1. c \in Controller
    BY <1>1
  <2>2. \/ controller'[i.request.agent] = Cleared(c, i.request)
        \/ controller'[i.request.agent] = Revised(Freed(c))
    BY <1>1 DEF Settles, ClearPending, TypeOK
  <2> HIDE DEF c
  <2>3. /\ IsFree(Revised(Freed(c)))
        /\ IsFree(Cleared(c, i.request))
           \/ (Cleared(c, i.request) = c /\ c.current # i.request.seq)
    BY <2>1, WaitAfter
  <2> QED
    BY <2>2, <2>3 DEF c
<1> QED
  BY <1>1, <1>2, <1>3, <1>4, StillAwaited DEF SameWait

LEMMA CancelledIsNoOrphan ==
    ASSUME InductiveInvariant, CancelAll, UNCHANGED <<collected, abandoned>>
    PROVE  NoOrphanedRequest'
<1> USE DEF InductiveInvariant
<1>1. Unsettled' = InDrains
  BY CancelMoves
<1>2. \A a \in Agents :
          \/ IsFree(controller'[a])
          \/ /\ controller'[a] = controller[a]
             /\ \A r \in Outstanding(pool) : ~(r.agent = a /\ r.seq = controller[a].current)
  BY WaitAfter DEF CancelAll, ControllerCancelled, TypeOK
<1> QED
  BY <1>1, <1>2, StillAwaited DEF SameWait, Unsettled

LEMMA OrphanStep ==
    ASSUME InductiveInvariant, [Next]_vars
    PROVE  NoOrphanedRequest'
<1> USE DEF InductiveInvariant
<1>1. \A a \in Agents : controller[a] \in Controller
  BY DEF TypeOK
<1>2. CASE QuietStep
  <2>1. \A a \in Agents : IsFree(controller'[a]) \/ SameWait(controller'[a], controller[a])
    <3>1. ASSUME NEW t \in Tasks, BeginTick(t)
          PROVE  \A a \in Agents : IsFree(controller'[a]) \/ SameWait(controller'[a], controller[a])
      <4>1. PICK effect \in [Agents -> Effects] :
                controller' = [a \in Agents |-> ControllerAfter(controller[a], effect[a])]
        BY <3>1 DEF BeginTick
      <4> QED
        BY <1>1, <4>1, WaitAfter
    <3>2. ASSUME NEW t \in Tasks, NEW b \in Agents, Exhaust(t, b)
          PROVE  \A a \in Agents : IsFree(controller'[a]) \/ SameWait(controller'[a], controller[a])
      BY <1>1, <3>2, WaitAfter DEF Exhaust, TypeOK, SameWait
    <3>3. CASE UNCHANGED controller
      BY <3>3 DEF SameWait
    <3> QED
      BY <1>2, <3>1, <3>2, <3>3
         DEF QuietStep, StartDrain, FinishDrain, EndTick, PassOver, WorkerStarts,
             WorkerFinishes, DeadlinePasses, poolUnchanged, worldVars, vars
  <2>2. Unsettled' = Unsettled /\ abandoned' = abandoned
    BY <1>2, QuietMoves DEF Still, Unsettled, InDrains, Held
  <2> QED
    BY <2>1, <2>2, StillAwaited
<1>3. ASSUME NEW t \in Tasks, NEW a \in Agents, Ask(t, a) PROVE NoOrphanedRequest'
  <2>1. /\ controller'[a].pending = TRUE /\ controller'[a].current = controller[a].seq + 1
        /\ \A b \in Agents \ {a} : controller'[b] = controller[b]
    BY <1>1, <1>3, WaitAfter DEF Ask, TypeOK
  <2>2. Outstanding(pool)' = Outstanding(pool) \union {NewRequest(a)}
    BY <1>3, OutstandingAfter DEF Ask, TypeOK
  <2>3. UNCHANGED <<collected, abandoned>>
    BY <1>3 DEF Ask
  <2>4. Unsettled' = Unsettled \union {NewRequest(a)} /\ abandoned' = abandoned
    BY <2>2, <2>3 DEF Unsettled, InDrains, Held
  <2>5. /\ NewRequest(a).agent = a /\ NewRequest(a).seq = controller[a].seq + 1
        /\ controller[a].seq + 1 # 0
    BY <1>1 DEF NewRequest, Controller
  <2> QED
    BY <2>1, <2>4, <2>5 DEF NoOrphanedRequest
<1>4. ASSUME NEW t \in Tasks, Poll(t) PROVE NoOrphanedRequest'
  <2>1. UNCHANGED <<controller, abandoned>> /\ Unsettled' = Unsettled
    BY <1>4, PollMoves DEF Poll, worldVars
  <2> QED
    BY <2>1, StillAwaited DEF SameWait
<1>5. ASSUME NEW t \in Tasks, PollRaises(t) PROVE NoOrphanedRequest'
  <2>1. controller' = controller
    BY <1>5 DEF PollRaises, worldVars
  <2>2. Unsettled \subseteq Unsettled' \union abandoned' /\ abandoned \subseteq abandoned'
    BY <1>5, PollRaisesMoves
  <2> QED
    BY <2>1, <2>2, StillAwaited DEF SameWait
<1>6. ASSUME NEW t \in Tasks, NEW i \in collected[t],
             Fail(t, i) \/ Reject(t, i) \/ Commit(t, i)
      PROVE  NoOrphanedRequest'
  BY <1>6, EndsSettle, SettledIsNoOrphan
<1>7. ASSUME Stop PROVE NoOrphanedRequest'
  BY <1>7, CancelledIsNoOrphan DEF Stop
<1> QED
  BY <1>2, <1>3, <1>4, <1>5, <1>6, <1>7
     DEF Next, TickStep, Evaluate, ApplyNext, QuietStep

-----------------------------------------------------------------------------
(* The pool, the event loop and the barrier.                               *)

LEMMA PoolStep ==
    ASSUME InductiveInvariant, [Next]_vars
    PROVE  Consistent(pool)'
<1> USE DEF InductiveInvariant
<1>1. pool \in PoolOf(Request, Answers) /\ Consistent(pool)
  BY DEF TypeOK
<1>2. CASE UNCHANGED pool
  BY <1>1, <1>2
<1>3. ASSUME NEW t \in Tasks, NEW a \in Agents, Ask(t, a) PROVE Consistent(pool)'
  <2>1. NewRequest(a) \notin pool.pending
    BY <1>3, AskMoves DEF Issued, Unsettled, Outstanding
  <2>2. pool' = Enqueue(pool, NewRequest(a))
    BY <1>3 DEF Ask
  <2>3. \A w : w \notin pool.pending => Consistent(Enqueue(pool, w))
    BY <1>1, ConsistentAfter
  <2>4. Consistent(Enqueue(pool, NewRequest(a)))
    BY <2>1, <2>3
  <2> QED
    BY <2>2, <2>4
<1>4. ASSUME NEW t \in Tasks, StartDrain(t) PROVE Consistent(pool)'
  BY <1>1, <1>4, ConsistentAfter DEF StartDrain
<1>5. ASSUME NEW t \in Tasks, Poll(t) \/ PollRaises(t) PROVE Consistent(pool)'
  <2>1. \A S : Consistent(Take(pool, S))
    BY <1>1, ConsistentAfter
  <2>2. ASSUME Poll(t) PROVE \E S : pool' = Take(pool, S)
    BY <2>2 DEF Poll
  <2>3. ASSUME PollRaises(t) PROVE \E S : pool' = Take(pool, S)
    BY <2>3 DEF PollRaises
  <2>4. PICK S : pool' = Take(pool, S)
    BY <1>5, <2>2, <2>3
  <2>5. Consistent(Take(pool, S))
    BY <2>1
  <2> QED
    BY <2>4, <2>5
<1>6. ASSUME Stop PROVE Consistent(pool)'
  BY <1>1, <1>6, ConsistentAfter DEF Stop, CancelAll
<1>7. ASSUME WorkerStarts \/ WorkerFinishes \/ DeadlinePasses PROVE Consistent(pool)'
  <2>1. /\ \A w : w \notin AnsweredWorks(pool) => Consistent(StartWork(pool, w))
        /\ \A w : Consistent(Expire(pool, w))
        /\ \A w \in pool.running : \A answer : Consistent(Finish(pool, w, answer))
    BY <1>1, ConsistentAfter
  <2> QED
    BY <1>7, <2>1 DEF WorkerStarts, WorkerFinishes, DeadlinePasses, CanStart
<1>8. UNCHANGED pool \/ Stop \/ WorkerStarts \/ WorkerFinishes \/ DeadlinePasses
      \/ \E t \in Tasks : \/ StartDrain(t) \/ Poll(t) \/ PollRaises(t)
                         \/ \E a \in Agents : Ask(t, a)
  BY DEF Next, TickStep, Evaluate, ApplyNext, BeginTick, FinishDrain, EndTick, Exhaust,
         PassOver, Fail, Reject, Commit, Applying, workVars, vars
<1> QED
  BY <1>2, <1>3, <1>4, <1>5, <1>6, <1>7, <1>8

\* While the loop is free, or its holder polls, nobody schedules or applies.
LEMMA NobodyInside ==
    ASSUME InductiveInvariant, NEW t \in Tasks,
           loop = Free \/ (loop = t /\ stage[t] \in {"decide", "after"})
    PROVE  /\ \A u \in Tasks : stage[u] \notin {"schedule", "apply"}
           /\ pool.queued = {}
BY TasksAssumption DEF InductiveInvariant, LoopDiscipline

LEMMA LoopStep ==
    ASSUME InductiveInvariant, [Next]_vars
    PROVE  LoopDiscipline' /\ BarrierComplete'
<1> USE DEF InductiveInvariant
<1>1. pool \in PoolOf(Request, Answers) /\ stage \in [Tasks -> Stages]
  BY DEF TypeOK
<1>2. LoopDiscipline /\ BarrierComplete
  OBVIOUS
<1>3. ASSUME NEW t \in Tasks, BeginTick(t) PROVE LoopDiscipline' /\ BarrierComplete'
  <2>1. /\ \A u \in Tasks : stage[u] \notin {"schedule", "apply"}
        /\ pool.queued = {}
    BY <1>3, NobodyInside DEF BeginTick
  <2>2. /\ stage' = [stage EXCEPT ![t] = "schedule"] /\ loop' = t /\ pool' = pool
    BY <1>3 DEF BeginTick, workVars
  <2> QED
    BY <1>1, <2>1, <2>2 DEF LoopDiscipline, BarrierComplete
<1>4. ASSUME NEW t \in Tasks, Evaluate(t) PROVE LoopDiscipline' /\ BarrierComplete'
  <2>1. loop = t /\ stage[t] = "schedule" /\ UNCHANGED <<loop, stage>>
    BY <1>4 DEF Evaluate, Ask, Exhaust, PassOver, Visiting
  <2>2. \A u \in Tasks : stage[u] # "apply"
    BY <1>2, <2>1 DEF LoopDiscipline
  <2> QED
    BY <1>2, <2>1, <2>2 DEF LoopDiscipline, BarrierComplete
<1>5. ASSUME NEW t \in Tasks, StartDrain(t) PROVE LoopDiscipline' /\ BarrierComplete'
  <2>1. /\ loop = t /\ loop' = t /\ stage[t] = "schedule"
        /\ stage' = [stage EXCEPT ![t] = "decide"] /\ pool' = Dispatch(pool)
    BY <1>5 DEF StartDrain
  <2>2. pool'.queued = {}
    BY <1>1, <2>1 DEF Dispatch, PoolOf
  <2> QED
    BY <1>1, <1>2, <2>1, <2>2 DEF LoopDiscipline, BarrierComplete
<1>6. ASSUME NEW t \in Tasks, Poll(t) PROVE LoopDiscipline' /\ BarrierComplete'
  <2> DEFINE works == {x[1] : x \in Ready(pool)}
  <2>1. /\ \A u \in Tasks : stage[u] \notin {"schedule", "apply"}
        /\ pool.queued = {}
    BY <1>6, NobodyInside DEF Poll, CanPoll
  <2>2. /\ pool' = Take(pool, works)
        /\ stage' = [stage EXCEPT ![t] = IF pool.pending \ works = {} THEN "apply" ELSE "decide"]
        /\ loop' = IF pool.pending \ works = {} THEN t ELSE Free
    BY <1>6 DEF Poll
  <2> HIDE DEF works
  <2>3. pool'.queued = {} /\ pool'.pending = pool.pending \ works
    BY <1>1, <2>1, <2>2 DEF Take, PoolOf
  <2>4. CASE pool.pending \ works = {}
    BY <1>1, <2>1, <2>2, <2>3, <2>4 DEF LoopDiscipline, BarrierComplete, Outstanding
  <2>5. CASE pool.pending \ works # {}
    BY <1>1, <2>1, <2>2, <2>3, <2>5 DEF LoopDiscipline, BarrierComplete
  <2> QED
    BY <2>4, <2>5
<1>7. ASSUME NEW t \in Tasks, PollRaises(t) PROVE LoopDiscipline' /\ BarrierComplete'
  <2>1. /\ \A u \in Tasks : stage[u] \notin {"schedule", "apply"}
        /\ pool.queued = {}
    BY <1>7, NobodyInside DEF PollRaises, CanPoll
  <2>2. PICK S : pool' = Take(pool, S)
    BY <1>7 DEF PollRaises
  <2>3. stage' = [stage EXCEPT ![t] = "idle"] /\ loop' = Free
    BY <1>7 DEF PollRaises
  <2>4. pool'.queued = {}
    BY <1>1, <2>1, <2>2 DEF Take, PoolOf
  <2> QED
    BY <1>1, <2>1, <2>3, <2>4 DEF LoopDiscipline, BarrierComplete
<1>8. ASSUME NEW t \in Tasks, ApplyNext(t) PROVE LoopDiscipline' /\ BarrierComplete'
  BY <1>2, <1>8 DEF ApplyNext, Fail, Reject, Commit, Applying, LoopDiscipline, BarrierComplete
<1>9. ASSUME NEW t \in Tasks, FinishDrain(t) PROVE LoopDiscipline' /\ BarrierComplete'
  <2>1. /\ loop = t /\ loop' = t /\ stage[t] = "apply" /\ pool' = pool
        /\ stage' = [stage EXCEPT ![t] = "after"]
    BY <1>9 DEF FinishDrain
  <2> QED
    BY <1>1, <1>2, <2>1 DEF LoopDiscipline, BarrierComplete
<1>10. ASSUME NEW t \in Tasks, EndTick(t) PROVE LoopDiscipline' /\ BarrierComplete'
  <2>1. /\ loop = t /\ loop' = Free /\ stage[t] = "after" /\ pool' = pool
        /\ stage' = [stage EXCEPT ![t] = "idle"]
    BY <1>10 DEF EndTick, workVars
  <2> QED
    BY <1>1, <1>2, <2>1 DEF LoopDiscipline, BarrierComplete
<1>11. ASSUME Stop PROVE LoopDiscipline' /\ BarrierComplete'
  <2>1. pool' = Abandon(pool) /\ UNCHANGED <<loop, stage>>
    BY <1>11 DEF Stop, CancelAll
  <2>2. pool'.queued = {} /\ pool'.pending = {}
    BY <1>1, <2>1 DEF Abandon, PoolOf
  <2> QED
    BY <1>2, <2>1, <2>2 DEF LoopDiscipline, BarrierComplete, Outstanding
<1>12. ASSUME WorkerStarts \/ WorkerFinishes \/ DeadlinePasses
       PROVE  LoopDiscipline' /\ BarrierComplete'
  <2>1. pool'.queued = pool.queued /\ pool'.pending = pool.pending
    BY <1>1, <1>12
       DEF WorkerStarts, WorkerFinishes, DeadlinePasses, StartWork, Finish, Expire, PoolOf
  <2>2. UNCHANGED <<loop, stage>>
    BY <1>12 DEF WorkerStarts, WorkerFinishes, DeadlinePasses, poolUnchanged
  <2> QED
    BY <1>2, <2>1, <2>2 DEF LoopDiscipline, BarrierComplete, Outstanding
<1>13. CASE UNCHANGED vars
  BY <1>2, <1>13 DEF vars, workVars, LoopDiscipline, BarrierComplete
<1> QED
  BY <1>3, <1>4, <1>5, <1>6, <1>7, <1>8, <1>9, <1>10, <1>11, <1>12, <1>13 DEF Next, TickStep

-----------------------------------------------------------------------------
(* The theorems.                                                           *)

LEMMA InductiveStep == InductiveInvariant /\ [Next]_vars => InductiveInvariant'
<1> SUFFICES ASSUME InductiveInvariant, [Next]_vars PROVE InductiveInvariant'
  OBVIOUS
<1>1. TypeOK'
  BY StepType DEF InductiveInvariant
<1>2. Consistent(pool)' /\ LoopDiscipline' /\ BarrierComplete' /\ NoOrphanedRequest'
  BY PoolStep, LoopStep, OrphanStep
<1>3. NumberedByAgent' /\ NothingLostOrDuplicated'
  <2>1. CASE QuietStep
    BY <2>1, QuietMoves, NothingMoved DEF Still, InductiveInvariant
  <2>2. CASE \E t \in Tasks : \/ Poll(t) \/ PollRaises(t) \/ ApplyNext(t)
                            \/ \E a \in Agents : Ask(t, a)
    BY <2>2, PollMoves, PollRaisesMoves, ApplyMoves, EndsSettle, AskMoves DEF ApplyNext
  <2>3. CASE Stop
    BY <2>3, CancelMoves DEF Stop
  <2> QED
    BY <2>1, <2>2, <2>3 DEF Next, TickStep, Evaluate, QuietStep
<1> QED
  BY <1>1, <1>2, <1>3 DEF InductiveInvariant

LEMMA Inductive == SafetySpec => []InductiveInvariant
BY InitInductive, InductiveStep, PTL DEF SafetySpec

\* The barrier: whatever the number of agents, workers and overlapping ticks,
\* no decision is applied while any other one is queued or in flight.
THEOREM BarrierHolds == SafetySpec => []BarrierComplete
<1>1. InductiveInvariant => BarrierComplete
  BY DEF InductiveInvariant
<1> QED
  BY <1>1, Inductive, PTL

\* Conservation: every decision id is in exactly one place, in every
\* interleaving of drains, workers, deadlines, faults and stop.
THEOREM NoDecisionLost == SafetySpec => []NothingLostOrDuplicated
<1>1. InductiveInvariant => NothingLostOrDuplicated
  BY DEF InductiveInvariant
<1> QED
  BY <1>1, Inductive, PTL

\* No agent is left waiting for a decision nobody will settle, except by a
\* drain that raised.
THEOREM NoAgentOrphaned == SafetySpec => []NoOrphanedRequest
<1>1. InductiveInvariant => NoOrphanedRequest
  BY DEF InductiveInvariant
<1> QED
  BY <1>1, Inductive, PTL

-----------------------------------------------------------------------------
(* A stale request stays stale.                                            *)

\* Revisions only grow; a new wait has a new number.
LEMMA ControllerMoves ==
    ASSUME NEW c \in Controller
    PROVE  /\ Freed(c).rev = c.rev /\ Disabled(c).rev = c.rev /\ Disabled(c).current = c.current
           /\ Revised(c).rev = c.rev + 1 /\ Revised(c).current = c.current
           /\ Freed(c).current = 0
           /\ Revised(Freed(c)).rev = c.rev + 1 /\ Revised(Freed(c)).current = 0
           /\ Waiting(Numbered(c), c.seq + 1).rev = c.rev
           /\ Waiting(Numbered(c), c.seq + 1).current = c.seq + 1
BY DEF Freed, Disabled, Revised, Waiting, Numbered, Controller

LEMMA ControllerStep ==
    ASSUME InductiveInvariant, [Next]_vars, NEW a \in Agents
    PROVE  /\ controller'[a].rev >= controller[a].rev
           /\ controller'[a].current \in {controller[a].current, 0, controller[a].seq + 1}
<1> DEFINE Moves == /\ controller'[a].rev >= controller[a].rev
                    /\ controller'[a].current \in
                           {controller[a].current, 0, controller[a].seq + 1}
<1> USE DEF InductiveInvariant
<1>1. /\ controller[a] \in Controller /\ controller[a].rev \in Nat
      /\ controller \in [Agents -> Controller]
  BY DEF TypeOK, Controller
<1>2. ASSUME NEW t \in Tasks, BeginTick(t) PROVE Moves
  <2>1. PICK effect \in [Agents -> Effects] :
            controller' = [b \in Agents |-> ControllerAfter(controller[b], effect[b])]
    BY <1>2 DEF BeginTick
  <2>2. controller'[a] \in {controller[a], Revised(controller[a]), Revised(Freed(controller[a]))}
    BY <2>1 DEF ControllerAfter
  <2> QED
    BY <1>1, <2>2, ControllerMoves
<1>3. ASSUME NEW t \in Tasks, NEW b \in Agents, Ask(t, b) PROVE Moves
  BY <1>1, <1>3, ControllerMoves DEF Ask
<1>4. ASSUME NEW t \in Tasks, NEW b \in Agents, Exhaust(t, b) \/ PassOver(t, b) PROVE Moves
  BY <1>1, <1>4, ControllerMoves DEF Exhaust, PassOver
<1>5. ASSUME NEW t \in Tasks, ApplyNext(t) PROVE Moves
  <2>1. PICK i \in collected[t] : Fail(t, i) \/ Reject(t, i) \/ Commit(t, i)
    BY <1>5 DEF ApplyNext
  <2>2. controller'[a] \in {controller[a], Freed(controller[a]), Revised(Freed(controller[a]))}
    BY <1>1, <2>1 DEF Fail, Reject, Commit, ClearPending, Cleared
  <2> QED
    BY <1>1, <2>2, ControllerMoves
<1>6. ASSUME Stop PROVE Moves
  BY <1>1, <1>6, ControllerMoves DEF Stop, CancelAll, ControllerCancelled
<1>7. ASSUME UNCHANGED controller PROVE Moves
  BY <1>1, <1>7
<1>8. \/ Stop \/ UNCHANGED controller
      \/ \E t \in Tasks : \/ BeginTick(t) \/ ApplyNext(t)
                         \/ \E b \in Agents : Ask(t, b) \/ Exhaust(t, b) \/ PassOver(t, b)
  BY DEF Next, TickStep, Evaluate, StartDrain, Poll, PollRaises, FinishDrain, EndTick,
         WorkerStarts, WorkerFinishes, DeadlinePasses, poolUnchanged, worldVars, vars
<1> QED
  BY <1>2, <1>3, <1>4, <1>5, <1>6, <1>7, <1>8

\* Nothing becomes unsettled but a new request.
LEMMA UnsettledStep ==
    ASSUME InductiveInvariant, [Next]_vars, NEW r \in Unsettled', r \notin Unsettled
    PROVE  \E t \in Tasks, a \in Agents : Ask(t, a) /\ r = NewRequest(a)
<1> USE DEF InductiveInvariant
<1>1. CASE QuietStep
  <2>1. Unsettled' = Unsettled
    BY <1>1, QuietMoves DEF Still, Unsettled, InDrains, Held
  <2> QED
    BY <2>1
<1>2. ASSUME NEW t \in Tasks, NEW a \in Agents, Ask(t, a)
      PROVE  Unsettled' = Unsettled \union {NewRequest(a)}
  <2>1. Outstanding(pool)' = Outstanding(pool) \union {NewRequest(a)}
    BY <1>2, OutstandingAfter DEF Ask, TypeOK
  <2>2. InDrains' = InDrains
    BY <1>2 DEF Ask, InDrains, Held
  <2> QED
    BY <2>1, <2>2 DEF Unsettled
<1>3. ASSUME NEW t \in Tasks, PollRaises(t) PROVE Unsettled' \subseteq Unsettled
  <2>1. OnePlace'
    BY <1>3, PollRaisesMoves DEF NothingLostOrDuplicated
  <2>2. Issued' = Issued /\ SettledRequests' = SettledRequests /\ abandoned \subseteq abandoned'
    BY <1>3, PollRaisesMoves DEF PollRaises, SettledRequests
  <2> QED
    BY <2>1, <2>2 DEF OnePlace, Issued
<1>4. ASSUME NEW t \in Tasks, Poll(t) \/ ApplyNext(t) PROVE Unsettled' \subseteq Unsettled
  BY <1>4, PollMoves, ApplyMoves, EndsSettle DEF ApplyNext
<1>5. ASSUME Stop PROVE Unsettled' \subseteq Unsettled
  BY <1>5, CancelMoves DEF Stop, Unsettled
<1>6. QuietStep \/ Stop \/ \E t \in Tasks : \/ Poll(t) \/ PollRaises(t) \/ ApplyNext(t)
                                         \/ \E a \in Agents : Ask(t, a)
  BY DEF Next, TickStep, Evaluate, QuietStep
<1> QED
  BY <1>1, <1>2, <1>3, <1>4, <1>5, <1>6

LEMMA RevisionsStep ==
    ASSUME InductiveInvariant, RevisionsPast, [Next]_vars
    PROVE  RevisionsPast'
<1> SUFFICES ASSUME NEW r \in Unsettled' PROVE r.rev <= controller'[r.agent].rev
  BY DEF RevisionsPast
<1>1. /\ \A b \in Agents : controller[b].rev \in Nat /\ controller'[b].rev \in Nat
      /\ Issued \subseteq Request /\ Issued' \subseteq Request
  <2>1. TypeOK /\ TypeOK'
    BY StepType DEF InductiveInvariant
  <2>2. Issued \subseteq Request /\ (TypeOK => Issued \subseteq Request)'
    BY <2>1, IssuedType, PTL
  <2> QED
    BY <2>1, <2>2 DEF TypeOK, Controller
<1>2. r.agent \in Agents /\ r.rev \in Nat
  BY <1>1 DEF Issued, Request
<1>3. CASE r \in Unsettled
  BY <1>1, <1>2, <1>3, ControllerStep DEF RevisionsPast
<1>4. CASE r \notin Unsettled
  <2>1. PICK a \in Agents : r = NewRequest(a)
    BY <1>4, UnsettledStep
  <2>2. r.agent = a /\ r.rev = controller[a].rev
    BY <2>1 DEF NewRequest
  <2> QED
    BY <1>1, <1>2, <2>2, ControllerStep
<1> QED
  BY <1>3, <1>4

LEMMA StaleStep ==
    ASSUME InductiveInvariant, RevisionsPast, [Next]_vars, NEW r \in Unsettled, Stale(r)
    PROVE  r \notin Committed' /\ (r \in Unsettled' => Stale(r)')
<1> USE DEF InductiveInvariant
<1>1. /\ r \in Issued /\ r.agent \in Agents /\ r.rev \in Nat /\ r.seq \in Nat
      /\ r.seq \in 1..controller[r.agent].seq /\ controller[r.agent].seq \in Nat
      /\ controller[r.agent].rev \in Nat /\ controller'[r.agent].rev \in Nat
  <2>1. TypeOK'
    BY StepType
  <2> QED
    BY <2>1, IssuedType DEF Issued, Request, NumberedByAgent, TypeOK, Controller
<1>2. Stale(r)'
  <2>1. CASE controller[r.agent].current # r.seq
    BY <1>1, <2>1, ControllerStep DEF Stale
  <2>2. CASE controller[r.agent].rev # r.rev
    BY <1>1, <2>2, ControllerStep DEF Stale, RevisionsPast
  <2> QED
    BY <2>1, <2>2 DEF Stale
<1>3. r \notin SettledRequests
  BY <1>1 DEF NothingLostOrDuplicated, OnePlace
<1>4. r \notin Committed'
  <2> SUFFICES ASSUME NEW x \in settled', x.request = r, x.fate = "committed" PROVE FALSE
    BY DEF Committed
  <2>1. x \notin settled
    BY <1>3 DEF SettledRequests
  <2>2. ASSUME NEW t \in Tasks, ApplyNext(t) PROVE FALSE
    <3>1. PICK i \in collected[t] : Fail(t, i) \/ Reject(t, i) \/ Commit(t, i)
      BY <2>2 DEF ApplyNext
    <3>2. CASE Fail(t, i) \/ Reject(t, i)
      BY <2>1, <3>2 DEF Fail, Reject, SettleAs
    <3>3. CASE Commit(t, i)
      BY <2>1, <3>3 DEF Commit, SettleAs, Fresh, Stale
    <3> QED
      BY <3>1, <3>2, <3>3
  <2>3. ASSUME Stop PROVE FALSE
    BY <2>1, <2>3 DEF Stop, CancelAll
  <2>4. Stop \/ settled' = settled \/ \E t \in Tasks : ApplyNext(t)
    BY DEF Next, TickStep, Evaluate, BeginTick, Ask, Exhaust, PassOver, StartDrain, Poll,
           PollRaises, FinishDrain, EndTick, WorkerStarts, WorkerFinishes, DeadlinePasses,
           poolUnchanged, workVars, vars
  <2> QED
    BY <2>1, <2>2, <2>3, <2>4
<1> QED
  BY <1>2, <1>4

LEMMA RevisionsKept == SafetySpec => []RevisionsPast
<1>1. Init => RevisionsPast
  BY DEF Init, NoWorkYet, RevisionsPast, Unsettled, Outstanding, EmptyPool, InDrains, Held
<1>2. InductiveInvariant /\ RevisionsPast /\ [Next]_vars => RevisionsPast'
  BY RevisionsStep
<1> QED
  BY <1>1, <1>2, Inductive, PTL DEF SafetySpec

\* Preemption wins: a decision that a preemption or another commit has made
\* stale never commits, whatever is asked and answered before it is settled.
THEOREM StaleNeverCommits == SafetySpec => PreemptionWins
<1>1. InductiveInvariant /\ RevisionsPast /\ [Next]_vars =>
          [\A r \in Unsettled :
               Stale(r) => /\ r \notin Committed'
                           /\ (r \in Unsettled' => Stale(r)')]_vars
  BY StaleStep
<1> QED
  BY <1>1, Inductive, RevisionsKept, PTL DEF SafetySpec, PreemptionWins

-----------------------------------------------------------------------------
(* The refinement of the barrier: each step is a step of DecisionProtocol, or  *)
(* moves nothing there.                                                    *)

LEMMA AskedStep ==
    ASSUME InductiveInvariant, AskedOncePerTick, [Next]_vars
    PROVE  AskedOncePerTick'
<1> USE DEF InductiveInvariant, AskedOncePerTick
<1>1. /\ clock \in Nat /\ MaxTicks \in Nat
      /\ controller \in [Agents -> Controller]
      /\ \A a \in Agents : controller[a] \in Controller /\ controller[a].seq \in Nat
  BY BoundAssumption DEF TypeOK, Controller
<1>2. ASSUME NEW t \in Tasks, BeginTick(t) PROVE AskedOncePerTick'
  <2>1. \A a \in Agents : controller'[a].seq = controller[a].seq
    BY <1>2, QuietMoves DEF QuietStep, Still
  <2> QED
    BY <1>1, <1>2, <2>1 DEF BeginTick
<1>3. ASSUME NEW t \in Tasks, NEW a \in Agents, Ask(t, a) PROVE AskedOncePerTick'
  <2>1. /\ controller'[a].seq = controller[a].seq + 1
        /\ \A b \in Agents \ {a} : controller'[b] = controller[b]
    BY <1>1, <1>3, SameNumber DEF Ask
  <2> QED
    BY <1>1, <1>3, <2>1 DEF Ask, Visiting
<1>4. ASSUME clock' = clock, visit' \subseteq visit,
             \A a \in Agents : controller'[a].seq = controller[a].seq
      PROVE  AskedOncePerTick'
  BY <1>4
<1>5. CASE QuietStep /\ ~\E t \in Tasks : BeginTick(t)
  <2>1. clock' = clock /\ visit' \subseteq visit
    BY <1>5 DEF QuietStep, StartDrain, FinishDrain, EndTick, Exhaust, PassOver, Visiting,
                WorkerStarts, WorkerFinishes, DeadlinePasses, poolUnchanged, vars
  <2> QED
    BY <1>4, <1>5, <2>1, QuietMoves DEF Still
<1>6. ASSUME NEW t \in Tasks, Poll(t) \/ PollRaises(t) PROVE AskedOncePerTick'
  BY <1>4, <1>6 DEF Poll, PollRaises, worldVars
<1>7. ASSUME NEW t \in Tasks, ApplyNext(t) PROVE AskedOncePerTick'
  <2>1. clock' = clock /\ visit' = visit
    BY <1>7 DEF ApplyNext, Fail, Reject, Commit, Applying
  <2>2. PICK i \in collected[t] : Fail(t, i) \/ Reject(t, i) \/ Commit(t, i)
    BY <1>7 DEF ApplyNext
  <2>3. i.request.agent \in Agents
    BY DEF TypeOK, Item, Request
  <2>4. Revised(Freed(controller[i.request.agent])).seq = controller[i.request.agent].seq
    BY <1>1, <2>3, SameNumber, ControllerType
  <2>5. \A a \in Agents : controller'[a].seq = controller[a].seq
    BY <1>1, <2>2, <2>3, <2>4, SameNumber DEF Fail, Reject, Commit, ClearPending
  <2> QED
    BY <1>4, <2>1, <2>5
<1>8. ASSUME Stop PROVE AskedOncePerTick'
  BY <1>1, <1>4, <1>8, SameNumber DEF Stop, CancelAll, ControllerCancelled
<1> QED
  BY <1>2, <1>3, <1>5, <1>6, <1>7, <1>8 DEF Next, TickStep, Evaluate, QuietStep

LEMMA AskedKept == SafetySpec => []AskedOncePerTick
<1>1. Init => AskedOncePerTick
  BY BoundAssumption DEF Init, NoWorkYet, AskedOncePerTick
<1> QED
  BY <1>1, AskedStep, Inductive, PTL DEF SafetySpec

\* An id stands for one request, so taking requests away takes their ids away.
Ids(S) == {Id(r) : r \in S}

LEMMA OneIdPerRequest ==
    ASSUME InductiveInvariant
    PROVE  \A r, s \in Issued : Id(r) = Id(s) => r = s
BY DEF Id, InductiveInvariant, NothingLostOrDuplicated, OneRequestPerId

LEMMA IdsTaken ==
    ASSUME InductiveInvariant, NEW S \in SUBSET Issued, NEW T \in SUBSET S
    PROVE  Ids(S \ T) = Ids(S) \ Ids(T)
BY OneIdPerRequest DEF Ids

LEMMA IdsTogether == \A S, T : Ids(S \union T) = Ids(S) \union Ids(T)
BY DEF Ids

Told(S) == {[decision |-> Id(s.request), fate |-> s.fate] : s \in S}

LEMMA ToldTogether == \A S, T : Told(S \union T) = Told(S) \union Told(T)
BY DEF Told

LEMMA ProtocolAsk ==
    ASSUME InductiveInvariant, AskedOncePerTick, NEW t \in Tasks, NEW a \in Agents, Ask(t, a)
    PROVE  Protocol!Next
<1> DEFINE new == NewRequest(a)
<1> USE DEF InductiveInvariant
<1>1. controller[a] \in Controller /\ controller[a].seq \in Nat /\ clock \in Nat
  BY DEF TypeOK, Controller
<1>2. Id(new) = [agent |-> a, seq |-> controller[a].seq + 1]
  BY DEF Id, NewRequest
<1>3. Id(new) \in [agent: Agents, seq: 1..MaxTicks]
  <2>1. controller[a].seq < clock /\ clock <= MaxTicks
    BY DEF AskedOncePerTick, Ask, Visiting
  <2> QED
    BY <1>1, <1>2, <2>1, BoundAssumption
<1>4. Id(new) \notin Ids(Issued)
  <2> SUFFICES ASSUME NEW r \in Issued, Id(r) = Id(new) PROVE FALSE
    BY DEF Ids
  <2>1. r.agent = a /\ r.seq = controller[a].seq + 1
    BY <1>2 DEF Id
  <2> QED
    BY <1>1, <2>1 DEF NumberedByAgent
<1>5. Outstanding(pool)' = Outstanding(pool) \union {new}
  BY OutstandingAfter DEF Ask, TypeOK
<1>6. InDrains' = InDrains /\ UNCHANGED <<settled, abandoned>>
  BY DEF Ask, InDrains, Held
<1> HIDE DEF new
<1>7. Ids(Outstanding(pool)') = Ids(Outstanding(pool)) \union {Id(new)}
  BY <1>5 DEF Ids
<1>8. Protocol!Ask(Id(new))
  <2>1. /\ Id(new) \notin Ids(Outstanding(pool)) /\ Id(new) \notin Ids(InDrains)
        /\ Id(new) \notin Ids(SettledRequests) /\ Id(new) \notin Ids(abandoned)
    BY <1>4 DEF Ids, Issued, Unsettled
  <2>2. Protocol!SettledDecisions = Ids(SettledRequests)
    <3> DEFINE told(s) == [decision |-> Id(s.request), fate |-> s.fate]
    <3>1. \A s \in settled : told(s).decision = Id(s.request)
      OBVIOUS
    <3>2. Protocol!SettledDecisions = {x.decision : x \in {told(s) : s \in settled}}
      BY DEF Protocol!SettledDecisions
    <3> HIDE DEF told
    <3> QED
      BY <3>1, <3>2 DEF Ids, SettledRequests
  <2> QED
    BY <1>6, <1>7, <2>1, <2>2 DEF Protocol!Ask, Ids
<1> QED
  BY <1>3, <1>8 DEF Protocol!Next

LEMMA ProtocolLearn ==
    ASSUME InductiveInvariant, NEW t \in Tasks, Poll(t)
    PROVE  [Protocol!Next]_(Protocol!vars)
<1> DEFINE works == {x[1] : x \in Ready(pool)}
           item(x) == [request |-> x[1], result |-> x[2], round |-> round[t]]
<1> USE DEF InductiveInvariant
<1>1. works \in SUBSET pool.pending /\ works \subseteq Outstanding(pool)
  BY ReadyIsPending DEF TypeOK, Outstanding
<1>2. Outstanding(pool)' = Outstanding(pool) \ works
  BY <1>1, OutstandingAfter DEF Poll, TypeOK
<1>3. InDrains' = InDrains \union works
  <2>1. /\ collected'[t] = collected[t] \union {item(x) : x \in Ready(pool)}
        /\ \A u \in Tasks \ {t} : collected'[u] = collected[u]
    BY DEF Poll, TypeOK
  <2>2. \A x \in Ready(pool) : item(x).request = x[1]
    OBVIOUS
  <2>3. {i.request : i \in {item(x) : x \in Ready(pool)}} = works
    BY <2>2
  <2> HIDE DEF item, works
  <2>4. Held(t)' = Held(t) \union works /\ \A u \in Tasks \ {t} : Held(u)' = Held(u)
    BY <2>1, <2>3 DEF Held
  <2> QED
    BY <2>4 DEF InDrains
<1>4. UNCHANGED <<settled, abandoned>>
  BY DEF Poll
<1> HIDE DEF works
<1>5. /\ Ids(Outstanding(pool)') = Ids(Outstanding(pool)) \ Ids(works)
      /\ Ids(InDrains') = Ids(InDrains) \union Ids(works)
      /\ Ids(works) \subseteq Ids(Outstanding(pool))
  BY <1>1, <1>2, <1>3, IdsTaken, IdsTogether DEF Issued, Unsettled, Ids
<1>6. CASE Ids(works) = {}
  BY <1>4, <1>5, <1>6 DEF Protocol!vars, Ids
<1>7. CASE Ids(works) # {}
  <2>1. Protocol!Learn(Ids(works))
    BY <1>4, <1>5, <1>7 DEF Protocol!Learn, Ids
  <2> QED
    BY <1>5, <2>1 DEF Protocol!Next, Ids
<1> QED
  BY <1>6, <1>7

LEMMA ProtocolLose ==
    ASSUME InductiveInvariant, NEW t \in Tasks, PollRaises(t)
    PROVE  Protocol!Next
<1> USE DEF InductiveInvariant
<1>1. PICK x, taken :
          /\ x \in Ready(pool)
          /\ taken = {x[1]} \union {y[1] : y \in {z \in Ready(pool) : Precedes(z[1], x[1])}}
          /\ pool' = Take(pool, taken)
          /\ abandoned' = abandoned \union taken \union {i.request : i \in collected[t]}
  BY DEF PollRaises
<1>2. taken \in SUBSET pool.pending /\ taken \subseteq Outstanding(pool) /\ x[1] \in taken
  BY <1>1, ReadyIsPending DEF TypeOK, Outstanding
<1>3. Outstanding(pool)' = Outstanding(pool) \ taken
  BY <1>1, <1>2, OutstandingAfter DEF TypeOK
<1>4. abandoned' = abandoned \union taken \union Held(t)
  BY <1>1 DEF Held
<1>5. InDrains' = InDrains \ Held(t) /\ Held(t) \subseteq InDrains
  <2>1. collected'[t] = {} /\ \A u \in Tasks \ {t} : collected'[u] = collected[u]
    BY DEF PollRaises, TypeOK
  <2>2. Held(t)' = {} /\ \A u \in Tasks \ {t} : Held(u)' = Held(u)
    BY <2>1 DEF Held
  <2>3. \A u \in Tasks \ {t} : Held(u) \intersect Held(t) = {}
    BY DEF Held, NothingLostOrDuplicated, HeldOnce
  <2> QED
    BY <2>2, <2>3 DEF InDrains
<1>6. UNCHANGED settled
  BY DEF PollRaises
<1>7. /\ Ids(Outstanding(pool)') = Ids(Outstanding(pool)) \ Ids(taken)
      /\ Ids(InDrains') = Ids(InDrains) \ Ids(Held(t))
      /\ Ids(abandoned') = (Ids(abandoned) \union Ids(taken)) \union Ids(Held(t))
      /\ Ids(taken) \subseteq Ids(Outstanding(pool)) /\ Ids(Held(t)) \subseteq Ids(InDrains)
      /\ Id(x[1]) \in Ids(taken)
  <2>1. /\ Outstanding(pool) \in SUBSET Issued /\ InDrains \in SUBSET Issued
        /\ taken \in SUBSET Outstanding(pool) /\ Held(t) \in SUBSET InDrains
    BY <1>2, <1>5 DEF Issued, Unsettled
  <2>2. Ids(Outstanding(pool)') = Ids(Outstanding(pool)) \ Ids(taken)
    BY <1>3, <2>1, IdsTaken
  <2>3. Ids(InDrains') = Ids(InDrains) \ Ids(Held(t))
    BY <1>5, <2>1, IdsTaken
  <2>4. Ids(abandoned') = (Ids(abandoned) \union Ids(taken)) \union Ids(Held(t))
    <3>1. Ids(abandoned') = Ids(abandoned \union taken) \union Ids(Held(t))
      BY <1>4, IdsTogether
    <3>2. Ids(abandoned \union taken) = Ids(abandoned) \union Ids(taken)
      BY IdsTogether
    <3> QED
      BY <3>1, <3>2
  <2>5. /\ Ids(taken) \subseteq Ids(Outstanding(pool)) /\ Ids(Held(t)) \subseteq Ids(InDrains)
        /\ Id(x[1]) \in Ids(taken)
    BY <1>2, <2>1 DEF Ids
  <2> QED
    BY <2>2, <2>3, <2>4, <2>5
<1>8. Protocol!Lose(Ids(taken), Ids(Held(t)))
  BY <1>6, <1>7 DEF Protocol!Lose, Ids
<1> QED
  BY <1>7, <1>8 DEF Protocol!Next, Ids

LEMMA ProtocolSettle ==
    ASSUME InductiveInvariant, NEW t \in Tasks, ApplyNext(t)
    PROVE  Protocol!Next
<1> USE DEF InductiveInvariant
<1>1. PICK i \in collected[t] : Fail(t, i) \/ Reject(t, i) \/ Commit(t, i)
  BY DEF ApplyNext
<1>2. PICK fate \in Fates : settled' = settled \union {[request |-> i.request, fate |-> fate]}
  BY <1>1 DEF Fail, Reject, Commit, SettleAs, Fates
<1>3. stage[t] = "apply" /\ collected' = [collected EXCEPT ![t] = @ \ {i}]
      /\ UNCHANGED <<pool, abandoned>>
  BY <1>1 DEF Fail, Reject, Commit, Applying
<1>4. Outstanding(pool) = {} /\ Outstanding(pool)' = {}
  BY <1>3 DEF BarrierComplete
<1>5. InDrains' = InDrains \ {i.request} /\ i.request \in InDrains
  BY <1>1, <1>4, ApplyMoves, EndsSettle DEF Unsettled
<1>6. Ids(InDrains') = Ids(InDrains) \ Ids({i.request}) /\ Id(i.request) \in Ids(InDrains)
      /\ Ids({i.request}) = {Id(i.request)}
  BY <1>5, IdsTaken DEF Issued, Unsettled, Ids
<1>7. Told(settled') = Told(settled) \union {[decision |-> Id(i.request), fate |-> fate]}
  <2> DEFINE new == [request |-> i.request, fate |-> fate]
  <2>1. new.request = i.request /\ new.fate = fate
    OBVIOUS
  <2> HIDE DEF new
  <2>2. Told({new}) = {[decision |-> Id(i.request), fate |-> fate]}
    BY <2>1 DEF Told
  <2> QED
    BY <1>2, <2>2, ToldTogether DEF new
<1>8. Protocol!Settle(Id(i.request), fate)
  BY <1>3, <1>4, <1>6, <1>7 DEF Protocol!Settle, Ids, Told
<1> QED
  BY <1>6, <1>8 DEF Protocol!Next, Ids

LEMMA ProtocolCancel ==
    ASSUME InductiveInvariant, Stop
    PROVE  [Protocol!Next]_(Protocol!vars)
<1> USE DEF InductiveInvariant
<1> DEFINE cancelled == {[request |-> r, fate |-> "cancelled"] : r \in Outstanding(pool)}
<1>1. Outstanding(pool)' = {} /\ InDrains' = InDrains /\ UNCHANGED abandoned
  BY OutstandingAfter DEF Stop, CancelAll, TypeOK, InDrains, Held
<1>2. settled' = settled \union cancelled
  BY DEF Stop, CancelAll
<1>3. Told(cancelled) =
         {[decision |-> d, fate |-> "cancelled"] : d \in Ids(Outstanding(pool))}
  <2> DEFINE ended(r) == [request |-> r, fate |-> "cancelled"]
  <2>1. \A r : ended(r).request = r /\ ended(r).fate = "cancelled"
    OBVIOUS
  <2>2. cancelled = {ended(r) : r \in Outstanding(pool)}
    OBVIOUS
  <2> HIDE DEF ended, cancelled
  <2> QED
    BY <2>1, <2>2 DEF Told, Ids
<1> HIDE DEF cancelled
<1>4. Told(settled') = Told(settled) \union Told(cancelled)
  BY <1>2, ToldTogether
<1>5. Ids(Outstanding(pool)') = {}
  BY <1>1 DEF Ids
<1>6. CASE Ids(Outstanding(pool)) = {}
  <2>1. Told(cancelled) = {}
    BY <1>3, <1>6
  <2> QED
    BY <1>1, <1>4, <1>5, <1>6, <2>1 DEF Protocol!vars, Ids, Told
<1>7. CASE Ids(Outstanding(pool)) # {}
  BY <1>1, <1>3, <1>4, <1>5, <1>7 DEF Protocol!Next, Protocol!Cancel, Ids, Told
<1> QED
  BY <1>6, <1>7

\* The coordinator implements the abstract barrier: each decision is asked for,
\* answered and settled once, and none is settled while another is open.
THEOREM CoordinatorImplementsProtocol == SafetySpec => ImplementsProtocol
<1>1. Init => Protocol!Init
  BY DEF Init, NoWorkYet, Protocol!Init, Outstanding, EmptyPool, InDrains, Held
<1>2. ASSUME InductiveInvariant, AskedOncePerTick, [Next]_vars
      PROVE  [Protocol!Next]_(Protocol!vars)
  <2>1. CASE QuietStep
    <3>1. Outstanding(pool)' = Outstanding(pool) /\ UNCHANGED <<collected, settled, abandoned>>
      BY <1>2, <2>1, QuietMoves DEF Still
    <3>2. InDrains' = InDrains
      BY <3>1 DEF InDrains, Held
    <3> QED
      BY <3>1, <3>2 DEF Protocol!vars
  <2>2. CASE Stop
    BY <1>2, <2>2, ProtocolCancel
  <2>3. ASSUME NEW t \in Tasks, Poll(t) PROVE [Protocol!Next]_(Protocol!vars)
    BY <1>2, <2>3, ProtocolLearn
  <2>4. ASSUME NEW t \in Tasks, PollRaises(t) \/ ApplyNext(t) PROVE Protocol!Next
    BY <1>2, <2>4, ProtocolLose, ProtocolSettle
  <2>5. ASSUME NEW t \in Tasks, NEW a \in Agents, Ask(t, a) PROVE Protocol!Next
    BY <1>2, <2>5, ProtocolAsk
  <2> QED
    BY <1>2, <2>1, <2>2, <2>3, <2>4, <2>5 DEF Next, TickStep, Evaluate, QuietStep
<1> QED
  BY <1>1, <1>2, Inductive, AskedKept, PTL
     DEF SafetySpec, ImplementsProtocol, Protocol!SafetySpec

-----------------------------------------------------------------------------
(* The barrier of AgentWork, in a run.                                     *)

\* The steps of a run that are steps of the barrier alone.
LEMMA BarrierSteps ==
    ASSUME NEW t \in Tasks
    PROVE  /\ RunBegin(t) => [Next]_vars
           /\ RunEvaluate(t) \/ RunStartDrain(t) \/ RunPoll(t) \/ RunPollRaises(t) => [Next]_vars
           /\ CommitOther(t) \/ CommitAndSubmit(t) \/ RunFinishDrain(t) => [Next]_vars
           /\ RunStartCompile(t) => [Next]_vars
<1>1. RunBegin(t) => [Next]_vars
  BY DEF RunBegin, MayAdvance, BeginEngagedTick, Next
<1>2. RunEvaluate(t) \/ RunStartDrain(t) \/ RunPoll(t) \/ RunPollRaises(t) => [Next]_vars
  BY DEF RunEvaluate, RunStartDrain, RunPoll, RunPollRaises, Next, TickStep
<1>3. CommitOther(t) \/ CommitAndSubmit(t) \/ RunFinishDrain(t) => [Next]_vars
  BY DEF CommitOther, CommitAndSubmit, RunFinishDrain, Next, TickStep, ApplyNext
<1>4. RunStartCompile(t) => [Next]_vars
  BY DEF RunStartCompile, StartCompile
<1> QED
  BY <1>1, <1>2, <1>3, <1>4

LEMMA ThreadSteps == Threads => [Next]_vars
BY DEF Threads, Next, CompilerStarts, CompilerFinishes, CompilerDeadline, compilersOnly

\* A step that moves no request keeps the barrier when it keeps the loop's
\* discipline.
LEMMA BarrierAtRest ==
    ASSUME InductiveInvariant, TypeOK', LoopDiscipline', BarrierComplete',
           UNCHANGED <<pool, controller, collected, settled, abandoned>>
    PROVE  InductiveInvariant'
<1>1. Outstanding(pool)' = Outstanding(pool) /\ InDrains' = InDrains
  BY DEF InDrains, Held
<1>2. NumberedByAgent' /\ NothingLostOrDuplicated'
  BY <1>1, NothingMoved DEF InductiveInvariant
<1>3. NoOrphanedRequest'
  BY <1>1, StillAwaited DEF InductiveInvariant, SameWait, Unsettled
<1> QED
  BY <1>2, <1>3 DEF InductiveInvariant

LEMMA BarrierSettles ==
    ASSUME InductiveInvariant, TypeOK', NEW t \in Tasks, NEW i \in collected[t], Settles(t, i)
    PROVE  InductiveInvariant'
<1>1. NumberedByAgent' /\ NothingLostOrDuplicated' /\ NoOrphanedRequest'
  BY ApplyMoves, SettledIsNoOrphan
<1>2. UNCHANGED <<loop, stage, pool>>
  BY DEF Settles, Applying
<1> QED
  BY <1>1, <1>2 DEF InductiveInvariant, LoopDiscipline, BarrierComplete

LEMMA BarrierCancels ==
    ASSUME InductiveInvariant, TypeOK', CancelAll, UNCHANGED <<collected, abandoned>>,
           LoopDiscipline'
    PROVE  InductiveInvariant'
<1>1. NumberedByAgent' /\ NothingLostOrDuplicated' /\ NoOrphanedRequest'
  BY CancelMoves, CancelledIsNoOrphan
<1>2. pool' = Abandon(pool)
  BY DEF CancelAll
<1>3. Consistent(pool)' /\ Outstanding(pool)' = {}
  BY <1>2, ConsistentAfter, OutstandingAfter DEF InductiveInvariant, TypeOK
<1> QED
  BY <1>1, <1>3 DEF InductiveInvariant, BarrierComplete

-----------------------------------------------------------------------------
(* Type correctness of a run.                                              *)

\* At the start of a tick a plan keeps its ENGAGE action only with its own
\* engagement, and an engagement is kept only with its action.
LEMMA BeginAction ==
    ASSUME RunTypeOK, EngagementHasAction, PlansAreOwn,
           NEW t \in Tasks, BeginEngagedTick(t), NEW a \in Agents
    PROVE  /\ drive'[a] = "critical" => "plan" \notin occupied'[a]
           /\ \/ action'[a] = NoAction /\ engagement'[a] = NoEngagement
              \/ /\ action[a] # NoAction /\ engagement[a] # NoEngagement
                 /\ "plan" \in occupied'[a]
                 /\ action'[a] = [action[a] EXCEPT !.started = TRUE]
                 /\ \E p \in {"running", "over"} :
                        engagement'[a] = [engagement[a] EXCEPT !.phase = p]
<1> USE DEF RunTypeOK, EngagementTypeOK, TypeOK
<1>1. PICK effect \in [Agents -> Effects] :
        /\ \A b \in Agents : Possible(b, effect[b])
        /\ drive' = [b \in Agents |-> DriveAfter(drive[b], effect[b])]
        /\ occupied' = [b \in Agents |-> OccupiedAfter(occupied[b], effect[b])]
  BY DEF BeginEngagedTick, BeginTick
<1>2. drive'[a] = "critical" => "plan" \notin occupied'[a]
  <2>1. /\ drive'[a] = DriveAfter(drive[a], effect[a])
        /\ occupied'[a] = OccupiedAfter(occupied[a], effect[a])
    BY <1>1
  <2> QED
    BY <2>1 DEF DriveAfter, OccupiedAfter, PlansAreOwn
<1>3. drive'[a] \in {"normal", "critical"}
  BY <1>1 DEF DriveAfter
<1>4. /\ action[a] # NoAction /\ drive'[a] = "normal" => ("plan" \notin occupied'[a] <=> PlanEnds(a))
      /\ action'[a] = IF action[a] = NoAction \/ "plan" \notin occupied'[a]
                      THEN NoAction ELSE [action[a] EXCEPT !.started = TRUE]
  BY DEF BeginEngagedTick
<1>5. PICK e \in [Agents -> {"running", "over"}] :
          engagement'[a] = IF action'[a] = NoAction THEN NoEngagement
                           ELSE [engagement[a] EXCEPT !.phase = e[a]]
  BY DEF BeginEngagedTick
<1>6. CASE action'[a] = NoAction
  BY <1>2, <1>5, <1>6
<1>7. CASE action'[a] # NoAction
  <2>1. action[a] # NoAction /\ "plan" \in occupied'[a]
        /\ action'[a] = [action[a] EXCEPT !.started = TRUE]
    BY <1>4, <1>7
  <2>2. ~PlanEnds(a)
    BY <1>2, <1>3, <1>4, <2>1
  <2>3. engagement[a] # NoEngagement
    BY <2>2 DEF PlanEnds, HasProgram
  <2> QED
    BY <1>2, <1>5, <1>7, <2>1, <2>3
<1> QED
  BY <1>6, <1>7

LEMMA BeginType ==
    ASSUME RunTypeOK, EngagementHasAction, PlansAreOwn, NEW t \in Tasks, RunBegin(t)
    PROVE  RunTypeOK'
<1> USE DEF RunTypeOK
<1>1. TypeOK'
  BY BarrierSteps, StepType DEF EngagementTypeOK
<1>2. \A a \in Agents :
          /\ action'[a] \in ActionOf \union {NoAction}
          /\ engagement'[a] \in EngagementOf \union {NoEngagement}
  <2> SUFFICES ASSUME NEW a \in Agents
               PROVE  /\ action'[a] \in ActionOf \union {NoAction}
                      /\ engagement'[a] \in EngagementOf \union {NoEngagement}
    OBVIOUS
  <2>1. /\ action[a] # NoAction => action[a] \in ActionOf
        /\ engagement[a] # NoEngagement => engagement[a] \in EngagementOf
    BY DEF EngagementTypeOK
  <2>2. /\ action[a] \in ActionOf => [action[a] EXCEPT !.started = TRUE] \in ActionOf
        /\ \A p \in {"running", "over"} : engagement[a] \in EngagementOf =>
               [engagement[a] EXCEPT !.phase = p] \in EngagementOf
    BY DEF ActionOf, EngagementOf, Phases
  <2>3. BeginEngagedTick(t)
    BY DEF RunBegin
  <2> QED
    BY <2>1, <2>2, <2>3, BeginAction
<1>3. /\ \E f : action' = [a \in Agents |-> f[a]]
      /\ \E f : engagement' = [a \in Agents |-> f[a]]
  <2>1. action' = [a \in Agents |-> action'[a]]
    BY DEF RunBegin, BeginEngagedTick
  <2>2. engagement' = [a \in Agents |-> engagement'[a]]
    BY DEF RunBegin, BeginEngagedTick
  <2> QED
    BY <2>1, <2>2
<1>4. /\ action' \in [Agents -> ActionOf \union {NoAction}]
      /\ engagement' \in [Agents -> EngagementOf \union {NoEngagement}]
  BY <1>2, <1>3
<1>5. EngagementTypeOK'
  BY <1>1, <1>4 DEF EngagementTypeOK, RunBegin, BeginEngagedTick, compilerVars
<1>6. memory' \in SUBSET Agents /\ alarmed' \in SUBSET Agents /\ advancing' \in BOOLEAN
  BY RunAssumption DEF RunBegin
<1> QED
  BY <1>5, <1>6 DEF RunBegin

\* What _apply and the compile drain do to an engagement and to its plan.
LEMMA CompileType ==
    ASSUME RunTypeOK, NEW t \in Tasks,
           RunApply(t) \/ RunStartCompile(t) \/ RunPollCompiler(t)
             \/ RunPollCompilerRaises(t) \/ RunInstall(t)
    PROVE  RunTypeOK'
<1> USE DEF RunTypeOK
<1>1. /\ TypeOK /\ EngagementTypeOK
      /\ compilers \in PoolOf(Request, Verdicts)
      /\ action \in [Agents -> ActionOf \union {NoAction}]
      /\ engagement \in [Agents -> EngagementOf \union {NoEngagement}]
      /\ \A u \in Tasks : \A i \in collected[u] : i \in Item /\ i.request \in Request
                                                /\ i.request.agent \in Agents
      /\ \A u \in Tasks : \A i \in compiled[u] : i.request \in Request /\ i.request.agent \in Agents
      /\ \A S : DOMAIN [action EXCEPT ![S] = NoAction] = Agents
  BY DEF EngagementTypeOK, TypeOK, Item, Request
<1>2. ASSUME CommitOther(t), UNCHANGED runVars PROVE RunTypeOK'
  <2>1. TypeOK'
    BY <1>1, <1>2, BarrierSteps, StepType
  <2> QED
    BY <1>2, <2>1 DEF CommitOther, EngagementTypeOK, engagementVars, compilerVars, runVars
<1>3. ASSUME CommitAndSubmit(t), UNCHANGED runVars PROVE RunTypeOK'
  <2>1. TypeOK'
    BY <1>1, <1>3, BarrierSteps, StepType
  <2>2. PICK i \in collected[t] :
          /\ action' = [action EXCEPT ![i.request.agent] = Queued(i.request)]
          /\ engagement' = [engagement EXCEPT ![i.request.agent] =
                 [work |-> i.request, phase |-> "pending"]]
          /\ compilers' = Enqueue(compilers, i.request)
          /\ compilations' = compilations + 1
          /\ UNCHANGED <<compiling, compiled, refusing, outcomes, mislaid>>
    BY <1>3 DEF CommitAndSubmit
  <2>3. /\ Queued(i.request) \in ActionOf
        /\ [work |-> i.request, phase |-> "pending"] \in EngagementOf
    BY <1>1 DEF Queued, ActionOf, EngagementOf, Phases
  <2>4. /\ action' \in [Agents -> ActionOf \union {NoAction}]
        /\ engagement' \in [Agents -> EngagementOf \union {NoEngagement}]
    BY <1>1, <2>2, <2>3
  <2>5. compilers' \in PoolOf(Request, Verdicts)
    BY <1>1, <2>2, PoolOperationsType
  <2> QED
    BY <1>3, <2>1, <2>2, <2>4, <2>5 DEF EngagementTypeOK, runVars
<1>4. ASSUME CommitUnavailable(t), UNCHANGED runVars PROVE RunTypeOK'
  <2>1. PICK i \in collected[t] :
          /\ Applying(t, i)
          /\ controller' = [controller EXCEPT ![i.request.agent] = Revised(Freed(@))]
          /\ SettleAs(i.request, "committed")
          /\ tokens' = tokens + 1
          /\ Report(i.request, "unavailable")
          /\ DropEngagement(i.request)
          /\ UNCHANGED <<occupied, action, compilers, compiling, compiled, compilations,
                         refusing, mislaid>>
    BY <1>4 DEF CommitUnavailable
  <2>2. controller' \in [Agents -> Controller]
    BY <1>1, <2>1, ControllerType DEF TypeOK
  <2>3. settled' \in SUBSET Settlement
    BY <1>1, <2>1 DEF SettleAs, Settlement, Fates, TypeOK
  <2>4. TypeOK'
    BY <1>1, <2>1, <2>2, <2>3 DEF Applying, TypeOK
  <2>5. outcomes' \in SUBSET [work: Request, verdict: Outcome]
    BY <1>1, <2>1 DEF Report, Outcome, EngagementTypeOK
  <2>6. engagement' \in [Agents -> EngagementOf \union {NoEngagement}]
    BY <1>1, <2>1 DEF DropEngagement
  <2> QED
    BY <1>4, <2>1, <2>4, <2>5, <2>6 DEF EngagementTypeOK, runVars
<1>5. ASSUME RunStartCompile(t) PROVE RunTypeOK'
  <2>1. TypeOK'
    BY <1>1, <1>5, BarrierSteps, StepType
  <2>2. compilers' \in PoolOf(Request, Verdicts)
    BY <1>1, <1>5, PoolOperationsType DEF RunStartCompile, StartCompile
  <2> QED
    BY <1>1, <1>5, <2>1, <2>2 DEF RunStartCompile, StartCompile, EngagementTypeOK
<1>6. ASSUME RunPollCompiler(t) PROVE RunTypeOK'
  <2>1. TypeOK'
    BY <1>1, <1>6 DEF RunPollCompiler, PollCompiler, tickUnchanged, worldVars, workVars, TypeOK
  <2>2. compilers' \in PoolOf(Request, Verdicts)
    BY <1>1, <1>6, PoolOperationsType DEF RunPollCompiler, PollCompiler
  <2>3. ASSUME NEW x \in Ready(compilers)
        PROVE  [request |-> x[1], result |-> x[2]]
                 \in [request: Request, result: Verdicts \union {"timeout"}]
    BY <1>1, <2>3, ReadyType
  <2>4. compiled' \in [Tasks -> SUBSET [request: Request, result: Verdicts \union {"timeout"}]]
    BY <1>1, <1>6, <2>3 DEF RunPollCompiler, PollCompiler, EngagementTypeOK
  <2>5. compiling' \in [Tasks -> {"no", "wait", "install"}]
    BY <1>1, <1>6 DEF RunPollCompiler, PollCompiler, EngagementTypeOK
  <2>6. phase' \in {"idle", "waiting", "applying"}
    BY <1>1, <1>6 DEF RunPollCompiler
  <2>7. EngagementTypeOK'
    BY <1>1, <1>6, <2>1, <2>2, <2>4, <2>5 DEF RunPollCompiler, PollCompiler, EngagementTypeOK
  <2> QED
    BY <1>6, <2>6, <2>7 DEF RunPollCompiler
<1>7. ASSUME RunPollCompilerRaises(t) PROVE RunTypeOK'
  <2>1. TypeOK'
    BY <1>1, <1>7
       DEF RunPollCompilerRaises, PollCompilerRaises, tickUnchanged, worldVars, workVars, TypeOK, Stages
  <2>2. PICK x, taken :
          /\ x \in Ready(compilers)
          /\ taken = {x[1]} \union {y[1] : y \in {z \in Ready(compilers) : Precedes(z[1], x[1])}}
          /\ compilers' = Take(compilers, taken)
          /\ mislaid' = mislaid \union taken \union {i.request : i \in compiled[t]}
    BY <1>7 DEF RunPollCompilerRaises, PollCompilerRaises
  <2>3. taken \in SUBSET Request
    BY <1>1, <2>2, ReadyType
  <2>4. mislaid' \in SUBSET Request
    BY <1>1, <2>2, <2>3 DEF EngagementTypeOK
  <2>5. compilers' \in PoolOf(Request, Verdicts)
    <3>1. \A S : Take(compilers, S) \in PoolOf(Request, Verdicts)
      BY <1>1, PoolOperationsType
    <3> QED
      BY <2>2, <3>1
  <2>6. EngagementTypeOK'
    BY <1>1, <1>7, <2>1, <2>4, <2>5
       DEF RunPollCompilerRaises, PollCompilerRaises, EngagementTypeOK
  <2> QED
    BY <1>7, <2>6 DEF RunPollCompilerRaises, Unwound
<1>8. ASSUME RunInstall(t) PROVE RunTypeOK'
  <2>1. UNCHANGED <<status, clock, loop, stage, visit, controller, drive, workVars,
                    compilers, compiling, compilations, refusing, mislaid, runVars>>
    BY <1>8 DEF RunInstall, InstallNext, Install, FailCompilation, Installing, vars, worldVars
  <2>2. /\ occupied' \in [Agents -> SUBSET {"plan", "speech"}]
        /\ action' \in [Agents -> ActionOf \union {NoAction}]
        /\ engagement' \in [Agents -> EngagementOf \union {NoEngagement}]
        /\ outcomes' \in SUBSET [work: Request, verdict: Outcome]
        /\ compiled' \in [Tasks -> SUBSET [request: Request, result: Verdicts \union {"timeout"}]]
    <3>1. ASSUME NEW i \in compiled[t], Install(t, i)
          PROVE  <2>2!1 /\ <2>2!2 /\ <2>2!3 /\ <2>2!4 /\ <2>2!5
      <4>1. engagement[i.request.agent] = [work |-> i.request, phase |-> "pending"]
        BY <3>1 DEF Install, StillWanted
      <4>2. [engagement[i.request.agent] EXCEPT !.phase = "program"] \in EngagementOf
        BY <1>1, <3>1, <4>1 DEF EngagementOf, Phases
      <4>3. engagement' \in [Agents -> EngagementOf \union {NoEngagement}]
        BY <1>1, <3>1, <4>2 DEF Install
      <4> QED
        BY <1>1, <3>1, <4>3
           DEF Install, Installing, Report, Outcome, EngagementTypeOK, TypeOK
    <3>2. ASSUME NEW i \in compiled[t], FailCompilation(t, i)
          PROVE  <2>2!1 /\ <2>2!2 /\ <2>2!3 /\ <2>2!4 /\ <2>2!5
      BY SMTT(30), <1>1, <3>2
         DEF FailCompilation, Installing, Report, Outcome, DropEngagement, EngagementTypeOK, TypeOK
    <3>3. ASSUME UNCHANGED <<vars, action, engagement, outcomes>>,
                 compiled' = [compiled EXCEPT ![t] = {}]
          PROVE  <2>2!1 /\ <2>2!2 /\ <2>2!3 /\ <2>2!4 /\ <2>2!5
      BY <1>1, <3>3 DEF EngagementTypeOK, TypeOK, vars, worldVars
    <3> QED
      BY <1>8, <3>1, <3>2, <3>3 DEF RunInstall, InstallNext
  <2>3. TypeOK'
    BY <1>1, <2>1, <2>2 DEF TypeOK, workVars
  <2> QED
    BY <1>1, <2>1, <2>2, <2>3 DEF EngagementTypeOK, runVars
<1> QED
  BY <1>2, <1>3, <1>4, <1>5, <1>6, <1>7, <1>8 DEF RunApply

\* Stopping clears plans and engagements and forgets the compiler's works.
LEMMA CancelType ==
    ASSUME RunTypeOK, CancelAll, StopEngagements \/ CancelCompilations
    PROVE  /\ controller' \in [Agents -> Controller]
           /\ pool' \in PoolOf(Request, Answers)
           /\ settled' \in SUBSET Settlement
           /\ occupied' \in [Agents -> SUBSET {"plan", "speech"}]
           /\ action' \in [Agents -> ActionOf \union {NoAction}]
           /\ engagement' \in [Agents -> EngagementOf \union {NoEngagement}]
           /\ compilers' \in PoolOf(Request, Verdicts)
           /\ refusing' \in BOOLEAN
           /\ outcomes' \in SUBSET [work: Request, verdict: Outcome]
<1> USE DEF RunTypeOK
<1>1. TypeOK /\ EngagementTypeOK
  BY DEF EngagementTypeOK
<1>2. controller' \in [Agents -> Controller]
  BY <1>1, ControllerType DEF CancelAll, ControllerCancelled, TypeOK
<1>3. pool' \in PoolOf(Request, Answers) /\ Outstanding(pool) \subseteq Request
  BY <1>1, PoolOperationsType DEF CancelAll, TypeOK
<1>4. settled' \in SUBSET Settlement
  BY <1>1, <1>3 DEF CancelAll, Settlement, Fates, TypeOK
<1>5. compilers' \in PoolOf(Request, Verdicts) /\ Outstanding(compilers) \subseteq Request
  BY <1>1, PoolOperationsType
     DEF StopEngagements, CancelCompilations, CancelOutstanding, EngagementTypeOK
<1>6. outcomes' \in SUBSET [work: Request, verdict: Outcome] /\ refusing' \in BOOLEAN
  <2>1. /\ outcomes' = outcomes \union
               {[work |-> r, verdict |-> "cancelled"] : r \in Outstanding(compilers)}
        /\ refusing' = TRUE
    BY DEF StopEngagements, CancelCompilations, CancelOutstanding
  <2>2. \A r \in Outstanding(compilers) :
            [work |-> r, verdict |-> "cancelled"] \in [work: Request, verdict: Outcome]
    BY <1>5 DEF Outcome
  <2> QED
    BY <1>1, <2>1, <2>2 DEF EngagementTypeOK
<1>7. PICK S \in SUBSET Agents : ClearEngagePlans(S)
  <2>1. {a \in Agents : engagement[a] # NoEngagement} \in SUBSET Agents
    OBVIOUS
  <2>2. {a \in Agents : \E r \in Outstanding(compilers) : Holds(a, r)} \in SUBSET Agents
    OBVIOUS
  <2> QED
    BY <2>1, <2>2 DEF StopEngagements, CancelCompilations
<1>8. /\ occupied' \in [Agents -> SUBSET {"plan", "speech"}]
      /\ action' \in [Agents -> ActionOf \union {NoAction}]
  BY <1>1, <1>7 DEF ClearEngagePlans, EngagementTypeOK, TypeOK
<1>9. engagement' \in [Agents -> EngagementOf \union {NoEngagement}]
  BY <1>1 DEF StopEngagements, CancelCompilations, EngagementTypeOK
<1> QED
  BY <1>2, <1>3, <1>4, <1>5, <1>6, <1>8, <1>9

LEMMA RunTypeStep ==
    ASSUME RunTypeOK, EngagementHasAction, PlansAreOwn, [RunNext]_everything
    PROVE  RunTypeOK'
<1> USE DEF RunTypeOK
<1>1. TypeOK /\ EngagementTypeOK
  BY DEF EngagementTypeOK
<1>2. ASSUME NEW t \in Tasks, RunBegin(t) PROVE RunTypeOK'
  BY <1>2, BeginType
<1>3. ASSUME NEW t \in Tasks, RunEvaluate(t) \/ RunFinishDrain(t) PROVE RunTypeOK'
  <2>1. TypeOK'
    BY <1>1, <1>3, BarrierSteps, StepType
  <2> QED
    BY <1>1, <1>3, <2>1
       DEF RunEvaluate, RunFinishDrain, engagementVars, compilerVars, runVars, EngagementTypeOK
<1>4. ASSUME NEW t \in Tasks, RunStartDrain(t) \/ RunPoll(t) \/ RunPollRaises(t)
      PROVE  RunTypeOK'
  <2>1. TypeOK'
    BY <1>1, <1>4, BarrierSteps, StepType
  <2>2. EngagementTypeOK'
    BY <1>1, <1>4, <2>1
       DEF RunStartDrain, RunPoll, RunPollRaises, engagementVars, compilerVars, EngagementTypeOK
  <2> QED
    BY <1>4, <2>2 DEF RunStartDrain, RunPoll, RunPollRaises, Unwound
<1>5. ASSUME NEW t \in Tasks, RunApply(t) \/ RunStartCompile(t) \/ RunPollCompiler(t)
                                \/ RunPollCompilerRaises(t) \/ RunInstall(t)
      PROVE  RunTypeOK'
  BY <1>5, CompileType
<1>6. ASSUME NEW t \in Tasks, RunEndTick(t) PROVE RunTypeOK'
  <2>1. /\ loop' \in Tasks \union {Free} /\ stage' \in [Tasks -> Stages]
        /\ compiling' \in [Tasks -> {"no", "wait", "install"}]
        /\ memory' \in SUBSET Agents /\ finalised' \in BOOLEAN
    BY <1>1, <1>6 DEF RunEndTick, Stages, TypeOK, EngagementTypeOK
  <2>2. CASE stopRequested
    BY <1>1, <1>6, <2>1, <2>2, CancelType DEF RunEndTick, TypeOK, EngagementTypeOK
  <2>3. CASE ~stopRequested
    BY <1>1, <1>6, <2>1, <2>3 DEF RunEndTick, TypeOK, EngagementTypeOK
  <2> QED
    BY <2>2, <2>3
<1>7. ASSUME Pause \/ Resume PROVE RunTypeOK'
  BY <1>1, <1>7 DEF Pause, Resume, Statuses, worldVars, workVars, engagementVars, compilerVars,
                    runVars, TypeOK, EngagementTypeOK
<1>8. ASSUME RunStop PROVE RunTypeOK'
  <2>1. StopEngagements \/ CancelCompilations
    BY <1>8 DEF RunStop
  <2>2. /\ status' \in Statuses /\ stopRequested' \in BOOLEAN /\ finalised' \in BOOLEAN
        /\ memory' \in SUBSET Agents
    BY <1>8 DEF RunStop, Statuses, AtBoundary
  <2> QED
    BY <1>1, <1>8, <2>1, <2>2, CancelType DEF RunStop, TypeOK, EngagementTypeOK
<1>9. ASSUME Checkpoint PROVE RunTypeOK'
  BY <1>1, <1>9 DEF Checkpoint, allVars, vars, worldVars, workVars, engagementVars, compilerVars,
                    TypeOK, EngagementTypeOK
<1>10. ASSUME Threads PROVE RunTypeOK'
  <2>1. TypeOK'
    BY <1>1, <1>10, ThreadSteps, StepType
  <2>2. ASSUME UNCHANGED engagementVars, UNCHANGED runVars PROVE RunTypeOK'
    BY <1>1, <2>1, <2>2 DEF engagementVars, compilerVars, runVars, EngagementTypeOK
  <2>3. ASSUME CompilerStarts \/ CompilerFinishes \/ CompilerDeadline, UNCHANGED runVars
        PROVE  RunTypeOK'
    <3>1. compilers \in PoolOf(Request, Verdicts) /\ compilers.pending \subseteq Request
          /\ compilers.running \subseteq Request
      BY <1>1 DEF EngagementTypeOK, PoolOf
    <3>2. /\ \A w \in Request : StartWork(compilers, w) \in PoolOf(Request, Verdicts)
          /\ \A w \in Request, answer \in Verdicts :
                Finish(compilers, w, answer) \in PoolOf(Request, Verdicts)
          /\ \A w \in Request : Expire(compilers, w) \in PoolOf(Request, Verdicts)
      BY <3>1, PoolOperationsType
    <3>3. compilers' \in PoolOf(Request, Verdicts)
      BY <2>3, <3>1, <3>2 DEF CompilerStarts, CompilerFinishes, CompilerDeadline
    <3> QED
      BY <1>1, <2>1, <2>3, <3>3
         DEF CompilerStarts, CompilerFinishes, CompilerDeadline, compilersOnly, runVars,
             EngagementTypeOK
  <2> QED
    BY <1>10, <2>2, <2>3 DEF Threads
<1>11. CASE UNCHANGED everything
  BY <1>1, <1>11 DEF everything, allVars, vars, worldVars, workVars, engagementVars, compilerVars,
                     runVars, TypeOK, EngagementTypeOK
<1> QED
  BY <1>2, <1>3, <1>4, <1>5, <1>6, <1>7, <1>8, <1>9, <1>10, <1>11
     DEF RunNext, TaskStep, Operator

-----------------------------------------------------------------------------
(* The barrier holds in a run.                                             *)

LEMMA CompileStageStep ==
    ASSUME RunTypeOK, CompileStage, [RunNext]_everything
    PROVE  CompileStage'
<1> USE DEF CompileStage
<1>1. /\ stage \in [Tasks -> Stages] /\ compiling \in [Tasks -> {"no", "wait", "install"}]
  BY DEF RunTypeOK, EngagementTypeOK, TypeOK
<1>2. ASSUME NEW t \in Tasks, RunBegin(t) PROVE CompileStage'
  BY <1>1, <1>2 DEF RunBegin, BeginEngagedTick, BeginTick, compilerVars
<1>3. ASSUME NEW t \in Tasks,
             RunEvaluate(t) \/ RunApply(t) \/ RunInstall(t)
      PROVE  CompileStage'
  <2>1. UNCHANGED <<stage, compiling>>
    BY <1>3 DEF RunEvaluate, Evaluate, Ask, Exhaust, PassOver, Visiting, engagementVars, compilerVars,
                RunApply, CommitOther, CommitAndSubmit, CommitUnavailable, Fail, Reject, Commit, Applying,
                RunInstall, InstallNext, Install, FailCompilation, Installing, vars
  <2> QED
    BY <2>1
<1>4. ASSUME NEW t \in Tasks,
             RunStartDrain(t) \/ RunPoll(t) \/ RunPollRaises(t) \/ RunFinishDrain(t)
      PROVE  CompileStage'
  <2>1. /\ stage[t] # "after" /\ UNCHANGED compiling
        /\ \E s : stage' = [stage EXCEPT ![t] = s]
    BY <1>4 DEF RunStartDrain, RunPoll, RunPollRaises, RunFinishDrain, StartDrain, Poll, PollRaises,
                CanPoll, FinishDrain, engagementVars, compilerVars
  <2> QED
    BY <1>1, <2>1
<1>5. ASSUME NEW t \in Tasks, RunStartCompile(t) \/ RunPollCompiler(t) PROVE CompileStage'
  <2>1. /\ stage[t] = "after" /\ UNCHANGED stage
        /\ \E c : compiling' = [compiling EXCEPT ![t] = c]
    BY <1>5 DEF RunStartCompile, StartCompile, RunPollCompiler, PollCompiler, CanPollCompiler, vars
  <2> QED
    BY <1>1, <2>1
<1>6. ASSUME NEW t \in Tasks, RunPollCompilerRaises(t) \/ RunEndTick(t) PROVE CompileStage'
  BY <1>1, <1>6 DEF RunPollCompilerRaises, PollCompilerRaises, RunEndTick
<1>7. ASSUME Operator \/ Threads \/ UNCHANGED everything PROVE CompileStage'
  <2>1. UNCHANGED <<stage, compiling>>
    BY <1>7 DEF Operator, Pause, Resume, RunStop, Checkpoint, Threads, WorkerStarts, WorkerFinishes,
                DeadlinePasses, poolUnchanged, CompilerStarts, CompilerFinishes, CompilerDeadline,
                compilersOnly, everything, allVars, vars, engagementVars, compilerVars
  <2> QED
    BY <2>1
<1> QED
  BY <1>2, <1>3, <1>4, <1>5, <1>6, <1>7 DEF RunNext, TaskStep

\* A second sleep of a tick, while the compiler works, gives the loop away and
\* takes it back without anybody being inside.
LEMMA BarrierStep ==
    ASSUME RunTypeOK, RunTypeOK', CompileStage, InductiveInvariant, [RunNext]_everything
    PROVE  InductiveInvariant'
<1>1. /\ TypeOK /\ TypeOK' /\ stage \in [Tasks -> Stages]
      /\ LoopDiscipline /\ BarrierComplete
  BY DEF RunTypeOK, EngagementTypeOK, TypeOK, InductiveInvariant
<1>2. ASSUME NEW t \in Tasks, CommitUnavailable(t) PROVE InductiveInvariant'
  <2>1. PICK i \in collected[t] : Settles(t, i)
    BY <1>2 DEF CommitUnavailable, Settles, Fates
  <2> QED
    BY <1>1, <2>1, BarrierSettles
<1>3. ASSUME NEW t \in Tasks, RunPollCompiler(t) PROVE InductiveInvariant'
  <2>1. /\ stage[t] = "after" /\ loop \in {t, Free} /\ loop' \in {t, Free}
        /\ UNCHANGED <<stage, pool, controller, collected, settled, abandoned>>
    BY <1>3 DEF RunPollCompiler, PollCompiler, CanPollCompiler, CompileStage, tickUnchanged,
                worldVars, workVars
  <2>2. (\A u \in Tasks : stage[u] \notin {"schedule", "apply"}) /\ pool.queued = {}
    BY <2>1, NobodyInside
  <2>3. LoopDiscipline' /\ BarrierComplete'
    BY <2>1, <2>2 DEF LoopDiscipline, BarrierComplete
  <2> QED
    BY <1>1, <2>1, <2>3, BarrierAtRest
<1>4. ASSUME NEW t \in Tasks, RunPollCompilerRaises(t) PROVE InductiveInvariant'
  <2>1. /\ stage[t] = "after" /\ loop \in {t, Free} /\ loop' = Free
        /\ stage' = [stage EXCEPT ![t] = "idle"]
        /\ UNCHANGED <<pool, controller, collected, settled, abandoned>>
    BY <1>4 DEF RunPollCompilerRaises, PollCompilerRaises, CanPollCompiler, CompileStage,
                tickUnchanged, worldVars, workVars
  <2>2. (\A u \in Tasks : stage[u] \notin {"schedule", "apply"}) /\ pool.queued = {}
    BY <2>1, NobodyInside
  <2>3. LoopDiscipline' /\ BarrierComplete'
    BY <1>1, <2>1, <2>2 DEF LoopDiscipline, BarrierComplete
  <2> QED
    BY <1>1, <2>1, <2>3, BarrierAtRest
<1>5. ASSUME NEW t \in Tasks, RunInstall(t) PROVE InductiveInvariant'
  <2>1. UNCHANGED <<loop, stage, pool, controller, collected, settled, abandoned>>
    BY <1>5 DEF RunInstall, InstallNext, Install, FailCompilation, Installing, vars, worldVars, workVars
  <2>2. LoopDiscipline' /\ BarrierComplete'
    BY <1>1, <2>1 DEF LoopDiscipline, BarrierComplete
  <2> QED
    BY <1>1, <2>1, <2>2, BarrierAtRest
<1>6. ASSUME NEW t \in Tasks, RunEndTick(t) PROVE InductiveInvariant'
  <2>1. /\ loop = t /\ stage[t] = "after" /\ stage' = [stage EXCEPT ![t] = "idle"] /\ loop' = Free
        /\ UNCHANGED <<collected, abandoned>>
    BY <1>6 DEF RunEndTick
  <2>2. (\A u \in Tasks : stage[u] \notin {"schedule", "apply"}) /\ pool.queued = {}
    BY <2>1, NobodyInside
  <2>3. CASE stopRequested
    <3>1. CancelAll
      BY <1>6, <2>3 DEF RunEndTick
    <3>2. pool'.queued = {}
      BY <3>1, <1>1 DEF CancelAll, Abandon, TypeOK, PoolOf
    <3>3. LoopDiscipline'
      BY <1>1, <2>1, <2>2, <3>2 DEF LoopDiscipline
    <3> QED
      BY <1>1, <2>1, <3>1, <3>3, BarrierCancels
  <2>4. CASE ~stopRequested
    <3>1. UNCHANGED <<pool, controller, settled>>
      BY <1>6, <2>4 DEF RunEndTick
    <3>2. LoopDiscipline' /\ BarrierComplete'
      BY <1>1, <2>1, <2>2, <3>1 DEF LoopDiscipline, BarrierComplete
    <3> QED
      BY <1>1, <2>1, <3>1, <3>2, BarrierAtRest
  <2> QED
    BY <2>3, <2>4
<1>7. ASSUME RunStop PROVE InductiveInvariant'
  <2>1. CancelAll /\ UNCHANGED <<loop, stage, collected, abandoned>>
    BY <1>7 DEF RunStop
  <2>2. pool'.queued = {}
    BY <2>1, <1>1 DEF CancelAll, Abandon, TypeOK, PoolOf
  <2>3. LoopDiscipline'
    BY <1>1, <2>1, <2>2 DEF LoopDiscipline
  <2> QED
    BY <1>1, <2>1, <2>3, BarrierCancels
<1>8. ASSUME Pause \/ Resume PROVE InductiveInvariant'
  <2>1. UNCHANGED <<loop, stage, pool, controller, collected, settled, abandoned>>
    BY <1>8 DEF Pause, Resume, worldVars, workVars
  <2>2. LoopDiscipline' /\ BarrierComplete'
    BY <1>1, <2>1 DEF LoopDiscipline, BarrierComplete
  <2> QED
    BY <1>1, <2>1, <2>2, BarrierAtRest
<1>9. ASSUME Checkpoint \/ UNCHANGED everything PROVE InductiveInvariant'
  BY <1>9, InductiveStep DEF Checkpoint, everything, allVars
<1>10. ASSUME NEW t \in Tasks,
              RunBegin(t) \/ RunEvaluate(t) \/ RunStartDrain(t) \/ RunPoll(t) \/ RunPollRaises(t)
                \/ CommitOther(t) \/ CommitAndSubmit(t) \/ RunFinishDrain(t) \/ RunStartCompile(t)
       PROVE  InductiveInvariant'
  BY <1>10, BarrierSteps, InductiveStep
<1>11. ASSUME Threads PROVE InductiveInvariant'
  BY <1>11, ThreadSteps, InductiveStep
<1> QED
  BY <1>2, <1>3, <1>4, <1>5, <1>6, <1>7, <1>8, <1>9, <1>10, <1>11
     DEF RunNext, TaskStep, RunApply, Operator

-----------------------------------------------------------------------------
(* Engagements and the plans that hold their actions.                      *)

EngagementSound == EngagementFollowsAction /\ PlansAreOwn

\* A step that touches neither plans nor engagements nor the compiler's works.
LEMMA EngagementsAtRest ==
    ASSUME EngagementSound,
           UNCHANGED <<action, engagement, drive, mislaid>>,
           refusing => refusing',
           Outstanding(compilers) \union InCompileDrains
               \subseteq Outstanding(compilers)' \union InCompileDrains',
           \A a \in Agents : "plan" \in occupied'[a] => \/ "plan" \in occupied[a]
                                                       \/ drive[a] # "critical",
           \A a \in Agents : "plan" \in occupied[a] => "plan" \in occupied'[a]
    PROVE  EngagementSound'
BY DEF EngagementSound, EngagementFollowsAction, EngagementHasAction, PendingEngagementHasWork,
       PlansAreOwn

LEMMA BeginEngagements ==
    ASSUME RunTypeOK, EngagementSound, NEW t \in Tasks, RunBegin(t)
    PROVE  EngagementSound'
<1> SUFFICES ASSUME NEW a \in Agents
             PROVE  /\ engagement'[a] # NoEngagement =>
                           /\ action'[a] # NoAction
                           /\ action'[a].work = engagement'[a].work
                           /\ "plan" \in occupied'[a]
                           /\ engagement'[a].phase \in {"running", "over"}
                           /\ action'[a].started
                    /\ action'[a] # NoAction => action'[a].work.agent = a /\ "plan" \in occupied'[a]
                    /\ drive'[a] = "critical" => "plan" \notin occupied'[a]
  BY DEF EngagementSound, EngagementFollowsAction, EngagementHasAction, PendingEngagementHasWork,
         PlansAreOwn
<1>1. /\ action[a] # NoAction => action[a] \in ActionOf
      /\ engagement[a] # NoEngagement => engagement[a] \in EngagementOf
  BY DEF RunTypeOK, EngagementTypeOK
<1>2. BeginEngagedTick(t) /\ EngagementHasAction /\ PlansAreOwn
  BY DEF RunBegin, EngagementSound, EngagementFollowsAction
<1>3. /\ drive'[a] = "critical" => "plan" \notin occupied'[a]
      /\ \/ action'[a] = NoAction /\ engagement'[a] = NoEngagement
         \/ /\ action[a] # NoAction /\ engagement[a] # NoEngagement
            /\ "plan" \in occupied'[a]
            /\ action'[a] = [action[a] EXCEPT !.started = TRUE]
            /\ \E p \in {"running", "over"} :
                   engagement'[a] = [engagement[a] EXCEPT !.phase = p]
  BY <1>2, BeginAction
<1>4. CASE action'[a] = NoAction /\ engagement'[a] = NoEngagement
  BY <1>3, <1>4
<1>5. ASSUME action[a] # NoAction, engagement[a] # NoEngagement, "plan" \in occupied'[a],
             action'[a] = [action[a] EXCEPT !.started = TRUE],
             NEW p \in {"running", "over"}, engagement'[a] = [engagement[a] EXCEPT !.phase = p]
      PROVE  /\ action'[a] \in ActionOf /\ action'[a].started
             /\ action'[a].work = action[a].work /\ engagement'[a].work = engagement[a].work
             /\ engagement'[a].phase = p
             /\ action[a].work = engagement[a].work /\ action[a].work.agent = a
  <2>1. action[a] \in ActionOf /\ engagement[a] \in EngagementOf
    BY <1>1, <1>5
  <2>2. /\ action'[a] \in ActionOf /\ action'[a].started /\ action'[a].work = action[a].work
    BY <1>5, <2>1 DEF ActionOf
  <2>3. engagement'[a].work = engagement[a].work /\ engagement'[a].phase = p
    BY <1>5, <2>1 DEF EngagementOf
  <2> QED
    BY <1>2, <1>5, <2>2, <2>3 DEF EngagementHasAction, PlansAreOwn
<1> QED
  BY <1>3, <1>4, <1>5, NothingAssumption

LEMMA SubmitEngagement ==
    ASSUME RunTypeOK, EngagementSound, NEW t \in Tasks, CommitAndSubmit(t)
    PROVE  EngagementSound'
<1> USE DEF EngagementSound, EngagementFollowsAction
<1>1. PICK i \in collected[t] :
          /\ i.result = "engage" /\ Commit(t, i)
          /\ engagement[i.request.agent] = NoEngagement
          /\ action' = [action EXCEPT ![i.request.agent] = Queued(i.request)]
          /\ engagement' = [engagement EXCEPT ![i.request.agent] =
                 [work |-> i.request, phase |-> "pending"]]
          /\ compilers' = Enqueue(compilers, i.request)
          /\ UNCHANGED <<compiled, refusing, mislaid>>
  BY DEF CommitAndSubmit
<1>2. i.request \in Request /\ i.request.agent \in Agents
  BY DEF RunTypeOK, EngagementTypeOK, TypeOK, Item, Request
<1>3. /\ drive[i.request.agent] = "normal" /\ UNCHANGED drive
      /\ occupied' = [occupied EXCEPT ![i.request.agent] = @ \union {"plan"}]
  BY <1>1 DEF Commit, Fresh, OccupiedBy, Applying
<1>4. /\ Outstanding(compilers)' = Outstanding(compilers) \union {i.request}
      /\ InCompileDrains' = InCompileDrains
  BY <1>1 DEF Enqueue, Outstanding, InCompileDrains, RunTypeOK, EngagementTypeOK, PoolOf
<1>5. /\ action'[i.request.agent] = Queued(i.request)
      /\ engagement'[i.request.agent] = [work |-> i.request, phase |-> "pending"]
      /\ occupied'[i.request.agent] = occupied[i.request.agent] \union {"plan"}
      /\ \A a \in Agents \ {i.request.agent} :
            action'[a] = action[a] /\ engagement'[a] = engagement[a] /\ occupied'[a] = occupied[a]
  BY <1>1, <1>2, <1>3 DEF RunTypeOK, EngagementTypeOK, TypeOK
<1>6. Queued(i.request).work = i.request /\ Queued(i.request) # NoAction
  <2>1. Queued(i.request) \in ActionOf
    BY <1>2 DEF Queued, ActionOf
  <2> QED
    BY <2>1, NothingAssumption DEF Queued
<1>7. EngagementHasAction'
  BY <1>5, <1>6 DEF EngagementHasAction
<1>8. PendingEngagementHasWork'
  BY <1>1, <1>4, <1>5 DEF PendingEngagementHasWork
<1>9. PlansAreOwn'
  BY <1>2, <1>3, <1>5, <1>6 DEF PlansAreOwn
<1> QED
  BY <1>7, <1>8, <1>9

LEMMA DrainEngagements ==
    ASSUME RunTypeOK, EngagementSound, NEW t \in Tasks, CommitOther(t) \/ CommitUnavailable(t)
    PROVE  EngagementSound'
<1> USE DEF EngagementSound, EngagementFollowsAction
<1>1. /\ occupied \in [Agents -> SUBSET {"plan", "speech"}]
      /\ engagement \in [Agents -> EngagementOf \union {NoEngagement}]
      /\ \A i \in collected[t] : i.request \in Request /\ i.request.agent \in Agents
  BY DEF RunTypeOK, EngagementTypeOK, TypeOK, Item, Request
<1>2. ASSUME CommitOther(t) PROVE EngagementSound'
  <2>1. PICK i \in collected[t] : Fail(t, i) \/ Reject(t, i) \/ Commit(t, i)
    BY <1>2 DEF CommitOther
  <2>2. \/ UNCHANGED occupied
        \/ /\ drive[i.request.agent] = "normal"
           /\ occupied' = [occupied EXCEPT ![i.request.agent] = @ \union OccupiedBy(i.result)]
    BY <2>1 DEF Fail, Reject, Commit, Fresh
  <2>3. \A a \in Agents : /\ "plan" \in occupied'[a] => \/ "plan" \in occupied[a]
                                                       \/ drive[a] # "critical"
                          /\ "plan" \in occupied[a] => "plan" \in occupied'[a]
    BY <1>1, <2>2
  <2>4. UNCHANGED <<action, engagement, drive, mislaid, refusing, compilers, compiled>>
    BY <1>2, <2>1 DEF CommitOther, Fail, Reject, Commit, Applying, engagementVars, compilerVars
  <2> QED
    BY <2>3, <2>4, EngagementsAtRest DEF InCompileDrains
<1>3. ASSUME CommitUnavailable(t) PROVE EngagementSound'
  <2>1. PICK i \in collected[t] :
          /\ DropEngagement(i.request)
          /\ UNCHANGED <<occupied, drive, action, compilers, compiled, refusing, mislaid>>
    BY <1>3 DEF CommitUnavailable, Applying
  <2>2. \A a \in Agents : engagement'[a] # NoEngagement => engagement'[a] = engagement[a]
    BY <1>1, <2>1 DEF DropEngagement
  <2>3. InCompileDrains' = InCompileDrains /\ Outstanding(compilers)' = Outstanding(compilers)
    BY <2>1 DEF InCompileDrains
  <2>4. EngagementHasAction'
    BY <2>1, <2>2 DEF EngagementHasAction
  <2>5. PendingEngagementHasWork'
    BY <2>1, <2>2, <2>3 DEF PendingEngagementHasWork
  <2>6. PlansAreOwn'
    BY <2>1 DEF PlansAreOwn
  <2> QED
    BY <2>4, <2>5, <2>6
<1> QED
  BY <1>2, <1>3

-----------------------------------------------------------------------------
(* The compiler's works.                                                   *)

LEMMA CompilerAnswersStep ==
    ASSUME RunTypeOK, CompilerAnswers, [RunNext]_everything
    PROVE  CompilerAnswers'
<1> DEFINE Expected(p) == AnsweredWorks(p) \subseteq p.pending
<1>1. compilers \in PoolOf(Request, Verdicts) /\ Expected(compilers)
  BY DEF RunTypeOK, EngagementTypeOK, CompilerAnswers
<1>2. /\ \A w : Expected(Enqueue(compilers, w))
      /\ Expected(Dispatch(compilers))
      /\ Expected(Abandon(compilers))
      /\ \A works : Expected(Take(compilers, works))
      /\ \A w : Expected(StartWork(compilers, w))
      /\ \A w, answer : Expected(Finish(compilers, w, answer))
      /\ \A w : Expected(Expire(compilers, w))
  <2>1. /\ \A w : Expected(Enqueue(compilers, w))
        /\ Expected(Dispatch(compilers))
        /\ \A w : Expected(StartWork(compilers, w))
        /\ \A w : Expected(Expire(compilers, w))
    BY <1>1 DEF Enqueue, Dispatch, StartWork, Expire, PoolOf, AnsweredWorks
  <2>2. Expected(Abandon(compilers))
    BY <1>1 DEF Abandon, PoolOf, AnsweredWorks
  <2>3. ASSUME NEW works PROVE Expected(Take(compilers, works))
    BY <1>1 DEF Take, PoolOf, AnsweredWorks
  <2>4. ASSUME NEW w, NEW answer PROVE Expected(Finish(compilers, w, answer))
    BY <1>1 DEF Finish, PoolOf, AnsweredWorks
  <2> QED
    BY <2>1, <2>2, <2>3, <2>4
<1> HIDE DEF Expected
<1>3. Expected(compilers')
  <2>1. ASSUME NEW t \in Tasks, RunBegin(t) \/ RunEvaluate(t) \/ RunStartDrain(t) \/ RunPoll(t)
                 \/ RunPollRaises(t) \/ RunFinishDrain(t) \/ RunInstall(t) \/ CommitOther(t)
                 \/ CommitUnavailable(t)
        PROVE  UNCHANGED compilers
    BY <2>1 DEF RunBegin, BeginEngagedTick, RunEvaluate, RunStartDrain, RunPoll, RunPollRaises,
                RunFinishDrain, RunInstall, InstallNext, Install, FailCompilation, Installing,
                CommitOther, CommitUnavailable, engagementVars, compilerVars
  <2>2. ASSUME NEW t \in Tasks, CommitAndSubmit(t) PROVE Expected(compilers')
    BY <1>2, <2>2 DEF CommitAndSubmit
  <2>3. ASSUME NEW t \in Tasks, RunStartCompile(t) PROVE Expected(compilers')
    BY <1>2, <2>3 DEF RunStartCompile, StartCompile
  <2>4. ASSUME NEW t \in Tasks, RunPollCompiler(t) \/ RunPollCompilerRaises(t)
        PROVE  Expected(compilers')
    <3>1. RunPollCompiler(t) => \E works : compilers' = Take(compilers, works)
      BY DEF RunPollCompiler, PollCompiler
    <3>2. RunPollCompilerRaises(t) => \E works : compilers' = Take(compilers, works)
      BY DEF RunPollCompilerRaises, PollCompilerRaises
    <3> QED
      BY <1>2, <2>4, <3>1, <3>2
  <2>5. ASSUME (\E t \in Tasks : RunEndTick(t)) \/ RunStop PROVE Expected(compilers')
    <3>1. compilers' = Abandon(compilers) \/ UNCHANGED compilers
      BY <2>5 DEF RunEndTick, RunStop, StopEngagements, CancelCompilations, CancelOutstanding
    <3> QED
      BY <1>1, <1>2, <3>1
  <2>6. ASSUME Pause \/ Resume \/ Checkpoint \/ UNCHANGED everything PROVE UNCHANGED compilers
    BY <2>6 DEF Pause, Resume, Checkpoint, everything, allVars, engagementVars, compilerVars
  <2>7. ASSUME Threads PROVE Expected(compilers')
    BY <1>1, <1>2, <2>7
       DEF Threads, CompilerStarts, CompilerFinishes, CompilerDeadline, engagementVars, compilerVars
  <2> QED
    BY <1>1, <2>1, <2>2, <2>3, <2>4, <2>5, <2>6, <2>7
       DEF RunNext, TaskStep, RunApply, Operator
<1> QED
  BY <1>3 DEF Expected, CompilerAnswers

\* A poll moves works from the pool to the drain; one that raises mislays them.
LEMMA PollsKeepWorks ==
    ASSUME RunTypeOK, CompilerAnswers, NEW t \in Tasks, PollCompiler(t) \/ PollCompilerRaises(t)
    PROVE  /\ Outstanding(compilers) \union InCompileDrains \subseteq
                  Outstanding(compilers)' \union InCompileDrains' \union mislaid'
           /\ Outstanding(compilers)' \union InCompileDrains' \subseteq
                  Outstanding(compilers) \union InCompileDrains
           /\ mislaid \subseteq mislaid'
<1>1. /\ compilers \in PoolOf(Request, Verdicts) /\ DOMAIN compiled = Tasks
      /\ \A works : Outstanding(Take(compilers, works)) \subseteq Outstanding(compilers)
      /\ \A works : Outstanding(compilers) \subseteq Outstanding(Take(compilers, works)) \union works
  BY DEF RunTypeOK, EngagementTypeOK, Outstanding, Take, PoolOf
<1>2. ASSUME PollCompiler(t)
      PROVE  /\ Outstanding(compilers) \union InCompileDrains \subseteq
                    Outstanding(compilers)' \union InCompileDrains'
             /\ Outstanding(compilers)' \union InCompileDrains' \subseteq
                    Outstanding(compilers) \union InCompileDrains
             /\ UNCHANGED mislaid
  <2> DEFINE works == {x[1] : x \in Ready(compilers)}
             items == {[request |-> x[1], result |-> x[2]] : x \in Ready(compilers)}
  <2>1. /\ compilers' = Take(compilers, works) /\ UNCHANGED mislaid
        /\ compiled' = [compiled EXCEPT ![t] = @ \union items]
    BY <1>2 DEF PollCompiler
  <2>2. {i.request : i \in items} = works
    <3>1. \A x \in Ready(compilers) : [request |-> x[1], result |-> x[2]].request = x[1]
      OBVIOUS
    <3> QED
      BY <3>1
  <2> HIDE DEF items
  <2>3. InCompileDrains' = InCompileDrains \union works
    <3>1. /\ compiled'[t] = compiled[t] \union items
          /\ \A u \in Tasks \ {t} : compiled'[u] = compiled[u]
      BY <1>1, <2>1
    <3> QED
      BY <2>2, <3>1 DEF InCompileDrains
  <2>4. works \subseteq compilers.pending
    BY DEF CompilerAnswers, Ready, AnsweredWorks
  <2>5. works \subseteq Outstanding(compilers)
    BY <2>4 DEF Outstanding
  <2> HIDE DEF works
  <2> QED
    BY <1>1, <2>1, <2>3, <2>5
<1>3. ASSUME PollCompilerRaises(t)
      PROVE  /\ Outstanding(compilers) \union InCompileDrains \subseteq
                    Outstanding(compilers)' \union InCompileDrains' \union mislaid'
             /\ Outstanding(compilers)' \union InCompileDrains' \subseteq
                    Outstanding(compilers) \union InCompileDrains
             /\ mislaid \subseteq mislaid'
  <2>1. PICK taken : /\ compilers' = Take(compilers, taken)
                     /\ mislaid' = mislaid \union taken \union {i.request : i \in compiled[t]}
    BY <1>3 DEF PollCompilerRaises
  <2>2. compiled' = [compiled EXCEPT ![t] = {}]
    BY <1>3 DEF PollCompilerRaises
  <2>3. /\ compiled'[t] = {}
        /\ \A u \in Tasks \ {t} : compiled'[u] = compiled[u]
    BY <1>1, <2>2
  <2>4. /\ InCompileDrains' \subseteq InCompileDrains
        /\ InCompileDrains \subseteq InCompileDrains' \union {i.request : i \in compiled[t]}
    BY <2>3 DEF InCompileDrains
  <2>5. /\ Outstanding(compilers)' \subseteq Outstanding(compilers)
        /\ Outstanding(compilers) \subseteq Outstanding(compilers)' \union taken
    BY <1>1, <2>1
  <2> QED
    BY <2>1, <2>4, <2>5
<1> QED
  BY <1>2, <1>3

LEMMA InstallEngagements ==
    ASSUME RunTypeOK, EngagementSound, NEW t \in Tasks, RunInstall(t)
    PROVE  EngagementSound'
<1> USE DEF EngagementSound, EngagementFollowsAction
<1>1. /\ occupied \in [Agents -> SUBSET {"plan", "speech"}]
      /\ engagement \in [Agents -> EngagementOf \union {NoEngagement}]
      /\ action \in [Agents -> ActionOf \union {NoAction}]
      /\ DOMAIN compiled = Tasks
      /\ \A i \in compiled[t] : i.request \in Request /\ i.request.agent \in Agents
  BY DEF RunTypeOK, EngagementTypeOK, TypeOK, Request
<1>2. \A u \in Tasks \ {t} : compiled'[u] = compiled[u]
  BY <1>1 DEF RunInstall, InstallNext, Install, FailCompilation, Installing
<1>3. ASSUME NEW i \in compiled[t], Install(t, i) \/ FailCompilation(t, i)
      PROVE  \A r \in InCompileDrains \ {i.request} : r \in InCompileDrains'
  <2>1. compiled'[t] = compiled[t] \ {i}
    BY <1>1, <1>3 DEF Install, FailCompilation, Installing
  <2> QED
    BY <1>2, <2>1 DEF InCompileDrains
<1>4. ASSUME NEW i \in compiled[t], Install(t, i) PROVE EngagementSound'
  <2> DEFINE b == i.request.agent
  <2>1. /\ b \in Agents /\ engagement[b] = [work |-> i.request, phase |-> "pending"]
        /\ engagement' = [engagement EXCEPT ![b].phase = "program"]
        /\ UNCHANGED <<action, occupied, drive, compilers, refusing, mislaid>>
    BY <1>1, <1>4 DEF Install, Installing, StillWanted
  <2> HIDE DEF b
  <2>2. engagement'[b] = [work |-> i.request, phase |-> "program"]
    BY <1>1, <2>1
  <2>3. \A a \in Agents \ {b} : engagement'[a] = engagement[a]
    BY <1>1, <2>1
  <2>4. EngagementHasAction'
    <3>1. engagement[b] # NoEngagement
      BY <1>1, <2>1, NothingAssumption DEF EngagementOf, Phases
    <3> QED
      BY <2>1, <2>2, <2>3, <3>1 DEF EngagementHasAction
  <2>5. \A a \in Agents \ {b} : engagement[a] # NoEngagement => engagement[a].work # i.request
    BY DEF EngagementHasAction, PlansAreOwn, b
  <2>6. PendingEngagementHasWork'
    BY <1>3, <1>4, <2>1, <2>2, <2>3, <2>5 DEF PendingEngagementHasWork
  <2>7. PlansAreOwn'
    BY <2>1 DEF PlansAreOwn
  <2> QED
    BY <2>4, <2>6, <2>7
<1>5. ASSUME NEW i \in compiled[t], FailCompilation(t, i) PROVE EngagementSound'
  <2> DEFINE b == i.request.agent
  <2>1. /\ b \in Agents /\ engagement' = [engagement EXCEPT ![b] = NoEngagement]
        /\ UNCHANGED <<drive, compilers, refusing, mislaid>>
        /\ \/ UNCHANGED <<action, occupied>>
           \/ /\ action' = [action EXCEPT ![b] = NoAction]
              /\ occupied' = [occupied EXCEPT ![b] = @ \ {"plan"}]
    BY <1>1, <1>5 DEF FailCompilation, Installing, DropEngagement
  <2>2. \A a \in Agents \ {b} : engagement[a] # NoEngagement => engagement[a].work # i.request
    BY DEF EngagementHasAction, PlansAreOwn
  <2> HIDE DEF b
  <2>3. /\ engagement'[b] = NoEngagement
        /\ \A a \in Agents \ {b} : /\ engagement'[a] = engagement[a] /\ action'[a] = action[a]
                                   /\ occupied'[a] = occupied[a]
        /\ action'[b] = NoAction \/ (action'[b] = action[b] /\ occupied'[b] = occupied[b])
        /\ \A a \in Agents : occupied'[a] \subseteq occupied[a]
    BY <1>1, <2>1
  <2>4. EngagementHasAction'
    BY <2>1, <2>3 DEF EngagementHasAction
  <2>5. PendingEngagementHasWork'
    BY <1>3, <1>5, <2>1, <2>2, <2>3 DEF PendingEngagementHasWork
  <2>6. PlansAreOwn'
    BY <2>1, <2>3 DEF PlansAreOwn
  <2> QED
    BY <2>4, <2>5, <2>6
<1>6. ASSUME refusing, UNCHANGED <<vars, action, engagement, refusing>> PROVE EngagementSound'
  <2>1. UNCHANGED <<drive, occupied>>
    BY <1>6 DEF vars, worldVars
  <2> QED
    BY <1>6, <2>1 DEF EngagementHasAction, PendingEngagementHasWork, PlansAreOwn
<1> QED
  BY <1>4, <1>5, <1>6 DEF RunInstall, InstallNext

\* Whatever a stop drops, it drops an engagement no later than its plan.
LEMMA CancelEngagements ==
    ASSUME RunTypeOK, EngagementSound, StopEngagements \/ CancelCompilations,
           UNCHANGED drive
    PROVE  EngagementSound'
<1> USE DEF EngagementSound, EngagementFollowsAction
<1>1. /\ occupied \in [Agents -> SUBSET {"plan", "speech"}]
      /\ engagement \in [Agents -> EngagementOf \union {NoEngagement}]
      /\ action \in [Agents -> ActionOf \union {NoAction}]
  BY DEF RunTypeOK, EngagementTypeOK, TypeOK
<1>2. refusing' = TRUE
  BY DEF StopEngagements, CancelCompilations, CancelOutstanding
<1>3. \A a \in Agents : /\ \/ action'[a] = NoAction
                           \/ action'[a] = action[a] /\ occupied'[a] = occupied[a]
                        /\ occupied'[a] \subseteq occupied[a]
                        /\ \/ engagement'[a] = NoEngagement
                           \/ engagement'[a] = engagement[a] /\ action'[a] = action[a]
                                                             /\ occupied'[a] = occupied[a]
  <2>1. CASE StopEngagements
    BY <1>1, <2>1 DEF StopEngagements, ClearEngagePlans
  <2>2. CASE CancelCompilations
    <3> SUFFICES ASSUME NEW a \in Agents PROVE <1>3!(a)
      OBVIOUS
    <3> DEFINE S == {b \in Agents : \E r \in Outstanding(compilers) : Holds(b, r)}
    <3>1. /\ engagement'[a] = IF a \in CancelledAgents THEN NoEngagement ELSE engagement[a]
          /\ ClearEngagePlans(S)
      BY <2>2 DEF CancelCompilations
    <3>2. a \in S => a \in CancelledAgents
      BY DEF Holds, PlansAreOwn, CancelledAgents
    <3> HIDE DEF S
    <3> QED
      BY <1>1, <3>1, <3>2 DEF ClearEngagePlans
  <2> QED
    BY <2>1, <2>2
<1>4. EngagementHasAction' /\ PlansAreOwn'
  BY <1>3 DEF EngagementHasAction, PlansAreOwn
<1>5. PendingEngagementHasWork'
  BY <1>2 DEF PendingEngagementHasWork
<1> QED
  BY <1>4, <1>5

LEMMA EngagementStep ==
    ASSUME RunTypeOK, CompilerAnswers, EngagementSound, [RunNext]_everything
    PROVE  EngagementSound'
<1>1. ASSUME NEW t \in Tasks, RunBegin(t) PROVE EngagementSound'
  BY <1>1, BeginEngagements
<1>2. ASSUME NEW t \in Tasks, RunEvaluate(t) \/ RunStartDrain(t) \/ RunPoll(t) \/ RunPollRaises(t)
                               \/ RunFinishDrain(t)
      PROVE  EngagementSound'
  <2>1. UNCHANGED <<engagementVars, drive, occupied>>
    BY <1>2 DEF RunEvaluate, Evaluate, Ask, Exhaust, PassOver, Visiting, RunStartDrain, StartDrain,
                RunPoll, Poll, RunPollRaises, PollRaises, RunFinishDrain, FinishDrain, worldVars
  <2> QED
    BY <2>1, EngagementsAtRest DEF engagementVars, compilerVars, InCompileDrains
<1>3. ASSUME NEW t \in Tasks, RunApply(t) PROVE EngagementSound'
  BY <1>3, SubmitEngagement, DrainEngagements DEF RunApply
<1>4. ASSUME NEW t \in Tasks, RunStartCompile(t) PROVE EngagementSound'
  <2>1. /\ UNCHANGED <<action, engagement, drive, occupied, mislaid, refusing, compiled>>
        /\ compilers' = Dispatch(compilers)
    BY <1>4 DEF RunStartCompile, StartCompile, vars, worldVars
  <2>2. Outstanding(compilers)' = Outstanding(compilers)
    BY <2>1 DEF Outstanding, Dispatch, RunTypeOK, EngagementTypeOK, PoolOf
  <2> QED
    BY <2>1, <2>2, EngagementsAtRest DEF InCompileDrains
<1>5. ASSUME NEW t \in Tasks, RunPollCompiler(t) \/ RunPollCompilerRaises(t)
      PROVE  EngagementSound'
  <2>1. UNCHANGED <<action, engagement, drive, occupied, refusing>>
    BY <1>5 DEF RunPollCompiler, PollCompiler, RunPollCompilerRaises, PollCompilerRaises,
                tickUnchanged, worldVars
  <2>2. /\ Outstanding(compilers) \union InCompileDrains \subseteq
                  Outstanding(compilers)' \union InCompileDrains' \union mislaid'
        /\ mislaid \subseteq mislaid'
    BY <1>5, PollsKeepWorks DEF RunPollCompiler, RunPollCompilerRaises
  <2> QED
    BY <2>1, <2>2 DEF EngagementSound, EngagementFollowsAction, EngagementHasAction,
                      PendingEngagementHasWork, PlansAreOwn
<1>6. ASSUME NEW t \in Tasks, RunInstall(t) PROVE EngagementSound'
  BY <1>6, InstallEngagements
<1>7. ASSUME UNCHANGED <<action, engagement, drive, occupied, mislaid, refusing, compiled>>,
             Outstanding(compilers)' = Outstanding(compilers)
      PROVE  EngagementSound'
  BY <1>7, EngagementsAtRest DEF InCompileDrains
<1>8. ASSUME (\E t \in Tasks : RunEndTick(t)) \/ RunStop PROVE EngagementSound'
  <2>1. CASE StopEngagements \/ CancelCompilations
    BY <1>8, <2>1, CancelEngagements DEF RunEndTick, RunStop
  <2>2. CASE UNCHANGED <<action, engagement, occupied, refusing, compilers>>
    BY <1>7, <1>8, <2>2 DEF RunEndTick, RunStop
  <2> QED
    BY <1>8, <2>1, <2>2 DEF RunEndTick, RunStop
<1>9. ASSUME Pause \/ Resume \/ Checkpoint \/ UNCHANGED everything PROVE EngagementSound'
  <2>1. UNCHANGED <<engagementVars, drive, occupied>>
    BY <1>9 DEF Pause, Resume, Checkpoint, everything, allVars, vars, worldVars
  <2> QED
    BY <1>7, <2>1 DEF engagementVars, compilerVars
<1>10. ASSUME Threads PROVE EngagementSound'
  <2>1. UNCHANGED <<action, engagement, drive, occupied, mislaid, refusing, compiled>>
    BY <1>10 DEF Threads, WorkerStarts, WorkerFinishes, DeadlinePasses, poolUnchanged, worldVars,
                 engagementVars, compilerVars, CompilerStarts, CompilerFinishes, CompilerDeadline,
                 compilersOnly, vars
  <2>2. Outstanding(compilers)' = Outstanding(compilers)
    BY <1>10 DEF Threads, engagementVars, compilerVars, CompilerStarts, CompilerFinishes,
                 CompilerDeadline, StartWork, Finish, Expire, Outstanding, RunTypeOK,
                 EngagementTypeOK, PoolOf
  <2> QED
    BY <1>7, <2>1, <2>2
<1> QED
  BY <1>1, <1>2, <1>3, <1>4, <1>5, <1>6, <1>8, <1>9, <1>10 DEF RunNext, TaskStep, Operator

-----------------------------------------------------------------------------
(* A run, however its ticks overlap.                                       *)

LEMMA StopStep == StoppedForGood /\ [RunNext]_everything => StoppedForGood'
<1> SUFFICES ASSUME StoppedForGood, [RunNext]_everything PROVE StoppedForGood'
  OBVIOUS
<1>1. ASSUME RunStop PROVE StoppedForGood'
  BY <1>1 DEF RunStop, StoppedForGood, StopEngagements, CancelCompilations, CancelOutstanding
<1>2. ASSUME NEW t \in Tasks, RunEndTick(t) PROVE StoppedForGood'
  BY <1>2 DEF RunEndTick, StoppedForGood, StopEngagements, CancelOutstanding
<1>3. ASSUME Pause \/ Resume PROVE StoppedForGood'
  BY <1>3 DEF Pause, Resume, StoppedForGood, engagementVars, compilerVars, runVars
<1>4. ASSUME NEW t \in Tasks,
             RunBegin(t) \/ RunEvaluate(t) \/ RunStartDrain(t) \/ RunPoll(t) \/ RunPollRaises(t)
               \/ RunApply(t) \/ RunFinishDrain(t)
      PROVE  UNCHANGED <<status, refusing, stopRequested>>
  BY <1>4 DEF RunBegin, BeginEngagedTick, BeginTick, RunEvaluate, Evaluate, Ask, Exhaust, PassOver,
              Visiting, RunStartDrain, StartDrain, RunPoll, Poll, RunPollRaises, PollRaises, Unwound,
              RunApply, CommitOther, CommitAndSubmit, CommitUnavailable, Fail, Reject, Commit,
              Applying, RunFinishDrain, FinishDrain, engagementVars, compilerVars, runVars
<1>5. ASSUME NEW t \in Tasks,
             RunStartCompile(t) \/ RunPollCompiler(t) \/ RunPollCompilerRaises(t) \/ RunInstall(t)
      PROVE  UNCHANGED <<status, refusing, stopRequested>>
  BY <1>5 DEF RunStartCompile, StartCompile, RunPollCompiler, PollCompiler, RunPollCompilerRaises,
              PollCompilerRaises, Unwound, tickUnchanged, RunInstall, InstallNext, Install,
              FailCompilation, Installing, vars, runVars
<1>6. ASSUME Checkpoint \/ Threads \/ UNCHANGED everything
      PROVE  UNCHANGED <<status, refusing, stopRequested>>
  BY <1>6 DEF Checkpoint, Threads, WorkerStarts, WorkerFinishes, DeadlinePasses, poolUnchanged,
              CompilerStarts, CompilerFinishes, CompilerDeadline, compilersOnly, everything, allVars,
              vars, engagementVars, compilerVars, runVars
<1> QED
  BY <1>1, <1>2, <1>3, <1>4, <1>5, <1>6 DEF RunNext, TaskStep, Operator, StoppedForGood

LEMMA RunInit0 == RunInit => RunInvariant
<1> SUFFICES ASSUME RunInit PROVE RunInvariant
  OBVIOUS
<1>1. NoWorkYet /\ NoEngagementYet
  BY DEF RunInit, NoEngagementYet
<1>2. TypeOK
  BY <1>1, TasksAssumption, AgentsAssumption
     DEF RunInit, NoWorkYet, TypeOK, Statuses, Stages, Controller, PoolOf, EmptyPool
<1>3. EngagementTypeOK
  BY <1>1, <1>2 DEF NoEngagementYet, EngagementTypeOK, PoolOf, EmptyPool
<1>4. RunTypeOK
  BY <1>3 DEF RunInit, RunTypeOK
<1>5. InductiveInvariant
  <2>1. /\ pool = EmptyPool /\ settled = {} /\ abandoned = {}
        /\ \A t \in Tasks : collected[t] = {} /\ stage[t] = "idle"
        /\ \A a \in Agents : ~controller[a].pending /\ controller[a].current = 0
                              /\ controller[a].seq = 0
    BY <1>1 DEF NoWorkYet
  <2>2. Outstanding(pool) = {} /\ InDrains = {} /\ SettledRequests = {}
    BY <2>1 DEF Outstanding, EmptyPool, InDrains, Held, SettledRequests
  <2>3. Consistent(pool) /\ LoopDiscipline
    BY <2>1 DEF Consistent, AnsweredWorks, EmptyPool, LoopDiscipline
  <2>4. Issued = {} /\ Unsettled = {}
    BY <2>1, <2>2 DEF Issued, Unsettled
  <2>5. NumberedByAgent /\ OneRequestPerId /\ BarrierComplete /\ NoOrphanedRequest
    BY <2>1, <2>4 DEF NumberedByAgent, OneRequestPerId, BarrierComplete, NoOrphanedRequest
  <2>6. EveryIdIssued
    <3>1. \A a \in Agents : 1..controller[a].seq = {}
      BY <2>1
    <3> QED
      BY <3>1 DEF EveryIdIssued
  <2>7. OnePlace /\ HeldOnce /\ OneFate
    BY <2>1, <2>2, <2>4 DEF OnePlace, HeldOnce, OneFate
  <2> QED
    BY <1>2, <2>3, <2>5, <2>6, <2>7 DEF InductiveInvariant, NothingLostOrDuplicated
<1>6. CompileStage /\ CompilerAnswers
  BY <1>1 DEF NoEngagementYet, CompileStage, CompilerAnswers, AnsweredWorks, EmptyPool
<1>7. EngagementFollowsAction /\ PlansAreOwn
  BY <1>1 DEF NoEngagementYet, NoWorkYet, EngagementFollowsAction, EngagementHasAction,
              PendingEngagementHasWork, PlansAreOwn
<1>8. StoppedForGood
  BY DEF RunInit, StoppedForGood
<1> QED
  BY <1>4, <1>5, <1>6, <1>7, <1>8 DEF RunInvariant

LEMMA RunStep == RunInvariant /\ [RunNext]_everything => RunInvariant'
<1> SUFFICES ASSUME RunInvariant, [RunNext]_everything PROVE RunInvariant'
  OBVIOUS
<1>1. RunTypeOK'
  BY RunTypeStep DEF RunInvariant, EngagementFollowsAction
<1>2. InductiveInvariant'
  BY <1>1, BarrierStep DEF RunInvariant
<1>3. CompileStage' /\ CompilerAnswers' /\ StoppedForGood'
  BY CompileStageStep, CompilerAnswersStep, StopStep DEF RunInvariant
<1>4. EngagementFollowsAction' /\ PlansAreOwn'
  BY EngagementStep DEF RunInvariant, EngagementSound
<1> QED
  BY <1>1, <1>2, <1>3, <1>4 DEF RunInvariant

\* The two halves of the barrier in one run, with the operator's calls, the
\* compiler's second sleep and ticks that overlap.
THEOREM RunIsSound == RunSafetySpec => []RunInvariant
BY RunInit0, RunStep, PTL DEF RunSafetySpec

\* Every decision id of a run is in exactly one place, no agent is orphaned
\* and nothing is applied while anything is in flight: stop at any moment, an
\* unavailable compiler and engagements included.
THEOREM RunKeepsTheBarrier ==
    RunSafetySpec => [](NothingLostOrDuplicated /\ NoOrphanedRequest /\ BarrierComplete)
<1>1. RunInvariant => NothingLostOrDuplicated /\ NoOrphanedRequest /\ BarrierComplete
  BY DEF RunInvariant, InductiveInvariant
<1> QED
  BY <1>1, RunIsSound, PTL

\* No engagement outlives its plan's action, and a pending one is compiled.
THEOREM EngagementsFollow == RunSafetySpec => []EngagementFollowsAction
<1>1. RunInvariant => EngagementFollowsAction
  BY DEF RunInvariant
<1> QED
  BY <1>1, RunIsSound, PTL

\* After a stop no compiled program is installed any more, not even by the
\* tick that was compiling it.
THEOREM NothingInstalled == RunSafetySpec => NoInstallAfterStop
<1> DEFINE Kept == status = "stopped" =>
               \A a \in Agents :
                   engagement'[a] # NoEngagement /\ engagement'[a].phase = "program"
                       => engagement'[a] = engagement[a]
<1>1. ASSUME RunInvariant, [RunNext]_everything, status = "stopped" PROVE Kept
  <2>1. refusing /\ DOMAIN engagement = Agents
    BY <1>1 DEF RunInvariant, StoppedForGood, RunTypeOK, EngagementTypeOK
  <2>2. ASSUME NEW t \in Tasks, RunBegin(t) PROVE FALSE
    BY <1>1, <2>2 DEF RunBegin, MayAdvance
  <2>3. ASSUME NEW t \in Tasks,
               RunEvaluate(t) \/ RunStartDrain(t) \/ RunPoll(t) \/ RunPollRaises(t)
                 \/ CommitOther(t) \/ RunFinishDrain(t)
        PROVE  UNCHANGED engagement
    BY <2>3 DEF RunEvaluate, RunStartDrain, RunPoll, RunPollRaises, CommitOther, RunFinishDrain,
                engagementVars
  <2>4. ASSUME NEW t \in Tasks, CommitAndSubmit(t) PROVE FALSE
    BY <2>1, <2>4 DEF CommitAndSubmit
  <2>5. ASSUME NEW t \in Tasks, CommitUnavailable(t) PROVE Kept
    BY <2>1, <2>5 DEF CommitUnavailable, DropEngagement
  <2>6. ASSUME NEW t \in Tasks,
               RunStartCompile(t) \/ RunPollCompiler(t) \/ RunPollCompilerRaises(t) \/ RunInstall(t)
        PROVE  UNCHANGED engagement
    BY <2>1, <2>6 DEF RunStartCompile, StartCompile, RunPollCompiler, PollCompiler,
                      RunPollCompilerRaises, PollCompilerRaises, RunInstall, InstallNext, Install,
                      FailCompilation, Installing
  <2>7. ASSUME (\E t \in Tasks : RunEndTick(t)) \/ RunStop PROVE Kept
    BY <2>7 DEF RunEndTick, RunStop, StopEngagements, CancelCompilations
  <2>8. ASSUME Pause \/ Resume \/ Checkpoint \/ Threads \/ UNCHANGED everything
        PROVE  UNCHANGED engagement
    BY <2>8 DEF Pause, Resume, Checkpoint, Threads, CompilerStarts, CompilerFinishes,
                CompilerDeadline, compilersOnly, everything, allVars, engagementVars
  <2> QED
    BY <1>1, <2>2, <2>3, <2>4, <2>5, <2>6, <2>7, <2>8 DEF RunNext, TaskStep, RunApply, Operator
<1>2. RunInvariant /\ [RunNext]_everything => [Kept]_everything
  BY <1>1
<1> QED
  BY <1>2, RunIsSound, PTL DEF RunSafetySpec, NoInstallAfterStop

-----------------------------------------------------------------------------
(* While no tick overlapped another.                                       *)

LEMMA OneTickStep ==
    ASSUME ~overlapped', RunInvariant, OneTickAtATime, [RunNext]_everything
    PROVE  OneTickAtATime'
<1> USE DEF OneTickAtATime
<1>1. /\ stage \in [Tasks -> Stages] /\ DOMAIN collected = Tasks
      /\ DOMAIN compiled = Tasks /\ DOMAIN compiling = Tasks
      /\ compilers \in PoolOf(Request, Verdicts) /\ CompileStage
  BY DEF RunInvariant, RunTypeOK, EngagementTypeOK, TypeOK
<1>2. ASSUME NEW t \in Tasks, RunBegin(t) PROVE OneTickAtATime'
  <2>1. ~advancing /\ advancing' /\ stage' = [stage EXCEPT ![t] = "schedule"]
        /\ UNCHANGED <<collected, compiling, compiled, compilers>>
    BY <1>2 DEF RunBegin, BeginEngagedTick, BeginTick, workVars, compilerVars,
                RunInvariant, RunTypeOK
  <2> QED
    BY <1>1, <2>1
<1>3. ASSUME NEW t \in Tasks, RunEvaluate(t) PROVE OneTickAtATime'
  <2>1. UNCHANGED <<stage, advancing, collected, compiling, compiled, compilers>>
    BY <1>3 DEF RunEvaluate, Evaluate, Ask, Exhaust, PassOver, Visiting, workVars, engagementVars,
                compilerVars, runVars
  <2> QED
    BY <2>1
<1>4. ASSUME NEW t \in Tasks, RunStartDrain(t) \/ RunFinishDrain(t) PROVE OneTickAtATime'
  <2>1. /\ stage[t] # "idle" /\ collected[t] = {} /\ compiling[t] = "no"
        /\ \E s \in {"decide", "after"} : stage' = [stage EXCEPT ![t] = s]
        /\ UNCHANGED <<advancing, collected, compiling, compiled, compilers>>
    BY <1>1, <1>4 DEF RunStartDrain, StartDrain, RunFinishDrain, FinishDrain, engagementVars,
                      compilerVars, runVars, CompileStage
  <2> QED
    BY <1>1, <2>1
<1>5. ASSUME NEW t \in Tasks, RunPoll(t) PROVE OneTickAtATime'
  <2>1. /\ stage[t] = "decide"
        /\ \E s \in {"decide", "apply"} : stage' = [stage EXCEPT ![t] = s]
        /\ \E S : collected' = [collected EXCEPT ![t] = S]
        /\ UNCHANGED <<advancing, compiling, compiled, compilers>>
    BY <1>5 DEF RunPoll, Poll, CanPoll, engagementVars, compilerVars
  <2> QED
    BY <1>1, <2>1
<1>6. ASSUME NEW t \in Tasks, RunPollRaises(t) PROVE OneTickAtATime'
  <2>1. /\ stage[t] = "decide" /\ stage' = [stage EXCEPT ![t] = "idle"]
        /\ collected' = [collected EXCEPT ![t] = {}]
        /\ UNCHANGED <<compiling, compiled, compilers>>
    BY <1>6 DEF RunPollRaises, PollRaises, CanPoll, engagementVars, compilerVars
  <2> QED
    BY <1>1, <2>1 DEF CompileStage
<1>7. ASSUME NEW t \in Tasks, RunApply(t) PROVE OneTickAtATime'
  <2>1. /\ stage[t] = "apply"
        /\ \E S : collected' = [collected EXCEPT ![t] = S]
        /\ UNCHANGED <<stage, advancing, compiling, compiled>>
    BY <1>7 DEF RunApply, CommitOther, CommitAndSubmit, CommitUnavailable, Fail, Reject, Commit,
                Applying, engagementVars, compilerVars, runVars
  <2>2. \A u \in Tasks : compiling[u] = "no"
    BY <1>1, <2>1 DEF CompileStage
  <2> QED
    BY <1>1, <2>1, <2>2
<1>8. ASSUME NEW t \in Tasks, RunStartCompile(t) PROVE OneTickAtATime'
  <2>1. /\ stage[t] = "after" /\ compilers' = Dispatch(compilers)
        /\ compiling' = [compiling EXCEPT ![t] = "wait"]
        /\ UNCHANGED <<stage, advancing, collected, compiled>>
    BY <1>8 DEF RunStartCompile, StartCompile, vars, workVars
  <2>2. compilers'.queued = {}
    BY <1>1, <2>1 DEF Dispatch, PoolOf
  <2> QED
    BY <1>1, <2>1, <2>2
<1>9. ASSUME NEW t \in Tasks, RunPollCompiler(t) PROVE OneTickAtATime'
  <2>1. /\ compiling[t] = "wait"
        /\ \E works : compilers' = Take(compilers, works)
        /\ \E c \in {"wait", "install"} : compiling' = [compiling EXCEPT ![t] = c]
        /\ \E S : compiled' = [compiled EXCEPT ![t] = S]
        /\ UNCHANGED <<stage, advancing, collected>>
    BY <1>9 DEF RunPollCompiler, PollCompiler, CanPollCompiler, tickUnchanged, workVars
  <2>2. compilers'.queued = compilers.queued
    BY <1>1, <2>1 DEF Take, PoolOf
  <2> QED
    BY <1>1, <2>1, <2>2
<1>10. ASSUME NEW t \in Tasks, RunPollCompilerRaises(t) PROVE OneTickAtATime'
  <2>1. /\ compiling[t] = "wait"
        /\ \E works : compilers' = Take(compilers, works)
        /\ compiling' = [compiling EXCEPT ![t] = "no"]
        /\ compiled' = [compiled EXCEPT ![t] = {}]
        /\ stage' = [stage EXCEPT ![t] = "idle"]
        /\ UNCHANGED collected
    BY <1>10 DEF RunPollCompilerRaises, PollCompilerRaises, CanPollCompiler, tickUnchanged, workVars
  <2>2. compilers'.queued = compilers.queued
    BY <1>1, <2>1 DEF Take, PoolOf
  <2> QED
    BY <1>1, <2>1, <2>2 DEF CompileStage
<1>11. ASSUME NEW t \in Tasks, RunInstall(t) PROVE OneTickAtATime'
  <2>1. /\ compiling[t] # "no"
        /\ \E S : compiled' = [compiled EXCEPT ![t] = S]
        /\ UNCHANGED <<stage, advancing, collected, compiling, compilers>>
    BY <1>11 DEF RunInstall, InstallNext, Install, FailCompilation, Installing, vars, workVars, runVars
  <2> QED
    BY <1>1, <2>1
<1>12. ASSUME NEW t \in Tasks, RunEndTick(t) PROVE OneTickAtATime'
  <2>1. /\ stage[t] = "after" /\ stage' = [stage EXCEPT ![t] = "idle"]
        /\ compiling' = [compiling EXCEPT ![t] = "no"] /\ compiled[t] = {}
        /\ UNCHANGED <<collected, compiled>>
    BY <1>12 DEF RunEndTick, CompileDone
  <2>2. \A u \in Tasks : compiling'[u] = "no"
    BY <1>1, <2>1 DEF CompileStage
  <2> QED
    BY <1>1, <2>1, <2>2
<1>13. ASSUME RunStop PROVE OneTickAtATime'
  <2>1. /\ compilers' = Abandon(compilers)
        /\ UNCHANGED <<stage, advancing, collected, compiling, compiled>>
    BY <1>13 DEF RunStop, StopEngagements, CancelCompilations, CancelOutstanding
  <2>2. compilers'.queued = {}
    BY <1>1, <2>1 DEF Abandon, PoolOf
  <2> QED
    BY <2>1, <2>2
<1>14. ASSUME Pause \/ Resume \/ Checkpoint \/ UNCHANGED everything PROVE OneTickAtATime'
  <2>1. UNCHANGED <<stage, advancing, collected, compiling, compiled, compilers>>
    BY <1>14 DEF Pause, Resume, Checkpoint, everything, allVars, vars, workVars, engagementVars,
                 compilerVars, runVars
  <2> QED
    BY <2>1
<1>15. ASSUME Threads PROVE OneTickAtATime'
  <2>1. UNCHANGED <<stage, advancing, collected, compiling, compiled>>
    BY <1>15 DEF Threads, WorkerStarts, WorkerFinishes, DeadlinePasses, poolUnchanged, CompilerStarts,
                 CompilerFinishes, CompilerDeadline, compilersOnly, vars, workVars, engagementVars,
                 compilerVars, runVars
  <2>2. compilers'.queued = compilers.queued
    BY <1>1, <1>15 DEF Threads, CompilerStarts, CompilerFinishes, CompilerDeadline, StartWork, Finish,
                       Expire, PoolOf, engagementVars, compilerVars
  <2> QED
    BY <2>1, <2>2
<1> QED
  BY <1>2, <1>3, <1>4, <1>5, <1>6, <1>7, <1>8, <1>9, <1>10, <1>11, <1>12, <1>13, <1>14, <1>15
     DEF RunNext, TaskStep, Operator

\* Between two ticks no drain holds anything.
LEMMA NothingHeld ==
    ASSUME CompileStage, OneTickAtATime, ~advancing
    PROVE  /\ \A t \in Tasks : stage[t] = "idle"
           /\ InDrains = {} /\ InCompileDrains = {}
BY DEF CompileStage, OneTickAtATime, InDrains, Held, InCompileDrains

\* A step that neither adds a work nor takes an engagement away.
LEMMA AgreementKept ==
    ASSUME CompilationsAgree,
           Outstanding(compilers)' \union InCompileDrains' \subseteq
               Outstanding(compilers) \union InCompileDrains,
           Outstanding(compilers)' \subseteq Outstanding(compilers),
           UNCHANGED <<action, engagement>>,
           mislaid' = {} => mislaid = {},
           Outstanding(compilers)' # {} =>
               \E t \in Tasks : stage'[t] \in {"apply", "after"},
           \A t \in Tasks : stage'[t] = "apply" => stage[t] = "apply" \/ Outstanding(compilers)' = {},
           \A t \in Tasks : compiling'[t] = "install" =>
               compiling[t] = "install" \/ Outstanding(compilers)' = {}
    PROVE  CompilationsAgree'
BY DEF CompilationsAgree

LEMMA AgreementInDrain ==
    ASSUME RunInvariant, OneTickAtATime, CompilationsAgree, NEW t \in Tasks,
           RunStartDrain(t) \/ RunPoll(t) \/ RunPollRaises(t) \/ RunFinishDrain(t)
    PROVE  CompilationsAgree'
<1>1. /\ stage \in [Tasks -> Stages]
      /\ UNCHANGED <<action, engagement, compilers, compiling, compiled, mislaid>>
  BY DEF RunInvariant, RunTypeOK, EngagementTypeOK, TypeOK, RunStartDrain, RunPoll, RunPollRaises,
         RunFinishDrain, engagementVars, compilerVars
<1>2. CASE mislaid # {}
  BY <1>1, <1>2 DEF CompilationsAgree
<1>3. CASE mislaid = {} /\ ~RunFinishDrain(t)
  <2>1. /\ stage[t] \in {"schedule", "decide"}
        /\ \E s \in {"decide", "apply", "idle"} : stage' = [stage EXCEPT ![t] = s]
    BY <1>3 DEF RunStartDrain, StartDrain, RunPoll, Poll, CanPoll, RunPollRaises, PollRaises
  <2>2. \A u \in Tasks : stage[u] \notin {"apply", "after"}
    BY <2>1 DEF OneTickAtATime
  <2>3. Outstanding(compilers) = {}
    BY <1>3, <2>2 DEF CompilationsAgree
  <2> QED
    BY <1>1, <2>3, AgreementKept DEF InCompileDrains
<1>4. CASE mislaid = {} /\ RunFinishDrain(t)
  <2>1. stage[t] = "apply" /\ stage' = [stage EXCEPT ![t] = "after"]
    BY <1>4 DEF RunFinishDrain, FinishDrain
  <2> QED
    BY <1>1, <2>1, AgreementKept DEF InCompileDrains
<1> QED
  BY <1>2, <1>3, <1>4

LEMMA AgreementInApply ==
    ASSUME RunInvariant, OneTickAtATime, CompilationsAgree, NEW t \in Tasks, RunApply(t)
    PROVE  CompilationsAgree'
<1>1. /\ engagement \in [Agents -> EngagementOf \union {NoEngagement}]
      /\ action \in [Agents -> ActionOf \union {NoAction}]
      /\ compilers \in PoolOf(Request, Verdicts)
      /\ \A i \in collected[t] : i.request \in Request /\ i.request.agent \in Agents
      /\ PlansAreOwn /\ CompileStage /\ EngagementHasAction
  BY DEF RunInvariant, RunTypeOK, EngagementTypeOK, TypeOK, Item, Request, EngagementFollowsAction
<1>2. stage[t] = "apply" /\ UNCHANGED <<stage, compiling, compiled, mislaid>>
  BY DEF RunApply, CommitOther, CommitAndSubmit, CommitUnavailable, Fail, Reject, Commit, Applying,
         engagementVars, compilerVars
<1>3. InCompileDrains = {} /\ InCompileDrains' = {}
  <2>1. \A u \in Tasks : stage[u] # "after"
    BY <1>2 DEF OneTickAtATime
  <2>2. \A u \in Tasks : compiled[u] = {}
    BY <1>1, <2>1 DEF OneTickAtATime, CompileStage
  <2> QED
    BY <1>2, <2>2 DEF InCompileDrains
<1>4. ASSUME CommitOther(t) PROVE CompilationsAgree'
  <2>1. UNCHANGED <<action, engagement, compilers>>
    BY <1>4 DEF CommitOther, engagementVars, compilerVars
  <2> QED
    BY <1>2, <1>3, <2>1 DEF CompilationsAgree
<1>5. ASSUME CommitUnavailable(t) PROVE CompilationsAgree'
  <2>1. PICK i \in collected[t] :
          /\ ~Conflicting(i.request, "engage") /\ DropEngagement(i.request)
          /\ UNCHANGED <<action, compilers>>
    BY <1>5 DEF CommitUnavailable
  <2>2. engagement[i.request.agent] = NoEngagement
    BY <1>1, <2>1 DEF Conflicting, PlansAreOwn, EngagementHasAction
  <2>3. engagement' = engagement
    BY <1>1, <2>1, <2>2 DEF DropEngagement
  <2> QED
    BY <1>2, <1>3, <2>1, <2>3 DEF CompilationsAgree
<1>6. ASSUME CommitAndSubmit(t) PROVE CompilationsAgree'
  <2>1. PICK i \in collected[t] :
          /\ engagement[i.request.agent] = NoEngagement
          /\ action' = [action EXCEPT ![i.request.agent] = Queued(i.request)]
          /\ engagement' = [engagement EXCEPT ![i.request.agent] =
                 [work |-> i.request, phase |-> "pending"]]
          /\ compilers' = Enqueue(compilers, i.request)
    BY <1>6 DEF CommitAndSubmit
  <2> DEFINE b == i.request.agent
             new == [work |-> i.request, phase |-> "pending"]
  <2>2. new \in EngagementOf /\ new.work = i.request
    BY <1>1 DEF EngagementOf, Phases
  <2>3. new # NoEngagement
    BY <2>2, NothingAssumption
  <2>4. b \in Agents /\ engagement'[b] = new
        /\ \A a \in Agents \ {b} : engagement'[a] = engagement[a] /\ action'[a] = action[a]
    BY <1>1, <2>1
  <2>5. Outstanding(compilers)' = Outstanding(compilers) \union {i.request}
    BY <1>1, <2>1 DEF Enqueue, Outstanding, PoolOf
  <2> HIDE DEF new
  <2> SUFFICES ASSUME mislaid = {}
               PROVE  /\ \A a \in Agents : action'[a] # NoAction => engagement'[a] # NoEngagement
                      /\ \A r \in Outstanding(compilers)' :
                             /\ engagement'[r.agent] # NoEngagement => engagement'[r.agent].work = r
                             /\ engagement'[r.agent] # NoEngagement
                      /\ \A u \in Tasks : compiling[u] # "install"
    BY <1>2, <1>3 DEF CompilationsAgree
  <2>6. \A a \in Agents : action'[a] # NoAction => engagement'[a] # NoEngagement
    BY <2>3, <2>4 DEF CompilationsAgree
  <2>7. ASSUME NEW r \in Outstanding(compilers)'
        PROVE  engagement'[r.agent] # NoEngagement /\ engagement'[r.agent].work = r
    <3>1. CASE r = i.request
      BY <2>2, <2>3, <2>4, <3>1
    <3>2. CASE r # i.request
      <4>1. r \in Outstanding(compilers) /\ engagement[r.agent] # NoEngagement
        BY <1>2, <2>5, <3>2 DEF CompilationsAgree
      <4>2. r \in Request /\ r.agent \in Agents
        BY <1>1, <4>1 DEF Outstanding, PoolOf, Request
      <4>3. r.agent # b
        BY <2>1, <4>1
      <4> QED
        BY <2>4, <4>1, <4>2, <4>3 DEF CompilationsAgree
    <3> QED
      BY <3>1, <3>2
  <2>8. \A u \in Tasks : compiling[u] # "install"
    BY <1>1, <1>2 DEF CompileStage, OneTickAtATime
  <2> QED
    BY <2>6, <2>7, <2>8
<1> QED
  BY <1>4, <1>5, <1>6 DEF RunApply

LEMMA AgreementInCompile ==
    ASSUME RunInvariant, OneTickAtATime, CompilationsAgree, NEW t \in Tasks,
           RunStartCompile(t) \/ RunPollCompiler(t) \/ RunPollCompilerRaises(t)
    PROVE  CompilationsAgree'
<1>1. /\ compilers \in PoolOf(Request, Verdicts) /\ compiling \in [Tasks -> {"no", "wait", "install"}]
      /\ CompileStage /\ CompilerAnswers /\ RunTypeOK
  BY DEF RunInvariant, RunTypeOK, EngagementTypeOK
<1>2. ASSUME RunStartCompile(t) PROVE CompilationsAgree'
  <2>1. /\ stage[t] = "after" /\ compilers' = Dispatch(compilers)
        /\ compiling' = [compiling EXCEPT ![t] = "wait"]
        /\ UNCHANGED <<stage, action, engagement, compiled, mislaid>>
    BY <1>2 DEF RunStartCompile, StartCompile, vars
  <2>2. Outstanding(compilers)' = Outstanding(compilers)
    BY <1>1, <2>1 DEF Outstanding, Dispatch, PoolOf
  <2>3. \A u \in Tasks : compiling'[u] = "install" => compiling[u] = "install"
    BY <1>1, <2>1
  <2>4. InCompileDrains' = InCompileDrains
    BY <2>1 DEF InCompileDrains
  <2> QED
    BY <2>1, <2>2, <2>3, <2>4 DEF CompilationsAgree
<1>3. ASSUME RunPollCompiler(t) PROVE CompilationsAgree'
  <2> DEFINE works == {x[1] : x \in Ready(compilers)}
  <2>1. /\ compiling[t] = "wait" /\ compilers' = Take(compilers, works)
        /\ compiling' = [compiling EXCEPT ![t] =
               IF compilers.pending \ works = {} THEN "install" ELSE "wait"]
        /\ UNCHANGED <<stage, action, engagement, mislaid>>
    BY <1>3 DEF RunPollCompiler, PollCompiler, CanPollCompiler, tickUnchanged
  <2> HIDE DEF works
  <2>2. /\ Outstanding(compilers)' \subseteq Outstanding(compilers)
        /\ compilers'.pending = compilers.pending \ works /\ compilers'.queued = compilers.queued
    BY <1>1, <2>1 DEF Outstanding, Take, PoolOf
  <2>3. compilers.queued = {} /\ stage[t] = "after"
    BY <1>1, <2>1 DEF OneTickAtATime, CompileStage
  <2>4. \A u \in Tasks : compiling'[u] = "install" =>
            compiling[u] = "install" \/ Outstanding(compilers)' = {}
    BY <1>1, <2>1, <2>2, <2>3 DEF Outstanding
  <2>5. Outstanding(compilers)' \union InCompileDrains' \subseteq
            Outstanding(compilers) \union InCompileDrains
    BY <1>1, <1>3, PollsKeepWorks DEF RunPollCompiler
  <2> QED
    BY <2>1, <2>2, <2>3, <2>4, <2>5, AgreementKept
<1>4. ASSUME RunPollCompilerRaises(t) PROVE CompilationsAgree'
  <2>1. PICK x, taken : /\ x[1] \in taken
                        /\ mislaid' = mislaid \union taken \union {i.request : i \in compiled[t]}
    BY <1>4 DEF RunPollCompilerRaises, PollCompilerRaises
  <2>2. mislaid' # {}
    BY <2>1
  <2> QED
    BY <2>2 DEF CompilationsAgree
<1> QED
  BY <1>2, <1>3, <1>4

LEMMA AgreementInstalled ==
    ASSUME RunInvariant, OneTickAtATime, CompilationsAgree, NEW t \in Tasks, RunInstall(t)
    PROVE  CompilationsAgree'
<1>1. /\ engagement \in [Agents -> EngagementOf \union {NoEngagement}]
      /\ action \in [Agents -> ActionOf \union {NoAction}]
      /\ DOMAIN compiled = Tasks
      /\ \A i \in compiled[t] : i.request \in Request /\ i.request.agent \in Agents
      /\ PlansAreOwn /\ CompileStage /\ EngagementHasAction
  BY DEF RunInvariant, RunTypeOK, EngagementTypeOK, TypeOK, Request, EngagementFollowsAction
<1>2. /\ compiling[t] = "install"
      /\ UNCHANGED <<stage, compilers, compiling, mislaid>>
      /\ \E S \in SUBSET compiled[t] : compiled' = [compiled EXCEPT ![t] = S]
  <2>1. ASSUME NEW i \in compiled[t] PROVE compiled[t] \ {i} \in SUBSET compiled[t]
    OBVIOUS
  <2> QED
    BY <2>1 DEF RunInstall, InstallNext, Install, FailCompilation, Installing, vars
<1>3. InCompileDrains' \subseteq InCompileDrains
  BY <1>1, <1>2 DEF InCompileDrains
<1>4. \A u \in Tasks : stage[u] # "apply"
  BY <1>1, <1>2 DEF CompileStage, OneTickAtATime
<1> SUFFICES ASSUME mislaid = {}
             PROVE  \A a \in Agents :
                       /\ action'[a] # NoAction => engagement'[a] # NoEngagement
                       /\ \/ engagement'[a] = NoEngagement
                          \/ engagement[a] # NoEngagement /\ engagement'[a].work = engagement[a].work
  <2>1. \A r \in Outstanding(compilers) \union InCompileDrains : r.agent \in Agents
    BY DEF RunInvariant, RunTypeOK, EngagementTypeOK, Outstanding, InCompileDrains, PoolOf, Request
  <2> QED
    BY <1>2, <1>3, <1>4, <2>1 DEF CompilationsAgree
<1>5. ASSUME NEW i \in compiled[t], Install(t, i), NEW a \in Agents
      PROVE  /\ action'[a] # NoAction => engagement'[a] # NoEngagement
             /\ \/ engagement'[a] = NoEngagement
                \/ engagement[a] # NoEngagement /\ engagement'[a].work = engagement[a].work
  <2>1. /\ engagement[i.request.agent] = [work |-> i.request, phase |-> "pending"]
        /\ engagement' = [engagement EXCEPT ![i.request.agent].phase = "program"]
        /\ action' = action
    BY <1>5 DEF Install, StillWanted
  <2>2. engagement'[i.request.agent] = [work |-> i.request, phase |-> "program"]
    BY <1>1, <1>5, <2>1
  <2>3. [work |-> i.request, phase |-> "program"] \in EngagementOf
        /\ [work |-> i.request, phase |-> "pending"] \in EngagementOf
    BY <1>1, <1>5 DEF EngagementOf, Phases
  <2>4. CASE a = i.request.agent
    BY <2>1, <2>2, <2>3, <2>4, NothingAssumption
  <2>5. CASE a # i.request.agent
    BY <1>1, <2>1, <2>5 DEF CompilationsAgree
  <2> QED
    BY <2>4, <2>5
<1>6. ASSUME NEW i \in compiled[t], FailCompilation(t, i), NEW a \in Agents
      PROVE  /\ action'[a] # NoAction => engagement'[a] # NoEngagement
             /\ \/ engagement'[a] = NoEngagement
                \/ engagement[a] # NoEngagement /\ engagement'[a].work = engagement[a].work
  <2> DEFINE b == i.request.agent
  <2>1. /\ b \in Agents /\ engagement' = [engagement EXCEPT ![b] = NoEngagement]
        /\ IF Holds(b, i.request) THEN action' = [action EXCEPT ![b] = NoAction]
                                  ELSE action' = action
    BY <1>1, <1>6 DEF FailCompilation, DropEngagement
  <2>2. i.request \in InCompileDrains
    BY <1>6 DEF InCompileDrains
  <2>3. action[b] # NoAction => Holds(b, i.request)
    BY <1>1, <2>1, <2>2 DEF CompilationsAgree, EngagementHasAction, Holds
  <2> HIDE DEF b
  <2>4. CASE a = b
    BY <1>1, <2>1, <2>3, <2>4
  <2>5. CASE a # b
    BY <1>1, <2>1, <2>5 DEF CompilationsAgree
  <2> QED
    BY <2>4, <2>5
<1>7. ASSUME UNCHANGED <<action, engagement>>, NEW a \in Agents
      PROVE  /\ action'[a] # NoAction => engagement'[a] # NoEngagement
             /\ \/ engagement'[a] = NoEngagement
                \/ engagement[a] # NoEngagement /\ engagement'[a].work = engagement[a].work
  BY <1>7 DEF CompilationsAgree
<1> QED
  BY <1>5, <1>6, <1>7 DEF RunInstall, InstallNext

\* Cancelling leaves no work, and no ENGAGE action without its engagement.
LEMMA AgreementCancelled ==
    ASSUME RunInvariant, CompilationsAgree, StopEngagements \/ CancelCompilations,
           UNCHANGED <<compiled, mislaid>>
    PROVE  CompilationsAgree' /\ Outstanding(compilers)' = {}
<1>1. /\ engagement \in [Agents -> EngagementOf \union {NoEngagement}]
      /\ compilers \in PoolOf(Request, Verdicts)
      /\ EngagementHasAction
  BY DEF RunInvariant, RunTypeOK, EngagementTypeOK, EngagementFollowsAction
<1>2. Outstanding(compilers)' = {} /\ InCompileDrains' = InCompileDrains
  <2>1. compilers' = Abandon(compilers)
    BY DEF StopEngagements, CancelCompilations, CancelOutstanding
  <2>2. Outstanding(Abandon(compilers)) = {}
    BY <1>1 DEF Abandon, Outstanding, PoolOf
  <2> QED
    BY <2>1, <2>2 DEF InCompileDrains
<1>3. \A a \in Agents : engagement'[a] \in {engagement[a], NoEngagement}
  BY <1>1 DEF StopEngagements, CancelCompilations
<1>4. ASSUME mislaid = {}, NEW a \in Agents, action'[a] # NoAction
      PROVE  engagement'[a] # NoEngagement
  <2>1. action[a] # NoAction
    BY <1>4 DEF StopEngagements, CancelCompilations, ClearEngagePlans
  <2>2. engagement[a] # NoEngagement /\ action[a].work = engagement[a].work
    BY <1>1, <1>4, <2>1 DEF CompilationsAgree, EngagementHasAction
  <2>3. ~StopEngagements
    BY <1>4, <2>1, <2>2 DEF StopEngagements, ClearEngagePlans
  <2>4. CancelCompilations
    BY <2>3
  <2>5. ASSUME NEW r \in Outstanding(compilers), r.agent = a PROVE FALSE
    <3>1. Holds(a, r)
      BY <1>4, <2>1, <2>2, <2>5 DEF CompilationsAgree, Holds
    <3>2. action'[a] = NoAction
      BY <2>1, <2>4, <2>5, <3>1 DEF CancelCompilations, ClearEngagePlans
    <3> QED
      BY <1>4, <3>2
  <2> QED
    BY <2>2, <2>4, <2>5 DEF CancelCompilations, CancelledAgents
<1>5. \A r \in InCompileDrains : r.agent \in Agents
  BY DEF RunInvariant, RunTypeOK, EngagementTypeOK, InCompileDrains, Request
<1> QED
  BY <1>2, <1>3, <1>4, <1>5 DEF CompilationsAgree

LEMMA AgreementStep ==
    ASSUME ~overlapped', RunInvariant, OneTickAtATime, CompilationsAgree,
           [RunNext]_everything
    PROVE  CompilationsAgree'
<1>1. /\ stage \in [Tasks -> Stages] /\ compiling \in [Tasks -> {"no", "wait", "install"}]
      /\ compilers \in PoolOf(Request, Verdicts)
      /\ CompileStage /\ RunTypeOK /\ EngagementHasAction /\ PlansAreOwn
  BY DEF RunInvariant, RunTypeOK, EngagementTypeOK, TypeOK, EngagementFollowsAction
<1>2. ASSUME NEW t \in Tasks, RunBegin(t) PROVE CompilationsAgree'
  <2>1. ~advancing /\ BeginEngagedTick(t)
    BY <1>2 DEF RunBegin, RunInvariant, RunTypeOK
  <2>2. InCompileDrains = {} /\ \A u \in Tasks : stage[u] = "idle" /\ compiling[u] = "no"
    BY <1>1, <2>1, NothingHeld DEF CompileStage
  <2>3. UNCHANGED <<compilers, compiling, compiled, mislaid>>
    BY <2>1 DEF BeginEngagedTick, compilerVars
  <2>4. \A a \in Agents : action'[a] # NoAction => engagement'[a] # NoEngagement
    <3> SUFFICES ASSUME NEW a \in Agents, action'[a] # NoAction PROVE engagement'[a] # NoEngagement
      OBVIOUS
    <3>1. PICK p \in {"running", "over"} : engagement[a] # NoEngagement
              /\ engagement'[a] = [engagement[a] EXCEPT !.phase = p]
      BY <1>1, <2>1, BeginAction
    <3>2. engagement[a] \in EngagementOf
      BY <1>1, <3>1 DEF RunTypeOK, EngagementTypeOK
    <3>3. engagement'[a] \in EngagementOf
      BY <3>1, <3>2 DEF EngagementOf, Phases
    <3> QED
      BY <3>3, NothingAssumption
  <2>5. CASE mislaid # {}
    BY <2>3, <2>5 DEF CompilationsAgree
  <2>6. CASE mislaid = {}
    <3>1. Outstanding(compilers) = {}
      BY <2>2, <2>6 DEF CompilationsAgree
    <3> QED
      BY <2>2, <2>3, <2>4, <3>1 DEF CompilationsAgree, InCompileDrains
  <2> QED
    BY <2>5, <2>6
<1>3. ASSUME UNCHANGED <<stage, action, engagement, compiling, compiled, mislaid>>,
             Outstanding(compilers)' = Outstanding(compilers)
      PROVE  CompilationsAgree'
  <2>1. InCompileDrains' = InCompileDrains
    BY <1>3 DEF InCompileDrains
  <2> QED
    BY <1>3, <2>1, AgreementKept DEF CompilationsAgree
<1>4. ASSUME NEW t \in Tasks, RunEvaluate(t) PROVE CompilationsAgree'
  <2>1. UNCHANGED <<stage, engagementVars>>
    BY <1>4 DEF RunEvaluate, Evaluate, Ask, Exhaust, PassOver, Visiting
  <2> QED
    BY <1>3, <2>1 DEF engagementVars, compilerVars
<1>5. ASSUME NEW t \in Tasks,
             RunStartDrain(t) \/ RunPoll(t) \/ RunPollRaises(t) \/ RunFinishDrain(t)
      PROVE  CompilationsAgree'
  BY <1>5, AgreementInDrain
<1>6. ASSUME NEW t \in Tasks,
             RunApply(t) \/ RunStartCompile(t) \/ RunPollCompiler(t) \/ RunPollCompilerRaises(t)
               \/ RunInstall(t)
      PROVE  CompilationsAgree'
  BY <1>6, AgreementInApply, AgreementInCompile, AgreementInstalled
<1>7. ASSUME NEW t \in Tasks, RunEndTick(t) PROVE CompilationsAgree'
  <2>1. /\ stage[t] = "after" /\ stage' = [stage EXCEPT ![t] = "idle"] /\ CompileDone(t)
        /\ compiling' = [compiling EXCEPT ![t] = "no"] /\ UNCHANGED <<compiled, mislaid>>
    BY <1>7 DEF RunEndTick
  <2>2. \A u \in Tasks \ {t} : stage[u] = "idle"
    BY <2>1 DEF OneTickAtATime
  <2>3. CASE stopRequested
    BY <1>7, <2>1, <2>3, AgreementCancelled DEF RunEndTick
  <2>4. CASE ~stopRequested
    <3>1. UNCHANGED <<action, engagement, compilers>>
      BY <1>7, <2>4 DEF RunEndTick
    <3>2. mislaid = {} => Outstanding(compilers) = {}
      BY <2>1, <2>4 DEF CompileDone, CompilationsAgree
    <3> QED
      BY <1>1, <2>1, <2>2, <3>1, <3>2 DEF CompilationsAgree, InCompileDrains
  <2> QED
    BY <2>3, <2>4
<1>8. ASSUME RunStop PROVE CompilationsAgree'
  BY <1>8, AgreementCancelled DEF RunStop
<1>9. ASSUME Pause \/ Resume \/ Checkpoint \/ UNCHANGED everything PROVE CompilationsAgree'
  <2>1. UNCHANGED <<stage, engagementVars>>
    BY <1>9 DEF Pause, Resume, Checkpoint, everything, allVars, vars
  <2> QED
    BY <1>3, <2>1 DEF engagementVars, compilerVars
<1>10. ASSUME Threads PROVE CompilationsAgree'
  <2>1. UNCHANGED <<stage, action, engagement, compiling, compiled, mislaid>>
    BY <1>10 DEF Threads, WorkerStarts, WorkerFinishes, DeadlinePasses, poolUnchanged, engagementVars,
                 compilerVars, CompilerStarts, CompilerFinishes, CompilerDeadline, compilersOnly, vars
  <2>2. Outstanding(compilers)' = Outstanding(compilers)
    BY <1>1, <1>10 DEF Threads, engagementVars, compilerVars, CompilerStarts, CompilerFinishes,
                       CompilerDeadline, StartWork, Finish, Expire, Outstanding, PoolOf
  <2> QED
    BY <1>3, <2>1, <2>2
<1> QED
  BY <1>2, <1>4, <1>5, <1>6, <1>7, <1>8, <1>9, <1>10 DEF RunNext, TaskStep, Operator

-----------------------------------------------------------------------------
(* Stopped runs and checkpoints.                                           *)

\* After an operation on a pool no work is outstanding that was not before.
LEMMA NothingNewOutstanding ==
    ASSUME NEW Work, NEW Answer, NEW p \in PoolOf(Work, Answer)
    PROVE  /\ Outstanding(Dispatch(p)) \subseteq Outstanding(p)
           /\ Outstanding(Abandon(p)) = {}
           /\ \A w : /\ Outstanding(StartWork(p, w)) \subseteq Outstanding(p)
                     /\ Outstanding(Expire(p, w)) \subseteq Outstanding(p)
           /\ \A w, answer : Outstanding(Finish(p, w, answer)) \subseteq Outstanding(p)
           /\ \A S : Outstanding(Take(p, S)) \subseteq Outstanding(p)
<1>1. Outstanding(Dispatch(p)) \subseteq Outstanding(p) /\ Outstanding(Abandon(p)) = {}
  BY DEF Outstanding, Dispatch, Abandon, PoolOf
<1>2. \A w : /\ Outstanding(StartWork(p, w)) \subseteq Outstanding(p)
             /\ Outstanding(Expire(p, w)) \subseteq Outstanding(p)
  BY DEF Outstanding, StartWork, Expire, PoolOf
<1>3. \A w, answer : Outstanding(Finish(p, w, answer)) \subseteq Outstanding(p)
  BY DEF Outstanding, Finish, PoolOf
<1>4. \A S : Outstanding(Take(p, S)) \subseteq Outstanding(p)
  BY DEF Outstanding, Take, PoolOf
<1> QED
  BY <1>1, <1>2, <1>3, <1>4

\* Once it refuses, the compiler's coordinator stays empty.
LEMMA RefusingStep ==
    ASSUME RunInvariant, refusing => Outstanding(compilers) = {}, [RunNext]_everything
    PROVE  refusing' => Outstanding(compilers)' = {}
<1> DEFINE Kept == /\ UNCHANGED refusing
                   /\ refusing => Outstanding(compilers)' \subseteq Outstanding(compilers)
<1>1. compilers \in PoolOf(Request, Verdicts)
  BY DEF RunInvariant, RunTypeOK, EngagementTypeOK
<1>2. ASSUME StopEngagements \/ CancelCompilations PROVE Outstanding(compilers)' = {}
  <2>1. compilers' = Abandon(compilers)
    BY <1>2 DEF StopEngagements, CancelCompilations, CancelOutstanding
  <2> QED
    BY <1>1, <2>1, NothingNewOutstanding
<1>3. ASSUME NEW t \in Tasks,
             RunBegin(t) \/ RunEvaluate(t) \/ RunStartDrain(t) \/ RunPoll(t) \/ RunPollRaises(t)
               \/ RunFinishDrain(t) \/ RunInstall(t)
      PROVE  Kept
  <2>1. UNCHANGED <<refusing, compilers>>
    BY <1>3 DEF RunBegin, BeginEngagedTick, RunEvaluate, RunStartDrain, RunPoll, RunPollRaises,
                RunFinishDrain, RunInstall, InstallNext, Install, FailCompilation, Installing,
                engagementVars, compilerVars
  <2> QED
    BY <2>1
<1>4. ASSUME NEW t \in Tasks, RunApply(t) PROVE Kept
  BY <1>4 DEF RunApply, CommitOther, CommitAndSubmit, CommitUnavailable, engagementVars, compilerVars
<1>5. ASSUME NEW t \in Tasks,
             RunStartCompile(t) \/ RunPollCompiler(t) \/ RunPollCompilerRaises(t)
      PROVE  Kept
  <2>1. /\ UNCHANGED refusing
        /\ compilers' = Dispatch(compilers) \/ \E S : compilers' = Take(compilers, S)
    BY <1>5 DEF RunStartCompile, StartCompile, RunPollCompiler, PollCompiler, RunPollCompilerRaises,
                PollCompilerRaises
  <2> QED
    BY <1>1, <2>1, NothingNewOutstanding
<1>6. ASSUME NEW t \in Tasks, RunEndTick(t) PROVE refusing' => Outstanding(compilers)' = {}
  BY <1>2, <1>6 DEF RunEndTick
<1>7. ASSUME RunStop PROVE Outstanding(compilers)' = {}
  BY <1>2, <1>7 DEF RunStop
<1>8. ASSUME Pause \/ Resume \/ Checkpoint \/ UNCHANGED everything PROVE Kept
  BY <1>8 DEF Pause, Resume, Checkpoint, everything, allVars, engagementVars, compilerVars
<1>9. ASSUME Threads PROVE Kept
  <2>1. /\ UNCHANGED refusing
        /\ \/ compilers' = compilers
           \/ \E w : compilers' \in {StartWork(compilers, w), Expire(compilers, w)}
           \/ \E w, answer : compilers' = Finish(compilers, w, answer)
    BY <1>9 DEF Threads, CompilerStarts, CompilerFinishes, CompilerDeadline, compilersOnly,
                engagementVars, compilerVars
  <2> QED
    BY <1>1, <2>1, NothingNewOutstanding
<1> QED
  BY <1>3, <1>4, <1>5, <1>6, <1>7, <1>8, <1>9 DEF RunNext, TaskStep, Operator

\* Nobody schedules in a stopped run, and it has no decision to wait for.
NobodyAsks == Outstanding(pool) = {} /\ \A t \in Tasks : stage[t] # "schedule"

LEMMA NobodyAsksStep ==
    ASSUME RunInvariant, status = "stopped" => NobodyAsks, [RunNext]_everything
    PROVE  status' = "stopped" => NobodyAsks'
<1> DEFINE Kept == /\ status' = "stopped" => status = "stopped"
                   /\ status = "stopped" =>
                        /\ Outstanding(pool)' \subseteq Outstanding(pool)
                        /\ \A t \in Tasks : stage'[t] = "schedule" => stage[t] = "schedule"
<1>1. /\ pool \in PoolOf(Request, Answers) /\ stage \in [Tasks -> Stages]
      /\ \A t \in Tasks : stage[t] = "schedule" => loop = t
  BY DEF RunInvariant, RunTypeOK, EngagementTypeOK, TypeOK, InductiveInvariant, LoopDiscipline
<1>2. ASSUME NEW t \in Tasks, RunBegin(t) PROVE Kept
  BY <1>2 DEF RunBegin, MayAdvance, BeginEngagedTick, BeginTick
<1>3. ASSUME NEW t \in Tasks, RunEvaluate(t) \/ RunStartDrain(t) PROVE Kept
  <2>1. stage[t] = "schedule" /\ UNCHANGED status
    BY <1>3 DEF RunEvaluate, Evaluate, Ask, Exhaust, PassOver, Visiting, RunStartDrain, StartDrain
  <2> QED
    BY <2>1 DEF NobodyAsks
<1>4. ASSUME NEW t \in Tasks, RunPoll(t) \/ RunPollRaises(t) PROVE Kept
  <2>1. /\ UNCHANGED status
        /\ \E S : pool' = Take(pool, S)
        /\ \E s \in {"apply", "decide", "idle"} : stage' = [stage EXCEPT ![t] = s]
    BY <1>4 DEF RunPoll, Poll, RunPollRaises, PollRaises
  <2> QED
    BY <1>1, <2>1, NothingNewOutstanding
<1>5. ASSUME NEW t \in Tasks, RunApply(t) PROVE Kept
  BY <1>5 DEF RunApply, CommitOther, CommitAndSubmit, CommitUnavailable, Fail, Reject, Commit, Applying
<1>6. ASSUME NEW t \in Tasks, RunFinishDrain(t) PROVE Kept
  BY <1>1, <1>6 DEF RunFinishDrain, FinishDrain
<1>7. ASSUME NEW t \in Tasks,
             RunStartCompile(t) \/ RunPollCompiler(t) \/ RunPollCompilerRaises(t) \/ RunInstall(t)
      PROVE  Kept
  <2>1. /\ UNCHANGED <<status, pool>>
        /\ stage' = stage \/ stage' = [stage EXCEPT ![t] = "idle"]
    BY <1>7 DEF RunStartCompile, StartCompile, RunPollCompiler, PollCompiler, RunPollCompilerRaises,
                PollCompilerRaises, RunInstall, InstallNext, Install, FailCompilation, Installing,
                tickUnchanged, vars, workVars
  <2> QED
    BY <1>1, <2>1
<1>8. ASSUME CancelAll PROVE Outstanding(pool)' = {}
  <2>1. pool' = Abandon(pool)
    BY <1>8 DEF CancelAll
  <2> QED
    BY <1>1, <2>1, NothingNewOutstanding
<1>9. ASSUME NEW t \in Tasks, RunEndTick(t) PROVE Kept
  <2>1. UNCHANGED status /\ stage' = [stage EXCEPT ![t] = "idle"]
        /\ (UNCHANGED pool \/ CancelAll)
    BY <1>9 DEF RunEndTick
  <2> QED
    BY <1>1, <1>8, <2>1
<1>10. ASSUME RunStop PROVE NobodyAsks'
  <2>1. loop = Free /\ CancelAll /\ UNCHANGED stage
    BY <1>10 DEF RunStop
  <2> QED
    BY <1>1, <1>8, <2>1, TasksAssumption DEF NobodyAsks
<1>11. ASSUME Pause \/ Resume \/ Checkpoint \/ UNCHANGED everything PROVE Kept
  BY <1>11 DEF Pause, Resume, Checkpoint, everything, allVars, vars, workVars
<1>12. ASSUME Threads PROVE Kept
  <2>1. /\ UNCHANGED <<status, stage>>
        /\ \/ pool' = pool
           \/ \E w : pool' \in {StartWork(pool, w), Expire(pool, w)}
           \/ \E w, answer : pool' = Finish(pool, w, answer)
    BY <1>12 DEF Threads, WorkerStarts, WorkerFinishes, DeadlinePasses, poolUnchanged, CompilerStarts,
                 CompilerFinishes, CompilerDeadline, compilersOnly, vars, workVars
  <2> QED
    BY <1>1, <2>1, NothingNewOutstanding
<1>13. Kept => (status' = "stopped" => NobodyAsks')
  BY DEF NobodyAsks
<1> QED
  BY <1>2, <1>3, <1>4, <1>5, <1>6, <1>7, <1>9, <1>10, <1>11, <1>12, <1>13
     DEF RunNext, TaskStep, Operator

\* A final run has no engagement and no unsaved memory, whatever a tick that
\* still sleeps applies when it wakes up.
FinalIsBare ==
    finalised =>
        /\ status = "stopped"
        /\ \A a \in Agents : engagement[a] = NoEngagement
        /\ memory = {}

LEMMA FinalIsBareStep ==
    ASSUME RunInvariant, status = "stopped" => NobodyAsks, FinalIsBare, [RunNext]_everything
    PROVE  FinalIsBare'
<1> DEFINE Stays == /\ finalised' => finalised
                    /\ UNCHANGED status
                    /\ finalised => /\ \A a \in Agents : engagement'[a] = NoEngagement
                                    /\ memory' = {}
<1>1. /\ DOMAIN engagement = Agents
      /\ status = "stopped" => refusing
      /\ stopRequested => status = "stopped"
  BY DEF RunInvariant, RunTypeOK, EngagementTypeOK, StoppedForGood
<1>2. ASSUME NEW t \in Tasks, RunBegin(t) PROVE FinalIsBare'
  BY <1>2 DEF FinalIsBare, RunBegin, MayAdvance
<1>3. ASSUME NEW t \in Tasks, RunEvaluate(t) \/ RunPoll(t) \/ RunPollRaises(t) \/ RunFinishDrain(t)
      PROVE  Stays
  BY <1>3 DEF FinalIsBare, RunEvaluate, Evaluate, Ask, Exhaust, PassOver, Visiting, RunPoll, Poll,
              RunPollRaises, PollRaises, Unwound, RunFinishDrain, FinishDrain, engagementVars, runVars
<1>4. ASSUME NEW t \in Tasks, RunStartDrain(t) PROVE Stays
  <2>1. stage[t] = "schedule" /\ UNCHANGED <<status, finalised>>
    BY <1>4 DEF RunStartDrain, StartDrain
  <2> QED
    BY <2>1 DEF FinalIsBare, NobodyAsks
<1>5. ASSUME NEW t \in Tasks, RunApply(t) PROVE Stays
  <2>1. UNCHANGED <<status, finalised, memory>>
    BY <1>5 DEF RunApply, CommitOther, CommitAndSubmit, CommitUnavailable, Fail, Reject, Commit,
                Applying, runVars
  <2>2. ASSUME finalised PROVE \A a \in Agents : engagement'[a] = NoEngagement
    <3>1. refusing
      BY <1>1, <2>2 DEF FinalIsBare
    <3>2. UNCHANGED engagement \/ \E r : DropEngagement(r)
      BY <1>5, <3>1 DEF RunApply, CommitOther, CommitAndSubmit, CommitUnavailable, engagementVars
    <3> QED
      BY <1>1, <2>2, <3>2 DEF FinalIsBare, DropEngagement
  <2> QED
    BY <2>1, <2>2 DEF FinalIsBare
<1>6. ASSUME NEW t \in Tasks,
             RunStartCompile(t) \/ RunPollCompiler(t) \/ RunPollCompilerRaises(t) \/ RunInstall(t)
      PROVE  Stays
  <2>1. UNCHANGED <<status, finalised, memory>>
    BY <1>6 DEF RunStartCompile, StartCompile, RunPollCompiler, PollCompiler, RunPollCompilerRaises,
                PollCompilerRaises, Unwound, RunInstall, InstallNext, Install, FailCompilation,
                Installing, tickUnchanged, vars, runVars
  <2>2. ASSUME finalised PROVE UNCHANGED engagement
    <3>1. refusing
      BY <1>1, <2>2 DEF FinalIsBare
    <3> QED
      BY <1>6, <3>1 DEF RunStartCompile, StartCompile, RunPollCompiler, PollCompiler,
                        RunPollCompilerRaises, PollCompilerRaises, RunInstall, InstallNext, Install,
                        FailCompilation, Installing
  <2> QED
    BY <2>1, <2>2 DEF FinalIsBare
<1>7. ASSUME NEW t \in Tasks, RunEndTick(t) PROVE FinalIsBare'
  <2>1. UNCHANGED status /\ finalised' = (finalised \/ stopRequested)
    BY <1>7 DEF RunEndTick
  <2>2. CASE stopRequested
    <3>1. \A a \in Agents : engagement'[a] = NoEngagement
      BY <1>7, <2>2 DEF RunEndTick, StopEngagements
    <3>2. memory' = {}
      BY <1>7, <2>2 DEF RunEndTick
    <3> QED
      BY <1>1, <2>1, <2>2, <3>1, <3>2 DEF FinalIsBare
  <2>3. CASE ~stopRequested
    BY <1>7, <2>1, <2>3 DEF RunEndTick, FinalIsBare
  <2> QED
    BY <2>2, <2>3
<1>8. ASSUME RunStop PROVE FinalIsBare'
  <2>1. status' = "stopped" /\ finalised' = AtBoundary
    BY <1>8 DEF RunStop
  <2>2. ASSUME AtBoundary PROVE memory' = {} /\ \A a \in Agents : engagement'[a] = NoEngagement
    BY <1>8, <2>2 DEF RunStop, StopEngagements
  <2> QED
    BY <2>1, <2>2 DEF FinalIsBare
<1>9. ASSUME Pause \/ Resume PROVE FinalIsBare'
  BY <1>9 DEF FinalIsBare, Pause, Resume, runVars
<1>10. ASSUME Checkpoint \/ Threads \/ UNCHANGED everything PROVE Stays
  BY <1>10 DEF FinalIsBare, Checkpoint, Threads, WorkerStarts, WorkerFinishes, DeadlinePasses,
               poolUnchanged, CompilerStarts, CompilerFinishes, CompilerDeadline, compilersOnly,
               everything, allVars, vars, engagementVars, runVars
<1>11. Stays => FinalIsBare'
  BY DEF FinalIsBare
<1> QED
  BY <1>2, <1>3, <1>4, <1>5, <1>6, <1>7, <1>8, <1>9, <1>10, <1>11 DEF RunNext, TaskStep, Operator

\* Ticks that overlapped once are not forgotten.
LEMMA OverlappedForGood ==
    ASSUME [RunNext]_everything, overlapped
    PROVE  overlapped'
<1>1. ASSUME NEW t \in Tasks,
             RunBegin(t) \/ RunEvaluate(t) \/ RunStartDrain(t) \/ RunPoll(t) \/ RunPollRaises(t)
               \/ RunApply(t) \/ RunFinishDrain(t)
      PROVE  overlapped'
  BY <1>1 DEF RunBegin, RunEvaluate, RunStartDrain, RunPoll, RunPollRaises, Unwound, RunApply,
              RunFinishDrain, runVars
<1>2. ASSUME NEW t \in Tasks,
             RunStartCompile(t) \/ RunPollCompiler(t) \/ RunPollCompilerRaises(t)
               \/ RunInstall(t) \/ RunEndTick(t)
      PROVE  overlapped'
  BY <1>2 DEF RunStartCompile, RunPollCompiler, RunPollCompilerRaises, Unwound, RunInstall,
              RunEndTick, runVars
<1>3. ASSUME Pause \/ Resume \/ RunStop \/ Checkpoint \/ Threads \/ UNCHANGED everything
      PROVE  overlapped'
  BY <1>3 DEF Pause, Resume, RunStop, Checkpoint, Threads, everything, runVars
<1> QED
  BY <1>1, <1>2, <1>3 DEF RunNext, TaskStep, Operator

\* Only a checkpoint writes the snapshot.
LEMMA SnapshotKept ==
    ASSUME [RunNext]_everything, ~Checkpoint
    PROVE  UNCHANGED snapshot
<1>1. ASSUME NEW t \in Tasks,
             RunBegin(t) \/ RunEvaluate(t) \/ RunStartDrain(t) \/ RunPoll(t) \/ RunPollRaises(t)
               \/ RunApply(t) \/ RunFinishDrain(t)
      PROVE  UNCHANGED snapshot
  BY <1>1 DEF RunBegin, RunEvaluate, RunStartDrain, RunPoll, RunPollRaises, Unwound, RunApply,
              RunFinishDrain, runVars
<1>2. ASSUME NEW t \in Tasks,
             RunStartCompile(t) \/ RunPollCompiler(t) \/ RunPollCompilerRaises(t)
               \/ RunInstall(t) \/ RunEndTick(t)
      PROVE  UNCHANGED snapshot
  BY <1>2 DEF RunStartCompile, RunPollCompiler, RunPollCompilerRaises, Unwound, RunInstall,
              RunEndTick, runVars
<1>3. ASSUME Pause \/ Resume \/ RunStop \/ Threads \/ UNCHANGED everything
      PROVE  UNCHANGED snapshot
  BY <1>3 DEF Pause, Resume, RunStop, Threads, everything, runVars
<1> QED
  BY <1>1, <1>2, <1>3 DEF RunNext, TaskStep, Operator

\* A checkpoint finds no request with the drains or in the queue.
LEMMA CheckpointStep ==
    ASSUME RunInvariant, RunInvariant', OneTickAtATime, CheckpointIsSettled, [RunNext]_everything
    PROVE  CheckpointIsSettled'
<1>1. CASE Checkpoint
  <2>1. /\ ~advancing /\ Outstanding(pool) = {} /\ UNCHANGED abandoned
        /\ snapshot' = [waiting |-> {a \in Agents : controller[a].pending}, memory |-> memory]
    BY <1>1 DEF Checkpoint, CheckpointBoundary, allVars, vars, workVars
  <2>2. Unsettled = {}
    BY <2>1, NothingHeld DEF RunInvariant, Unsettled
  <2>3. \A a \in Agents : controller[a].pending => \E r \in abandoned : r.agent = a
    BY <2>2 DEF RunInvariant, InductiveInvariant, NoOrphanedRequest
  <2> QED
    BY <2>1, <2>3 DEF CheckpointIsSettled
<1>2. ASSUME UNCHANGED snapshot, abandoned \subseteq abandoned' PROVE CheckpointIsSettled'
  BY <1>2 DEF CheckpointIsSettled
<1>3. CASE ~Checkpoint
  <2>1. UNCHANGED snapshot
    BY <1>3, SnapshotKept
  <2>2. abandoned \subseteq abandoned'
    <3>1. ASSUME NEW t \in Tasks, RunPollRaises(t) PROVE abandoned \subseteq abandoned'
      BY <3>1 DEF RunPollRaises, PollRaises
    <3>2. ASSUME NEW t \in Tasks,
                 RunBegin(t) \/ RunEvaluate(t) \/ RunStartDrain(t) \/ RunPoll(t)
                   \/ RunApply(t) \/ RunFinishDrain(t)
          PROVE  UNCHANGED abandoned
      BY <3>2 DEF RunBegin, BeginEngagedTick, BeginTick, RunEvaluate, Evaluate, Ask, Exhaust, PassOver,
                  RunStartDrain, StartDrain, RunPoll, Poll, RunApply, CommitOther, CommitAndSubmit,
                  CommitUnavailable, Fail, Reject, Commit, Applying, RunFinishDrain, FinishDrain, workVars
    <3>3. ASSUME NEW t \in Tasks,
                 RunStartCompile(t) \/ RunPollCompiler(t) \/ RunPollCompilerRaises(t)
                   \/ RunInstall(t) \/ RunEndTick(t)
          PROVE  UNCHANGED abandoned
      BY <3>3 DEF RunStartCompile, StartCompile, RunPollCompiler, PollCompiler, RunPollCompilerRaises,
                  PollCompilerRaises, tickUnchanged, RunInstall, InstallNext, Install, FailCompilation,
                  Installing, RunEndTick, vars, workVars
    <3>4. ASSUME Pause \/ Resume \/ RunStop \/ Threads \/ UNCHANGED everything
          PROVE  UNCHANGED abandoned
      BY <3>4 DEF Pause, Resume, RunStop, Threads, WorkerStarts, WorkerFinishes, DeadlinePasses,
                  poolUnchanged, CompilerStarts, CompilerFinishes, CompilerDeadline, compilersOnly,
                  everything, allVars, vars, workVars
    <3> QED
      BY <1>3, <3>1, <3>2, <3>3, <3>4 DEF RunNext, TaskStep, Operator
  <2> QED
    BY <1>2, <2>1, <2>2
<1> QED
  BY <1>1, <1>3

LEMMA StopInvariantStep == StopInvariant /\ [RunNext]_everything => StopInvariant'
<1> SUFFICES ASSUME StopInvariant, [RunNext]_everything PROVE StopInvariant'
  OBVIOUS
<1>1. RunInvariant /\ RunInvariant'
  BY RunStep DEF StopInvariant
<1>2. StoppedIsEmpty'
  <2>1. /\ refusing => Outstanding(compilers) = {}
        /\ status = "stopped" => NobodyAsks
        /\ FinalIsBare
    BY DEF StopInvariant, StoppedIsEmpty, NobodyAsks, FinalIsBare
  <2>2. refusing' => Outstanding(compilers)' = {}
    BY <1>1, <2>1, RefusingStep
  <2>3. status' = "stopped" => NobodyAsks'
    BY <1>1, <2>1, NobodyAsksStep
  <2>4. FinalIsBare'
    BY <1>1, <2>1, FinalIsBareStep
  <2> QED
    BY <2>2, <2>3, <2>4 DEF StoppedIsEmpty, NobodyAsks, FinalIsBare
<1>3. ASSUME ~overlapped' PROVE OneTickAtATime' /\ CompilationsAgree' /\ CheckpointIsSettled'
  <2>1. OneTickAtATime /\ CompilationsAgree /\ CheckpointIsSettled
    BY <1>3, OverlappedForGood DEF StopInvariant
  <2> QED
    BY <1>1, <1>3, <2>1, OneTickStep, AgreementStep, CheckpointStep
<1> QED
  BY <1>1, <1>2, <1>3 DEF StopInvariant

LEMMA StopInvariantHolds == RunSafetySpec => []StopInvariant
<1>1. RunInit => StopInvariant
  <2> SUFFICES ASSUME RunInit PROVE StopInvariant
    OBVIOUS
  <2>1. RunInvariant
    BY RunInit0
  <2>2. /\ \A t \in Tasks : /\ stage[t] = "idle" /\ collected[t] = {}
                            /\ compiling[t] = "no" /\ compiled[t] = {}
        /\ Outstanding(compilers) = {} /\ \A a \in Agents : action[a] = NoAction
        /\ status # "stopped" /\ ~finalised /\ snapshot = NoSnapshot
    BY DEF RunInit, NoEngagementYet, NoWorkYet, Outstanding, EmptyPool
  <2>3. InCompileDrains = {}
    BY <2>2 DEF InCompileDrains
  <2> QED
    BY <2>1, <2>2, <2>3 DEF StopInvariant, StoppedIsEmpty, OneTickAtATime, CompilationsAgree,
                            CheckpointIsSettled
<1> QED
  BY <1>1, StopInvariantStep, PTL DEF RunSafetySpec

\* A stop leaves nothing behind, whenever it comes and however ticks overlap:
\* the final run has no work, no engagement and no unsaved memory, nobody
\* waits but for a decision a raising drain dropped or a sleeping tick holds,
\* and, where no tick overlapped, no plan of an engagement is left.
THEOREM FinalIsClean == RunSafetySpec => []FinalisedIsClean
<1>1. StopInvariant => FinalisedIsClean
  <2> SUFFICES ASSUME StopInvariant, finalised PROVE FinalisedIsClean
    BY DEF FinalisedIsClean
  <2>1. /\ status = "stopped" /\ memory = {} /\ \A a \in Agents : engagement[a] = NoEngagement
    BY DEF StopInvariant, StoppedIsEmpty
  <2>2. Outstanding(pool) = {} /\ Outstanding(compilers) = {}
    BY <2>1 DEF StopInvariant, StoppedIsEmpty, RunInvariant, StoppedForGood
  <2>3. \A a \in Agents : controller[a].pending =>
            \E r \in abandoned \union InDrains : r.agent = a
    BY <2>2 DEF StopInvariant, RunInvariant, InductiveInvariant, NoOrphanedRequest, Unsettled
  <2>4. ~overlapped /\ mislaid = {} => \A a \in Agents : action[a] = NoAction
    BY <2>1 DEF StopInvariant, CompilationsAgree
  <2> QED
    BY <2>1, <2>2, <2>3, <2>4 DEF FinalisedIsClean
<1> QED
  BY <1>1, StopInvariantHolds, PTL

\* A checkpoint saves an agent as waiting only when its decision was dropped
\* by a drain that raised, or is held by a tick asleep in its drain: that is
\* all the overlap of ticks can unsettle.
THEOREM OnlyOverlaps == RunSafetySpec => OnlyOverlapsUnsettle
<1> DEFINE Known == snapshot' # snapshot =>
               \A a \in snapshot'.waiting : \E r \in abandoned \union InDrains : r.agent = a
<1>1. ASSUME RunInvariant, [RunNext]_everything PROVE Known
  <2>1. CASE Checkpoint
    <3>1. /\ Outstanding(pool) = {}
          /\ snapshot'.waiting = {a \in Agents : controller[a].pending}
      BY <2>1 DEF Checkpoint, CheckpointBoundary
    <3>2. \A a \in Agents : controller[a].pending =>
              \E r \in abandoned \union InDrains : r.agent = a
      BY <3>1, <1>1 DEF RunInvariant, InductiveInvariant, NoOrphanedRequest, Unsettled
    <3> QED
      BY <3>1, <3>2
  <2>2. CASE ~Checkpoint
    BY <1>1, <2>2, SnapshotKept
  <2> QED
    BY <2>1, <2>2
<1>2. RunInvariant /\ [RunNext]_everything => [Known]_everything
  BY <1>1
<1> QED
  BY <1>2, RunIsSound, PTL DEF RunSafetySpec, OnlyOverlapsUnsettle

\* While no tick overlapped another, a checkpoint never saves an agent that
\* waits for a decision of the queue that is not saved.
THEOREM CheckpointsAreSettled == RunSafetySpec => [](~overlapped => CheckpointIsSettled)
<1>1. StopInvariant => (~overlapped => CheckpointIsSettled)
  BY DEF StopInvariant
<1> QED
  BY <1>1, StopInvariantHolds, PTL

=============================================================================
