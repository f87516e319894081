----------------------------- MODULE FuturePool -----------------------------
(***************************************************************************)
(* The bounded thread pool both work coordinators are built on: a list of  *)
(* queued requests, a dictionary of pending futures and an executor.       *)
(*                                                                         *)
(* A pool is a value, so that a coordinator keeps it in one variable and   *)
(* each of its methods is one operator from pools to pools:                *)
(*   queued    submitted, no future yet          (self._queued)            *)
(*   pending   a future exists, uncollected      (self._pending)           *)
(*   running   works that occupy a worker thread, abandoned ones included: *)
(*             cancelling a future cannot stop the thread that runs it     *)
(*   answered  <<work, answer>> of the pending futures that are done       *)
(*   expired   pending works submitted longer ago than the request timeout *)
(* The executor serves its futures first in, first out; which one a free   *)
(* worker takes is left open here, no property depends on it.              *)
(***************************************************************************)
EXTENDS Naturals, FiniteSets

PoolOf(Work, Answer) ==
    [queued: SUBSET Work, pending: SUBSET Work, running: SUBSET Work,
     answered: SUBSET (Work \X Answer), expired: SUBSET Work]

EmptyPool ==
    [queued |-> {}, pending |-> {}, running |-> {}, answered |-> {}, expired |-> {}]

\* pending_count and pending_decision_ids look at exactly these.
Outstanding(p) == p.queued \union p.pending

AnsweredWorks(p) == {x[1] : x \in p.answered}

Enqueue(p, w) == [p EXCEPT !.queued = @ \union {w}]

\* Mutant of Dispatch: the drain starts without its queue.
DispatchNothing(p) == p

\* The first collection of a drain turns every queued work into a future.
Dispatch(p) == [p EXCEPT !.queued = {}, !.pending = @ \union p.queued]

\* A worker thread takes a future nobody started or cancelled.
CanStart(p, w, workers) ==
    /\ w \in p.pending \ (p.running \union AnsweredWorks(p))
    /\ Cardinality(p.running) < workers

StartWork(p, w) == [p EXCEPT !.running = @ \union {w}]

\* Mutant of Finish: a cancelled future takes an answer all the same.
FinishAbandoned(p, w, answer) ==
    [p EXCEPT !.running = @ \ {w}, !.answered = @ \union {<<w, answer>>}]

\* A worker thread ends.  The answer of an abandoned work goes nowhere.
Finish(p, w, answer) ==
    [p EXCEPT !.running = @ \ {w},
              !.answered = IF w \in p.pending THEN @ \union {<<w, answer>>} ELSE @]

\* The wall clock passes submitted_at + request_timeout_seconds.
Expire(p, w) == [p EXCEPT !.expired = @ \union {w}]

\* What a collection takes: a done future gives its answer even when it is
\* late; one that is not done by its deadline gives "timeout".
Ready(p) ==
    p.answered \union
    {<<w, "timeout">> : w \in (p.pending \intersect p.expired) \ AnsweredWorks(p)}

\* Mutant of Take: a collected future stays in the dictionary.
TakeAnswerOnly(p, works) == [p EXCEPT !.answered = {x \in @ : x[1] \notin works}]

Take(p, works) ==
    [p EXCEPT !.pending = @ \ works,
              !.expired = @ \ works,
              !.answered = {x \in @ : x[1] \notin works}]

\* cancel_all forgets every queued and pending work; threads run on.
Abandon(p) ==
    [p EXCEPT !.queued = {}, !.pending = {}, !.answered = {}, !.expired = {}]

\* What every operation keeps: a work is queued or has a future, only a future
\* is answered, and it is answered once, by the thread that ran it.
Consistent(p) ==
    /\ p.queued \intersect p.pending = {}
    /\ AnsweredWorks(p) \subseteq p.pending
    /\ AnsweredWorks(p) \intersect p.running = {}
    /\ \A x, y \in p.answered : x[1] = y[1] => x = y
=============================================================================
