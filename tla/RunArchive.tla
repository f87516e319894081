----------------------------- MODULE RunArchive -----------------------------
(***************************************************************************)
(* The dataset of all runs, the processes that share it, and the life of a  *)
(* run in them (application/manager.py, application/data_management.py,     *)
(* application/checkpoints.py, adapters/persistence/sqlite.py and the       *)
(* capture boundary of application/collection.py).                          *)
(*                                                                          *)
(* All runs of a process share one SQLite connection and so one open        *)
(* transaction: `draft' is the database as the process `writer' sees it     *)
(* from inside, `db' what everybody else sees and what a crash leaves.      *)
(* SQLite lets one connection write at a time; another one waits for five   *)
(* seconds and then raises (LockTimeouts).                                  *)
(*                                                                          *)
(* A step is what the event loop of one process does between two awaits, or *)
(* up to a commit in the middle of it: other processes come in between.     *)
(* The handful of records an operation appends is one record here.          *)
(***************************************************************************)
EXTENDS Naturals, FiniteSets, FiniteSetsExt

CONSTANTS Process,       \* dataset-store instances, each opened once
          Run,           \* run identifiers, each used once
          Checkpoint,    \* checkpoint identifiers, each used once
          None,
          MaxRecords,    \* bound on the sequence numbers of each run
          LockTimeouts,  \* may a wait for the write lock run out?
          Stalls,        \* may a living process miss its heartbeats?
          Faults         \* may a system of a tick raise?

ASSUME ArchiveAssumption ==
    /\ None \notin Process \cup Run \cup Checkpoint
    /\ MaxRecords \in [Run -> Nat]
    /\ {LockTimeouts, Stalls, Faults} \subseteq BOOLEAN

VARIABLES db,       \* the committed database
          draft,    \* the database inside the open transaction of `writer'
          writer,   \* who holds the write lock, or None
          store,    \* [Process -> "new", "open", "closing", "closed" or "crashed"]
          loaded,   \* [Process -> [Run -> Managed]]: SimulationManager._runs
          doing,    \* [Process -> the rest of a handler that has committed]
          preview   \* [Process -> the last deletion preview given out]

vars == <<db, draft, writer, store, loaded, doing, preview>>

(***************************************************************************)
(* The rows of the database.                                                *)
(***************************************************************************)
Terminal == {"stopped", "failed", "capture_failed", "interrupted"}

Active == {"running", "paused"}

Row == [status : Terminal \cup Active \cup {"unborn", "suspended", "deleted"},
        owner : Process \cup {None}, records : SUBSET Nat,
        final : BOOLEAN, complete : BOOLEAN]

EmptyRow(status, owner) == [status |-> status, owner |-> owner, records |-> {},
                            final |-> FALSE, complete |-> FALSE]

Exists(row) == row.status \notin {"unborn", "deleted"}

Head(row) == IF row.records = {} THEN 0 ELSE Max(row.records)

NoCheckpoint == [run |-> None, at |-> 0]

AtHead(view, c) == /\ view.checkpoints[c].run # None
                   /\ view.checkpoints[c].at = Head(view.runs[view.checkpoints[c].run])

Database == [runs : [Run -> Row],
             checkpoints : [Checkpoint -> [run : Run \cup {None}, at : Nat]],
             leases : [Process -> {"none", "fresh", "stale", "closed"}]]

(***************************************************************************)
(* What a process keeps of a run it has loaded: ManagedRun with its runner  *)
(* and its collector.  A task has failed when it ended with an exception.   *)
(***************************************************************************)
Managed == [status : {"unloaded", "running", "paused", "stopped"}, at : Nat,
            advancing : {"no", "realtime", "step"}, stopping : BOOLEAN,
            task : {"none", "ticking", "failed"}, notified : BOOLEAN,
            finalized : BOOLEAN]

LoadedAs(status, at) == [status |-> status, at |-> at, advancing |-> "no",
                         stopping |-> FALSE, task |-> "none",
                         notified |-> FALSE, finalized |-> FALSE]

NotLoaded == LoadedAs("unloaded", 0)

Steps == {"nothing", "reconcile", "start", "reclaim", "branch", "announce", "finalise"}

Doing == [step : Steps, run : Run \cup {None}, at : Nat]

Nothing == [step |-> "nothing", run |-> None, at |-> 0]

NoPreview == [run |-> None, row |-> EmptyRow("unborn", None)]

(***************************************************************************)
(* Transactions.  _commit renews the lease of the process with whatever it  *)
(* commits; a write opens a transaction unless one is open already.         *)
(***************************************************************************)
View(p) == IF writer = p THEN draft ELSE db

CanLock(p) == writer \in {p, None}

Commit(p, view) ==
    /\ db' = [view EXCEPT !.leases[p] = "fresh"]
    /\ draft' = db'
    /\ writer' = None

LeaveOpen(p, view) == writer' = p /\ draft' = view /\ UNCHANGED db

Rollback(p) == /\ writer' = IF writer = p THEN None ELSE writer
               /\ draft' = IF writer = p THEN db ELSE draft
               /\ UNCHANGED db

Untouched == UNCHANGED <<db, draft, writer>>

\* A wait for the lock that runs out raises "database is locked".
LockedOut(p) == ~CanLock(p) /\ LockTimeouts /\ Untouched

\* A lease lives until it is closed or its heartbeat is too old.
Alive(view, p) == view.leases[p] = "fresh"

OwnedElsewhere(view, p, row) ==
    row.owner \notin {p, None} /\ Alive(view, row.owner)

\* Mutant: the status of the run is not looked at.
WritableForever(view, p, r) ==
    Exists(view.runs[r]) /\ ~OwnedElsewhere(view, p, view.runs[r])

\* _require_run_write_ownership: nobody writes a run that ended or that a
\* living process owns; whoever may write claims the run.
Writable(view, p, r) ==
    /\ Exists(view.runs[r]) /\ view.runs[r].status \notin Terminal
    /\ ~OwnedElsewhere(view, p, view.runs[r])

Claimed(view, p, r) == [view EXCEPT !.runs[r].owner = p]

Appended(view, p, r, n) ==
    [view EXCEPT !.runs[r].owner = p, !.runs[r].records = @ \cup {n}]

CanAppend(p, r, n) == /\ CanLock(p) /\ Writable(View(p), p, r)
                      /\ n \notin View(p).runs[r].records

\* An append that raises: locked out, refused, or a number that is taken.
\* The last one leaves the transaction it has begun open.
AppendRaises(p, r, n) ==
    \/ LockedOut(p)
    \/ CanLock(p) /\ ~Writable(View(p), p, r) /\ Untouched
    \/ /\ CanLock(p) /\ Writable(View(p), p, r)
       /\ n \in View(p).runs[r].records
       /\ LeaveOpen(p, Claimed(View(p), p, r))

(***************************************************************************)
(* Handlers of one process.  Its event loop runs one at a time; a handler   *)
(* that has committed in the middle goes on (`doing') before any other.     *)
(***************************************************************************)
Free(p) == store[p] = "open" /\ doing[p] = Nothing

Working(p) == store[p] \in {"open", "closing"} /\ doing[p] = Nothing

Held(p, r) == loaded[p][r].status # "unloaded" /\ ~loaded[p][r].finalized

\* The state left when a record is written, and when writing it raises: the
\* number is taken before the write and is not given back.
Try(p, r, done, raised, flush) ==
    LET n == loaded[p][r].at + 1
        view == Appended(View(p), p, r, n) IN
    /\ n < MaxRecords[r]
    /\ \/ /\ CanAppend(p, r, n)
          /\ IF flush THEN Commit(p, view) ELSE LeaveOpen(p, view)
          /\ loaded' = [loaded EXCEPT ![p][r] = [done EXCEPT !.at = n]]
       \/ /\ AppendRaises(p, r, n)
          /\ loaded' = [loaded EXCEPT ![p][r] = [raised EXCEPT !.at = n]]

\* RunDataCollector.finalize: the last records, and the run has ended.
Finalise(p, r, m, status) ==
    LET n == m.at + 1
        final == ~m.notified \/ View(p).runs[r].final
        view == [Appended(View(p), p, r, n) EXCEPT
                   !.runs[r].status = status, !.runs[r].final = final,
                   !.runs[r].complete = status = "stopped" /\ final]
        ended == [m EXCEPT !.at = n, !.status = "stopped", !.advancing = "no"] IN
    /\ n <= MaxRecords[r]
    /\ \/ /\ CanAppend(p, r, n)
          /\ Commit(p, view)
          /\ loaded' = [loaded EXCEPT ![p][r] =
                 [ended EXCEPT !.stopping = FALSE, !.notified = TRUE,
                               !.finalized = TRUE, !.task = "none"]]
       \/ /\ AppendRaises(p, r, n)
          /\ \E told \in {m.notified, TRUE} :
                 loaded' = [loaded EXCEPT ![p][r] = [ended EXCEPT !.notified = told]]

(***************************************************************************)
(* Opening the store, and giving up on the runs of dead processes.          *)
(***************************************************************************)
Abandoned(view, p, row) ==
    /\ row.status \in Active
    /\ row.owner # p /\ (row.owner # None => ~Alive(view, row.owner))

InterruptedAs(view, p, status) ==
    [view EXCEPT !.runs = [r \in Run |->
        IF Abandoned(view, p, view.runs[r])
          THEN [view.runs[r] EXCEPT !.status = status, !.owner = p, !.complete = FALSE]
          ELSE view.runs[r]]]

Interrupted(view, p) == InterruptedAs(view, p, "interrupted")

\* Not while the process has a transaction open, and not when the database
\* is busy: then nothing is reconciled, and nothing raises.
Reconciled(p) == \/ writer = p /\ Untouched
                 \/ writer = None /\ Commit(p, Interrupted(db, p))
                 \/ LockedOut(p)

OpenStore(p) ==
    /\ store[p] = "new" /\ writer = None
    /\ Commit(p, db)
    /\ store' = [store EXCEPT ![p] = "open"]
    /\ doing' = [doing EXCEPT ![p].step = "reconcile"]
    /\ UNCHANGED <<loaded, preview>>

ReconcilePriorRuns(p) ==
    /\ doing[p].step = "reconcile" /\ Reconciled(p)
    /\ doing' = [doing EXCEPT ![p] = Nothing]
    /\ UNCHANGED <<store, loaded, preview>>

Catalog(p) == /\ Free(p) /\ Reconciled(p)
              /\ UNCHANGED <<store, loaded, doing, preview>>

Heartbeat(p) == /\ store[p] \in {"open", "closing"} /\ writer = None
                /\ Commit(p, db)
                /\ UNCHANGED <<store, loaded, doing, preview>>

\* Time passes.  The heartbeats of a living process fail while another
\* transaction is open; Stalls says whether that may last for two minutes.
LeaseExpires(p) ==
    /\ store[p] = "crashed" \/ (Stalls /\ writer # None)
    /\ db.leases[p] = "fresh"
    /\ db' = [db EXCEPT !.leases[p] = "stale"]
    /\ draft' = [draft EXCEPT !.leases[p] = "stale"]
    /\ UNCHANGED <<writer, store, loaded, doing, preview>>

Crash(p) ==
    /\ store[p] \in {"open", "closing"}
    /\ store' = [store EXCEPT ![p] = "crashed"]
    /\ loaded' = [loaded EXCEPT ![p] = [r \in Run |-> NotLoaded]]
    /\ doing' = [doing EXCEPT ![p] = Nothing]
    /\ preview' = [preview EXCEPT ![p] = NoPreview]
    /\ Rollback(p)

(***************************************************************************)
(* A run begins, as a new one, as a branch of a checkpoint, or as the       *)
(* suspended run it was.                                                    *)
(***************************************************************************)
Begun(p, r, status, step) ==
    /\ db.runs[r].status = "unborn" /\ CanLock(p)
    /\ Commit(p, [View(p) EXCEPT !.runs[r] = EmptyRow("running", p)])
    /\ loaded' = [loaded EXCEPT ![p][r] = LoadedAs(status, 0)]
    /\ doing' = [doing EXCEPT ![p] = [step |-> step, run |-> r, at |-> 0]]
    /\ UNCHANGED <<store, preview>>

BeginRun(p, r) == Free(p) /\ Begun(p, r, "running", "start")

Resumable(view, c) ==
    AtHead(view, c) /\ view.runs[view.checkpoints[c].run].status = "suspended"

\* Mutant: the collector starts numbering again.
RestoreFromZero(p, c) ==
    LET k == View(p).checkpoints[c] IN
    /\ Free(p) /\ Resumable(View(p), c)
    /\ loaded[p][k.run].status = "unloaded"
    /\ doing' = [doing EXCEPT ![p] = [step |-> "reclaim", run |-> k.run, at |-> 0]]
    /\ UNCHANGED <<db, draft, writer, store, loaded, preview>>

BranchRun(p, c, r) == /\ Free(p) /\ View(p).checkpoints[c].run # None
                      /\ ~Resumable(View(p), c)
                      /\ Begun(p, r, "paused", "announce")

RestoreRun(p, c) ==
    LET k == View(p).checkpoints[c] IN
    /\ Free(p) /\ Resumable(View(p), c)
    /\ loaded[p][k.run].status = "unloaded"
    /\ doing' = [doing EXCEPT ![p] = [step |-> "reclaim", run |-> k.run, at |-> k.at]]
    /\ UNCHANGED <<db, draft, writer, store, loaded, preview>>

ReclaimRun(p) ==
    LET r == doing[p].run
        suspended == View(p).runs[r].status = "suspended" IN
    /\ doing[p].step = "reclaim"
    /\ \/ /\ CanLock(p) /\ suspended
          /\ Commit(p, [View(p) EXCEPT !.runs[r].status = "paused", !.runs[r].owner = p])
          /\ loaded' = [loaded EXCEPT ![p][r] = LoadedAs("paused", doing[p].at)]
          /\ doing' = [doing EXCEPT ![p].step = "announce"]
       \/ /\ \/ CanLock(p) /\ ~suspended /\ Rollback(p)
             \/ LockedOut(p)
          /\ doing' = [doing EXCEPT ![p] = Nothing]
          /\ UNCHANGED loaded
    /\ UNCHANGED <<store, preview>>

\* simulation.started is flushed; a task drives the run, or the operator.
StartRun(p) ==
    LET r == doing[p].run IN
    /\ doing[p].step = "start"
    /\ \E task \in {"none", "ticking"} :
           Try(p, r, [loaded[p][r] EXCEPT !.task = task], loaded[p][r], TRUE)
    /\ doing' = [doing EXCEPT ![p] = Nothing]
    /\ UNCHANGED <<store, preview>>

\* simulation.restored and simulation.branched are not flushed.  A collector
\* that cannot bind the memory store leaves the run to nobody.
AnnounceRestore(p) ==
    LET r == doing[p].run IN
    /\ doing[p].step = "announce"
    /\ \/ Try(p, r, loaded[p][r], loaded[p][r], FALSE)
       \/ LockedOut(p) /\ loaded' = [loaded EXCEPT ![p][r] = NotLoaded]
    /\ doing' = [doing EXCEPT ![p] = Nothing]
    /\ UNCHANGED <<store, preview>>

(***************************************************************************)
(* Ticks.  The records of a tick are written as it goes and committed at    *)
(* its end, or with a memory that is saved in the middle of it: the write   *)
(* lock is held while the models think.                                     *)
(***************************************************************************)
Broken(m) == [m EXCEPT !.advancing = "no",
                       !.task = IF m.advancing = "realtime" THEN "failed" ELSE @]

BeginTick(p, r) ==
    LET m == loaded[p][r] IN
    /\ Working(p) /\ Held(p, r) /\ m.advancing = "no"
    /\ \E kind \in {"realtime", "step"} :
         LET began == [m EXCEPT !.advancing = kind] IN
         /\ kind = "realtime" => m.status = "running" /\ m.task = "ticking"
         /\ kind = "step" => m.status = "paused" /\ store[p] = "open"
         /\ Try(p, r, began, Broken(began), FALSE)
    /\ UNCHANGED <<store, doing, preview>>

SaveMemory(p, r) ==
    /\ Working(p) /\ loaded[p][r].advancing # "no"
    /\ CanLock(p) /\ Writable(View(p), p, r)
    /\ Commit(p, Claimed(View(p), p, r))
    /\ UNCHANGED <<store, loaded, doing, preview>>

EndTick(p, r) ==
    LET m == loaded[p][r] IN
    /\ Working(p) /\ m.advancing # "no"
    /\ Try(p, r, IF m.stopping THEN m ELSE [m EXCEPT !.advancing = "no"],
           Broken(m), TRUE)
    /\ doing' = IF loaded'[p][r].advancing = "no" THEN doing
                  ELSE [doing EXCEPT ![p] = [step |-> "finalise", run |-> r, at |-> 0]]
    /\ UNCHANGED <<store, preview>>

\* A stop that came during the tick is carried out at its end.
FinaliseStop(p) ==
    LET r == doing[p].run
        m == loaded[p][r] IN
    /\ doing[p].step = "finalise"
    /\ Finalise(p, r, [m EXCEPT !.task = Broken(m).task], "stopped")
    /\ doing' = [doing EXCEPT ![p] = Nothing]
    /\ UNCHANGED <<store, preview>>

TickRaises(p, r) ==
    /\ Faults /\ Working(p) /\ loaded[p][r].advancing # "no"
    /\ loaded' = [loaded EXCEPT ![p][r] = Broken(@)]
    /\ UNCHANGED <<db, draft, writer, store, doing, preview>>

\* A research trace that cannot be stored ends the capture at once.
ResearchFails(p, r) ==
    /\ Faults /\ Working(p) /\ loaded[p][r].advancing # "no"
    /\ CanLock(p) /\ View(p).runs[r].owner = p /\ Exists(View(p).runs[r])
    /\ Commit(p, [View(p) EXCEPT !.runs[r].status = "capture_failed",
                                 !.runs[r].complete = FALSE])
    /\ loaded' = [loaded EXCEPT ![p][r] = Broken(@)]
    /\ UNCHANGED <<store, doing, preview>>

(***************************************************************************)
(* The operator.                                                            *)
(***************************************************************************)
Pause(p, r) ==
    LET m == [loaded[p][r] EXCEPT !.status = "paused"] IN
    /\ Free(p) /\ Held(p, r) /\ loaded[p][r].status = "running"
    /\ Try(p, r, m, m, TRUE)
    /\ UNCHANGED <<store, doing, preview>>

\* The task is started anew when the last one has ended.
Resume(p, r) ==
    LET m == [loaded[p][r] EXCEPT !.status = "running"] IN
    /\ Free(p) /\ Held(p, r) /\ loaded[p][r].status = "paused"
    /\ Try(p, r, [m EXCEPT !.task = "ticking"], m, TRUE)
    /\ UNCHANGED <<store, doing, preview>>

\* set_speed and mutate_vitals: what they record waits for the next flush.
Intervene(p, r) ==
    /\ Free(p) /\ Held(p, r)
    /\ Try(p, r, loaded[p][r], loaded[p][r], FALSE)
    /\ UNCHANGED <<store, doing, preview>>

StopRunner(p, r, m) ==
    /\ Held(p, r) /\ m.status # "stopped"
    /\ IF m.advancing = "no"
         THEN Finalise(p, r, m, "stopped")
         ELSE /\ loaded' = [loaded EXCEPT ![p][r] =
                                [m EXCEPT !.status = "stopped", !.stopping = TRUE]]
              /\ Untouched

Stop(p, r) == /\ Free(p) /\ StopRunner(p, r, loaded[p][r])
              /\ UNCHANGED <<store, doing, preview>>

\* What was captured is flushed first; a checkpoint is kept only when its
\* sequence number is the head of the run.
SaveCheckpoint(p, r, c) ==
    LET m == loaded[p][r]
        matches == /\ Writable(View(p), p, r)
                   /\ Head(View(p).runs[r]) = m.at IN
    /\ Free(p) /\ Held(p, r) /\ m.status = "paused" /\ m.advancing = "no"
    /\ View(p).checkpoints[c] = NoCheckpoint /\ CanLock(p)
    /\ Commit(p, IF matches
                   THEN [Claimed(View(p), p, r) EXCEPT
                           !.checkpoints[c] = [run |-> r, at |-> m.at]]
                   ELSE View(p))
    /\ UNCHANGED <<store, loaded, doing, preview>>

(***************************************************************************)
(* Deletion: a preview gives out a token for what it shows; the deletion    *)
(* looks again inside its own transaction.                                  *)
(***************************************************************************)
Preview(p, r) ==
    /\ Free(p) /\ Reconciled(p)
    /\ LET row == View(p)'.runs[r] IN
       /\ Exists(row)
       /\ preview' = [preview EXCEPT ![p] = [run |-> r, row |-> row]]
    /\ UNCHANGED <<store, loaded, doing>>

DeletionReady(m) ==
    m.status = "unloaded" \/ (m.status = "stopped" /\ m.finalized /\ m.advancing = "no")

Eligible(p, r) ==
    /\ db.runs[r].status \in Terminal
    /\ DeletionReady(loaded[p][r])
    /\ ~OwnedElsewhere(db, p, db.runs[r])

DeleteRun(p, r) ==
    /\ Free(p) /\ writer = None
    /\ preview[p] = [run |-> r, row |-> db.runs[r]] /\ Eligible(p, r)
    /\ Commit(p, [db EXCEPT
           !.runs[r] = EmptyRow("deleted", None),
           !.checkpoints = [c \in Checkpoint |->
               IF db.checkpoints[c].run = r THEN [run |-> None, at |-> 1]
                                            ELSE db.checkpoints[c]]])
    /\ loaded' = [loaded EXCEPT ![p][r] = NotLoaded]
    /\ preview' = [preview EXCEPT ![p] = NoPreview]
    /\ UNCHANGED <<store, doing>>

\* Mutant: any checkpoint of the run will do.
SuspendableAnyhow(p, r) ==
    /\ Held(p, r) /\ loaded[p][r].status = "paused" /\ loaded[p][r].advancing = "no"
    /\ \E c \in Checkpoint : View(p).checkpoints[c].run = r

(***************************************************************************)
(* Graceful shutdown.                                                       *)
(***************************************************************************)
BeginClose(p) == /\ Free(p) /\ store' = [store EXCEPT ![p] = "closing"]
                 /\ UNCHANGED <<db, draft, writer, loaded, doing, preview>>

Suspendable(p, r) ==
    /\ Held(p, r) /\ loaded[p][r].status = "paused" /\ loaded[p][r].advancing = "no"
    /\ \E c \in Checkpoint : View(p).checkpoints[c].run = r /\ AtHead(View(p), c)

\* Mutant: a suspended run is stopped like the others.
SuspendAndGoOn(p, r) ==
    /\ store[p] = "closing" /\ doing[p] = Nothing /\ Suspendable(p, r)
    /\ CanLock(p) /\ Writable(View(p), p, r)
    /\ Commit(p, [View(p) EXCEPT !.runs[r].status = "suspended",
                                 !.runs[r].owner = None])
    /\ UNCHANGED <<store, loaded, doing, preview>>

Suspend(p, r) ==
    /\ store[p] = "closing" /\ doing[p] = Nothing /\ Suspendable(p, r)
    /\ \/ /\ CanLock(p) /\ Writable(View(p), p, r)
          /\ Commit(p, [View(p) EXCEPT !.runs[r].status = "suspended",
                                       !.runs[r].owner = None])
          /\ loaded' = [loaded EXCEPT ![p][r] = NotLoaded]
       \/ /\ \/ LockedOut(p)
             \/ CanLock(p) /\ ~Writable(View(p), p, r) /\ Untouched
          /\ loaded' = [loaded EXCEPT ![p][r].status = "stopped", ![p][r].task = "failed"]
    /\ UNCHANGED <<store, doing, preview>>

StopToClose(p, r) ==
    /\ store[p] = "closing" /\ doing[p] = Nothing
    /\ ~Suspendable(p, r) /\ loaded[p][r].task # "failed"
    /\ StopRunner(p, r, [loaded[p][r] EXCEPT
           !.task = IF loaded[p][r].advancing = "no" THEN "failed" ELSE @])
    /\ UNCHANGED <<store, doing, preview>>

\* What raised, now or in the task, is tried once more; then it is left.
FinaliseFailed(p, r) ==
    LET m == loaded[p][r] IN
    /\ store[p] = "closing" /\ doing[p] = Nothing
    /\ Held(p, r) /\ ~Suspendable(p, r)
    /\ m.task = "failed" /\ m.advancing = "no"
    /\ Finalise(p, r, [m EXCEPT !.task = "none"], "failed")
    /\ UNCHANGED <<store, doing, preview>>

CloseStore(p) ==
    /\ store[p] = "closing" /\ doing[p] = Nothing /\ CanLock(p)
    /\ \A r \in Run : Held(p, r) => /\ loaded[p][r].status = "stopped"
                                    /\ loaded[p][r].advancing = "no"
                                    /\ loaded[p][r].task # "failed"
    /\ db' = [View(p) EXCEPT !.leases[p] = "closed"] /\ draft' = db' /\ writer' = None
    /\ store' = [store EXCEPT ![p] = "closed"]
    /\ loaded' = [loaded EXCEPT ![p] = [r \in Run |-> NotLoaded]]
    /\ preview' = [preview EXCEPT ![p] = NoPreview]
    /\ UNCHANGED doing

Init ==
    /\ db = [runs |-> [r \in Run |-> EmptyRow("unborn", None)],
             checkpoints |-> [c \in Checkpoint |-> NoCheckpoint],
             leases |-> [p \in Process |-> "none"]]
    /\ draft = db /\ writer = None
    /\ store = [p \in Process |-> "new"]
    /\ loaded = [p \in Process |-> [r \in Run |-> NotLoaded]]
    /\ doing = [p \in Process |-> Nothing]
    /\ preview = [p \in Process |-> NoPreview]

Next ==
    \E p \in Process :
      \/ OpenStore(p) \/ ReconcilePriorRuns(p) \/ Catalog(p)
      \/ Heartbeat(p) \/ LeaseExpires(p) \/ Crash(p)
      \/ ReclaimRun(p) \/ StartRun(p) \/ AnnounceRestore(p) \/ FinaliseStop(p)
      \/ BeginClose(p) \/ CloseStore(p)
      \/ \E c \in Checkpoint : RestoreRun(p, c)
      \/ \E r \in Run :
           \/ BeginRun(p, r) \/ BeginTick(p, r) \/ SaveMemory(p, r) \/ EndTick(p, r)
           \/ TickRaises(p, r) \/ ResearchFails(p, r)
           \/ Pause(p, r) \/ Resume(p, r) \/ Intervene(p, r) \/ Stop(p, r)
           \/ Preview(p, r) \/ DeleteRun(p, r)
           \/ Suspend(p, r) \/ StopToClose(p, r) \/ FinaliseFailed(p, r)
           \/ \E c \in Checkpoint : BranchRun(p, c, r) \/ SaveCheckpoint(p, r, c)

Spec == Init /\ [][Next]_vars

-----------------------------------------------------------------------------
\* Type invariant of the database, of its open transaction and of the processes.
TypeOK ==
    /\ db \in Database /\ draft \in Database
    /\ writer \in Process \cup {None}
    /\ store \in [Process -> {"new", "open", "closing", "closed", "crashed"}]
    /\ loaded \in [Process -> [Run -> Managed]]
    /\ doing \in [Process -> Doing]
    /\ preview \in [Process -> [run : Run \cup {None}, row : Row]]

\* Two processes never simulate the same run, however restores, crashes,
\* suspensions and reconciliations interleave: a run is loaded by the process
\* that began it or that reclaimed it, and by no other.
OneWriter ==
    \A r \in Run : \A p, q \in Process :
        Held(p, r) /\ Held(q, r) => p = q

\* A run that a shutdown suspended can be continued: it has no owner, and one
\* of its checkpoints is exactly its head.
SuspendedResumes ==
    \A r \in Run : db.runs[r].status = "suspended" =>
        /\ db.runs[r].owner = None
        /\ \E c \in Checkpoint : db.checkpoints[c].run = r /\ AtHead(db, c)

\* The sequence of a process is behind the table of a run that it may write:
\* it will take a number that is taken, and the write be refused.
Behind(p, r) == /\ Held(p, r) /\ Writable(View(p), p, r)
                /\ Head(View(p).runs[r]) > loaded[p][r].at

\* A run is reclaimed from a checkpoint that was its head when it was looked
\* at: others have continued the run and suspended it again since.  The code
\* does not look a second time (docs/RUNTIME.md: "Checkpoint restoration fails
\* closed on ... persisted dataset-head mismatches").
LateReclaim(p, r) ==
    /\ doing[p].step = "reclaim" /\ doing[p].run = r
    /\ View(p).runs[r].status = "suspended"
    /\ \E c \in Checkpoint :
           /\ View(p).checkpoints[c] = [run |-> r, at |-> doing[p].at]
           /\ ~AtHead(View(p), c)

\* That is the only way to fall behind the table: neither a rollback, a
\* number lost to a refused write, a crash nor another process that claims,
\* interrupts or deletes the run makes the next number a taken one.
OnlyLateReclaimsFallBehind ==
    [][\A p \in Process, r \in Run :
           Behind(p, r)' => Behind(p, r) \/ LateReclaim(p, r)]_vars

(***************************************************************************)
(* The committed rows are a history of runs.                                *)
(***************************************************************************)
PhaseOf(status) == CASE status \in Active -> "open"
                     [] status \in Terminal -> "ended"
                     [] OTHER -> status

History == INSTANCE RunHistory WITH
               phase <- [r \in Run |-> PhaseOf(db.runs[r].status)],
               owner <- [r \in Run |-> db.runs[r].owner],
               length <- [r \in Run |-> Head(db.runs[r])]

\* Whatever is committed, by whichever process and in whichever order, extends
\* the histories of runs as RunHistory promises.
ImplementsHistory == History!Spec
=============================================================================
