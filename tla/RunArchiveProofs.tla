-------------------------- MODULE RunArchiveProofs --------------------------
(***************************************************************************)
(* For every set of processes, runs and checkpoints, whatever times out,    *)
(* stalls or raises: RunArchive is type correct, a run has one writer, and  *)
(* a suspended run can be continued.                                        *)
(*                                                                          *)
(* The argument: an open transaction never changes the status of a run, so  *)
(* what a process reads of it is what is committed; a run that some process *)
(* holds is neither unborn nor suspended, so neither BeginRun nor           *)
(* ReclaimRun can load it a second time; and nobody writes to a run that is *)
(* suspended, so its checkpoint stays at its head.                          *)
(***************************************************************************)
EXTENDS RunArchive, TLAPS, WellFoundedInduction

Resumes(view) ==
    \A r \in Run : view.runs[r].status = "suspended" =>
        /\ view.runs[r].owner = None
        /\ \E c \in Checkpoint : view.checkpoints[c].run = r /\ AtHead(view, c)

SameStatus(v, w) == \A r \in Run : v.runs[r].status = w.runs[r].status

DataInv ==
    /\ db \in Database /\ draft \in Database
    /\ writer \in Process \cup {None}
    /\ writer = None => draft = db
    /\ SameStatus(draft, db)
    /\ Resumes(db) /\ Resumes(draft)

ProcessInv ==
    /\ store \in [Process -> {"new", "open", "closing", "closed", "crashed"}]
    /\ loaded \in [Process -> [Run -> Managed]]
    /\ doing \in [Process -> Doing]
    /\ preview \in [Process -> [run : Run \cup {None}, row : Row]]
    /\ \A p \in Process : doing[p].step \notin {"nothing", "reconcile"} => doing[p].run \in Run
    /\ \A p \in Process : doing[p].step \in {"start", "announce", "finalise"} =>
           Held(p, doing[p].run)
    /\ \A p \in Process, r \in Run : loaded[p][r].advancing # "no" => Held(p, r)

WriterInv ==
    /\ \A p \in Process, r \in Run :
           Held(p, r) => db.runs[r].status \notin {"unborn", "suspended"}
    /\ OneWriter

Inv == DataInv /\ ProcessInv /\ WriterInv

-----------------------------------------------------------------------------
\* What a process reads is of the right type, and the statuses are committed ones.
LEMMA ViewIsData ==
    ASSUME DataInv, NEW p \in Process
    PROVE  View(p) \in Database /\ SameStatus(View(p), db) /\ Resumes(View(p))
BY DEF DataInv, View, SameStatus

\* A commit installs its view and settles the transaction.
LEMMA CommitKeeps ==
    ASSUME NEW view \in Database, NEW p \in Process, Resumes(view), Commit(p, view)
    PROVE  DataInv' /\ SameStatus(db', view)
<1>1. [view EXCEPT !.leases[p] = "fresh"] \in Database
  BY DEF Database
<1>2. /\ db'.runs = view.runs /\ db'.checkpoints = view.checkpoints
      /\ db' \in Database /\ draft' = db' /\ writer' = None
  BY <1>1 DEF Commit, Database
<1>3. Resumes(db')
  BY SMTT(30), <1>2 DEF Resumes, AtHead, Head
<1> QED BY <1>2, <1>3 DEF DataInv, SameStatus

\* A write that stays open changes no status and commits nothing.
LEMMA LeaveOpenKeeps ==
    ASSUME DataInv, NEW view \in Database, NEW p \in Process,
           Resumes(view), SameStatus(view, db), LeaveOpen(p, view)
    PROVE  DataInv' /\ db' = db
<1>1. draft' = view /\ writer' = p /\ db' = db
  BY DEF LeaveOpen
<1>2. p # None
  BY ArchiveAssumption
<1>3. Resumes(db') /\ Resumes(draft')
  BY <1>1 DEF DataInv
<1> QED BY <1>1, <1>2, <1>3 DEF DataInv, SameStatus

LEMMA RollbackKeeps ==
    ASSUME DataInv, NEW p \in Process, Rollback(p)
    PROVE  DataInv' /\ db' = db
<1>1. db' = db /\ (draft' = db \/ draft' = draft)
  BY DEF Rollback
<1>2. Resumes(db') /\ Resumes(draft')
  BY <1>1 DEF DataInv
<1> QED BY <1>1, <1>2 DEF DataInv, SameStatus, Rollback

LEMMA UntouchedKeeps ==
    ASSUME DataInv, Untouched
    PROVE  DataInv' /\ db' = db
BY ZenonT(40) DEF DataInv, Untouched, SameStatus, Resumes, AtHead, Head

\* Whoever leaves the suspended runs and their checkpoints as they were leaves
\* them resumable.
LEMMA ResumesTransfers ==
    ASSUME NEW v, NEW w, Resumes(w),
           \A s \in Run : v.runs[s].status = "suspended" =>
               /\ v.runs[s] = w.runs[s]
               /\ \A c \in Checkpoint : w.checkpoints[c].run = s =>
                      v.checkpoints[c] = w.checkpoints[c]
    PROVE  Resumes(v)
<1> SUFFICES ASSUME NEW s \in Run, v.runs[s].status = "suspended"
             PROVE  /\ v.runs[s].owner = None
                    /\ \E c \in Checkpoint : v.checkpoints[c].run = s /\ AtHead(v, c)
  BY DEF Resumes
<1>1. v.runs[s] = w.runs[s]
  OBVIOUS
<1>2. PICK c \in Checkpoint : w.checkpoints[c].run = s /\ AtHead(w, c)
  BY <1>1 DEF Resumes
<1>3. v.checkpoints[c] = w.checkpoints[c]
  BY <1>2
<1>4. AtHead(v, c)
  BY <1>1, <1>2, <1>3 DEF AtHead
<1>5. v.runs[s].owner = None
  BY <1>1 DEF Resumes
<1> QED BY <1>2, <1>3, <1>4, <1>5

\* Claiming and appending to a run that is not suspended.
LEMMA AppendedIsData ==
    ASSUME NEW view \in Database, NEW p \in Process, NEW r \in Run, NEW n \in Nat,
           Resumes(view), view.runs[r].status # "suspended"
    PROVE  /\ Appended(view, p, r, n) \in Database
           /\ SameStatus(Appended(view, p, r, n), view)
           /\ Resumes(Appended(view, p, r, n))
           /\ Claimed(view, p, r) \in Database
           /\ SameStatus(Claimed(view, p, r), view)
           /\ Resumes(Claimed(view, p, r))
<1> DEFINE a == Appended(view, p, r, n)
           k == Claimed(view, p, r)
<1>1. view.runs[r] \in Row
  BY DEF Database
<1>2. [view.runs[r] EXCEPT !.owner = p, !.records = view.runs[r].records \cup {n}] \in Row
  BY <1>1 DEF Row
<1>3. [view.runs[r] EXCEPT !.owner = p] \in Row
  BY <1>1 DEF Row
<1>4. a \in Database /\ k \in Database
  BY <1>2, <1>3 DEF Appended, Claimed, Database, Row
<1>5. a.checkpoints = view.checkpoints /\ k.checkpoints = view.checkpoints
  BY DEF Appended, Claimed, Database
<1>6. \A s \in Run \ {r} : a.runs[s] = view.runs[s] /\ k.runs[s] = view.runs[s]
  BY DEF Appended, Claimed, Database
<1>7. a.runs[r].status = view.runs[r].status /\ k.runs[r].status = view.runs[r].status
  BY <1>1 DEF Appended, Claimed, Database, Row
<1>8. \A s \in Run : a.runs[s].status = "suspended" \/ k.runs[s].status = "suspended"
                      => s # r /\ view.runs[s].status = "suspended"
  BY <1>6, <1>7
<1>9. Resumes(a) /\ Resumes(k)
  BY <1>5, <1>6, <1>8, ResumesTransfers
<1> QED BY <1>4, <1>6, <1>7, <1>9 DEF SameStatus

\* A write that raises has changed nothing, or left an empty claim open.
LEMMA RaisesKeeps ==
    ASSUME DataInv, NEW p \in Process, NEW r \in Run, NEW n \in Nat,
           db.runs[r].status # "suspended", AppendRaises(p, r, n)
    PROVE  DataInv' /\ db' = db
<1>1. CASE Untouched
  BY <1>1, UntouchedKeeps
<1>2. CASE LeaveOpen(p, Claimed(View(p), p, r))
  <2>1. View(p) \in Database /\ SameStatus(View(p), db) /\ Resumes(View(p))
    BY ViewIsData
  <2>2. View(p).runs[r].status # "suspended"
    BY <2>1 DEF SameStatus
  <2>3. /\ Claimed(View(p), p, r) \in Database
        /\ SameStatus(Claimed(View(p), p, r), db)
        /\ Resumes(Claimed(View(p), p, r))
    BY <2>1, <2>2, AppendedIsData DEF SameStatus
  <2> QED BY <1>2, <2>3, LeaveOpenKeeps
<1> QED BY <1>1, <1>2 DEF AppendRaises, LockedOut

\* Who held what, and which runs may be loaded, is as before.
LEMMA HoldersStay ==
    ASSUME WriterInv,
           \A p \in Process, r \in Run : Held(p, r)' => Held(p, r),
           \A r \in Run : db'.runs[r].status \in {"unborn", "suspended"} =>
                             db'.runs[r].status = db.runs[r].status
    PROVE  WriterInv'
BY DEF WriterInv, OneWriter

\* A handler that records something about a run that it holds.
LEMMA TryKeeps ==
    ASSUME Inv, NEW p \in Process, NEW r \in Run, Held(p, r),
           NEW done \in Managed, NEW raised \in Managed, NEW flush \in BOOLEAN,
           done.status # "unloaded", ~done.finalized,
           raised.status # "unloaded", ~raised.finalized,
           Try(p, r, done, raised, flush)
    PROVE  /\ DataInv' /\ WriterInv'
           /\ loaded' \in [Process -> [Run -> Managed]]
           /\ \A q \in Process, s \in Run : Held(q, s)' <=> Held(q, s)
           /\ \A q \in Process, s \in Run : loaded'[q][s].advancing # "no" => Held(q, s)'
<1> DEFINE n == loaded[p][r].at + 1
           view == Appended(View(p), p, r, n)
<1>1. n \in Nat
  BY DEF Inv, ProcessInv, Managed
<1>2. db.runs[r].status # "suspended"
  BY DEF Inv, WriterInv
<1>3. View(p) \in Database /\ SameStatus(View(p), db) /\ Resumes(View(p))
  BY ViewIsData DEF Inv
<1>4. view \in Database /\ SameStatus(view, db) /\ Resumes(view)
  BY <1>1, <1>2, <1>3, AppendedIsData DEF SameStatus
<1>5. DataInv' /\ SameStatus(db', db)
  <2>1. CASE Commit(p, view)
    BY <2>1, <1>4, CommitKeeps DEF SameStatus
  <2>2. CASE LeaveOpen(p, view)
    BY <2>2, <1>4, LeaveOpenKeeps DEF SameStatus, Inv
  <2>3. CASE AppendRaises(p, r, n)
    BY <2>3, <1>1, <1>2, RaisesKeeps DEF SameStatus, Inv
  <2> QED BY <2>1, <2>2, <2>3 DEF Try
<1>6. PICK m \in Managed : /\ loaded' = [loaded EXCEPT ![p][r] = m]
                           /\ m.status # "unloaded" /\ ~m.finalized
  <2>1. [done EXCEPT !.at = n] \in Managed /\ [raised EXCEPT !.at = n] \in Managed
    BY <1>1 DEF Managed
  <2>2. /\ [done EXCEPT !.at = n].status = done.status
        /\ [raised EXCEPT !.at = n].status = raised.status
        /\ [done EXCEPT !.at = n].finalized = done.finalized
        /\ [raised EXCEPT !.at = n].finalized = raised.finalized
    BY DEF Managed
  <2> QED BY <2>1, <2>2 DEF Try
<1>7. /\ loaded' \in [Process -> [Run -> Managed]]
      /\ \A q \in Process, s \in Run : Held(q, s)' <=> Held(q, s)
      /\ \A q \in Process, s \in Run : ~(q = p /\ s = r) => loaded'[q][s] = loaded[q][s]
  <2>1. loaded \in [Process -> [Run -> Managed]]
    BY DEF Inv, ProcessInv
  <2> QED BY <1>6, <2>1 DEF Held
<1>8. WriterInv'
  BY <1>5, <1>7, HoldersStay DEF Inv, SameStatus
<1>9. \A q \in Process, s \in Run : loaded'[q][s].advancing # "no" => Held(q, s)'
  BY <1>7 DEF Inv, ProcessInv
<1> QED BY <1>5, <1>7, <1>8, <1>9

\* A handler that ends a run that it holds.
LEMMA FinaliseKeeps ==
    ASSUME Inv, NEW p \in Process, NEW r \in Run, Held(p, r),
           NEW m \in Managed, m.status # "unloaded", ~m.finalized,
           NEW status \in {"stopped", "failed"},
           Finalise(p, r, m, status)
    PROVE  /\ DataInv' /\ WriterInv'
           /\ loaded' \in [Process -> [Run -> Managed]]
           /\ \A q \in Process, s \in Run : Held(q, s)' => Held(q, s)
           /\ \A q \in Process, s \in Run : ~(q = p /\ s = r) =>
                  loaded'[q][s] = loaded[q][s] /\ (Held(q, s)' <=> Held(q, s))
           /\ \A q \in Process, s \in Run : loaded'[q][s].advancing # "no" => Held(q, s)'
<1> DEFINE n == m.at + 1
           final == ~m.notified \/ View(p).runs[r].final
           more == Appended(View(p), p, r, n)
           view == [more EXCEPT !.runs[r].status = status, !.runs[r].final = final,
                                !.runs[r].complete = status = "stopped" /\ final]
           ended == [m EXCEPT !.at = n, !.status = "stopped", !.advancing = "no"]
<1>1. n \in Nat /\ final \in BOOLEAN
  <2>1. m.at \in Nat
    BY DEF Managed
  <2> QED BY <2>1
<1>2. db.runs[r].status # "suspended"
  BY DEF Inv, WriterInv
<1>3. View(p) \in Database /\ SameStatus(View(p), db) /\ Resumes(View(p))
  BY ViewIsData DEF Inv
<1>4. more \in Database /\ SameStatus(more, db) /\ Resumes(more)
  BY <1>1, <1>2, <1>3, AppendedIsData DEF SameStatus
<1>5. /\ view \in Database
      /\ view.checkpoints = more.checkpoints
      /\ view.runs[r].status = status
      /\ \A s \in Run \ {r} : view.runs[s] = more.runs[s]
  <2> HIDE DEF more, final
  <2> DEFINE complete == status = "stopped" /\ final
             row == [more.runs[r] EXCEPT !.status = status, !.final = final,
                                         !.complete = complete]
  <2>1. complete \in BOOLEAN
    OBVIOUS
  <2>2. more.runs[r] \in Row
    BY <1>4 DEF Database
  <2>3. row \in Row /\ row.status = status
    BY <1>1, <2>1, <2>2 DEF Row, Terminal
  <2>4. view = [more EXCEPT !.runs = [more.runs EXCEPT ![r] = row]]
    BY <1>4, <2>2 DEF Database, Row
  <2> HIDE DEF row, complete, view
  <2> QED BY <1>4, <2>3, <2>4 DEF Database
<1>6. Resumes(view)
  <2> HIDE DEF more, view
  <2> QED BY <1>4, <1>5, ResumesTransfers
<1>7. DataInv' /\ \A s \in Run : db'.runs[s].status \in {"unborn", "suspended"} =>
                                  db'.runs[s].status = db.runs[s].status
  <2>1. CASE Commit(p, view)
    <3> HIDE DEF more, view
    <3> QED BY <2>1, <1>4, <1>5, <1>6, CommitKeeps DEF SameStatus
  <2>2. CASE AppendRaises(p, r, n)
    BY <2>2, <1>1, <1>2, RaisesKeeps DEF Inv
  <2> QED BY <2>1, <2>2 DEF Finalise
<1>8. PICK k \in Managed : loaded' = [loaded EXCEPT ![p][r] = k] /\ k.advancing = "no"
  <2>1. /\ ended \in Managed
        /\ ended.advancing = "no"
    BY <1>1 DEF Managed
  <2>2. \A told \in BOOLEAN : /\ [ended EXCEPT !.notified = told] \in Managed
                              /\ [ended EXCEPT !.notified = told].advancing = "no"
    BY <2>1 DEF Managed
  <2>3. LET done == [ended EXCEPT !.stopping = FALSE, !.notified = TRUE,
                                  !.finalized = TRUE, !.task = "none"]
        IN  done \in Managed /\ done.advancing = "no"
    BY <2>1 DEF Managed
  <2>4. m.notified \in BOOLEAN
    BY DEF Managed
  <2> QED BY <2>2, <2>3, <2>4 DEF Finalise
<1>9. /\ loaded' \in [Process -> [Run -> Managed]]
      /\ loaded'[p][r] = k
      /\ \A q \in Process, s \in Run : ~(q = p /\ s = r) =>
             loaded'[q][s] = loaded[q][s] /\ (Held(q, s)' <=> Held(q, s))
  <2>1. loaded \in [Process -> [Run -> Managed]]
    BY DEF Inv, ProcessInv
  <2> QED BY <1>8, <2>1 DEF Held
<1>10. \A q \in Process, s \in Run : Held(q, s)' => Held(q, s)
  BY <1>9
<1>11. WriterInv'
  BY <1>7, <1>10, HoldersStay DEF Inv
<1>12. \A q \in Process, s \in Run : loaded'[q][s].advancing # "no" => Held(q, s)'
  BY <1>8, <1>9 DEF Inv, ProcessInv
<1> QED BY <1>7, <1>9, <1>10, <1>11, <1>12

\* A process that has nothing left to do after its step.
LEMMA IdleKeeps ==
    ASSUME ProcessInv, NEW p \in Process,
           store' \in [Process -> {"new", "open", "closing", "closed", "crashed"}],
           preview' \in [Process -> [run : Run \cup {None}, row : Row]],
           loaded' \in [Process -> [Run -> Managed]],
           \/ doing' = doing /\ doing[p] = Nothing
           \/ doing' = [doing EXCEPT ![p] = Nothing],
           \A q \in Process, s \in Run : q # p /\ Held(q, s) => Held(q, s)',
           \A q \in Process, s \in Run : loaded'[q][s].advancing # "no" => Held(q, s)'
    PROVE  ProcessInv'
<1>1. Nothing \in Doing /\ Nothing.step = "nothing"
  BY DEF Nothing, Doing, Steps
<1>2. doing' \in [Process -> Doing] /\ doing'[p].step = "nothing"
  BY <1>1 DEF ProcessInv
<1>3. \A q \in Process \ {p} : doing'[q] = doing[q]
  BY DEF ProcessInv
<1>4. \A q \in Process : doing'[q].step \notin {"nothing", "reconcile"} =>
            doing'[q].run \in Run
  BY <1>2, <1>3 DEF ProcessInv
<1>5. \A q \in Process : doing'[q].step \in {"start", "announce", "finalise"} =>
            Held(q, doing[q].run)'
  <2> SUFFICES ASSUME NEW q \in Process,
                      doing'[q].step \in {"start", "announce", "finalise"}
               PROVE  Held(q, doing[q].run)'
    OBVIOUS
  <2>1. q # p /\ doing'[q] = doing[q]
    BY <1>2, <1>3
  <2>2. Held(q, doing[q].run) /\ doing[q].run \in Run
    BY <2>1 DEF ProcessInv
  <2>3. \A s \in Run : Held(q, s) => Held(q, s)'
    BY <2>1
  <2>4. loaded'[q][doing[q].run].status # "unloaded" /\ ~loaded'[q][doing[q].run].finalized
    BY <2>2, <2>3 DEF Held
  <2> QED BY <2>1, <2>4 DEF Held
<1> QED BY <1>2, <1>4, <1>5 DEF ProcessInv

\* A step that only touches the database, or the store and the preview.
LEMMA OnlyDataKeeps ==
    ASSUME Inv, DataInv', NEW p \in Process,
           \/ doing' = doing /\ doing[p] = Nothing
           \/ doing' = [doing EXCEPT ![p] = Nothing],
           store' \in [Process -> {"new", "open", "closing", "closed", "crashed"}],
           preview' \in [Process -> [run : Run \cup {None}, row : Row]],
           UNCHANGED loaded,
           \A r \in Run : db'.runs[r].status \in {"unborn", "suspended"} =>
                             db'.runs[r].status = db.runs[r].status
    PROVE  Inv'
<1>1. \A q \in Process, s \in Run : Held(q, s)' <=> Held(q, s)
  BY DEF Held
<1>2. WriterInv'
  BY <1>1, HoldersStay DEF Inv
<1>3. loaded' \in [Process -> [Run -> Managed]]
  BY DEF Inv, ProcessInv
<1>4. \A q \in Process, s \in Run : loaded'[q][s].advancing # "no" => Held(q, s)'
  BY <1>1 DEF Inv, ProcessInv
<1>5. ProcessInv'
  BY <1>1, <1>3, <1>4, IdleKeeps DEF Inv
<1> QED BY <1>2, <1>5 DEF Inv

LEMMA InterruptedIsData ==
    ASSUME NEW view \in Database, NEW p \in Process, Resumes(view)
    PROVE  /\ Interrupted(view, p) \in Database
           /\ Resumes(Interrupted(view, p))
           /\ \A r \in Run : \/ Interrupted(view, p).runs[r] = view.runs[r]
                            \/ Interrupted(view, p).runs[r].status = "interrupted"
<1> DEFINE w == Interrupted(view, p)
           row(r) == [view.runs[r] EXCEPT !.status = "interrupted", !.owner = p,
                                          !.complete = FALSE]
<1>1. \A r \in Run : row(r) \in Row /\ row(r).status = "interrupted"
  <2> SUFFICES ASSUME NEW r \in Run PROVE row(r) \in Row /\ row(r).status = "interrupted"
    OBVIOUS
  <2>1. view.runs[r] \in Row
    BY DEF Database
  <2> QED BY <2>1 DEF Row, Terminal
<1>2. /\ w.runs = [r \in Run |-> IF Abandoned(view, p, view.runs[r]) THEN row(r)
                                                                  ELSE view.runs[r]]
      /\ w.checkpoints = view.checkpoints /\ w.leases = view.leases
  BY DEF Interrupted, InterruptedAs, Database
<1>3. w.runs \in [Run -> Row]
  <2>1. \A r \in Run : view.runs[r] \in Row
    BY DEF Database
  <2> HIDE DEF row, w
  <2> QED BY <1>1, <1>2, <2>1
<1>4. w \in Database
  BY <1>3 DEF Interrupted, InterruptedAs, Database
<1>5. \A r \in Run : w.runs[r] = view.runs[r] \/ w.runs[r].status = "interrupted"
  BY <1>1, <1>2
<1>6. Resumes(w)
  <2> HIDE DEF w
  <2> QED BY <1>2, <1>5, ResumesTransfers
<1> QED BY <1>4, <1>5, <1>6

\* A reconciliation ends runs and starts none.
LEMMA ReconciledKeeps ==
    ASSUME DataInv, NEW p \in Process, Reconciled(p)
    PROVE  /\ DataInv'
           /\ \A r \in Run : db'.runs[r].status \in {"unborn", "suspended"} =>
                             db'.runs[r].status = db.runs[r].status
<1>1. CASE Untouched
  BY <1>1, UntouchedKeeps
<1>2. CASE Commit(p, Interrupted(db, p))
  <2>1. /\ Interrupted(db, p) \in Database /\ Resumes(Interrupted(db, p))
        /\ \A r \in Run : \/ Interrupted(db, p).runs[r] = db.runs[r]
                         \/ Interrupted(db, p).runs[r].status = "interrupted"
    BY InterruptedIsData DEF DataInv
  <2> QED BY <1>2, <2>1, CommitKeeps DEF SameStatus
<1> QED BY <1>1, <1>2 DEF Reconciled, LockedOut

\* A handler of an idle process that records something about a run it holds.
LEMMA TryStep ==
    ASSUME Inv, NEW p \in Process, NEW r \in Run, Held(p, r),
           NEW done \in Managed, NEW raised \in Managed, NEW flush \in BOOLEAN,
           done.status # "unloaded", ~done.finalized,
           raised.status # "unloaded", ~raised.finalized,
           Try(p, r, done, raised, flush), UNCHANGED <<store, preview>>,
           \/ doing' = doing /\ doing[p] = Nothing
           \/ doing' = [doing EXCEPT ![p] = Nothing]
    PROVE  Inv'
<1>1. /\ DataInv' /\ WriterInv'
      /\ loaded' \in [Process -> [Run -> Managed]]
      /\ \A q \in Process, s \in Run : Held(q, s)' <=> Held(q, s)
      /\ \A q \in Process, s \in Run : loaded'[q][s].advancing # "no" => Held(q, s)'
  BY TryKeeps
<1>2. /\ store' \in [Process -> {"new", "open", "closing", "closed", "crashed"}]
      /\ preview' \in [Process -> [run : Run \cup {None}, row : Row]]
  BY DEF Inv, ProcessInv
<1>3. ProcessInv'
  BY <1>1, <1>2, IdleKeeps DEF Inv
<1> QED BY <1>1, <1>3 DEF Inv

\* A handler of an idle process that ends a run it holds.
LEMMA FinaliseStep ==
    ASSUME Inv, NEW p \in Process, NEW r \in Run, Held(p, r),
           NEW m \in Managed, m.status # "unloaded", ~m.finalized,
           NEW status \in {"stopped", "failed"},
           Finalise(p, r, m, status), UNCHANGED <<store, preview>>,
           \/ doing' = doing /\ doing[p] = Nothing
           \/ doing' = [doing EXCEPT ![p] = Nothing]
    PROVE  Inv'
<1>1. /\ DataInv' /\ WriterInv'
      /\ loaded' \in [Process -> [Run -> Managed]]
      /\ \A q \in Process, s \in Run : ~(q = p /\ s = r) => (Held(q, s)' <=> Held(q, s))
      /\ \A q \in Process, s \in Run : loaded'[q][s].advancing # "no" => Held(q, s)'
  BY FinaliseKeeps
<1>2. /\ store' \in [Process -> {"new", "open", "closing", "closed", "crashed"}]
      /\ preview' \in [Process -> [run : Run \cup {None}, row : Row]]
  BY DEF Inv, ProcessInv
<1>3. ProcessInv'
  BY <1>1, <1>2, IdleKeeps DEF Inv
<1> QED BY <1>1, <1>3 DEF Inv

\* A process that keeps something else of a run, and writes nothing of it.
LEMMA KeepStep ==
    ASSUME Inv, DataInv', NEW p \in Process, NEW r \in Run, NEW m \in Managed,
           loaded' = [loaded EXCEPT ![p][r] = m],
           m.status # "unloaded" /\ ~m.finalized => Held(p, r),
           m.advancing # "no" => m.status # "unloaded" /\ ~m.finalized,
           UNCHANGED <<store, preview, doing>>, doing[p] = Nothing,
           \A s \in Run : db'.runs[s].status \in {"unborn", "suspended"} =>
                 db'.runs[s].status = db.runs[s].status
    PROVE  Inv'
<1>1. /\ loaded' \in [Process -> [Run -> Managed]]
      /\ loaded'[p][r] = m
      /\ \A q \in Process, s \in Run : ~(q = p /\ s = r) => loaded'[q][s] = loaded[q][s]
  BY DEF Inv, ProcessInv
<1>2. \A q \in Process, s \in Run : ~(q = p /\ s = r) => (Held(q, s)' <=> Held(q, s))
  BY <1>1 DEF Held
<1>3. Held(p, r)' <=> m.status # "unloaded" /\ ~m.finalized
  BY <1>1 DEF Held
<1>4. WriterInv'
  BY <1>2, <1>3, HoldersStay DEF Inv
<1>5. \A q \in Process, s \in Run : loaded'[q][s].advancing # "no" => Held(q, s)'
  BY <1>1, <1>2, <1>3 DEF Inv, ProcessInv
<1>6. /\ store' \in [Process -> {"new", "open", "closing", "closed", "crashed"}]
      /\ preview' \in [Process -> [run : Run \cup {None}, row : Row]]
  BY DEF Inv, ProcessInv
<1>7. ProcessInv'
  BY <1>1, <1>2, <1>5, <1>6, IdleKeeps DEF Inv
<1> QED BY <1>4, <1>7 DEF Inv

LEMMA BrokenIsManaged ==
    ASSUME NEW m \in Managed
    PROVE  /\ Broken(m) \in Managed
           /\ Broken(m).status = m.status /\ Broken(m).finalized = m.finalized
           /\ Broken(m).advancing = "no"
BY DEF Broken, Managed

-----------------------------------------------------------------------------
\* Initially nothing is open, held or suspended.
LEMMA InitInv == Init => Inv
<1> SUFFICES ASSUME Init PROVE Inv
  OBVIOUS
<1>1. /\ \A s \in {"unborn"} : EmptyRow(s, None) \in Row
      /\ NoCheckpoint \in [run : Run \cup {None}, at : Nat]
      /\ NotLoaded \in Managed /\ Nothing \in Doing
      /\ NoPreview \in [run : Run \cup {None}, row : Row]
  BY DEF EmptyRow, Row, NoCheckpoint, NotLoaded, LoadedAs, Managed, Nothing, Doing, Steps,
         NoPreview
<1>2. db \in Database /\ \A r \in Run : db.runs[r].status = "unborn"
  BY <1>1 DEF Init, Database, EmptyRow
<1>3. DataInv
  BY <1>2 DEF Init, DataInv, SameStatus, Resumes
<1>4. \A p \in Process, r \in Run : ~Held(p, r) /\ loaded[p][r].advancing = "no"
  BY DEF Init, Held, NotLoaded, LoadedAs
<1>5. \A p \in Process : doing[p].step = "nothing"
  BY DEF Init, Nothing
<1>6. ProcessInv
  BY <1>1, <1>4, <1>5 DEF Init, ProcessInv
<1> QED BY <1>3, <1>4, <1>6 DEF Inv, WriterInv, OneWriter

LEMMA OpenStoreInv == ASSUME Inv, NEW p \in Process, OpenStore(p) PROVE Inv'
<1>1. DataInv' /\ SameStatus(db', db)
  BY CommitKeeps DEF OpenStore, Inv, DataInv
<1>2. \A q \in Process, s \in Run : (Held(q, s)' <=> Held(q, s)) /\ loaded' = loaded
  BY DEF OpenStore, Held
<1>3. WriterInv'
  BY <1>1, <1>2, HoldersStay DEF Inv, SameStatus
<1>4. /\ doing' \in [Process -> Doing] /\ doing'[p].step = "reconcile"
      /\ \A q \in Process \ {p} : doing'[q] = doing[q]
  BY DEF OpenStore, Inv, ProcessInv, Doing, Steps
<1>5. ProcessInv'
  <2>1. \A q \in Process : doing'[q].step \in {"start", "announce", "finalise"} =>
                Held(q, doing[q].run)'
    BY <1>4 DEF Held, Inv, ProcessInv, OpenStore
  <2>2. \A q \in Process : doing'[q].step \notin {"nothing", "reconcile"} => doing'[q].run \in Run
    BY <1>4 DEF Inv, ProcessInv
  <2> QED BY <1>2, <1>4, <2>1, <2>2 DEF OpenStore, Inv, ProcessInv, Held
<1> QED BY <1>1, <1>3, <1>5 DEF Inv

LEMMA ReconcileInv ==
    ASSUME Inv, NEW p \in Process,
           ReconcilePriorRuns(p) \/ Catalog(p) \/ (\E r \in Run : Preview(p, r))
    PROVE  Inv'
<1>1. Reconciled(p) /\ UNCHANGED <<store, loaded>>
  BY DEF ReconcilePriorRuns, Catalog, Preview
<1>2. \/ doing' = doing /\ doing[p] = Nothing
      \/ doing' = [doing EXCEPT ![p] = Nothing]
  BY DEF ReconcilePriorRuns, Catalog, Preview, Free
<1>3. /\ DataInv'
      /\ \A r \in Run : db'.runs[r].status \in {"unborn", "suspended"} =>
                        db'.runs[r].status = db.runs[r].status
  BY <1>1, ReconciledKeeps DEF Inv
<1>4. preview' \in [Process -> [run : Run \cup {None}, row : Row]]
  <2>1. CASE UNCHANGED preview
    BY <2>1 DEF Inv, ProcessInv
  <2>2. CASE \E r \in Run : Preview(p, r)
    <3>1. PICK r \in Run : Preview(p, r)
      BY <2>2
    <3>2. (View(p).runs[r])' \in Row
      BY <1>3 DEF View, DataInv, Database
    <3> QED BY <3>1, <3>2 DEF Preview, Inv, ProcessInv
  <2> QED BY <2>1, <2>2 DEF ReconcilePriorRuns, Catalog
<1>5. store' \in [Process -> {"new", "open", "closing", "closed", "crashed"}]
  BY <1>1 DEF Inv, ProcessInv
<1> QED BY <1>1, <1>2, <1>3, <1>4, <1>5, OnlyDataKeeps

LEMMA LeaseInv ==
    ASSUME Inv, NEW p \in Process, Heartbeat(p) \/ LeaseExpires(p)
    PROVE  Inv'
<1>1. DataInv' /\ SameStatus(db', db)
  <2>1. CASE Heartbeat(p)
    BY <2>1, CommitKeeps DEF Heartbeat, Inv, DataInv
  <2>2. CASE LeaseExpires(p)
    <3> DEFINE stale(view) == [view EXCEPT !.leases[p] = "stale"]
    <3>1. \A view \in Database : /\ stale(view) \in Database
                                 /\ stale(view).runs = view.runs
                                 /\ stale(view).checkpoints = view.checkpoints
      BY DEF Database
    <3>2. db' = stale(db) /\ draft' = stale(draft) /\ writer' = writer
      BY <2>2 DEF LeaseExpires
    <3>3. db \in Database /\ draft \in Database
      BY DEF Inv, DataInv
    <3>4. /\ db' \in Database /\ db'.runs = db.runs /\ db'.checkpoints = db.checkpoints
          /\ draft' \in Database /\ draft'.runs = draft.runs
          /\ draft'.checkpoints = draft.checkpoints
      BY <3>1, <3>2, <3>3
    <3>5. Resumes(db') /\ Resumes(draft')
      BY <3>4, ResumesTransfers DEF Inv, DataInv
    <3>6. writer' = None => draft' = db'
      BY <3>2 DEF Inv, DataInv
    <3> QED BY <3>2, <3>4, <3>5, <3>6 DEF Inv, DataInv, SameStatus
  <2> QED BY <2>1, <2>2
<1>2. UNCHANGED <<store, loaded, doing, preview>>
  BY DEF Heartbeat, LeaseExpires
<1>3. \A q \in Process, s \in Run : Held(q, s)' <=> Held(q, s)
  BY <1>2 DEF Held
<1>4. WriterInv'
  BY <1>1, <1>3, HoldersStay DEF Inv, SameStatus
<1>5. ProcessInv'
  BY <1>2 DEF Inv, ProcessInv, Held
<1> QED BY <1>1, <1>4, <1>5 DEF Inv

LEMMA CrashInv == ASSUME Inv, NEW p \in Process, Crash(p) PROVE Inv'
<1>1. DataInv' /\ db' = db
  BY RollbackKeeps DEF Crash, Inv
<1>2. NotLoaded \in Managed /\ NotLoaded.status = "unloaded" /\ NotLoaded.advancing = "no"
  BY DEF NotLoaded, LoadedAs, Managed
<1>3. /\ loaded' \in [Process -> [Run -> Managed]]
      /\ \A r \in Run : loaded'[p][r] = NotLoaded
      /\ \A q \in Process \ {p} : loaded'[q] = loaded[q]
  BY <1>2 DEF Crash, Inv, ProcessInv
<1>4. \A q \in Process, s \in Run : Held(q, s)' <=> q # p /\ Held(q, s)
  BY <1>2, <1>3 DEF Held
<1>5. WriterInv'
  BY <1>1, <1>4, HoldersStay DEF Inv
<1>6. preview' \in [Process -> [run : Run \cup {None}, row : Row]]
  BY DEF Crash, Inv, ProcessInv, NoPreview, EmptyRow, Row
<1>7. \A q \in Process, s \in Run : loaded'[q][s].advancing # "no" => Held(q, s)'
  BY <1>2, <1>3, <1>4 DEF Inv, ProcessInv
<1>8. ProcessInv'
  BY <1>3, <1>4, <1>6, <1>7, IdleKeeps DEF Crash, Inv, ProcessInv
<1> QED BY <1>1, <1>5, <1>8 DEF Inv

\* A run is begun by one process, and nobody else holds it.
LEMMA LoadInv ==
    ASSUME Inv, DataInv', NEW p \in Process, NEW r \in Run, NEW m \in Managed,
           NEW d \in Doing, d.run = r, d.step \in {"start", "announce"},
           m.status # "unloaded", ~m.finalized, m.advancing = "no",
           loaded' = [loaded EXCEPT ![p][r] = m],
           doing' = [doing EXCEPT ![p] = d], UNCHANGED <<store, preview>>,
           db.runs[r].status \in {"unborn", "suspended"},
           db'.runs[r].status \notin {"unborn", "suspended"},
           \A s \in Run \ {r} : db'.runs[s].status = db.runs[s].status
    PROVE  Inv'
<1>1. /\ loaded' \in [Process -> [Run -> Managed]]
      /\ loaded'[p][r] = m
      /\ \A q \in Process, s \in Run : ~(q = p /\ s = r) => loaded'[q][s] = loaded[q][s]
  BY DEF Inv, ProcessInv
<1>2. \A q \in Process, s \in Run : ~(q = p /\ s = r) => (Held(q, s)' <=> Held(q, s))
  BY <1>1 DEF Held
<1>3. Held(p, r)' /\ \A q \in Process : ~Held(q, r)
  BY <1>1 DEF Held, Inv, WriterInv
<1>4. WriterInv'
  <2>1. \A q \in Process, s \in Run : Held(q, s)' =>
                db'.runs[s].status \notin {"unborn", "suspended"}
    BY <1>2, <1>3 DEF Inv, WriterInv
  <2>2. OneWriter'
    BY <1>2, <1>3 DEF Inv, WriterInv, OneWriter
  <2> QED BY <2>1, <2>2 DEF WriterInv
<1>5. /\ doing' \in [Process -> Doing] /\ doing'[p] = d
      /\ \A q \in Process \ {p} : doing'[q] = doing[q]
  BY DEF Inv, ProcessInv
<1>6. \A q \in Process : doing'[q].step \in {"start", "announce", "finalise"} =>
            Held(q, doing[q].run)'
  <2>1. ASSUME NEW q \in Process \ {p},
               doing'[q].step \in {"start", "announce", "finalise"}
        PROVE  Held(q, doing[q].run)'
    <3>1. Held(q, doing[q].run) /\ doing[q].run \in Run /\ doing'[q] = doing[q]
      BY <1>5, <2>1 DEF Inv, ProcessInv
    <3> QED BY <3>1, <1>1 DEF Held
  <2>2. Held(p, doing[p].run)'
    BY <1>1, <1>5 DEF Held
  <2> QED BY <2>1, <2>2
<1>7. \A q \in Process : doing'[q].step \notin {"nothing", "reconcile"} => doing'[q].run \in Run
  BY <1>5 DEF Inv, ProcessInv
<1>8. \A q \in Process, s \in Run : loaded'[q][s].advancing # "no" => Held(q, s)'
  BY <1>1, <1>2 DEF Inv, ProcessInv
<1>9. ProcessInv'
  BY <1>1, <1>5, <1>6, <1>7, <1>8 DEF Inv, ProcessInv
<1> QED BY <1>4, <1>9 DEF Inv

LEMMA BegunInv ==
    ASSUME Inv, NEW p \in Process, NEW r \in Run,
           NEW status \in {"running", "paused"}, NEW step \in {"start", "announce"},
           Begun(p, r, status, step)
    PROVE  Inv'
<1> DEFINE view == [View(p) EXCEPT !.runs[r] = EmptyRow("running", p)]
           m == LoadedAs(status, 0)
           d == [step |-> step, run |-> r, at |-> 0]
<1>1. View(p) \in Database /\ SameStatus(View(p), db) /\ Resumes(View(p))
  BY ViewIsData DEF Inv
<1>2. EmptyRow("running", p) \in Row /\ EmptyRow("running", p).status = "running"
  BY DEF EmptyRow, Row, Active
<1>3. /\ view \in Database /\ view.checkpoints = View(p).checkpoints
      /\ view.runs[r].status = "running"
      /\ \A s \in Run \ {r} : view.runs[s] = View(p).runs[s]
  BY <1>1, <1>2 DEF Database
<1>4. Resumes(view)
  <2> HIDE DEF view
  <2> QED BY <1>1, <1>3, ResumesTransfers
<1>5. DataInv' /\ SameStatus(db', view)
  <2> HIDE DEF view
  <2>1. Commit(p, view)
    BY DEF Begun, view
  <2> QED BY <1>3, <1>4, <2>1, CommitKeeps
<1>6. /\ m \in Managed /\ m.status # "unloaded" /\ ~m.finalized /\ m.advancing = "no"
      /\ d \in Doing
  BY DEF LoadedAs, Managed, Doing, Steps
<1>7. /\ loaded' = [loaded EXCEPT ![p][r] = m] /\ doing' = [doing EXCEPT ![p] = d]
      /\ UNCHANGED <<store, preview>> /\ db.runs[r].status = "unborn"
  BY DEF Begun
<1>8. /\ db'.runs[r].status = "running"
      /\ \A s \in Run \ {r} : db'.runs[s].status = db.runs[s].status
  <2> HIDE DEF view
  <2> QED BY <1>1, <1>3, <1>5 DEF SameStatus
<1> HIDE DEF m
<1> QED BY <1>5, <1>6, <1>7, <1>8, LoadInv

LEMMA RestoreInv ==
    ASSUME Inv, NEW p \in Process, NEW c \in Checkpoint, RestoreRun(p, c)
    PROVE  Inv'
<1> DEFINE k == View(p).checkpoints[c]
<1>1. View(p) \in Database
  BY ViewIsData DEF Inv
<1>2. k.run \in Run /\ k.at \in Nat
  BY <1>1 DEF RestoreRun, Resumable, AtHead, Database
<1>3. /\ doing' \in [Process -> Doing]
      /\ doing'[p].step = "reclaim" /\ doing'[p].run \in Run
      /\ \A q \in Process \ {p} : doing'[q] = doing[q]
  BY <1>2 DEF RestoreRun, Inv, ProcessInv, Doing, Steps
<1>4. UNCHANGED <<db, draft, writer, store, loaded, preview>>
  BY DEF RestoreRun
<1>5. DataInv'
  BY <1>4, UntouchedKeeps DEF Inv, Untouched
<1>6. \A q \in Process, s \in Run : Held(q, s)' <=> Held(q, s)
  BY <1>4 DEF Held
<1>7. WriterInv'
  BY <1>4, <1>6, HoldersStay DEF Inv
<1>8. /\ \A q \in Process : doing'[q].step \in {"start", "announce", "finalise"} =>
                Held(q, doing[q].run)'
      /\ \A q \in Process : doing'[q].step \notin {"nothing", "reconcile"} => doing'[q].run \in Run
  BY <1>3, <1>4 DEF Held, Inv, ProcessInv
<1>9. ProcessInv'
  BY <1>3, <1>4, <1>8 DEF Inv, ProcessInv, Held
<1> QED BY <1>5, <1>7, <1>9 DEF Inv

LEMMA ReclaimInv == ASSUME Inv, NEW p \in Process, ReclaimRun(p) PROVE Inv'
<1> DEFINE r == doing[p].run
<1>1. /\ r \in Run /\ doing[p] \in Doing /\ doing[p].step = "reclaim"
      /\ UNCHANGED <<store, preview>>
  BY DEF ReclaimRun, Inv, ProcessInv
<1>2. View(p) \in Database /\ SameStatus(View(p), db) /\ Resumes(View(p))
  BY ViewIsData DEF Inv
<1>3. CASE doing' = [doing EXCEPT ![p].step = "announce"]
  <2> DEFINE view == [View(p) EXCEPT !.runs[r].status = "paused", !.runs[r].owner = p]
             m == LoadedAs("paused", doing[p].at)
             d == [doing[p] EXCEPT !.step = "announce"]
  <2>1. doing'[p].step = "announce"
    BY <1>1, <1>3 DEF Inv, ProcessInv, Doing
  <2>2. /\ View(p).runs[r].status = "suspended" /\ Commit(p, view)
        /\ loaded' = [loaded EXCEPT ![p][r] = m]
    <3>1. Nothing.step = "nothing" /\ doing' # [doing EXCEPT ![p] = Nothing]
      BY <2>1 DEF Nothing, Inv, ProcessInv
    <3> QED BY <3>1 DEF ReclaimRun
  <2>3. View(p).runs[r] \in Row
    BY <1>1, <1>2 DEF Database
  <2>4. /\ [View(p).runs[r] EXCEPT !.status = "paused", !.owner = p] \in Row
        /\ [View(p).runs[r] EXCEPT !.status = "paused", !.owner = p].status = "paused"
    BY <2>3 DEF Row, Active
  <2>5. /\ view \in Database /\ view.checkpoints = View(p).checkpoints
        /\ view.runs[r].status = "paused"
        /\ \A s \in Run \ {r} : view.runs[s] = View(p).runs[s]
    BY <1>1, <1>2, <2>4 DEF Database, Row
  <2> HIDE DEF view
  <2>6. Resumes(view)
    BY <1>2, <2>5, ResumesTransfers
  <2>7. DataInv' /\ SameStatus(db', view)
    BY <2>2, <2>5, <2>6, CommitKeeps
  <2>8. /\ m \in Managed /\ m.status # "unloaded" /\ ~m.finalized /\ m.advancing = "no"
        /\ d \in Doing /\ d.run = r /\ d.step = "announce"
    BY <1>1 DEF LoadedAs, Managed, Doing, Steps
  <2>9. doing' = [doing EXCEPT ![p] = d]
    BY <1>1, <1>3
  <2>10. /\ db.runs[r].status = "suspended" /\ db'.runs[r].status = "paused"
         /\ \A s \in Run \ {r} : db'.runs[s].status = db.runs[s].status
    BY <1>1, <1>2, <2>2, <2>5, <2>7 DEF SameStatus
  <2> HIDE DEF m, d, r
  <2> QED BY <1>1, <2>2, <2>7, <2>8, <2>9, <2>10, LoadInv
<1>4. CASE doing' = [doing EXCEPT ![p] = Nothing] /\ UNCHANGED loaded
  <2>1. DataInv' /\ db' = db
    <3>1. CASE Rollback(p)
      BY <3>1, RollbackKeeps DEF Inv
    <3>2. CASE LockedOut(p)
      BY <3>2, UntouchedKeeps DEF Inv, LockedOut
    <3>3. CASE doing' = [doing EXCEPT ![p].step = "announce"]
      <4>1. FALSE
        BY <1>1, <1>4, <3>3 DEF Inv, ProcessInv, Doing, Nothing
      <4> QED BY <4>1
    <3> QED BY <3>1, <3>2, <3>3 DEF ReclaimRun
  <2> QED BY <1>1, <1>4, <2>1, OnlyDataKeeps DEF Inv, ProcessInv
<1> QED BY <1>3, <1>4 DEF ReclaimRun

LEMMA StartInv == ASSUME Inv, NEW p \in Process, StartRun(p) PROVE Inv'
<1> DEFINE r == doing[p].run
           m == loaded[p][r]
<1>1. r \in Run /\ Held(p, r) /\ m \in Managed
  BY DEF StartRun, Inv, ProcessInv
<1>2. PICK task \in {"none", "ticking"} : Try(p, r, [m EXCEPT !.task = task], m, TRUE)
  BY DEF StartRun
<1>3. /\ [m EXCEPT !.task = task] \in Managed
      /\ [m EXCEPT !.task = task].status = m.status
      /\ [m EXCEPT !.task = task].finalized = m.finalized
  BY <1>1 DEF Managed
<1>4. m.status # "unloaded" /\ ~m.finalized
  BY <1>1 DEF Held
<1>5. doing' = [doing EXCEPT ![p] = Nothing] /\ UNCHANGED <<store, preview>>
  BY DEF StartRun
<1> HIDE DEF r, m
<1> QED BY <1>1, <1>2, <1>3, <1>4, <1>5, TryStep DEF m

LEMMA AnnounceInv == ASSUME Inv, NEW p \in Process, AnnounceRestore(p) PROVE Inv'
<1>0. PICK r \in Run : r = doing[p].run
  BY DEF AnnounceRestore, Inv, ProcessInv
<1> DEFINE m == loaded[p][r]
<1>1. Held(p, r) /\ m \in Managed
  BY <1>0 DEF AnnounceRestore, Inv, ProcessInv
<1>2. doing' = [doing EXCEPT ![p] = Nothing] /\ UNCHANGED <<store, preview>>
  BY DEF AnnounceRestore
<1>3. CASE Try(p, r, m, m, FALSE)
  <2>1. m.status # "unloaded" /\ ~m.finalized
    BY <1>1 DEF Held
  <2> HIDE DEF m
  <2> QED BY <1>1, <1>2, <1>3, <2>1, TryStep
<1>4. CASE LockedOut(p) /\ loaded' = [loaded EXCEPT ![p][r] = NotLoaded]
  <2>1. DataInv' /\ db' = db
    BY <1>4, UntouchedKeeps DEF LockedOut, Inv
  <2>2. NotLoaded \in Managed /\ NotLoaded.status = "unloaded" /\ NotLoaded.advancing = "no"
    BY DEF NotLoaded, LoadedAs, Managed
  <2>3. /\ loaded' \in [Process -> [Run -> Managed]] /\ loaded'[p][r] = NotLoaded
        /\ \A q \in Process, s \in Run : ~(q = p /\ s = r) => loaded'[q][s] = loaded[q][s]
    BY <1>1, <1>4, <2>2 DEF Inv, ProcessInv
  <2>4. /\ ~Held(p, r)'
        /\ \A q \in Process, s \in Run : ~(q = p /\ s = r) => (Held(q, s)' <=> Held(q, s))
    BY <2>2, <2>3 DEF Held
  <2>5. WriterInv'
    BY <2>1, <2>4, HoldersStay DEF Inv
  <2>6. \A q \in Process, s \in Run : loaded'[q][s].advancing # "no" => Held(q, s)'
    BY <2>2, <2>3, <2>4 DEF Inv, ProcessInv
  <2>7. ProcessInv'
    BY <1>2, <2>3, <2>4, <2>6, IdleKeeps DEF Inv, ProcessInv
  <2> QED BY <2>1, <2>5, <2>7 DEF Inv
<1> QED BY <1>0, <1>3, <1>4 DEF AnnounceRestore

LEMMA BeginTickInv ==
    ASSUME Inv, NEW p \in Process, NEW r \in Run, BeginTick(p, r)
    PROVE  Inv'
<1> DEFINE m == loaded[p][r]
<1>1. m \in Managed /\ m.status # "unloaded" /\ ~m.finalized
  BY DEF BeginTick, Held, Inv, ProcessInv
<1>2. PICK kind \in {"realtime", "step"} :
          Try(p, r, [m EXCEPT !.advancing = kind], Broken([m EXCEPT !.advancing = kind]), FALSE)
  BY DEF BeginTick
<1> DEFINE began == [m EXCEPT !.advancing = kind]
<1>3. began \in Managed /\ began.status = m.status /\ began.finalized = m.finalized
  BY <1>1 DEF Managed
<1>4. /\ Broken(began) \in Managed /\ Broken(began).status = m.status
      /\ Broken(began).finalized = m.finalized
  BY <1>3, BrokenIsManaged
<1>5. UNCHANGED <<store, preview, doing>> /\ doing[p] = Nothing /\ Held(p, r)
  BY DEF BeginTick, Working
<1> HIDE DEF m, began
<1> QED BY <1>1, <1>2, <1>3, <1>4, <1>5, TryStep DEF began

LEMMA SaveMemoryInv ==
    ASSUME Inv, NEW p \in Process, NEW r \in Run, SaveMemory(p, r)
    PROVE  Inv'
<1>1. View(p) \in Database /\ SameStatus(View(p), db) /\ Resumes(View(p))
  BY ViewIsData DEF Inv
<1>2. Held(p, r)
  BY DEF SaveMemory, Inv, ProcessInv
<1>3. View(p).runs[r].status # "suspended"
  BY <1>1, <1>2 DEF Inv, WriterInv, SameStatus
<1>4. /\ Claimed(View(p), p, r) \in Database /\ Resumes(Claimed(View(p), p, r))
      /\ SameStatus(Claimed(View(p), p, r), db)
  BY <1>1, <1>3, AppendedIsData DEF SameStatus
<1>5. DataInv' /\ SameStatus(db', db)
  BY <1>4, CommitKeeps DEF SaveMemory, SameStatus
<1>6. UNCHANGED <<store, loaded, doing, preview>> /\ doing[p] = Nothing
  BY DEF SaveMemory, Working
<1> QED BY <1>5, <1>6, OnlyDataKeeps DEF SameStatus, Inv, ProcessInv

LEMMA EndTickInv ==
    ASSUME Inv, NEW p \in Process, NEW r \in Run, EndTick(p, r)
    PROVE  Inv'
<1> DEFINE m == loaded[p][r]
           done == IF m.stopping THEN m ELSE [m EXCEPT !.advancing = "no"]
<1>1. Held(p, r) /\ m \in Managed /\ m.status # "unloaded" /\ ~m.finalized
  BY DEF EndTick, Held, Inv, ProcessInv
<1>2. Try(p, r, done, Broken(m), TRUE)
  BY DEF EndTick
<1>3. done \in Managed /\ done.status = m.status /\ done.finalized = m.finalized
  BY <1>1 DEF Managed
<1>4. /\ Broken(m) \in Managed /\ Broken(m).status = m.status
      /\ Broken(m).finalized = m.finalized
  BY <1>1, BrokenIsManaged
<1>5. /\ DataInv' /\ WriterInv'
      /\ loaded' \in [Process -> [Run -> Managed]]
      /\ \A q \in Process, s \in Run : Held(q, s)' <=> Held(q, s)
      /\ \A q \in Process, s \in Run : loaded'[q][s].advancing # "no" => Held(q, s)'
  <2> HIDE DEF m, done
  <2> QED BY <1>1, <1>2, <1>3, <1>4, TryKeeps
<1>6. doing[p] = Nothing /\ UNCHANGED <<store, preview>>
  BY DEF EndTick, Working
<1>7. CASE doing' = doing
  <2>1. ProcessInv'
    BY <1>5, <1>6, <1>7, IdleKeeps DEF Inv, ProcessInv
  <2> QED BY <1>5, <2>1 DEF Inv
<1>8. CASE doing' = [doing EXCEPT ![p] = [step |-> "finalise", run |-> r, at |-> 0]]
  <2> DEFINE d == [step |-> "finalise", run |-> r, at |-> 0]
  <2>1. d \in Doing
    BY DEF Doing, Steps
  <2>2. /\ doing' \in [Process -> Doing] /\ doing'[p] = d
        /\ \A q \in Process \ {p} : doing'[q] = doing[q]
    BY <1>8, <2>1 DEF Inv, ProcessInv
  <2>3. ASSUME NEW q \in Process, doing'[q].step \in {"start", "announce", "finalise"}
        PROVE  Held(q, doing[q].run)'
    <3>1. \A s \in Run : Held(q, s) => loaded'[q][s].status # "unloaded"
                                     /\ ~loaded'[q][s].finalized
      BY <1>5 DEF Held
    <3>2. CASE q = p
      BY <1>1, <2>2, <3>1, <3>2 DEF Held
    <3>3. CASE q # p
      BY <2>2, <2>3, <3>1, <3>3 DEF Held, Inv, ProcessInv
    <3> QED BY <3>2, <3>3
  <2>4. \A q \in Process : doing'[q].step \notin {"nothing", "reconcile"} => doing'[q].run \in Run
    <3>1. d.run \in Run
      OBVIOUS
    <3> HIDE DEF d
    <3> QED BY <2>2, <3>1 DEF Inv, ProcessInv
  <2>5. ProcessInv'
    BY <1>5, <1>6, <2>2, <2>3, <2>4 DEF Inv, ProcessInv
  <2> QED BY <1>5, <2>5 DEF Inv
<1> QED BY <1>7, <1>8 DEF EndTick

LEMMA FinaliseStopInv == ASSUME Inv, NEW p \in Process, FinaliseStop(p) PROVE Inv'
<1> DEFINE r == doing[p].run
           m == loaded[p][r]
           k == [m EXCEPT !.task = Broken(m).task]
<1>1. r \in Run /\ Held(p, r) /\ m \in Managed
  BY DEF FinaliseStop, Inv, ProcessInv
<1>2. m.status # "unloaded" /\ ~m.finalized
  BY <1>1 DEF Held
<1>3. k \in Managed /\ k.status = m.status /\ k.finalized = m.finalized
  <2>1. Broken(m).task \in {"none", "ticking", "failed"}
    BY <1>1, BrokenIsManaged DEF Managed
  <2> QED BY <1>1, <2>1 DEF Managed
<1>4. /\ Finalise(p, r, k, "stopped") /\ UNCHANGED <<store, preview>>
      /\ doing' = [doing EXCEPT ![p] = Nothing]
  BY DEF FinaliseStop
<1> HIDE DEF r, m, k
<1> QED BY <1>1, <1>2, <1>3, <1>4, FinaliseStep

LEMMA TickBreaksInv ==
    ASSUME Inv, NEW p \in Process, NEW r \in Run,
           TickRaises(p, r) \/ ResearchFails(p, r)
    PROVE  Inv'
<1> DEFINE m == loaded[p][r]
<1>1. Held(p, r) /\ m \in Managed /\ doing[p] = Nothing
  BY DEF TickRaises, ResearchFails, Working, Inv, ProcessInv
<1>2. /\ loaded' = [loaded EXCEPT ![p][r] = Broken(m)]
      /\ UNCHANGED <<store, preview, doing>>
  BY DEF TickRaises, ResearchFails
<1>3. Broken(m) \in Managed /\ Broken(m).advancing = "no"
  BY <1>1, BrokenIsManaged
<1>4. DataInv' /\ \A s \in Run : db'.runs[s].status \in {"unborn", "suspended"} =>
                                  db'.runs[s].status = db.runs[s].status
  <2>1. CASE TickRaises(p, r)
    BY <2>1, UntouchedKeeps DEF TickRaises, Untouched, Inv
  <2>2. CASE ResearchFails(p, r)
    <3> DEFINE view == [View(p) EXCEPT !.runs[r].status = "capture_failed",
                                       !.runs[r].complete = FALSE]
    <3>1. View(p) \in Database /\ SameStatus(View(p), db) /\ Resumes(View(p))
      BY ViewIsData DEF Inv
    <3>2. View(p).runs[r] \in Row
      BY <3>1 DEF Database
    <3>3. [View(p).runs[r] EXCEPT !.status = "capture_failed", !.complete = FALSE] \in Row
      BY <3>2 DEF Row, Terminal
    <3>4. /\ view \in Database /\ view.checkpoints = View(p).checkpoints
          /\ view.runs[r].status = "capture_failed"
          /\ \A s \in Run \ {r} : view.runs[s] = View(p).runs[s]
      BY <3>1, <3>2, <3>3 DEF Database, Row
    <3>5. Commit(p, view)
      BY <2>2 DEF ResearchFails
    <3> HIDE DEF view
    <3>6. Resumes(view)
      BY <3>1, <3>4, ResumesTransfers
    <3>7. DataInv' /\ SameStatus(db', view)
      BY <3>4, <3>5, <3>6, CommitKeeps
    <3> QED BY <3>1, <3>4, <3>7 DEF SameStatus
  <2> QED BY <2>1, <2>2
<1> HIDE DEF m
<1> QED BY <1>1, <1>2, <1>3, <1>4, KeepStep

LEMMA PauseInv ==
    ASSUME Inv, NEW p \in Process, NEW r \in Run, Pause(p, r) \/ Resume(p, r)
    PROVE  Inv'
<1> DEFINE m == loaded[p][r]
           paused == [m EXCEPT !.status = "paused"]
           running == [m EXCEPT !.status = "running"]
           ticking == [running EXCEPT !.task = "ticking"]
<1>1. /\ Held(p, r) /\ doing[p] = Nothing /\ UNCHANGED <<store, preview, doing>>
      /\ m \in Managed /\ ~m.finalized
  BY DEF Pause, Resume, Free, Held, Inv, ProcessInv
<1>2. /\ paused \in Managed /\ paused.status # "unloaded" /\ ~paused.finalized
      /\ running \in Managed /\ running.status # "unloaded" /\ ~running.finalized
  BY <1>1 DEF Managed
<1>3. ticking \in Managed /\ ticking.status # "unloaded" /\ ~ticking.finalized
  BY <1>2 DEF Managed
<1>4. Try(p, r, paused, paused, TRUE) \/ Try(p, r, ticking, running, TRUE)
  BY DEF Pause, Resume
<1> HIDE DEF m, paused, running, ticking
<1> QED BY <1>1, <1>2, <1>3, <1>4, TryStep

LEMMA InterveneInv ==
    ASSUME Inv, NEW p \in Process, NEW r \in Run, Intervene(p, r)
    PROVE  Inv'
<1>1. /\ Held(p, r) /\ doing[p] = Nothing /\ UNCHANGED <<store, preview, doing>>
      /\ loaded[p][r] \in Managed /\ loaded[p][r].status # "unloaded"
      /\ ~loaded[p][r].finalized
      /\ Try(p, r, loaded[p][r], loaded[p][r], FALSE)
  BY DEF Intervene, Free, Held, Inv, ProcessInv
<1> QED BY <1>1, TryStep

LEMMA StopRunnerInv ==
    ASSUME Inv, NEW p \in Process, NEW r \in Run, NEW m \in Managed,
           m.status = loaded[p][r].status, m.finalized = loaded[p][r].finalized,
           StopRunner(p, r, m), doing[p] = Nothing, UNCHANGED <<store, preview, doing>>
    PROVE  Inv'
<1>1. Held(p, r) /\ m.status # "unloaded" /\ ~m.finalized
  BY DEF StopRunner, Held
<1>2. CASE Finalise(p, r, m, "stopped")
  BY <1>1, <1>2, FinaliseStep
<1>3. CASE /\ loaded' = [loaded EXCEPT ![p][r] = [m EXCEPT !.status = "stopped", !.stopping = TRUE]]
           /\ Untouched
  <2> DEFINE k == [m EXCEPT !.status = "stopped", !.stopping = TRUE]
  <2>1. k \in Managed /\ k.status # "unloaded" /\ ~k.finalized
    BY <1>1 DEF Managed
  <2>2. DataInv' /\ db' = db
    BY <1>3, UntouchedKeeps DEF Inv
  <2> HIDE DEF k
  <2> QED BY <1>1, <1>3, <2>1, <2>2, KeepStep DEF k
<1> QED BY <1>2, <1>3 DEF StopRunner

LEMMA StopInv ==
    ASSUME Inv, NEW p \in Process, NEW r \in Run, Stop(p, r) \/ StopToClose(p, r)
    PROVE  Inv'
<1> DEFINE m == loaded[p][r]
           k == [m EXCEPT !.task = IF m.advancing = "no" THEN "failed" ELSE @]
<1>1. /\ m \in Managed /\ doing[p] = Nothing /\ UNCHANGED <<store, preview, doing>>
  BY DEF Stop, StopToClose, Free, Inv, ProcessInv
<1>2. k \in Managed /\ k.status = m.status /\ k.finalized = m.finalized
  BY <1>1 DEF Managed
<1>3. StopRunner(p, r, m) \/ StopRunner(p, r, k)
  BY DEF Stop, StopToClose
<1> HIDE DEF k
<1> QED BY <1>1, <1>2, <1>3, StopRunnerInv

LEMMA FinaliseFailedInv ==
    ASSUME Inv, NEW p \in Process, NEW r \in Run, FinaliseFailed(p, r)
    PROVE  Inv'
<1> DEFINE m == loaded[p][r]
           k == [m EXCEPT !.task = "none"]
<1>1. /\ Held(p, r) /\ m \in Managed /\ doing[p] = Nothing
      /\ UNCHANGED <<store, preview, doing>> /\ Finalise(p, r, k, "failed")
  BY DEF FinaliseFailed, Inv, ProcessInv
<1>2. k \in Managed /\ k.status # "unloaded" /\ ~k.finalized
  BY <1>1 DEF Managed, Held
<1> HIDE DEF m, k
<1> QED BY <1>1, <1>2, FinaliseStep

LEMMA SuspendInv ==
    ASSUME Inv, NEW p \in Process, NEW r \in Run, Suspend(p, r)
    PROVE  Inv'
<1> DEFINE m == loaded[p][r]
           view == [View(p) EXCEPT !.runs[r].status = "suspended", !.runs[r].owner = None]
           k == [m EXCEPT !.status = "stopped", !.task = "failed"]
<1>1. View(p) \in Database /\ SameStatus(View(p), db) /\ Resumes(View(p))
  BY ViewIsData DEF Inv
<1>2. /\ Held(p, r) /\ m \in Managed /\ ~m.finalized
      /\ doing[p] = Nothing /\ UNCHANGED <<store, preview, doing>>
  BY DEF Suspend, Suspendable, Held, Inv, ProcessInv
<1>3. CASE Commit(p, view) /\ loaded' = [loaded EXCEPT ![p][r] = NotLoaded]
  <2>1. View(p).runs[r] \in Row
    BY <1>1 DEF Database
  <2>2. [View(p).runs[r] EXCEPT !.status = "suspended", !.owner = None] \in Row
    BY <2>1 DEF Row
  <2>3. /\ view \in Database /\ view.checkpoints = View(p).checkpoints
        /\ view.runs[r].status = "suspended" /\ view.runs[r].owner = None
        /\ view.runs[r].records = View(p).runs[r].records
        /\ \A s \in Run \ {r} : view.runs[s] = View(p).runs[s]
    BY <1>1, <2>1, <2>2 DEF Database, Row
  <2>4. PICK c \in Checkpoint : View(p).checkpoints[c].run = r /\ AtHead(View(p), c)
    BY DEF Suspend, Suspendable
  <2> HIDE DEF view
  <2>5. view.checkpoints[c].run = r /\ AtHead(view, c)
    BY <2>3, <2>4 DEF AtHead, Head
  <2>6. Resumes(view)
    <3> SUFFICES ASSUME NEW s \in Run, view.runs[s].status = "suspended"
                 PROVE  /\ view.runs[s].owner = None
                        /\ \E e \in Checkpoint : view.checkpoints[e].run = s /\ AtHead(view, e)
      BY DEF Resumes
    <3>1. CASE s = r
      BY <2>3, <2>5, <3>1
    <3>2. CASE s # r
      <4>1. view.runs[s] = View(p).runs[s]
        BY <2>3, <3>2
      <4>2. PICK e \in Checkpoint : View(p).checkpoints[e].run = s /\ AtHead(View(p), e)
        BY <1>1, <4>1 DEF Resumes
      <4>3. view.checkpoints[e].run = s /\ AtHead(view, e)
        BY <2>3, <4>1, <4>2 DEF AtHead, Head
      <4> QED BY <1>1, <4>1, <4>3 DEF Resumes
    <3> QED BY <3>1, <3>2
  <2>7. DataInv' /\ SameStatus(db', view)
    BY <1>3, <2>3, <2>6, CommitKeeps
  <2>8. NotLoaded \in Managed /\ NotLoaded.status = "unloaded" /\ NotLoaded.advancing = "no"
    BY DEF NotLoaded, LoadedAs, Managed
  <2>9. /\ loaded' \in [Process -> [Run -> Managed]] /\ loaded'[p][r] = NotLoaded
        /\ \A q \in Process, s \in Run : ~(q = p /\ s = r) => loaded'[q][s] = loaded[q][s]
    BY <1>3, <2>8 DEF Inv, ProcessInv
  <2>10. /\ ~Held(p, r)'
         /\ \A q \in Process, s \in Run : ~(q = p /\ s = r) => (Held(q, s)' <=> Held(q, s))
    BY <2>8, <2>9 DEF Held
  <2>11. \A q \in Process : ~Held(q, r)'
    BY <1>2, <2>10 DEF Inv, WriterInv, OneWriter
  <2>12. \A s \in Run \ {r} : db'.runs[s].status = db.runs[s].status
    BY <1>1, <2>3, <2>7 DEF SameStatus
  <2>13. WriterInv'
    BY <2>10, <2>11, <2>12 DEF Inv, WriterInv, OneWriter
  <2>14. \A q \in Process, s \in Run : loaded'[q][s].advancing # "no" => Held(q, s)'
    BY <2>8, <2>9, <2>10 DEF Inv, ProcessInv
  <2>15. ProcessInv'
    BY <1>2, <2>9, <2>10, <2>14, IdleKeeps DEF Inv, ProcessInv
  <2> QED BY <2>7, <2>13, <2>15 DEF Inv
<1>4. CASE /\ LockedOut(p) \/ Untouched
           /\ loaded' = [loaded EXCEPT ![p][r].status = "stopped", ![p][r].task = "failed"]
  <2>1. DataInv' /\ db' = db
    BY <1>4, UntouchedKeeps DEF LockedOut, Inv
  <2>2. k \in Managed /\ k.status # "unloaded" /\ ~k.finalized
    BY <1>2 DEF Managed
  <2>3. loaded' = [loaded EXCEPT ![p][r] = k]
    BY <1>2, <1>4 DEF Inv, ProcessInv, Managed
  <2> HIDE DEF k, m
  <2> QED BY <1>2, <2>1, <2>2, <2>3, KeepStep
<1> QED BY <1>3, <1>4 DEF Suspend

LEMMA SaveCheckpointInv ==
    ASSUME Inv, NEW p \in Process, NEW r \in Run, NEW c \in Checkpoint,
           SaveCheckpoint(p, r, c)
    PROVE  Inv'
<1> DEFINE m == loaded[p][r]
           point == [run |-> r, at |-> m.at]
           claimed == Claimed(View(p), p, r)
           view == [claimed EXCEPT !.checkpoints[c] = point]
<1>1. View(p) \in Database /\ SameStatus(View(p), db) /\ Resumes(View(p))
  BY ViewIsData DEF Inv
<1>2. Held(p, r) /\ m.at \in Nat /\ doing[p] = Nothing
  BY DEF SaveCheckpoint, Free, Inv, ProcessInv, Managed
<1>3. View(p).runs[r].status # "suspended" /\ db.runs[r].status # "suspended"
  BY <1>1, <1>2 DEF Inv, WriterInv, SameStatus
<1>4. claimed \in Database /\ Resumes(claimed) /\ SameStatus(claimed, View(p))
  BY <1>1, <1>3, AppendedIsData
<1>5. UNCHANGED <<store, loaded, doing, preview>>
  BY DEF SaveCheckpoint
<1>6. CASE Commit(p, View(p))
  <2>1. DataInv' /\ SameStatus(db', db)
    BY <1>1, <1>6, CommitKeeps DEF SameStatus
  <2> QED BY <1>2, <1>5, <2>1, OnlyDataKeeps DEF SameStatus, Inv, ProcessInv
<1>7. CASE Commit(p, view)
  <2>1. point \in [run : Run \cup {None}, at : Nat]
    BY <1>2
  <2>2. claimed.checkpoints[c].run \notin Run
    <3>1. claimed.checkpoints = View(p).checkpoints
      BY <1>1 DEF Claimed, Database
    <3> QED BY <3>1, ArchiveAssumption DEF SaveCheckpoint, NoCheckpoint
  <2>3. /\ view \in Database /\ view.runs = claimed.runs
        /\ \A e \in Checkpoint \ {c} : view.checkpoints[e] = claimed.checkpoints[e]
    <3> HIDE DEF claimed, point
    <3> QED BY <1>4, <2>1 DEF Database
  <2> HIDE DEF view, claimed
  <2>4. Resumes(view)
    BY <1>4, <2>2, <2>3, ResumesTransfers
  <2>5. DataInv' /\ SameStatus(db', db)
    BY <1>1, <1>4, <1>7, <2>3, <2>4, CommitKeeps DEF SameStatus
  <2> QED BY <1>2, <1>5, <2>5, OnlyDataKeeps DEF SameStatus, Inv, ProcessInv
<1> QED BY <1>6, <1>7 DEF SaveCheckpoint

LEMMA DeleteInv ==
    ASSUME Inv, NEW p \in Process, NEW r \in Run, DeleteRun(p, r)
    PROVE  Inv'
<1> DEFINE points == [c \in Checkpoint |->
                         IF db.checkpoints[c].run = r THEN [run |-> None, at |-> 1]
                                                      ELSE db.checkpoints[c]]
           view == [db EXCEPT !.runs[r] = EmptyRow("deleted", None), !.checkpoints = points]
<1>1. EmptyRow("deleted", None) \in Row /\ EmptyRow("deleted", None).status = "deleted"
  BY DEF EmptyRow, Row
<1>2. points \in [Checkpoint -> [run : Run \cup {None}, at : Nat]]
  BY DEF Inv, DataInv, Database
<1>3. /\ view \in Database /\ view.checkpoints = points
      /\ view.runs[r].status = "deleted"
      /\ \A s \in Run \ {r} : view.runs[s] = db.runs[s]
  <2> HIDE DEF points
  <2> QED BY <1>1, <1>2 DEF Inv, DataInv, Database
<1>4. \A s \in Run \ {r}, c \in Checkpoint :
          db.checkpoints[c].run = s => points[c] = db.checkpoints[c]
  OBVIOUS
<1>5. Commit(p, view)
  BY DEF DeleteRun
<1> HIDE DEF view, points
<1>6. Resumes(view)
  <2>1. \A s \in Run : view.runs[s].status = "suspended" =>
            /\ view.runs[s] = db.runs[s]
            /\ \A c \in Checkpoint : db.checkpoints[c].run = s =>
                  view.checkpoints[c] = db.checkpoints[c]
    BY <1>3, <1>4
  <2> QED BY <2>1, ResumesTransfers DEF Inv, DataInv
<1>7. DataInv' /\ SameStatus(db', view)
  BY <1>3, <1>5, <1>6, CommitKeeps
<1>8. NotLoaded \in Managed /\ NotLoaded.status = "unloaded" /\ NotLoaded.advancing = "no"
  BY DEF NotLoaded, LoadedAs, Managed
<1>9. /\ loaded' \in [Process -> [Run -> Managed]] /\ loaded'[p][r] = NotLoaded
      /\ \A q \in Process, s \in Run : ~(q = p /\ s = r) => loaded'[q][s] = loaded[q][s]
  BY <1>8 DEF DeleteRun, Inv, ProcessInv
<1>10. /\ ~Held(p, r)'
       /\ \A q \in Process, s \in Run : ~(q = p /\ s = r) => (Held(q, s)' <=> Held(q, s))
  BY <1>8, <1>9 DEF Held
<1>11. WriterInv'
  BY <1>3, <1>7, <1>10, HoldersStay DEF Inv, SameStatus
<1>12. preview' \in [Process -> [run : Run \cup {None}, row : Row]]
  BY DEF DeleteRun, Inv, ProcessInv, NoPreview, EmptyRow, Row
<1>13. \A q \in Process, s \in Run : loaded'[q][s].advancing # "no" => Held(q, s)'
  BY <1>8, <1>9, <1>10 DEF Inv, ProcessInv
<1>14. doing' = doing /\ doing[p] = Nothing /\ store' = store
  BY DEF DeleteRun, Free
<1>15. ProcessInv'
  BY <1>9, <1>10, <1>12, <1>13, <1>14, IdleKeeps DEF Inv, ProcessInv
<1> QED BY <1>7, <1>11, <1>15 DEF Inv

LEMMA BeginCloseInv == ASSUME Inv, NEW p \in Process, BeginClose(p) PROVE Inv'
<1>1. DataInv' /\ db' = db
  BY UntouchedKeeps DEF BeginClose, Untouched, Inv
<1>2. store' \in [Process -> {"new", "open", "closing", "closed", "crashed"}]
  BY DEF BeginClose, Inv, ProcessInv
<1> QED BY <1>1, <1>2, OnlyDataKeeps DEF BeginClose, Free, Inv, ProcessInv

LEMMA CloseStoreInv == ASSUME Inv, NEW p \in Process, CloseStore(p) PROVE Inv'
<1> DEFINE view == [View(p) EXCEPT !.leases[p] = "closed"]
<1>1. View(p) \in Database /\ SameStatus(View(p), db) /\ Resumes(View(p))
  BY ViewIsData DEF Inv
<1>2. /\ view \in Database /\ view.runs = View(p).runs
      /\ view.checkpoints = View(p).checkpoints
  BY <1>1 DEF Database
<1>3. db' = view /\ draft' = view /\ writer' = None
  BY DEF CloseStore
<1> HIDE DEF view
<1>4. Resumes(view)
  BY <1>1, <1>2, ResumesTransfers
<1>5. DataInv' /\ SameStatus(db', db)
  BY <1>1, <1>2, <1>3, <1>4 DEF DataInv, SameStatus
<1>6. NotLoaded \in Managed /\ NotLoaded.status = "unloaded" /\ NotLoaded.advancing = "no"
  BY DEF NotLoaded, LoadedAs, Managed
<1>7. /\ loaded' \in [Process -> [Run -> Managed]]
      /\ \A r \in Run : loaded'[p][r] = NotLoaded
      /\ \A q \in Process \ {p} : loaded'[q] = loaded[q]
  BY <1>6 DEF CloseStore, Inv, ProcessInv
<1>8. \A q \in Process, s \in Run : Held(q, s)' <=> q # p /\ Held(q, s)
  BY <1>6, <1>7 DEF Held
<1>9. WriterInv'
  BY <1>5, <1>8, HoldersStay DEF Inv, SameStatus
<1>10. preview' \in [Process -> [run : Run \cup {None}, row : Row]]
  BY DEF CloseStore, Inv, ProcessInv, NoPreview, EmptyRow, Row
<1>11. \A q \in Process, s \in Run : loaded'[q][s].advancing # "no" => Held(q, s)'
  BY <1>6, <1>7, <1>8 DEF Inv, ProcessInv
<1>12. /\ store' \in [Process -> {"new", "open", "closing", "closed", "crashed"}]
       /\ doing' = doing /\ doing[p] = Nothing
  BY DEF CloseStore, Inv, ProcessInv
<1>13. ProcessInv'
  BY <1>7, <1>8, <1>10, <1>11, <1>12, IdleKeeps DEF Inv
<1> QED BY <1>5, <1>9, <1>13 DEF Inv

-----------------------------------------------------------------------------
\* The inductive invariant: what is open changes no status, what is held is
\* neither unborn nor suspended, and what is suspended is left alone.
THEOREM Invariance == Spec => []Inv
<1>1. Init => Inv
  BY InitInv
<1>2. Inv /\ [Next]_vars => Inv'
  <2> SUFFICES ASSUME Inv, [Next]_vars PROVE Inv'
    OBVIOUS
  <2>1. CASE UNCHANGED vars
    <3>1. DataInv'
      BY <2>1, UntouchedKeeps DEF vars, Untouched, Inv
    <3>2. ProcessInv' /\ WriterInv'
      BY <2>1 DEF vars, Inv, ProcessInv, WriterInv, OneWriter, Held
    <3> QED BY <3>1, <3>2 DEF Inv
  <2>2. CASE Next
    <3>1. PICK p \in Process :
             \/ OpenStore(p) \/ ReconcilePriorRuns(p) \/ Catalog(p)
             \/ Heartbeat(p) \/ LeaseExpires(p) \/ Crash(p)
             \/ ReclaimRun(p) \/ StartRun(p) \/ AnnounceRestore(p) \/ FinaliseStop(p)
             \/ BeginClose(p) \/ CloseStore(p)
             \/ \E c \in Checkpoint : RestoreRun(p, c)
             \/ \E r \in Run :
                  \/ BeginRun(p, r) \/ BeginTick(p, r) \/ SaveMemory(p, r) \/ EndTick(p, r)
                  \/ TickRaises(p, r) \/ ResearchFails(p, r)
                  \/ Pause(p, r) \/ Resume(p, r) \/ Intervene(p, r) \/ Stop(p, r)
                  \/ Preview(p, r) \/ DeleteRun(p, r)
                  \/ Suspend(p, r) \/ StopToClose(p, r) \/ FinaliseFailed(p, r)
                  \/ \E c \in Checkpoint : BranchRun(p, c, r) \/ SaveCheckpoint(p, r, c)
      BY <2>2 DEF Next
    <3>2. CASE OpenStore(p)
      BY <3>2, OpenStoreInv
    <3>3. CASE ReconcilePriorRuns(p) \/ Catalog(p) \/ \E r \in Run : Preview(p, r)
      BY <3>3, ReconcileInv
    <3>4. CASE Heartbeat(p) \/ LeaseExpires(p)
      BY <3>4, LeaseInv
    <3>5. CASE Crash(p)
      BY <3>5, CrashInv
    <3>6. CASE ReclaimRun(p) \/ \E c \in Checkpoint : RestoreRun(p, c)
      BY <3>6, ReclaimInv, RestoreInv
    <3>7. CASE StartRun(p) \/ AnnounceRestore(p)
      BY <3>7, StartInv, AnnounceInv
    <3>8. CASE FinaliseStop(p)
      BY <3>8, FinaliseStopInv
    <3>9. CASE BeginClose(p) \/ CloseStore(p)
      BY <3>9, BeginCloseInv, CloseStoreInv
    <3>10. CASE \E r \in Run : BeginRun(p, r) \/ \E c \in Checkpoint : BranchRun(p, c, r)
      BY <3>10, BegunInv DEF BeginRun, BranchRun
    <3>11. CASE \E r \in Run : BeginTick(p, r) \/ SaveMemory(p, r) \/ EndTick(p, r)
      BY <3>11, BeginTickInv, SaveMemoryInv, EndTickInv
    <3>12. CASE \E r \in Run : TickRaises(p, r) \/ ResearchFails(p, r)
      BY <3>12, TickBreaksInv
    <3>13. CASE \E r \in Run : Pause(p, r) \/ Resume(p, r) \/ Intervene(p, r)
      BY <3>13, PauseInv, InterveneInv
    <3>14. CASE \E r \in Run : Stop(p, r) \/ StopToClose(p, r) \/ FinaliseFailed(p, r)
      BY <3>14, StopInv, FinaliseFailedInv
    <3>15. CASE \E r \in Run : DeleteRun(p, r) \/ Suspend(p, r)
      BY <3>15, DeleteInv, SuspendInv
    <3>16. CASE \E r \in Run, c \in Checkpoint : SaveCheckpoint(p, r, c)
      BY <3>16, SaveCheckpointInv
    <3> QED BY <3>1, <3>2, <3>3, <3>4, <3>5, <3>6, <3>7, <3>8, <3>9, <3>10, <3>11,
               <3>12, <3>13, <3>14, <3>15, <3>16
  <2> QED BY <2>1, <2>2
<1> QED BY <1>1, <1>2, PTL DEF Spec

\* The database and the processes keep their types (RunArchive.TypeOK).
THEOREM TypeCorrect == Spec => []TypeOK
<1>1. Inv => TypeOK
  BY DEF Inv, DataInv, ProcessInv, TypeOK
<1> QED BY <1>1, Invariance, PTL

\* No two processes ever hold the same run (RunArchive.OneWriter).
THEOREM OneWriterAlways == Spec => []OneWriter
<1>1. Inv => OneWriter
  BY DEF Inv, WriterInv
<1> QED BY <1>1, Invariance, PTL

\* A suspended run has no owner and a checkpoint at its head
\* (RunArchive.SuspendedResumes).
THEOREM SuspendedResumesAlways == Spec => []SuspendedResumes
<1>1. Inv => SuspendedResumes
  BY DEF Inv, DataInv, Resumes, SuspendedResumes
<1> QED BY <1>1, Invariance, PTL

-----------------------------------------------------------------------------
(***************************************************************************)
(* For every set of processes, runs and checkpoints: what RunArchive        *)
(* commits is a history of runs (RunHistory), and a process falls behind    *)
(* the table of a run only by a late reclaim.                               *)
(*                                                                          *)
(* The argument: a run that goes on is owned by the process that holds it,  *)
(* so whoever may write it finds his own name there and a claim changes     *)
(* nothing; the open transaction only adds records, to runs of `writer';    *)
(* hence what a commit installs is, run by run, the committed row grown,    *)
(* begun, ended, suspended, reclaimed or deleted.  A process takes a number *)
(* before it writes, and nobody else writes the run.                        *)
(***************************************************************************)

\* The same run later, with nothing but records added.
Grown(a, b) == /\ b.status = a.status /\ b.owner = a.owner
               /\ a.records \subseteq b.records
               /\ a.status \in Active \/ b.records = a.records

\* The steps of RunHistory, on rows.
Moved(a, b) ==
    \/ Grown(a, b)
    \/ /\ a.status = "unborn" /\ b.status \in Active
       /\ b.owner \in Process /\ b.records = {}
    \/ /\ a.status \in Active /\ b.status \in Terminal
       /\ b.owner = a.owner /\ a.records \subseteq b.records
    \/ /\ a.status \in Active /\ b.status = "suspended"
       /\ b.owner = None /\ a.records \subseteq b.records
    \/ /\ a.status = "suspended" /\ b.status \in Active
       /\ b.owner \in Process /\ b.records = a.records
    \/ /\ a.status \in Active /\ b.status \in Terminal
       /\ b.owner \in Process /\ b.records = a.records
    \/ /\ a.status \in Terminal /\ b.status \in Terminal
       /\ b.owner = a.owner /\ b.records = a.records
    \/ a.status \in Terminal /\ b.status = "deleted"

Bounded(view) == \A r \in Run : view.runs[r].records \subseteq 0 .. MaxRecords[r]

DataGrowth ==
    /\ \A r \in Run : Grown(db.runs[r], draft.runs[r])
    /\ \A r \in Run : draft.runs[r].records # db.runs[r].records => db.runs[r].owner = writer
    /\ draft.checkpoints = db.checkpoints
    /\ Bounded(draft)

Owned == \A p \in Process, r \in Run :
             Held(p, r) /\ db.runs[r].status \in Active => db.runs[r].owner = p

Remembered ==
    \A p \in Process : doing[p].step = "reclaim" =>
        \/ db.runs[doing[p].run].status = "deleted"
        \/ \E c \in Checkpoint :
               db.checkpoints[c] = [run |-> doing[p].run, at |-> doing[p].at]

Growth == DataGrowth /\ Owned /\ Remembered

\* The numbers below a number, as a relation.
Less == {ss \in Nat \X Nat : ss[1] < ss[2]}

-----------------------------------------------------------------------------
\* A set of numbers has a least one, and one below a bound a greatest one.
LEMMA LessIsWellFounded == IsWellFoundedOn(Less, Nat)
BY NatLessThanWellFounded DEF OpToRel, Less

LEMMA LeastExists ==
    ASSUME NEW S \in SUBSET Nat, S # {}
    PROVE  \E x \in S : \A y \in S : x <= y
<1>1. PICK x \in S : \A y \in S : ~ (<<y, x>> \in Less)
  BY LessIsWellFounded, WFMin
<1>2. \A y \in S : ~ (y < x)
  BY <1>1 DEF Less
<1> QED BY <1>2

LEMMA GreatestExists ==
    ASSUME NEW n \in Nat, NEW S \in SUBSET (0 .. n), S # {}
    PROVE  \E x \in S : \A y \in S : x >= y
<1> DEFINE T == {n - x : x \in S}
<1>1. T \in SUBSET Nat /\ T # {}
  <2>1. \A x \in S : n - x \in Nat
    OBVIOUS
  <2> QED BY <2>1
<1>2. PICK t \in T : \A u \in T : t <= u
  BY <1>1, LeastExists
<1>3. PICK x \in S : t = n - x
  OBVIOUS
<1>4. \A y \in S : x >= y
  <2> TAKE y \in S
  <2>1. n - x <= n - y
    BY <1>2, <1>3
  <2> QED BY <2>1
<1> QED BY <1>4

\* The head of a run is its greatest record.
LEMMA HeadIsGreatest ==
    ASSUME NEW n \in Nat, NEW row, row.records \subseteq 0 .. n
    PROVE  /\ Head(row) \in 0 .. n
           /\ \A x \in row.records : x <= Head(row)
           /\ Head(row) = 0 \/ Head(row) \in row.records
<1>1. CASE row.records = {}
  BY <1>1 DEF Head
<1>2. CASE row.records # {}
  <2>1. \E x \in row.records : \A y \in row.records : x >= y
    BY <1>2, GreatestExists
  <2>2. /\ Max(row.records) \in row.records
        /\ \A y \in row.records : Max(row.records) >= y
    BY <2>1 DEF Max
  <2> QED BY <1>2, <2>2 DEF Head
<1> QED BY <1>1, <1>2

\* More records, no smaller head; the same records, the same head.
LEMMA HeadGrows ==
    ASSUME NEW n \in Nat, NEW a, NEW b,
           a.records \subseteq b.records, b.records \subseteq 0 .. n
    PROVE  /\ Head(a) \in Nat /\ Head(b) \in Nat /\ Head(a) <= Head(b)
           /\ b.records = a.records => Head(a) = Head(b)
<1>1. /\ Head(a) \in 0 .. n /\ Head(b) \in 0 .. n
      /\ \A x \in b.records : x <= Head(b)
      /\ Head(a) = 0 \/ Head(a) \in a.records
  BY HeadIsGreatest
<1>2. b.records = a.records => Head(a) = Head(b)
  BY DEF Head
<1> QED BY <1>1, <1>2

-----------------------------------------------------------------------------
\* A run that a process holds and may write goes on, and is its own.
LEMMA MayWriteOwn ==
    ASSUME Inv, Growth, NEW p \in Process, NEW r \in Run, Held(p, r),
           Writable(View(p), p, r)
    PROVE  /\ db.runs[r].status \in Active /\ db.runs[r].owner = p
           /\ View(p).runs[r].status \in Active /\ View(p).runs[r].owner = p
<1>1. View(p) = db \/ View(p) = draft
  BY DEF View
<1>2. /\ View(p).runs[r].status = db.runs[r].status
      /\ View(p).runs[r].owner = db.runs[r].owner
  BY <1>1 DEF Growth, DataGrowth, Grown
<1>3. db.runs[r] \in Row
  BY DEF Inv, DataInv, Database
<1>4. db.runs[r].status \notin {"unborn", "suspended", "deleted"} \cup Terminal
  BY <1>2 DEF Writable, Exists, Inv, WriterInv
<1>5. db.runs[r].status \in Active
  BY <1>3, <1>4 DEF Row
<1> QED BY <1>2, <1>5 DEF Growth, Owned

\* What a process sees is what is committed, grown.
LEMMA ViewIsGrown ==
    ASSUME DataGrowth, NEW p \in Process
    PROVE  /\ \A r \in Run : Grown(db.runs[r], View(p).runs[r])
           /\ \A r \in Run : View(p).runs[r].records \subseteq draft.runs[r].records
           /\ \A r \in Run : View(p).runs[r].records # db.runs[r].records =>
                                  db.runs[r].owner = p
           /\ View(p).checkpoints = db.checkpoints
           /\ Bounded(View(p)) /\ Bounded(db)
<1>1. View(p) = db \/ (View(p) = draft /\ writer = p)
  BY DEF View
<1>2. Bounded(db)
  BY DEF DataGrowth, Bounded, Grown
<1>3. \A r \in Run : Grown(db.runs[r], db.runs[r])
  BY DEF Grown
<1>4. CASE View(p) = db
  BY <1>2, <1>3, <1>4 DEF DataGrowth, Grown
<1>5. CASE View(p) = draft /\ writer = p
  BY <1>2, <1>5 DEF DataGrowth
<1> QED BY <1>1, <1>4, <1>5

\* A commit takes a step of every run and settles the transaction.
LEMMA CommitGrows ==
    ASSUME NEW view \in Database, NEW p \in Process, Commit(p, view), Bounded(view)
    PROVE  /\ db'.runs = view.runs /\ db'.checkpoints = view.checkpoints
           /\ draft'.runs = view.runs /\ DataGrowth'
<1>1. /\ db'.runs = view.runs /\ db'.checkpoints = view.checkpoints
      /\ draft' = db'
  BY DEF Commit, Database
<1>2. \A r \in Run : Grown(db'.runs[r], draft'.runs[r])
  BY <1>1 DEF Grown
<1> QED BY <1>1, <1>2 DEF DataGrowth, Bounded

\* What is left open adds records to runs of the writer only.
Open(view, p) ==
    /\ \A r \in Run : Grown(db.runs[r], view.runs[r])
    /\ \A r \in Run : view.runs[r].records # db.runs[r].records => db.runs[r].owner = p
    /\ view.checkpoints = db.checkpoints
    /\ Bounded(view)

Moves == \A r \in Run : Moved(db.runs[r], db'.runs[r])

\* A checkpoint stays until its run is deleted.
PointsStay ==
    \A c \in Checkpoint :
        \/ db'.checkpoints[c] = db.checkpoints[c]
        \/ db.checkpoints[c].run \notin Run
        \/ db'.runs[db.checkpoints[c].run].status = "deleted"

\* No record is added, or one, to the run r.
Writes(r, n) ==
    \A s \in Run : \A k \in draft'.runs[s].records :
        k \in draft.runs[s].records \/ (s = r /\ k = n)

LEMMA LeaveOpenGrows ==
    ASSUME NEW view, NEW p \in Process, LeaveOpen(p, view), Open(view, p)
    PROVE  DataGrowth' /\ Moves /\ PointsStay
<1>1. draft' = view /\ db' = db /\ writer' = p
  BY DEF LeaveOpen
<1>2. Moves /\ PointsStay
  BY <1>1 DEF Moves, Moved, Grown, PointsStay
<1> QED BY <1>1, <1>2 DEF Open, DataGrowth, Bounded

LEMMA OpenCommits ==
    ASSUME NEW view \in Database, NEW p \in Process, Commit(p, view), Open(view, p)
    PROVE  DataGrowth' /\ Moves /\ PointsStay
<1>1. /\ db'.runs = view.runs /\ db'.checkpoints = view.checkpoints
      /\ DataGrowth'
  BY CommitGrows DEF Open
<1> QED BY <1>1 DEF Open, Moves, Moved, PointsStay

LEMMA StaysGrown ==
    ASSUME DataGrowth, Untouched \/ \E p \in Process : Rollback(p)
    PROVE  /\ DataGrowth' /\ Moves /\ PointsStay /\ db' = db
           /\ \A s \in Run : draft'.runs[s].records \subseteq draft.runs[s].records
<1>1. db' = db /\ ((draft' = draft /\ writer' = writer) \/ draft' = db)
  BY DEF Untouched, Rollback
<1>2. Moves /\ PointsStay
  BY <1>1 DEF Moves, Moved, Grown, PointsStay
<1>3. CASE draft' = draft /\ writer' = writer
  BY <1>1, <1>2, <1>3 DEF DataGrowth, Bounded
<1>4. CASE draft' = db
  BY <1>1, <1>2, <1>4 DEF DataGrowth, Bounded, Grown
<1> QED BY <1>1, <1>3, <1>4

\* Appending to a run that one holds and may write.
LEMMA AppendIsOpen ==
    ASSUME Inv, Growth, NEW p \in Process, NEW r \in Run, Held(p, r),
           Writable(View(p), p, r), NEW n \in 0 .. MaxRecords[r]
    PROVE  /\ Open(Appended(View(p), p, r, n), p)
           /\ Open(Claimed(View(p), p, r), p)
           /\ \A s \in Run : \A k \in Appended(View(p), p, r, n).runs[s].records :
                  k \in draft.runs[s].records \/ (s = r /\ k = n)
           /\ \A s \in Run : Claimed(View(p), p, r).runs[s].records
                                 \subseteq draft.runs[s].records
<1> DEFINE v == View(p)
           a == Appended(v, p, r, n)
           k == Claimed(v, p, r)
<1>1. v \in Database
  BY ViewIsData DEF Inv
<1>2. /\ \A s \in Run : Grown(db.runs[s], v.runs[s])
      /\ \A s \in Run : v.runs[s].records \subseteq draft.runs[s].records
      /\ \A s \in Run : v.runs[s].records # db.runs[s].records => db.runs[s].owner = p
      /\ v.checkpoints = db.checkpoints
      /\ Bounded(v)
  BY ViewIsGrown DEF Growth
<1>3. /\ db.runs[r].status \in Active /\ db.runs[r].owner = p
      /\ v.runs[r].status \in Active /\ v.runs[r].owner = p
  BY MayWriteOwn
<1>4. v.runs[r] \in Row
  BY <1>1 DEF Database
<1>5. /\ a.checkpoints = v.checkpoints /\ k.checkpoints = v.checkpoints
      /\ \A s \in Run \ {r} : a.runs[s] = v.runs[s] /\ k.runs[s] = v.runs[s]
      /\ a.runs[r].status = v.runs[r].status /\ k.runs[r].status = v.runs[r].status
      /\ a.runs[r].owner = p /\ k.runs[r].owner = p
      /\ a.runs[r].records = v.runs[r].records \cup {n}
      /\ k.runs[r].records = v.runs[r].records
  BY <1>1, <1>4 DEF Appended, Claimed, Database, Row
<1> HIDE DEF v, a, k
<1>6. \A s \in Run : Grown(db.runs[s], a.runs[s]) /\ Grown(db.runs[s], k.runs[s])
  <2> TAKE s \in Run
  <2>1. CASE s = r
    BY <1>2, <1>3, <1>5, <2>1 DEF Grown
  <2>2. CASE s # r
    BY <1>2, <1>5, <2>2
  <2> QED BY <2>1, <2>2
<1>7. Bounded(a) /\ Bounded(k)
  BY <1>2, <1>5 DEF Bounded
<1>8. Open(a, p) /\ Open(k, p)
  BY <1>2, <1>3, <1>5, <1>6, <1>7 DEF Open
<1>9. /\ \A s \in Run : \A x \in a.runs[s].records :
                  x \in draft.runs[s].records \/ (s = r /\ x = n)
      /\ \A s \in Run : k.runs[s].records \subseteq draft.runs[s].records
  BY <1>2, <1>5
<1> QED BY <1>8, <1>9 DEF v, a, k

LEMMA RaisesGrows ==
    ASSUME Inv, Growth, NEW p \in Process, NEW r \in Run, Held(p, r),
           NEW n \in 0 .. MaxRecords[r], AppendRaises(p, r, n)
    PROVE  /\ DataGrowth' /\ Moves /\ PointsStay
           /\ \A s \in Run : draft'.runs[s].records \subseteq draft.runs[s].records
<1>1. CASE Untouched
  BY <1>1, StaysGrown DEF Growth
<1>2. CASE Writable(View(p), p, r) /\ LeaveOpen(p, Claimed(View(p), p, r))
  <2>1. /\ Open(Claimed(View(p), p, r), p)
        /\ \A s \in Run : Claimed(View(p), p, r).runs[s].records
                              \subseteq draft.runs[s].records
    BY <1>2, AppendIsOpen
  <2>2. DataGrowth' /\ Moves /\ PointsStay
    BY <1>2, <2>1, LeaveOpenGrows
  <2> QED BY <1>2, <2>1, <2>2 DEF LeaveOpen
<1> QED BY <1>1, <1>2 DEF AppendRaises, LockedOut

\* Recording something of a run that one holds takes the next number.
LEMMA TryGrows ==
    ASSUME Inv, Growth, NEW p \in Process, NEW r \in Run, Held(p, r),
           NEW done \in Managed, NEW raised \in Managed, NEW flush \in BOOLEAN,
           Try(p, r, done, raised, flush)
    PROVE  /\ DataGrowth' /\ Moves /\ PointsStay
           /\ Writes(r, loaded[p][r].at + 1)
           /\ loaded'[p][r].at = loaded[p][r].at + 1
           /\ \A q \in Process, s \in Run :
                  ~(q = p /\ s = r) => loaded'[q][s] = loaded[q][s]
<1> DEFINE n == loaded[p][r].at + 1
           view == Appended(View(p), p, r, n)
<1>1. n \in 0 .. MaxRecords[r]
  BY ArchiveAssumption DEF Try, Inv, ProcessInv, Managed
<1>2. View(p) \in Database
  BY ViewIsData DEF Inv
<1>3. DataGrowth' /\ Moves /\ PointsStay /\ Writes(r, n)
  <2>1. CASE CanAppend(p, r, n) /\ (Commit(p, view) \/ LeaveOpen(p, view))
    <3>1. /\ Open(view, p)
          /\ \A s \in Run : \A k \in view.runs[s].records :
                 k \in draft.runs[s].records \/ (s = r /\ k = n)
      BY <1>1, <2>1, AppendIsOpen DEF CanAppend
    <3>2. view \in Database
      <4>1. View(p).runs[r].status # "suspended" /\ Resumes(View(p))
        BY <2>1, MayWriteOwn, ViewIsData DEF CanAppend, Active, Inv
      <4> QED BY <1>1, <1>2, <4>1, AppendedIsData
    <3>3. draft'.runs = view.runs
      <4>1. CASE Commit(p, view)
        BY <3>2, <4>1, CommitGrows, <3>1 DEF Open
      <4>2. CASE LeaveOpen(p, view)
        BY <4>2 DEF LeaveOpen
      <4> QED BY <2>1, <4>1, <4>2
    <3>4. DataGrowth' /\ Moves /\ PointsStay
      <4> HIDE DEF view
      <4> QED BY <2>1, <3>1, <3>2, OpenCommits, LeaveOpenGrows
    <3> QED BY <3>1, <3>3, <3>4 DEF Writes
  <2>2. CASE AppendRaises(p, r, n)
    BY <1>1, <2>2, RaisesGrows DEF Writes
  <2> QED BY <2>1, <2>2 DEF Try
<1>4. /\ loaded'[p][r].at = n
      /\ \A q \in Process, s \in Run :
             ~(q = p /\ s = r) => loaded'[q][s] = loaded[q][s]
  <2> DEFINE d == [done EXCEPT !.at = n]
             e == [raised EXCEPT !.at = n]
  <2>1. d.at = n /\ e.at = n
    BY DEF Managed
  <2>2. loaded' = [loaded EXCEPT ![p][r] = d] \/ loaded' = [loaded EXCEPT ![p][r] = e]
    BY DEF Try
  <2>3. loaded \in [Process -> [Run -> Managed]]
    BY DEF Inv, ProcessInv
  <2> HIDE DEF d, e
  <2> QED BY <2>1, <2>2, <2>3
<1> QED BY <1>3, <1>4

\* The last records of a run, and its end.
LEMMA FinaliseGrows ==
    ASSUME Inv, Growth, NEW p \in Process, NEW r \in Run, Held(p, r),
           NEW m \in Managed, NEW status \in {"stopped", "failed"},
           Finalise(p, r, m, status)
    PROVE  /\ DataGrowth' /\ Moves /\ PointsStay
           /\ Writes(r, m.at + 1)
           /\ loaded'[p][r].at = m.at + 1
           /\ \A q \in Process, s \in Run :
                  ~(q = p /\ s = r) => loaded'[q][s] = loaded[q][s]
<1> DEFINE n == m.at + 1
           final == ~m.notified \/ View(p).runs[r].final
           more == Appended(View(p), p, r, n)
           view == [more EXCEPT !.runs[r].status = status, !.runs[r].final = final,
                                !.runs[r].complete = status = "stopped" /\ final]
           ended == [m EXCEPT !.at = n, !.status = "stopped", !.advancing = "no"]
<1>1. n \in 0 .. MaxRecords[r]
  BY ArchiveAssumption DEF Finalise, Managed
<1>2. View(p) \in Database
  BY ViewIsData DEF Inv
<1>3. DataGrowth' /\ Moves /\ PointsStay /\ Writes(r, n)
  <2>1. CASE CanAppend(p, r, n) /\ Commit(p, view)
    <3>1. /\ Open(more, p)
          /\ \A s \in Run : \A k \in more.runs[s].records :
                 k \in draft.runs[s].records \/ (s = r /\ k = n)
      BY <1>1, <2>1, AppendIsOpen DEF CanAppend
    <3>2. more \in Database
      <4>1. View(p).runs[r].status # "suspended" /\ Resumes(View(p))
        BY <2>1, MayWriteOwn, ViewIsData DEF CanAppend, Active, Inv
      <4> QED BY <1>1, <1>2, <4>1, AppendedIsData
    <3>3. final \in BOOLEAN
      BY <1>2 DEF Managed, Database, Row
    <3> HIDE DEF more, final
    <3> DEFINE complete == status = "stopped" /\ final
               row == [more.runs[r] EXCEPT !.status = status, !.final = final,
                                           !.complete = complete]
    <3>4. more.runs[r] \in Row /\ complete \in BOOLEAN
      BY <3>2, <3>3 DEF Database
    <3>5. /\ row \in Row /\ row.status = status /\ row.owner = more.runs[r].owner
          /\ row.records = more.runs[r].records
      BY <3>3, <3>4 DEF Row, Terminal
    <3>6. view = [more EXCEPT !.runs = [more.runs EXCEPT ![r] = row]]
      BY ZenonT(40), <3>2, <3>4 DEF Database, Row
    <3> HIDE DEF row, complete, view
    <3>7. /\ view \in Database /\ view.checkpoints = more.checkpoints
          /\ view.runs[r] = row
          /\ \A s \in Run \ {r} : view.runs[s] = more.runs[s]
      BY <3>2, <3>5, <3>6 DEF Database
    <3>8. db.runs[r].status \in Active
      BY <2>1, MayWriteOwn DEF CanAppend
    <3>9. \A s \in Run : Moved(db.runs[s], view.runs[s])
      <4> TAKE s \in Run
      <4>1. Grown(db.runs[s], more.runs[s])
        BY <3>1 DEF Open
      <4>2. CASE s = r
        BY <3>5, <3>7, <3>8, <4>1, <4>2 DEF Moved, Grown, Terminal
      <4>3. CASE s # r
        BY <3>7, <4>1, <4>3 DEF Moved
      <4> QED BY <4>2, <4>3
    <3>10. Bounded(view) /\ \A s \in Run : view.runs[s].records = more.runs[s].records
      BY <3>1, <3>5, <3>7 DEF Open, Bounded
    <3>11. /\ db'.runs = view.runs /\ db'.checkpoints = view.checkpoints
           /\ draft'.runs = view.runs /\ DataGrowth'
      BY <2>1, <3>7, <3>10, CommitGrows
    <3> QED BY <3>1, <3>7, <3>9, <3>10, <3>11 DEF Moves, PointsStay, Writes, Open
  <2>2. CASE AppendRaises(p, r, n)
    BY <1>1, <2>2, RaisesGrows DEF Writes
  <2> QED BY <2>1, <2>2 DEF Finalise
<1>4. PICK k : loaded' = [loaded EXCEPT ![p][r] = k] /\ k.at = n
  <2>1. /\ ended.at = n
        /\ \A told \in BOOLEAN : [ended EXCEPT !.notified = told].at = n
        /\ [ended EXCEPT !.stopping = FALSE, !.notified = TRUE,
                          !.finalized = TRUE, !.task = "none"].at = n
    BY DEF Managed
  <2>2. m.notified \in BOOLEAN
    BY DEF Managed
  <2> QED BY <2>1, <2>2 DEF Finalise
<1>5. /\ loaded'[p][r].at = n
      /\ \A q \in Process, s \in Run :
             ~(q = p /\ s = r) => loaded'[q][s] = loaded[q][s]
  <2>1. loaded \in [Process -> [Run -> Managed]]
    BY DEF Inv, ProcessInv
  <2> QED BY <1>4, <2>1
<1> QED BY <1>3, <1>5

-----------------------------------------------------------------------------
\* Behind, in terms of what is committed and what is open.
BehindMeans ==
    \A q \in Process, s \in Run :
        Behind(q, s) <=> /\ Held(q, s) /\ db.runs[s].status \in Active
                         /\ Head(draft.runs[s]) > loaded[q][s].at

LEMMA BehindNow == Inv /\ Growth => BehindMeans
<1> SUFFICES ASSUME Inv, Growth, NEW q \in Process, NEW s \in Run, Held(q, s)
             PROVE  Behind(q, s) <=> /\ db.runs[s].status \in Active
                                     /\ Head(draft.runs[s]) > loaded[q][s].at
  BY DEF Behind, BehindMeans
<1>1. /\ Grown(db.runs[s], View(q).runs[s])
      /\ View(q) = db \/ View(q) = draft
  BY ViewIsGrown DEF Growth, View
<1>2. ASSUME db.runs[s].status \in Active
      PROVE  Writable(View(q), q, s) /\ View(q).runs[s].records = draft.runs[s].records
  <2>1. db.runs[s].owner = q /\ q # None
    BY <1>2, ArchiveAssumption DEF Growth, Owned
  <2>2. View(q).runs[s].status \in Active /\ View(q).runs[s].owner = q
    BY <1>1, <1>2, <2>1 DEF Grown
  <2>3. Writable(View(q), q, s)
    BY <2>2 DEF Writable, Exists, Active, Terminal, OwnedElsewhere
  <2>4. View(q).runs[s].records = draft.runs[s].records
    <3>1. CASE writer = q
      BY <3>1 DEF View
    <3>2. CASE writer # q
      BY <2>1, <3>2 DEF View, Growth, DataGrowth
    <3> QED BY <3>1, <3>2
  <2> QED BY <2>3, <2>4
<1>3. Writable(View(q), q, s) => db.runs[s].status \in Active
  BY MayWriteOwn
<1>4. View(q).runs[s].records = draft.runs[s].records =>
          Head(View(q).runs[s]) = Head(draft.runs[s])
  BY DEF Head
<1> QED BY <1>2, <1>3, <1>4 DEF Behind

LEMMA BehindLater == (Inv /\ Growth => BehindMeans)'
BY BehindNow, PTL

\* The promise of a step (OnlyLateReclaimsFallBehind).
Paced == \A p \in Process, r \in Run :
             Behind(p, r)' => Behind(p, r) \/ LateReclaim(p, r)

\* What a step of the database, and of what the processes keep, amounts to:
\* those who begin to hold a run are spoken of by the caller.
LEMMA HoldersGrow ==
    ASSUME Inv, Inv', Growth, DataGrowth', Moves, PointsStay, NEW r, NEW n \in Nat,
           Writes(r, n),
           \A q \in Process, s \in Run :
               Held(q, s)' /\ Held(q, s) =>
                   loaded'[q][s].at >= loaded[q][s].at /\ (s = r => loaded'[q][s].at >= n),
           \A q \in Process, s \in Run :
               Held(q, s)' /\ ~Held(q, s) =>
                   /\ db'.runs[s].owner = q
                   /\ LateReclaim(q, s) \/ Head(draft'.runs[s]) <= loaded'[q][s].at,
           \A q \in Process : doing'[q].step = "reclaim" =>
               \/ doing'[q] = doing[q]
               \/ \E c \in Checkpoint :
                      db'.checkpoints[c] = [run |-> doing'[q].run, at |-> doing'[q].at]
    PROVE  Growth' /\ Paced /\ Moves
<1>1. \A q \in Process, s \in Run :
          Held(q, s) /\ db'.runs[s].status \in Active =>
              db.runs[s].status \in Active /\ db'.runs[s].owner = q
  <2> SUFFICES ASSUME NEW q \in Process, NEW s \in Run,
                      Held(q, s), db'.runs[s].status \in Active
               PROVE  db.runs[s].status \in Active /\ db'.runs[s].owner = q
    OBVIOUS
  <2>1. db.runs[s].status \notin {"unborn", "suspended"}
    BY DEF Inv, WriterInv
  <2>2. Grown(db.runs[s], db'.runs[s])
    BY <2>1 DEF Moves, Moved, Active, Terminal
  <2> QED BY <2>2 DEF Grown, Growth, Owned
<1>2. Owned'
  <2> SUFFICES ASSUME NEW q \in Process, NEW s \in Run, Held(q, s)',
                      db'.runs[s].status \in Active
               PROVE  db'.runs[s].owner = q
    BY DEF Owned
  <2> QED BY <1>1
<1>3. Remembered'
  <2> SUFFICES ASSUME NEW q \in Process, doing'[q].step = "reclaim"
               PROVE  \/ db'.runs[doing'[q].run].status = "deleted"
                      \/ \E c \in Checkpoint :
                           db'.checkpoints[c] = [run |-> doing'[q].run, at |-> doing'[q].at]
    BY DEF Remembered
  <2>1. CASE doing'[q] = doing[q]
    <3> DEFINE s == doing[q].run
    <3>1. s \in Run
      BY <2>1 DEF Inv, ProcessInv
    <3>2. CASE db.runs[s].status = "deleted"
      BY <2>1, <3>1, <3>2 DEF Moves, Moved, Grown, Active, Terminal
    <3>3. CASE \E c \in Checkpoint : db.checkpoints[c] = [run |-> s, at |-> doing[q].at]
      BY <2>1, <3>1, <3>3 DEF PointsStay
    <3> QED BY <2>1, <3>2, <3>3 DEF Growth, Remembered
  <2> QED BY <2>1
<1>4. Growth'
  BY <1>2, <1>3 DEF Growth
<1>5. Paced
  <2> SUFFICES ASSUME NEW q \in Process, NEW s \in Run, Behind(q, s)', ~LateReclaim(q, s)
               PROVE  Behind(q, s)
    BY DEF Paced
  <2>1. BehindMeans'
    BY <1>4, BehindLater
  <2>2. /\ Held(q, s)' /\ db'.runs[s].status \in Active
        /\ Head(draft'.runs[s]) > loaded'[q][s].at
    BY <2>1 DEF BehindMeans, Head
  <2>3. MaxRecords[s] \in Nat
    BY ArchiveAssumption
  <2>4. draft'.runs[s].records \subseteq 0 .. MaxRecords[s]
    BY DEF DataGrowth, Bounded
  <2>5. loaded'[q][s].at \in Nat /\ loaded[q][s].at \in Nat
    BY DEF Inv, ProcessInv, Managed
  <2>6. /\ Head(draft'.runs[s]) \in 0 .. MaxRecords[s]
        /\ \/ Head(draft'.runs[s]) = 0
           \/ Head(draft'.runs[s]) \in draft'.runs[s].records
    BY <2>3, <2>4, HeadIsGreatest
  <2>7. /\ Held(q, s) /\ loaded'[q][s].at >= loaded[q][s].at
        /\ s = r => loaded'[q][s].at >= n
    BY <2>2, <2>5, <2>6
  <2>8. db.runs[s].status \in Active
    BY <1>1, <2>2, <2>7
  <2>9. Head(draft'.runs[s]) \in draft.runs[s].records
    BY <2>2, <2>5, <2>6, <2>7 DEF Writes
  <2>10. Head(draft.runs[s]) \in Nat /\ Head(draft'.runs[s]) <= Head(draft.runs[s])
    <3>1. draft.runs[s].records \subseteq 0 .. MaxRecords[s]
      BY DEF Growth, DataGrowth, Bounded
    <3> QED BY <2>3, <2>9, <3>1, HeadIsGreatest
  <2>11. Head(draft.runs[s]) > loaded[q][s].at
    BY <2>2, <2>5, <2>6, <2>7, <2>10
  <2> QED BY <2>7, <2>8, <2>11, BehindNow DEF BehindMeans
<1> QED BY <1>4, <1>5

\* A step in which a process records something of a run it holds.
LEMMA RecordedStep ==
    ASSUME Inv, Inv', Growth, DataGrowth', Moves, PointsStay,
           NEW p \in Process, NEW r \in Run, Held(p, r), NEW n \in Nat,
           Writes(r, n), loaded'[p][r].at = n, n >= loaded[p][r].at,
           \A q \in Process, s \in Run :
               ~(q = p /\ s = r) => loaded'[q][s] = loaded[q][s],
           \A q \in Process : doing'[q] = doing[q] \/ doing'[q].step # "reclaim"
    PROVE  Growth' /\ Paced /\ Moves
<1>1. \A q \in Process, s \in Run : ~(q = p /\ s = r) /\ Held(q, s)' => Held(q, s)
  BY DEF Held
<1>2. \A q \in Process : q # p => ~Held(q, r)
  BY DEF Inv, WriterInv, OneWriter
<1>3. \A q \in Process, s \in Run : loaded[q][s].at \in Nat
  BY DEF Inv, ProcessInv, Managed
<1> QED BY <1>1, <1>2, <1>3, HoldersGrow

\* A step in which nothing is recorded and nobody begins to hold a run.
LEMMA QuietStep ==
    ASSUME Inv, Inv', Growth, DataGrowth', Moves, PointsStay,
           \A s \in Run : draft'.runs[s].records \subseteq draft.runs[s].records,
           \A q \in Process, s \in Run :
               Held(q, s)' => Held(q, s) /\ loaded'[q][s].at >= loaded[q][s].at,
           \A q \in Process : \/ doing'[q] = doing[q] \/ doing'[q].step # "reclaim"
                             \/ \E c \in Checkpoint : db'.checkpoints[c]
                                      = [run |-> doing'[q].run, at |-> doing'[q].at]
    PROVE  Growth' /\ Paced /\ Moves
<1>1. Writes(None, 0)
  BY DEF Writes
<1>2. \A q \in Process, s \in Run : s # None
  BY ArchiveAssumption
<1> QED BY <1>1, <1>2, HoldersGrow

\* A commit that adds no record: every run is as the process sees it, or moves.
LEMMA CommitMoves ==
    ASSUME Inv, Growth, NEW p \in Process, NEW view \in Database, Commit(p, view),
           \A s \in Run : \/ view.runs[s] = View(p).runs[s]
                        \/ /\ Moved(db.runs[s], view.runs[s])
                           /\ view.runs[s].records \subseteq View(p).runs[s].records,
           \A c \in Checkpoint : \/ view.checkpoints[c] = View(p).checkpoints[c]
                               \/ db.checkpoints[c].run \notin Run
                               \/ view.runs[db.checkpoints[c].run].status = "deleted"
    PROVE  /\ DataGrowth' /\ Moves /\ PointsStay
           /\ db'.runs = view.runs /\ draft'.runs = view.runs
           /\ db'.checkpoints = view.checkpoints
           /\ \A s \in Run : draft'.runs[s].records \subseteq draft.runs[s].records
<1>1. /\ \A s \in Run : Grown(db.runs[s], View(p).runs[s])
      /\ \A s \in Run : View(p).runs[s].records \subseteq draft.runs[s].records
      /\ View(p).checkpoints = db.checkpoints
      /\ Bounded(View(p))
  BY ViewIsGrown DEF Growth
<1>2. \A s \in Run : view.runs[s].records \subseteq View(p).runs[s].records
  OBVIOUS
<1>3. Bounded(view)
  BY <1>1, <1>2 DEF Bounded
<1>4. /\ db'.runs = view.runs /\ db'.checkpoints = view.checkpoints
      /\ draft'.runs = view.runs /\ DataGrowth'
  BY <1>3, CommitGrows
<1>5. \A s \in Run : Moved(db.runs[s], view.runs[s])
  BY <1>1 DEF Moved
<1>6. Moves
  BY <1>4, <1>5 DEF Moves
<1>7. PointsStay
  BY <1>1, <1>4 DEF PointsStay
<1> QED BY <1>1, <1>2, <1>4, <1>6, <1>7

\* A commit of what one sees, and nothing else.
LEMMA CommitAsSeen ==
    ASSUME Inv, Growth, NEW p \in Process, NEW view \in Database, Commit(p, view),
           view.runs = View(p).runs, view.checkpoints = View(p).checkpoints
    PROVE  /\ DataGrowth' /\ Moves /\ PointsStay
           /\ \A s \in Run : draft'.runs[s].records \subseteq draft.runs[s].records
BY CommitMoves

\* Giving up on the runs of dead processes ends them as they are.
LEMMA ReconciledGrows ==
    ASSUME Inv, Growth, NEW p \in Process, Reconciled(p)
    PROVE  /\ DataGrowth' /\ Moves /\ PointsStay
           /\ \A s \in Run : draft'.runs[s].records \subseteq draft.runs[s].records
<1>1. CASE Untouched
  BY <1>1, StaysGrown DEF Growth
<1>2. CASE writer = None /\ Commit(p, Interrupted(db, p))
  <2> DEFINE view == Interrupted(db, p)
             row(s) == [db.runs[s] EXCEPT !.status = "interrupted", !.owner = p,
                                          !.complete = FALSE]
  <2>1. View(p) = db
    BY <1>2, ArchiveAssumption DEF View
  <2>2. view \in Database
    BY InterruptedIsData DEF Inv, DataInv
  <2>3. db \in Database
    BY DEF Inv, DataInv
  <2>4. /\ view.runs = [s \in Run |-> IF Abandoned(db, p, db.runs[s]) THEN row(s)
                                                                   ELSE db.runs[s]]
        /\ view.checkpoints = db.checkpoints
    BY <2>3 DEF Interrupted, InterruptedAs, Database
  <2>5. \A s \in Run : /\ row(s).status = "interrupted" /\ row(s).owner = p
                      /\ row(s).records = db.runs[s].records
    <3> TAKE s \in Run
    <3>1. db.runs[s] \in Row
      BY <2>3 DEF Database
    <3> QED BY <3>1 DEF Row
  <2> HIDE DEF row
  <2>6. \A s \in Run : \/ view.runs[s] = View(p).runs[s]
                      \/ /\ Moved(db.runs[s], view.runs[s])
                         /\ view.runs[s].records \subseteq View(p).runs[s].records
    <3> TAKE s \in Run
    <3>1. CASE Abandoned(db, p, db.runs[s])
      <4>1. view.runs[s] = row(s) /\ db.runs[s].status \in Active
        BY <2>4, <3>1 DEF Abandoned
      <4> QED BY <2>1, <2>5, <4>1 DEF Moved, Terminal
    <3>2. CASE ~Abandoned(db, p, db.runs[s])
      BY <2>1, <2>4, <3>2
    <3> QED BY <3>1, <3>2
  <2> HIDE DEF view
  <2> QED BY <1>2, <2>1, <2>2, <2>4, <2>6, CommitMoves DEF view
<1> QED BY <1>1, <1>2 DEF Reconciled, LockedOut

LEMMA ReconcileGrows ==
    ASSUME Inv, Inv', Growth, NEW p \in Process,
           ReconcilePriorRuns(p) \/ Catalog(p) \/ (\E r \in Run : Preview(p, r))
    PROVE  Growth' /\ Paced /\ Moves
<1>1. Reconciled(p) /\ loaded' = loaded
  BY DEF ReconcilePriorRuns, Catalog, Preview
<1>2. doing' = doing \/ doing' = [doing EXCEPT ![p] = Nothing]
  BY DEF ReconcilePriorRuns, Catalog, Preview
<1>3. \A q \in Process : doing'[q] = doing[q] \/ doing'[q].step # "reclaim"
  BY <1>2 DEF Nothing, Inv, ProcessInv
<1>4. \A q \in Process, s \in Run :
          Held(q, s)' => Held(q, s) /\ loaded'[q][s].at >= loaded[q][s].at
  BY <1>1 DEF Held, Inv, ProcessInv, Managed
<1>5. /\ DataGrowth' /\ Moves /\ PointsStay
      /\ \A s \in Run : draft'.runs[s].records \subseteq draft.runs[s].records
  BY <1>1, ReconciledGrows
<1> QED BY <1>3, <1>4, <1>5, QuietStep

\* Opening, beating and dying leave the runs as they are.
LEMMA LeaseGrows ==
    ASSUME Inv, Inv', Growth, NEW p \in Process,
           OpenStore(p) \/ Heartbeat(p) \/ LeaseExpires(p)
    PROVE  Growth' /\ Paced /\ Moves
<1>1. loaded' = loaded
  BY DEF OpenStore, Heartbeat, LeaseExpires
<1>2. \A q \in Process, s \in Run :
          Held(q, s)' => Held(q, s) /\ loaded'[q][s].at >= loaded[q][s].at
  BY <1>1 DEF Held, Inv, ProcessInv, Managed
<1>3. \A q \in Process : doing'[q] = doing[q] \/ doing'[q].step # "reclaim"
  <2>1. CASE doing' = doing
    BY <2>1
  <2>2. CASE doing' = [doing EXCEPT ![p].step = "reconcile"]
    BY <2>2 DEF Inv, ProcessInv, Doing
  <2> QED BY <2>1, <2>2 DEF OpenStore, Heartbeat, LeaseExpires
<1>4. /\ DataGrowth' /\ Moves /\ PointsStay
      /\ \A s \in Run : draft'.runs[s].records \subseteq draft.runs[s].records
  <2>1. CASE Commit(p, db) /\ writer = None
    <3>1. View(p) = db /\ db \in Database
      BY <2>1, ArchiveAssumption DEF View, Inv, DataInv
    <3> QED BY <2>1, <3>1, CommitAsSeen
  <2>2. CASE LeaseExpires(p)
    <3>1. /\ db'.runs = db.runs /\ db'.checkpoints = db.checkpoints
          /\ draft'.runs = draft.runs /\ draft'.checkpoints = draft.checkpoints
          /\ writer' = writer
      <4>1. db \in Database /\ draft \in Database
        BY DEF Inv, DataInv
      <4> QED BY <2>2, <4>1 DEF LeaseExpires, Database
    <3>2. DataGrowth'
      BY <3>1 DEF Growth, DataGrowth, Bounded
    <3> QED BY <3>1, <3>2 DEF Moves, Moved, Grown, PointsStay
  <2> QED BY <2>1, <2>2 DEF OpenStore, Heartbeat
<1> QED BY <1>2, <1>3, <1>4, QuietStep

LEMMA CrashGrows ==
    ASSUME Inv, Inv', Growth, NEW p \in Process, Crash(p)
    PROVE  Growth' /\ Paced /\ Moves
<1>1. /\ DataGrowth' /\ Moves /\ PointsStay
      /\ \A s \in Run : draft'.runs[s].records \subseteq draft.runs[s].records
  BY StaysGrown DEF Crash, Growth
<1>2. \A q \in Process, s \in Run :
          Held(q, s)' => Held(q, s) /\ loaded'[q][s].at >= loaded[q][s].at
  BY DEF Crash, Held, NotLoaded, LoadedAs, Inv, ProcessInv, Managed
<1>3. \A q \in Process : doing'[q] = doing[q] \/ doing'[q].step # "reclaim"
  BY DEF Crash, Nothing, Inv, ProcessInv
<1> QED BY <1>1, <1>2, <1>3, QuietStep

-----------------------------------------------------------------------------
\* A new run has no records, and its process starts at none.
LEMMA BegunGrows ==
    ASSUME Inv, Inv', Growth, NEW p \in Process, NEW r \in Run,
           NEW status \in {"running", "paused"}, NEW step \in {"start", "announce"},
           Begun(p, r, status, step)
    PROVE  Growth' /\ Paced /\ Moves
<1> DEFINE view == [View(p) EXCEPT !.runs[r] = EmptyRow("running", p)]
           m == LoadedAs(status, 0)
<1>1. View(p) \in Database
  BY ViewIsData DEF Inv
<1>2. /\ EmptyRow("running", p) \in Row /\ EmptyRow("running", p).status \in Active
      /\ EmptyRow("running", p).owner = p /\ EmptyRow("running", p).records = {}
  BY DEF EmptyRow, Row, Active
<1>3. /\ view \in Database /\ view.checkpoints = View(p).checkpoints
      /\ view.runs[r] = EmptyRow("running", p)
      /\ \A s \in Run \ {r} : view.runs[s] = View(p).runs[s]
  BY <1>1, <1>2 DEF Database
<1>4. db.runs[r].status = "unborn" /\ Commit(p, view)
  BY DEF Begun
<1> HIDE DEF view
<1>5. /\ DataGrowth' /\ Moves /\ PointsStay /\ db'.runs = view.runs
      /\ draft'.runs = view.runs
      /\ \A s \in Run : draft'.runs[s].records \subseteq draft.runs[s].records
  <2>1. Moved(db.runs[r], view.runs[r])
    BY <1>2, <1>3, <1>4 DEF Moved
  <2> QED BY <1>2, <1>3, <1>4, <2>1, CommitMoves
<1>6. /\ loaded'[p][r].at = 0
      /\ \A q \in Process, s \in Run : ~(q = p /\ s = r) => loaded'[q][s] = loaded[q][s]
  BY DEF Begun, LoadedAs, Inv, ProcessInv
<1>7. ~Held(p, r)
  BY <1>4 DEF Inv, WriterInv
<1>8. \A q \in Process, s \in Run :
          Held(q, s)' /\ Held(q, s) => loaded'[q][s].at >= loaded[q][s].at
  <2>1. \A q \in Process, s \in Run : loaded[q][s].at \in Nat
    BY DEF Inv, ProcessInv, Managed
  <2> QED BY <1>6, <1>7, <2>1
<1>9. db'.runs[r].owner = p /\ Head(draft'.runs[r]) = 0
  BY <1>2, <1>3, <1>5 DEF Head
<1>10. \A q \in Process, s \in Run :
          Held(q, s)' /\ ~Held(q, s) =>
              db'.runs[s].owner = q /\ Head(draft'.runs[s]) <= loaded'[q][s].at
  BY <1>6, <1>9 DEF Held
<1>11. \A q \in Process : doing'[q] = doing[q] \/ doing'[q].step # "reclaim"
  BY DEF Begun, Inv, ProcessInv
<1>12. Writes(None, 0) /\ \A s \in Run : s # None
  BY <1>5, ArchiveAssumption DEF Writes
<1> QED BY <1>5, <1>8, <1>10, <1>11, <1>12, HoldersGrow

\* A restore remembers the checkpoint it goes on from.
LEMMA RestoreGrows ==
    ASSUME Inv, Inv', Growth, NEW p \in Process, NEW c \in Checkpoint, RestoreRun(p, c)
    PROVE  Growth' /\ Paced /\ Moves
<1> DEFINE k == View(p).checkpoints[c]
<1>1. UNCHANGED <<db, draft, writer, loaded>>
  BY DEF RestoreRun
<1>2. /\ DataGrowth' /\ Moves /\ PointsStay
      /\ \A s \in Run : draft'.runs[s].records \subseteq draft.runs[s].records
  BY <1>1, StaysGrown DEF Untouched, Growth
<1>3. \A q \in Process, s \in Run :
          Held(q, s)' => Held(q, s) /\ loaded'[q][s].at >= loaded[q][s].at
  BY <1>1 DEF Held, Inv, ProcessInv, Managed
<1>4. k = db.checkpoints[c] /\ db.checkpoints[c] \in [run : Run \cup {None}, at : Nat]
  BY ViewIsGrown DEF Growth, Inv, DataInv, Database
<1>5. k = [run |-> k.run, at |-> k.at]
  BY <1>4
<1>6. /\ doing'[p].run = k.run /\ doing'[p].at = k.at
      /\ \A q \in Process \ {p} : doing'[q] = doing[q]
  BY DEF RestoreRun, Inv, ProcessInv
<1>7. db'.checkpoints[c] = [run |-> doing'[p].run, at |-> doing'[p].at]
  BY <1>1, <1>4, <1>5, <1>6
<1> QED BY <1>2, <1>3, <1>6, <1>7, QuietStep

\* A reclaim finds the records as they were left, its own checkpoint perhaps
\* no longer at their head.
LEMMA ReclaimGrows ==
    ASSUME Inv, Inv', Growth, NEW p \in Process, ReclaimRun(p)
    PROVE  Growth' /\ Paced /\ Moves
<1>0. PICK r \in Run : r = doing[p].run
  BY DEF ReclaimRun, Inv, ProcessInv
<1>1. doing[p].step = "reclaim" /\ doing[p].at \in Nat
  BY DEF ReclaimRun, Inv, ProcessInv, Doing
<1>2. CASE /\ View(p).runs[r].status = "suspended"
           /\ Commit(p, [View(p) EXCEPT !.runs[r].status = "paused", !.runs[r].owner = p])
           /\ loaded' = [loaded EXCEPT ![p][r] = LoadedAs("paused", doing[p].at)]
           /\ doing' = [doing EXCEPT ![p].step = "announce"]
  <2> DEFINE view == [View(p) EXCEPT !.runs[r].status = "paused", !.runs[r].owner = p]
             row == [View(p).runs[r] EXCEPT !.status = "paused", !.owner = p]
  <2>1. View(p) \in Database /\ View(p).runs[r] \in Row
    BY ViewIsData DEF Inv, Database
  <2>2. /\ row \in Row /\ row.status \in Active /\ row.owner = p
        /\ row.records = View(p).runs[r].records
    BY <2>1 DEF Row, Active
  <2>3. view = [View(p) EXCEPT !.runs = [View(p).runs EXCEPT ![r] = row]]
    BY <2>1 DEF Database, Row
  <2> HIDE DEF row, view
  <2>4. /\ view \in Database /\ view.checkpoints = View(p).checkpoints
        /\ view.runs[r] = row
        /\ \A s \in Run \ {r} : view.runs[s] = View(p).runs[s]
    BY <2>1, <2>2, <2>3 DEF Database
  <2>5. /\ Grown(db.runs[r], View(p).runs[r]) /\ View(p).checkpoints = db.checkpoints
        /\ Bounded(View(p))
    BY ViewIsGrown DEF Growth
  <2>6. db.runs[r].status = "suspended" /\ row.records = db.runs[r].records
    BY <1>2, <2>2, <2>5 DEF Grown, Active
  <2>7. Commit(p, view)
    BY <1>2 DEF view
  <2>8. /\ DataGrowth' /\ Moves /\ PointsStay /\ db'.runs = view.runs
        /\ draft'.runs = view.runs
        /\ \A s \in Run : draft'.runs[s].records \subseteq draft.runs[s].records
    <3>1. Moved(db.runs[r], view.runs[r])
      BY <2>2, <2>4, <2>6 DEF Moved
    <3> QED BY <2>2, <2>4, <2>7, <3>1, CommitMoves
  <2>9. /\ loaded'[p][r].at = doing[p].at
        /\ \A q \in Process, s \in Run : ~(q = p /\ s = r) => loaded'[q][s] = loaded[q][s]
    BY <1>2 DEF LoadedAs, Inv, ProcessInv
  <2>10. ~Held(p, r)
    BY <2>6 DEF Inv, WriterInv
  <2>11. \A q \in Process, s \in Run :
            Held(q, s)' /\ Held(q, s) => loaded'[q][s].at >= loaded[q][s].at
    <3>1. \A q \in Process, s \in Run : loaded[q][s].at \in Nat
      BY DEF Inv, ProcessInv, Managed
    <3> QED BY <2>9, <2>10, <3>1
  <2>12. LateReclaim(p, r) \/ Head(draft'.runs[r]) <= loaded'[p][r].at
    <3>1. PICK c \in Checkpoint : db.checkpoints[c] = [run |-> r, at |-> doing[p].at]
      BY <1>0, <1>1, <2>6 DEF Growth, Remembered
    <3>2. CASE AtHead(View(p), c)
      <4>1. doing[p].at = Head(View(p).runs[r])
        BY <2>5, <3>1, <3>2 DEF AtHead
      <4>2. Head(draft'.runs[r]) = Head(View(p).runs[r])
        BY <2>2, <2>4, <2>8 DEF Head
      <4> QED BY <1>1, <2>9, <4>1, <4>2
    <3>3. CASE ~AtHead(View(p), c)
      BY <1>0, <1>1, <1>2, <2>5, <3>1, <3>3 DEF LateReclaim
    <3> QED BY <3>2, <3>3
  <2>13. db'.runs[r].owner = p
    BY <2>2, <2>4, <2>8
  <2>14. \A q \in Process, s \in Run :
            Held(q, s)' /\ ~Held(q, s) =>
                /\ db'.runs[s].owner = q
                /\ LateReclaim(q, s) \/ Head(draft'.runs[s]) <= loaded'[q][s].at
    BY <2>9, <2>12, <2>13 DEF Held
  <2>15. \A q \in Process : doing'[q] = doing[q] \/ doing'[q].step # "reclaim"
    BY <1>2 DEF Inv, ProcessInv, Doing
  <2>16. Writes(None, 0) /\ \A s \in Run : s # None
    BY <2>8, ArchiveAssumption DEF Writes
  <2> QED BY <2>8, <2>11, <2>14, <2>15, <2>16, HoldersGrow
<1>3. CASE /\ Rollback(p) \/ Untouched
           /\ doing' = [doing EXCEPT ![p] = Nothing] /\ UNCHANGED loaded
  <2>1. /\ DataGrowth' /\ Moves /\ PointsStay
        /\ \A s \in Run : draft'.runs[s].records \subseteq draft.runs[s].records
    BY <1>3, StaysGrown DEF Growth
  <2>2. \A q \in Process, s \in Run :
            Held(q, s)' => Held(q, s) /\ loaded'[q][s].at >= loaded[q][s].at
    BY <1>3 DEF Held, Inv, ProcessInv, Managed
  <2>3. \A q \in Process : doing'[q] = doing[q] \/ doing'[q].step # "reclaim"
    BY <1>3 DEF Nothing, Inv, ProcessInv
  <2> QED BY <2>1, <2>2, <2>3, QuietStep
<1> QED BY <1>0, <1>2, <1>3 DEF ReclaimRun, LockedOut

\* A handler that records something of a run that its process holds.
LEMMA TryStepGrows ==
    ASSUME Inv, Inv', Growth, NEW p \in Process, NEW r \in Run, Held(p, r),
           NEW done \in Managed, NEW raised \in Managed, NEW flush \in BOOLEAN,
           Try(p, r, done, raised, flush),
           \A q \in Process : doing'[q] = doing[q] \/ doing'[q].step # "reclaim"
    PROVE  Growth' /\ Paced /\ Moves
<1>1. loaded[p][r].at \in Nat /\ loaded[p][r].at + 1 \in Nat
      /\ loaded[p][r].at + 1 >= loaded[p][r].at
  BY DEF Inv, ProcessInv, Managed
<1>2. /\ DataGrowth' /\ Moves /\ PointsStay
      /\ Writes(r, loaded[p][r].at + 1)
      /\ loaded'[p][r].at = loaded[p][r].at + 1
      /\ \A q \in Process, s \in Run :
             ~(q = p /\ s = r) => loaded'[q][s] = loaded[q][s]
  BY TryGrows
<1> QED BY <1>1, <1>2, RecordedStep

\* A handler that ends a run that its process holds.
LEMMA FinaliseStepGrows ==
    ASSUME Inv, Inv', Growth, NEW p \in Process, NEW r \in Run, Held(p, r),
           NEW m \in Managed, m.at = loaded[p][r].at,
           NEW status \in {"stopped", "failed"}, Finalise(p, r, m, status),
           \A q \in Process : doing'[q] = doing[q] \/ doing'[q].step # "reclaim"
    PROVE  Growth' /\ Paced /\ Moves
<1>1. m.at + 1 \in Nat /\ m.at + 1 >= loaded[p][r].at
  BY DEF Managed
<1>2. /\ DataGrowth' /\ Moves /\ PointsStay
      /\ Writes(r, m.at + 1)
      /\ loaded'[p][r].at = m.at + 1
      /\ \A q \in Process, s \in Run :
             ~(q = p /\ s = r) => loaded'[q][s] = loaded[q][s]
  BY FinaliseGrows
<1> QED BY <1>1, <1>2, RecordedStep

LEMMA DoneIsNoReclaim ==
    ASSUME Inv, NEW p \in Process,
           doing' = doing \/ doing' = [doing EXCEPT ![p] = Nothing]
    PROVE  \A q \in Process : doing'[q] = doing[q] \/ doing'[q].step # "reclaim"
BY DEF Nothing, Inv, ProcessInv

LEMMA StartGrows ==
    ASSUME Inv, Inv', Growth, NEW p \in Process, StartRun(p)
    PROVE  Growth' /\ Paced /\ Moves
<1>0. PICK r \in Run : r = doing[p].run
  BY DEF StartRun, Inv, ProcessInv
<1> DEFINE m == loaded[p][r]
<1>1. Held(p, r) /\ m \in Managed
  BY <1>0 DEF StartRun, Inv, ProcessInv
<1>2. PICK task \in {"none", "ticking"} : Try(p, r, [m EXCEPT !.task = task], m, TRUE)
  BY <1>0 DEF StartRun
<1>3. [m EXCEPT !.task = task] \in Managed
  BY <1>1 DEF Managed
<1>4. \A q \in Process : doing'[q] = doing[q] \/ doing'[q].step # "reclaim"
  BY DoneIsNoReclaim DEF StartRun
<1> HIDE DEF m
<1> QED BY <1>1, <1>2, <1>3, <1>4, TryStepGrows

LEMMA AnnounceGrows ==
    ASSUME Inv, Inv', Growth, NEW p \in Process, AnnounceRestore(p)
    PROVE  Growth' /\ Paced /\ Moves
<1>0. PICK r \in Run : r = doing[p].run
  BY DEF AnnounceRestore, Inv, ProcessInv
<1>1. Held(p, r) /\ loaded[p][r] \in Managed
  BY <1>0 DEF AnnounceRestore, Inv, ProcessInv
<1>2. \A q \in Process : doing'[q] = doing[q] \/ doing'[q].step # "reclaim"
  BY DoneIsNoReclaim DEF AnnounceRestore
<1>3. CASE Try(p, r, loaded[p][r], loaded[p][r], FALSE)
  BY <1>1, <1>2, <1>3, TryStepGrows
<1>4. CASE LockedOut(p) /\ loaded' = [loaded EXCEPT ![p][r] = NotLoaded]
  <2>1. /\ DataGrowth' /\ Moves /\ PointsStay
        /\ \A s \in Run : draft'.runs[s].records \subseteq draft.runs[s].records
    BY <1>4, StaysGrown DEF LockedOut, Growth
  <2>2. \A q \in Process, s \in Run :
            Held(q, s)' => Held(q, s) /\ loaded'[q][s].at >= loaded[q][s].at
    BY <1>4 DEF Held, NotLoaded, LoadedAs, Inv, ProcessInv, Managed
  <2> QED BY <1>2, <2>1, <2>2, QuietStep
<1> QED BY <1>0, <1>3, <1>4 DEF AnnounceRestore

LEMMA FinaliseStopGrows ==
    ASSUME Inv, Inv', Growth, NEW p \in Process, FinaliseStop(p)
    PROVE  Growth' /\ Paced /\ Moves
<1>0. PICK r \in Run : r = doing[p].run
  BY DEF FinaliseStop, Inv, ProcessInv
<1> DEFINE m == loaded[p][r]
           k == [m EXCEPT !.task = Broken(m).task]
<1>1. Held(p, r) /\ m \in Managed
  BY <1>0 DEF FinaliseStop, Inv, ProcessInv
<1>2. k \in Managed /\ k.at = m.at
  <2>1. Broken(m).task \in {"none", "ticking", "failed"}
    BY <1>1, BrokenIsManaged DEF Managed
  <2> QED BY <1>1, <2>1 DEF Managed
<1>3. Finalise(p, r, k, "stopped")
  BY <1>0 DEF FinaliseStop
<1>4. \A q \in Process : doing'[q] = doing[q] \/ doing'[q].step # "reclaim"
  BY DoneIsNoReclaim DEF FinaliseStop
<1> HIDE DEF k
<1> QED BY <1>1, <1>2, <1>3, <1>4, FinaliseStepGrows

\* Ticks record as they begin and as they end.
LEMMA TickGrows ==
    ASSUME Inv, Inv', Growth, NEW p \in Process, NEW r \in Run,
           BeginTick(p, r) \/ EndTick(p, r)
    PROVE  Growth' /\ Paced /\ Moves
<1> DEFINE m == loaded[p][r]
           began(kind) == [m EXCEPT !.advancing = kind]
           ended == IF m.stopping THEN m ELSE [m EXCEPT !.advancing = "no"]
<1>1. Held(p, r) /\ m \in Managed
  <2>1. m \in Managed /\ (m.advancing # "no" => Held(p, r))
    BY DEF Inv, ProcessInv
  <2>2. Held(p, r) \/ m.advancing # "no"
    BY DEF BeginTick, EndTick
  <2> QED BY <2>1, <2>2
<1>2. CASE BeginTick(p, r)
  <2>1. PICK kind \in {"realtime", "step"} :
            Try(p, r, began(kind), Broken(began(kind)), FALSE)
    BY <1>2 DEF BeginTick
  <2>2. began(kind) \in Managed /\ Broken(began(kind)) \in Managed
    <3>1. began(kind) \in Managed
      BY <1>1 DEF Managed
    <3> QED BY <3>1, BrokenIsManaged
  <2>3. doing' = doing
    BY <1>2 DEF BeginTick
  <2> HIDE DEF began
  <2> QED BY <1>1, <2>1, <2>2, <2>3, TryStepGrows
<1>3. CASE EndTick(p, r)
  <2>1. Try(p, r, ended, Broken(m), TRUE)
    BY <1>3 DEF EndTick
  <2>2. ended \in Managed /\ Broken(m) \in Managed
    BY <1>1, BrokenIsManaged DEF Managed
  <2>3. \A q \in Process : doing'[q] = doing[q] \/ doing'[q].step # "reclaim"
    BY <1>3 DEF EndTick, Inv, ProcessInv
  <2> HIDE DEF ended
  <2> QED BY <1>1, <2>1, <2>2, <2>3, TryStepGrows
<1> QED BY <1>2, <1>3

\* Memories are committed with what was open, a fault only breaks the tick.
LEMMA TickBreaksGrows ==
    ASSUME Inv, Inv', Growth, NEW p \in Process, NEW r \in Run,
           SaveMemory(p, r) \/ TickRaises(p, r) \/ ResearchFails(p, r)
    PROVE  Growth' /\ Paced /\ Moves
<1> DEFINE m == loaded[p][r]
<1>1. Held(p, r) /\ m \in Managed /\ doing' = doing
  BY DEF SaveMemory, TickRaises, ResearchFails, Inv, ProcessInv
<1>2. loaded' = loaded \/ loaded' = [loaded EXCEPT ![p][r] = Broken(m)]
  BY DEF SaveMemory, TickRaises, ResearchFails
<1>3. \A q \in Process, s \in Run :
          Held(q, s)' => Held(q, s) /\ loaded'[q][s].at >= loaded[q][s].at
  <2>1. /\ Broken(m).status = m.status /\ Broken(m).finalized = m.finalized
        /\ Broken(m).at = m.at
    BY <1>1 DEF Broken, Managed
  <2>2. loaded \in [Process -> [Run -> Managed]]
    BY DEF Inv, ProcessInv
  <2>3. \A q \in Process, s \in Run : loaded[q][s].at \in Nat
    BY <2>2 DEF Managed
  <2>4. \A q \in Process, s \in Run :
            /\ loaded'[q][s].status = loaded[q][s].status
            /\ loaded'[q][s].finalized = loaded[q][s].finalized
            /\ loaded'[q][s].at = loaded[q][s].at
    <3> HIDE DEF m
    <3> QED BY <1>2, <2>1, <2>2 DEF m
  <2> QED BY <2>3, <2>4 DEF Held
<1>4. /\ DataGrowth' /\ Moves /\ PointsStay
      /\ \A s \in Run : draft'.runs[s].records \subseteq draft.runs[s].records
  <2>0. View(p) \in Database /\ SameStatus(View(p), db) /\ Resumes(View(p))
    BY ViewIsData DEF Inv
  <2>1. CASE SaveMemory(p, r)
    <3>1. /\ Open(Claimed(View(p), p, r), p)
          /\ \A s \in Run : Claimed(View(p), p, r).runs[s].records
                                \subseteq draft.runs[s].records
      <4>1. 0 \in 0 .. MaxRecords[r]
        BY ArchiveAssumption
      <4> QED BY <1>1, <2>1, <4>1, AppendIsOpen DEF SaveMemory
    <3>2. Claimed(View(p), p, r) \in Database
      <4>1. View(p).runs[r].status # "suspended"
        BY <1>1, <2>0 DEF Inv, WriterInv, SameStatus
      <4> QED BY <2>0, <4>1, AppendedIsData
    <3>3. Commit(p, Claimed(View(p), p, r))
      BY <2>1 DEF SaveMemory
    <3>4. draft'.runs = Claimed(View(p), p, r).runs
      BY <3>1, <3>2, <3>3, CommitGrows DEF Open
    <3> QED BY <3>1, <3>2, <3>3, <3>4, OpenCommits
  <2>2. CASE TickRaises(p, r)
    BY <2>2, StaysGrown DEF TickRaises, Untouched, Growth
  <2>3. CASE ResearchFails(p, r)
    <3> DEFINE row == [View(p).runs[r] EXCEPT !.status = "capture_failed", !.complete = FALSE]
               view == [View(p) EXCEPT !.runs[r].status = "capture_failed",
                                       !.runs[r].complete = FALSE]
    <3>1. View(p).runs[r] \in Row
      BY <2>0 DEF Database
    <3>2. /\ row \in Row /\ row.status = "capture_failed"
          /\ row.owner = View(p).runs[r].owner /\ row.records = View(p).runs[r].records
      BY <3>1 DEF Row, Terminal
    <3>3. view = [View(p) EXCEPT !.runs = [View(p).runs EXCEPT ![r] = row]]
      BY <2>0, <3>1 DEF Database, Row
    <3>4. Commit(p, view)
      BY <2>3 DEF ResearchFails
    <3>5. Exists(View(p).runs[r])
      BY <2>3 DEF ResearchFails
    <3> HIDE DEF row, view
    <3>6. /\ view \in Database /\ view.checkpoints = View(p).checkpoints
          /\ view.runs[r] = row
          /\ \A s \in Run \ {r} : view.runs[s] = View(p).runs[s]
      BY <2>0, <3>2, <3>3 DEF Database
    <3>7. Grown(db.runs[r], View(p).runs[r])
      BY ViewIsGrown DEF Growth
    <3>8. db.runs[r].status \in Active \cup Terminal
      <4>1. db.runs[r].status \notin {"unborn", "suspended", "deleted"}
        BY <1>1, <3>5, <3>7 DEF Grown, Exists, Inv, WriterInv
      <4>2. db.runs[r] \in Row
        BY DEF Inv, DataInv, Database
      <4> QED BY <4>1, <4>2 DEF Row
    <3>9. Moved(db.runs[r], view.runs[r])
      BY <3>2, <3>6, <3>7, <3>8 DEF Moved, Grown, Terminal, Active
    <3> QED BY <3>2, <3>4, <3>6, <3>9, CommitMoves
  <2> QED BY <2>1, <2>2, <2>3
<1> QED BY <1>1, <1>3, <1>4, QuietStep

\* The operator pauses, resumes and intervenes.
LEMMA OperatorGrows ==
    ASSUME Inv, Inv', Growth, NEW p \in Process, NEW r \in Run,
           Pause(p, r) \/ Resume(p, r) \/ Intervene(p, r)
    PROVE  Growth' /\ Paced /\ Moves
<1> DEFINE m == loaded[p][r]
           paused == [m EXCEPT !.status = "paused"]
           running == [m EXCEPT !.status = "running"]
           ticking == [running EXCEPT !.task = "ticking"]
<1>1. Held(p, r) /\ m \in Managed /\ doing' = doing
  BY DEF Pause, Resume, Intervene, Inv, ProcessInv
<1>2. paused \in Managed /\ running \in Managed
  BY <1>1 DEF Managed
<1>3. ticking \in Managed
  BY <1>2 DEF Managed
<1>4. \/ Try(p, r, paused, paused, TRUE)
      \/ Try(p, r, ticking, running, TRUE)
      \/ Try(p, r, m, m, FALSE)
  BY DEF Pause, Resume, Intervene
<1> HIDE DEF m, paused, running, ticking
<1> QED BY <1>1, <1>2, <1>3, <1>4, TryStepGrows

LEMMA StopRunnerGrows ==
    ASSUME Inv, Inv', Growth, NEW p \in Process, NEW r \in Run, NEW m \in Managed,
           m.at = loaded[p][r].at, StopRunner(p, r, m), doing' = doing
    PROVE  Growth' /\ Paced /\ Moves
<1>1. Held(p, r)
  BY DEF StopRunner
<1>2. CASE Finalise(p, r, m, "stopped")
  BY <1>1, <1>2, FinaliseStepGrows
<1>3. CASE /\ loaded' = [loaded EXCEPT ![p][r] =
                              [m EXCEPT !.status = "stopped", !.stopping = TRUE]]
           /\ Untouched
  <2>1. [m EXCEPT !.status = "stopped", !.stopping = TRUE].at = m.at
    BY DEF Managed
  <2>2. \A q \in Process, s \in Run : loaded'[q][s].at = loaded[q][s].at
    BY <1>3, <2>1 DEF Inv, ProcessInv
  <2>3. \A q \in Process, s \in Run : loaded[q][s].at \in Nat
    BY DEF Inv, ProcessInv, Managed
  <2>4. \A q \in Process, s \in Run : ~(q = p /\ s = r) => loaded'[q][s] = loaded[q][s]
    BY <1>3 DEF Inv, ProcessInv
  <2>5. \A q \in Process, s \in Run :
            Held(q, s)' => Held(q, s) /\ loaded'[q][s].at >= loaded[q][s].at
    BY <1>1, <2>2, <2>3, <2>4 DEF Held
  <2>6. /\ DataGrowth' /\ Moves /\ PointsStay
        /\ \A s \in Run : draft'.runs[s].records \subseteq draft.runs[s].records
    BY <1>3, StaysGrown DEF Growth
  <2> QED BY <2>5, <2>6, QuietStep
<1> QED BY <1>2, <1>3 DEF StopRunner

LEMMA StopGrows ==
    ASSUME Inv, Inv', Growth, NEW p \in Process, NEW r \in Run,
           Stop(p, r) \/ StopToClose(p, r) \/ FinaliseFailed(p, r)
    PROVE  Growth' /\ Paced /\ Moves
<1> DEFINE m == loaded[p][r]
           k == [m EXCEPT !.task = IF m.advancing = "no" THEN "failed" ELSE @]
           e == [m EXCEPT !.task = "none"]
<1>1. m \in Managed /\ doing' = doing
  BY DEF Stop, StopToClose, FinaliseFailed, Inv, ProcessInv
<1>2. k \in Managed /\ k.at = m.at /\ e \in Managed /\ e.at = m.at
  BY <1>1 DEF Managed
<1>3. CASE StopRunner(p, r, m) \/ StopRunner(p, r, k)
  <2> HIDE DEF k
  <2> QED BY <1>1, <1>2, <1>3, StopRunnerGrows
<1>4. CASE Held(p, r) /\ Finalise(p, r, e, "failed")
  <2> HIDE DEF e
  <2> QED BY <1>1, <1>2, <1>4, FinaliseStepGrows
<1> QED BY <1>3, <1>4 DEF Stop, StopToClose, FinaliseFailed

LEMMA SuspendGrows ==
    ASSUME Inv, Inv', Growth, NEW p \in Process, NEW r \in Run, Suspend(p, r)
    PROVE  Growth' /\ Paced /\ Moves
<1>1. Held(p, r) /\ loaded[p][r] \in Managed /\ doing' = doing
  BY DEF Suspend, Suspendable, Inv, ProcessInv
<1>2. CASE /\ Writable(View(p), p, r)
           /\ Commit(p, [View(p) EXCEPT !.runs[r].status = "suspended",
                                        !.runs[r].owner = None])
           /\ loaded' = [loaded EXCEPT ![p][r] = NotLoaded]
  <2> DEFINE row == [View(p).runs[r] EXCEPT !.status = "suspended", !.owner = None]
             view == [View(p) EXCEPT !.runs[r].status = "suspended", !.runs[r].owner = None]
  <2>1. View(p) \in Database /\ View(p).runs[r] \in Row
    BY ViewIsData DEF Inv, Database
  <2>2. /\ row \in Row /\ row.status = "suspended" /\ row.owner = None
        /\ row.records = View(p).runs[r].records
    BY <2>1 DEF Row
  <2>3. view = [View(p) EXCEPT !.runs = [View(p).runs EXCEPT ![r] = row]]
    BY <2>1 DEF Database, Row
  <2>4. Commit(p, view)
    BY <1>2
  <2> HIDE DEF row, view
  <2>5. /\ view \in Database /\ view.checkpoints = View(p).checkpoints
        /\ view.runs[r] = row
        /\ \A s \in Run \ {r} : view.runs[s] = View(p).runs[s]
    BY <2>1, <2>2, <2>3 DEF Database
  <2>6. Grown(db.runs[r], View(p).runs[r])
    BY ViewIsGrown DEF Growth
  <2>7. db.runs[r].status \in Active
    BY <1>1, <1>2, MayWriteOwn
  <2>8. Moved(db.runs[r], view.runs[r])
    BY <2>2, <2>5, <2>6, <2>7 DEF Moved, Grown
  <2>9. /\ DataGrowth' /\ Moves /\ PointsStay
        /\ \A s \in Run : draft'.runs[s].records \subseteq draft.runs[s].records
    BY <2>2, <2>4, <2>5, <2>8, CommitMoves
  <2>10. \A q \in Process, s \in Run :
            Held(q, s)' => Held(q, s) /\ loaded'[q][s].at >= loaded[q][s].at
    BY <1>2 DEF Held, NotLoaded, LoadedAs, Inv, ProcessInv, Managed
  <2> QED BY <1>1, <2>9, <2>10, QuietStep
<1>3. CASE /\ Untouched
           /\ loaded' = [loaded EXCEPT ![p][r].status = "stopped", ![p][r].task = "failed"]
  <2>1. \A q \in Process, s \in Run : loaded'[q][s].at = loaded[q][s].at
    BY <1>3 DEF Inv, ProcessInv, Managed
  <2>2. \A q \in Process, s \in Run : loaded[q][s].at \in Nat
    BY DEF Inv, ProcessInv, Managed
  <2>3. \A q \in Process, s \in Run : ~(q = p /\ s = r) => loaded'[q][s] = loaded[q][s]
    BY <1>3 DEF Inv, ProcessInv
  <2>4. \A q \in Process, s \in Run :
            Held(q, s)' => Held(q, s) /\ loaded'[q][s].at >= loaded[q][s].at
    BY <1>1, <2>1, <2>2, <2>3 DEF Held
  <2>5. /\ DataGrowth' /\ Moves /\ PointsStay
        /\ \A s \in Run : draft'.runs[s].records \subseteq draft.runs[s].records
    BY <1>3, StaysGrown DEF Growth
  <2> QED BY <1>1, <2>4, <2>5, QuietStep
<1> QED BY <1>2, <1>3 DEF Suspend, LockedOut

LEMMA SaveCheckpointGrows ==
    ASSUME Inv, Inv', Growth, NEW p \in Process, NEW r \in Run, NEW c \in Checkpoint,
           SaveCheckpoint(p, r, c)
    PROVE  Growth' /\ Paced /\ Moves
<1> DEFINE point == [run |-> r, at |-> loaded[p][r].at]
           claimed == Claimed(View(p), p, r)
           view == [claimed EXCEPT !.checkpoints[c] = point]
<1>0. View(p) \in Database /\ SameStatus(View(p), db) /\ Resumes(View(p))
  BY ViewIsData DEF Inv
<1>1. Held(p, r) /\ loaded' = loaded /\ doing' = doing
  BY DEF SaveCheckpoint
<1>2. \A q \in Process, s \in Run :
          Held(q, s)' => Held(q, s) /\ loaded'[q][s].at >= loaded[q][s].at
  BY <1>1 DEF Held, Inv, ProcessInv, Managed
<1>3. /\ DataGrowth' /\ Moves /\ PointsStay
      /\ \A s \in Run : draft'.runs[s].records \subseteq draft.runs[s].records
  <2>1. CASE Commit(p, View(p))
    BY <1>0, <2>1, CommitAsSeen
  <2>2. CASE Writable(View(p), p, r) /\ Commit(p, view)
    <3>1. View(p).runs[r].owner = p /\ View(p).runs[r].status # "suspended"
      BY <1>1, <2>2, MayWriteOwn DEF Active
    <3>2. claimed \in Database /\ claimed.checkpoints = View(p).checkpoints
      BY <1>0, <3>1, AppendedIsData DEF Claimed, Database
    <3>3. \A s \in Run : claimed.runs[s] = View(p).runs[s]
      BY <1>0, <3>1 DEF Claimed, Database, Row
    <3>4. point \in [run : Run \cup {None}, at : Nat]
      BY DEF Inv, ProcessInv, Managed
    <3> HIDE DEF claimed, point
    <3>5. /\ view \in Database /\ view.runs = claimed.runs
          /\ \A e \in Checkpoint \ {c} : view.checkpoints[e] = View(p).checkpoints[e]
      BY <3>2, <3>4 DEF Database
    <3>6. View(p).checkpoints = db.checkpoints
      BY ViewIsGrown DEF Growth
    <3>7. db.checkpoints[c].run \notin Run
      BY <3>6, ArchiveAssumption DEF SaveCheckpoint, NoCheckpoint
    <3> HIDE DEF view
    <3> QED BY <2>2, <3>3, <3>5, <3>7, CommitMoves
  <2> QED BY <2>1, <2>2 DEF SaveCheckpoint
<1> QED BY <1>1, <1>2, <1>3, QuietStep

LEMMA DeleteGrows ==
    ASSUME Inv, Inv', Growth, NEW p \in Process, NEW r \in Run, DeleteRun(p, r)
    PROVE  Growth' /\ Paced /\ Moves
<1> DEFINE points == [c \in Checkpoint |->
                         IF db.checkpoints[c].run = r THEN [run |-> None, at |-> 1]
                                                      ELSE db.checkpoints[c]]
           view == [db EXCEPT !.runs[r] = EmptyRow("deleted", None), !.checkpoints = points]
<1>1. /\ EmptyRow("deleted", None) \in Row /\ EmptyRow("deleted", None).status = "deleted"
      /\ EmptyRow("deleted", None).records = {}
  BY DEF EmptyRow, Row
<1>2. points \in [Checkpoint -> [run : Run \cup {None}, at : Nat]]
  BY DEF Inv, DataInv, Database
<1>3. \A c \in Checkpoint : db.checkpoints[c].run # r => points[c] = db.checkpoints[c]
  OBVIOUS
<1>4. Commit(p, view) /\ View(p) = db /\ db.runs[r].status \in Terminal
  BY ArchiveAssumption DEF DeleteRun, View, Eligible
<1> HIDE DEF points
<1>5. /\ view \in Database /\ view.checkpoints = points
      /\ view.runs[r] = EmptyRow("deleted", None)
      /\ \A s \in Run \ {r} : view.runs[s] = db.runs[s]
  BY <1>1, <1>2 DEF Inv, DataInv, Database
<1> HIDE DEF view
<1>6. Moved(db.runs[r], view.runs[r])
  BY <1>1, <1>4, <1>5 DEF Moved
<1>7. /\ DataGrowth' /\ Moves /\ PointsStay
      /\ \A s \in Run : draft'.runs[s].records \subseteq draft.runs[s].records
  BY <1>1, <1>3, <1>4, <1>5, <1>6, CommitMoves
<1>8. \A q \in Process, s \in Run :
          Held(q, s)' => Held(q, s) /\ loaded'[q][s].at >= loaded[q][s].at
  BY DEF DeleteRun, Held, NotLoaded, LoadedAs, Inv, ProcessInv, Managed
<1>9. doing' = doing
  BY DEF DeleteRun
<1> QED BY <1>7, <1>8, <1>9, QuietStep

LEMMA CloseGrows ==
    ASSUME Inv, Inv', Growth, NEW p \in Process, BeginClose(p) \/ CloseStore(p)
    PROVE  Growth' /\ Paced /\ Moves
<1>1. /\ DataGrowth' /\ Moves /\ PointsStay
      /\ \A s \in Run : draft'.runs[s].records \subseteq draft.runs[s].records
  <2>1. CASE BeginClose(p)
    BY <2>1, StaysGrown DEF BeginClose, Untouched, Growth
  <2>2. CASE CloseStore(p)
    <3>1. /\ \A s \in Run : Grown(db.runs[s], View(p).runs[s])
          /\ \A s \in Run : View(p).runs[s].records \subseteq draft.runs[s].records
          /\ View(p).checkpoints = db.checkpoints
          /\ Bounded(View(p))
      BY ViewIsGrown DEF Growth
    <3>2. /\ db'.runs = View(p).runs /\ db'.checkpoints = View(p).checkpoints
          /\ draft' = db'
      <4>1. View(p) \in Database
        BY ViewIsData DEF Inv
      <4> QED BY <2>2, <4>1 DEF CloseStore, Database
    <3>3. DataGrowth'
      BY <3>1, <3>2 DEF DataGrowth, Grown, Bounded
    <3> QED BY <3>1, <3>2, <3>3 DEF Moves, Moved, PointsStay
  <2> QED BY <2>1, <2>2
<1>2. \A q \in Process, s \in Run :
          Held(q, s)' => Held(q, s) /\ loaded'[q][s].at >= loaded[q][s].at
  BY DEF BeginClose, CloseStore, Held, NotLoaded, LoadedAs, Inv, ProcessInv, Managed
<1>3. doing' = doing
  BY DEF BeginClose, CloseStore
<1> QED BY <1>1, <1>2, <1>3, QuietStep

-----------------------------------------------------------------------------
LEMMA InitGrowth == Init => Growth
<1> SUFFICES ASSUME Init PROVE Growth
  OBVIOUS
<1>1. /\ draft = db
      /\ \A r \in Run : db.runs[r] = EmptyRow("unborn", None)
      /\ \A p \in Process : doing[p] = Nothing
  BY DEF Init
<1>2. DataGrowth
  BY <1>1 DEF DataGrowth, Grown, Bounded, EmptyRow
<1>3. Owned
  BY <1>1 DEF Owned, EmptyRow, Active
<1>4. Remembered
  BY <1>1 DEF Remembered, Nothing
<1> QED BY <1>2, <1>3, <1>4 DEF Growth

\* What every step keeps, promises and commits.
LEMMA StepGrows ==
    ASSUME Inv, Inv', Growth, [Next]_vars
    PROVE  Growth' /\ Paced /\ Moves
<1>1. CASE UNCHANGED vars
  <2>1. /\ DataGrowth' /\ Moves /\ PointsStay
        /\ \A s \in Run : draft'.runs[s].records \subseteq draft.runs[s].records
    BY <1>1, StaysGrown DEF vars, Untouched, Growth
  <2>2. \A q \in Process, s \in Run :
            Held(q, s)' => Held(q, s) /\ loaded'[q][s].at >= loaded[q][s].at
    BY <1>1 DEF vars, Held, Inv, ProcessInv, Managed
  <2>3. doing' = doing
    BY <1>1 DEF vars
  <2> QED BY <2>1, <2>2, <2>3, QuietStep
<1>2. CASE Next
  <2>1. PICK p \in Process :
           \/ OpenStore(p) \/ ReconcilePriorRuns(p) \/ Catalog(p)
           \/ Heartbeat(p) \/ LeaseExpires(p) \/ Crash(p)
           \/ ReclaimRun(p) \/ StartRun(p) \/ AnnounceRestore(p) \/ FinaliseStop(p)
           \/ BeginClose(p) \/ CloseStore(p)
           \/ \E c \in Checkpoint : RestoreRun(p, c)
           \/ \E r \in Run :
                \/ BeginRun(p, r) \/ BeginTick(p, r) \/ SaveMemory(p, r) \/ EndTick(p, r)
                \/ TickRaises(p, r) \/ ResearchFails(p, r)
                \/ Pause(p, r) \/ Resume(p, r) \/ Intervene(p, r) \/ Stop(p, r)
                \/ Preview(p, r) \/ DeleteRun(p, r)
                \/ Suspend(p, r) \/ StopToClose(p, r) \/ FinaliseFailed(p, r)
                \/ \E c \in Checkpoint : BranchRun(p, c, r) \/ SaveCheckpoint(p, r, c)
    BY <1>2 DEF Next
  <2>2. CASE OpenStore(p) \/ Heartbeat(p) \/ LeaseExpires(p)
    BY <2>2, LeaseGrows
  <2>3. CASE ReconcilePriorRuns(p) \/ Catalog(p) \/ \E r \in Run : Preview(p, r)
    BY <2>3, ReconcileGrows
  <2>4. CASE Crash(p) \/ BeginClose(p) \/ CloseStore(p)
    BY <2>4, CrashGrows, CloseGrows
  <2>5. CASE ReclaimRun(p) \/ \E c \in Checkpoint : RestoreRun(p, c)
    BY <2>5, ReclaimGrows, RestoreGrows
  <2>6. CASE StartRun(p) \/ AnnounceRestore(p) \/ FinaliseStop(p)
    BY <2>6, StartGrows, AnnounceGrows, FinaliseStopGrows
  <2>7. CASE \E r \in Run : BeginRun(p, r) \/ \E c \in Checkpoint : BranchRun(p, c, r)
    BY <2>7, BegunGrows DEF BeginRun, BranchRun
  <2>8. CASE \E r \in Run : BeginTick(p, r) \/ EndTick(p, r)
    BY <2>8, TickGrows
  <2>9. CASE \E r \in Run : SaveMemory(p, r) \/ TickRaises(p, r) \/ ResearchFails(p, r)
    BY <2>9, TickBreaksGrows
  <2>10. CASE \E r \in Run : Pause(p, r) \/ Resume(p, r) \/ Intervene(p, r)
    BY <2>10, OperatorGrows
  <2>11. CASE \E r \in Run : Stop(p, r) \/ StopToClose(p, r) \/ FinaliseFailed(p, r)
    BY <2>11, StopGrows
  <2>12. CASE \E r \in Run : Suspend(p, r) \/ DeleteRun(p, r)
    BY <2>12, SuspendGrows, DeleteGrows
  <2>13. CASE \E r \in Run, c \in Checkpoint : SaveCheckpoint(p, r, c)
    BY <2>13, SaveCheckpointGrows
  <2> QED BY <2>1, <2>2, <2>3, <2>4, <2>5, <2>6, <2>7, <2>8, <2>9, <2>10, <2>11,
             <2>12, <2>13
<1> QED BY <1>1, <1>2

\* The open transaction only adds records, to runs of its writer; a run that
\* goes on belongs to its holder; a run being reclaimed has its checkpoint.
THEOREM GrowthAlways == Spec => []Growth
<1>1. Init => Growth
  BY InitGrowth
<1>2. Inv /\ Inv' /\ Growth /\ [Next]_vars => Growth'
  BY StepGrows
<1> QED BY <1>1, <1>2, Invariance, PTL DEF Spec

\* A process falls behind the table of a run it writes only by a late reclaim
\* (RunArchive.OnlyLateReclaimsFallBehind).
THEOREM FallsBehindOnlyLate == Spec => OnlyLateReclaimsFallBehind
<1>1. Inv /\ Inv' /\ Growth /\ [Next]_vars =>
          [\A p \in Process, r \in Run :
               Behind(p, r)' => Behind(p, r) \/ LateReclaim(p, r)]_vars
  BY StepGrows DEF Paced
<1> QED BY <1>1, Invariance, GrowthAlways, PTL DEF Spec, OnlyLateReclaimsFallBehind

-----------------------------------------------------------------------------
\* A step of a row is a step of its history.
LEMMA MovedMaps ==
    ASSUME Inv, Inv', Growth, Growth', NEW r \in Run, Moved(db.runs[r], db'.runs[r])
    PROVE  \/ History!Same(r) \/ History!Begin(r) \/ History!Extend(r)
           \/ History!Suspend(r) \/ History!Reclaim(r) \/ History!End(r)
           \/ History!Interrupt(r) \/ History!Delete(r)
<1> DEFINE a == db.runs[r]
           b == db'.runs[r]
<1>1. MaxRecords[r] \in Nat
  BY ArchiveAssumption
<1>2. a.records \subseteq 0 .. MaxRecords[r] /\ b.records \subseteq 0 .. MaxRecords[r]
  BY DEF Growth, DataGrowth, Grown, Bounded
<1>3. /\ Head(a) \in Nat /\ Head(b) \in Nat
      /\ a.records \subseteq b.records => Head(a) <= Head(b)
      /\ b.records = a.records => Head(a) = Head(b)
  <2>1. Head(a) \in 0 .. MaxRecords[r] /\ Head(b) \in 0 .. MaxRecords[r]
    BY <1>1, <1>2, HeadIsGreatest
  <2>2. a.records \subseteq b.records => Head(a) <= Head(b)
    BY <1>1, <1>2, HeadGrows
  <2>3. b.records = a.records => Head(a) = Head(b)
    BY DEF Head
  <2> QED BY <2>1, <2>2, <2>3
<1>4. a.records = {} => Head(a) = 0
  BY DEF Head
<1>5. b.records = {} => Head(b) = 0
  BY DEF Head
<1>6. /\ a.status \in Active => PhaseOf(a.status) = "open"
      /\ b.status \in Active => PhaseOf(b.status) = "open"
      /\ a.status \in Terminal => PhaseOf(a.status) = "ended"
      /\ b.status \in Terminal => PhaseOf(b.status) = "ended"
      /\ a.status = "unborn" => PhaseOf(a.status) = "unborn"
      /\ a.status = "suspended" => PhaseOf(a.status) = "suspended"
      /\ b.status = "suspended" => PhaseOf(b.status) = "suspended"
      /\ b.status = "deleted" => PhaseOf(b.status) = "deleted"
      /\ b.status = a.status => PhaseOf(b.status) = PhaseOf(a.status)
  BY DEF PhaseOf, Active, Terminal
<1> DEFINE x == Head(a)
           y == Head(b)
           f == PhaseOf(a.status)
           g == PhaseOf(b.status)
<1>7. /\ History!Same(r) <=> g = f /\ b.owner = a.owner /\ y = x
      /\ History!Begin(r) <=> f = "unborn" /\ g = "open" /\ b.owner \in Process /\ y = 0
      /\ History!Extend(r) <=> f = "open" /\ g = "open" /\ b.owner = a.owner /\ y > x
      /\ History!Suspend(r) <=> f = "open" /\ g = "suspended" /\ b.owner = None /\ y >= x
      /\ History!Reclaim(r) <=> f = "suspended" /\ g = "open" /\ b.owner \in Process /\ y = x
      /\ History!End(r) <=> f = "open" /\ g = "ended" /\ b.owner = a.owner /\ y >= x
      /\ History!Interrupt(r) <=> f = "open" /\ g = "ended" /\ b.owner \in Process /\ y = x
      /\ History!Delete(r) <=> f = "ended" /\ g = "deleted"
  BY DEF History!Same, History!Begin, History!Extend, History!Suspend,
         History!Reclaim, History!End, History!Interrupt, History!Delete
<1> HIDE DEF x, y, f, g
<1>8. CASE Grown(a, b)
  <2>1. y = x \/ (f = "open" /\ g = "open" /\ y > x)
    BY <1>3, <1>6, <1>8 DEF Grown, x, y, f, g
  <2>2. g = f /\ b.owner = a.owner
    BY <1>6, <1>8 DEF Grown, f, g
  <2> QED BY <1>7, <2>1, <2>2
<1>9. CASE a.status = "unborn" /\ b.status \in Active /\ b.owner \in Process /\ b.records = {}
  BY <1>5, <1>6, <1>7, <1>9 DEF y, f, g
<1>10. CASE /\ a.status \in Active /\ b.status \in Terminal
            /\ b.owner = a.owner /\ a.records \subseteq b.records
  BY <1>3, <1>6, <1>7, <1>10 DEF x, y, f, g
<1>11. CASE /\ a.status \in Active /\ b.status = "suspended"
            /\ b.owner = None /\ a.records \subseteq b.records
  BY <1>3, <1>6, <1>7, <1>11 DEF x, y, f, g
<1>12. CASE /\ a.status = "suspended" /\ b.status \in Active
            /\ b.owner \in Process /\ b.records = a.records
  BY <1>3, <1>6, <1>7, <1>12 DEF x, y, f, g
<1>13. CASE /\ a.status \in Active /\ b.status \in Terminal
            /\ b.owner \in Process /\ b.records = a.records
  BY <1>3, <1>6, <1>7, <1>13 DEF x, y, f, g
<1>14. CASE /\ a.status \in Terminal /\ b.status \in Terminal
            /\ b.owner = a.owner /\ b.records = a.records
  BY <1>3, <1>6, <1>7, <1>14 DEF x, y, f, g
<1>15. CASE a.status \in Terminal /\ b.status = "deleted"
  BY <1>6, <1>7, <1>15 DEF f, g
<1> QED BY <1>8, <1>9, <1>10, <1>11, <1>12, <1>13, <1>14, <1>15 DEF Moved

\* Whatever the processes do, the committed database is a history of runs
\* (RunArchive.ImplementsHistory).
THEOREM ArchiveImplementsHistory == Spec => ImplementsHistory
<1>1. Init => History!Init
  <2>1. Init => \A r \in Run : /\ db.runs[r].status = "unborn" /\ db.runs[r].owner = None
                              /\ db.runs[r].records = {}
    BY DEF Init, EmptyRow
  <2> QED BY <2>1 DEF History!Init, PhaseOf, Active, Terminal, Head
<1>2. Inv /\ Inv' /\ Growth /\ Growth' /\ [Next]_vars => [History!Next]_(History!vars)
  <2> SUFFICES ASSUME Inv, Inv', Growth, Growth', [Next]_vars PROVE History!Next
    OBVIOUS
  <2>1. \A r \in Run : Moved(db.runs[r], db'.runs[r])
    BY StepGrows DEF Moves
  <2> QED BY <2>1, MovedMaps DEF History!Next
<1> QED BY <1>1, <1>2, Invariance, GrowthAlways, PTL DEF Spec, ImplementsHistory, History!Spec
=============================================================================
