----------------------------- MODULE RunHistory -----------------------------
(***************************************************************************)
(* What the shared dataset promises about the history of a run, whatever    *)
(* processes start, crash, restore and delete around it: a run is written   *)
(* by one process at a time, its history only grows, a history that ended   *)
(* is never written again, a suspended one goes on where it stopped, and    *)
(* only an ended one is ever deleted.                                       *)
(*                                                                          *)
(* There are no transactions, locks, leases or checkpoints here.  One       *)
(* commit of the database may take a step of several runs at once.          *)
(***************************************************************************)
EXTENDS Naturals

CONSTANTS Process,  \* the processes that open the dataset
          Run,      \* identifiers of runs, of branches as well
          None      \* no process

VARIABLES phase,    \* [Run -> Phase]
          owner,    \* [Run -> Process \cup {None}]: who may write
          length    \* [Run -> Nat]: the sequence number of the last record

vars == <<phase, owner, length>>

Phase == {"unborn", "open", "suspended", "ended", "deleted"}

Init == /\ phase = [r \in Run |-> "unborn"]
        /\ owner = [r \in Run |-> None]
        /\ length = [r \in Run |-> 0]

Same(r) == phase'[r] = phase[r] /\ owner'[r] = owner[r] /\ length'[r] = length[r]

Begin(r) == /\ phase[r] = "unborn" /\ phase'[r] = "open"
            /\ owner'[r] \in Process
            /\ length'[r] = 0

\* Only the owner extends a history, and nothing is taken back.
Extend(r) == /\ phase[r] = "open" /\ phase'[r] = "open"
             /\ owner'[r] = owner[r]
             /\ length'[r] > length[r]

Suspend(r) == /\ phase[r] = "open" /\ phase'[r] = "suspended"
              /\ owner'[r] = None
              /\ length'[r] >= length[r]

\* The next owner finds the history as it was left.
Reclaim(r) == /\ phase[r] = "suspended" /\ phase'[r] = "open"
              /\ owner'[r] \in Process
              /\ length'[r] = length[r]

End(r) == /\ phase[r] = "open" /\ phase'[r] = "ended"
          /\ owner'[r] = owner[r]
          /\ length'[r] >= length[r]

\* An abandoned run is ended by another process, as it is.
Interrupt(r) == /\ phase[r] = "open" /\ phase'[r] = "ended"
                /\ owner'[r] \in Process
                /\ length'[r] = length[r]

Delete(r) == phase[r] = "ended" /\ phase'[r] = "deleted"

Next == \A r \in Run : Same(r) \/ Begin(r) \/ Extend(r) \/ Suspend(r)
                       \/ Reclaim(r) \/ End(r) \/ Interrupt(r) \/ Delete(r)

Spec == Init /\ [][Next]_vars
=============================================================================
