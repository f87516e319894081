---------------------------- MODULE MCRunArchive ----------------------------
(* Model values for RunArchive. *)
EXTENDS RunArchive, TLC

CONSTANTS p1, p2, p3, r1, r2, c1, c2

\* One run with a longer history and a short one beside it, or its branch.
UnevenRuns == (r1 :> 4) @@ (r2 :> 2)

\* Identifiers of processes are drawn at random and never compared.
Symmetry == Permutations(Process)
=============================================================================
