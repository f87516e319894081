--------------------------- MODULE DatasetRecords ---------------------------
(***************************************************************************)
(* What the collectors of a run share: the research collector of a run      *)
(* (application/collection.py) is a record `c', with these fields beside    *)
(* those of the modules that use this one:                                  *)
(*     number   the sequence number of the last record appended             *)
(*     log      the records a projection can be rebuilt from, in order      *)
(*     db       the projected tables, and whether a statement has raised    *)
(* Tables and the collector's dictionaries are functions on their keys.     *)
(***************************************************************************)
EXTENDS Naturals, Sequences, FiniteSets, SequencesExt, TLC

Absent == "-"

NoRows == [x \in {} |-> 0]

Put(f, key, row) == [x \in DOMAIN f \cup {key} |-> IF x = key THEN row ELSE f[x]]

\* What f says, and where it says nothing what g says.
Else(f, g) == [x \in DOMAIN f \cup DOMAIN g |-> IF x \in DOMAIN f THEN f[x] ELSE g[x]]

Drop(f, keys) == [x \in DOMAIN f \ keys |-> f[x]]

Get(f, key, other) == IF key \in DOMAIN f THEN f[key] ELSE other

\* A record is appended: DatasetRecordProjector numbers it and the store inserts it.
Record(c, body) ==
    [c EXCEPT !.number = @ + 1,
              !.log = Append(@, Else(body, [number |-> c.number + 1]))]
=============================================================================
