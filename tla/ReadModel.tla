------------------------------ MODULE ReadModel ------------------------------
(***************************************************************************)
(* What the projectors have in common: the database is a record of tables, *)
(* a projector maps it to a new one and to an outcome.  A NULL column is   *)
(* NULL, an absent row is NULL too.                                        *)
(***************************************************************************)
EXTENDS Absent, Naturals, Sequences, FiniteSets, FiniteSetsExt, SequencesExt

Coalesce(a, b) == IF a # NULL THEN a ELSE b
\* greatest(a, b) of SQL ignores NULL.
Greatest(a, b) == IF a = NULL THEN b ELSE IF b = NULL \/ a >= b THEN a ELSE b

\* ProjectionOutcome: a deferred event leaves the row pending for a later pass.
Applied(db) == [out |-> "Applied", db |-> db]
Deferred(db) == [out |-> "Deferred", db |-> db]

\* An UPDATE of one row, which defers the event when there is no such row.
UpdateRow(db, table, key, F(_)) ==
  IF db[table][key] = NULL THEN Deferred(db)
  ELSE Applied([db EXCEPT ![table][key] = F(@)])
==============================================================================
