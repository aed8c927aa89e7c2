------------------------------- MODULE Rowids -------------------------------
(***************************************************************************)
(* SQLite tables with an INTEGER PRIMARY KEY: functions from the possible   *)
(* row ids to a row or None.                                               *)
(*                                                                         *)
(* Here and in the other modules a definition may be preceded by one with  *)
(* the same parameters, marked "Mutant": what a plausible slip would make  *)
(* of it.  No other definition uses it; it shows which property of a run   *)
(* notices the slip.                                                       *)
(***************************************************************************)
EXTENDS Integers

CONSTANT None  \* no row, no value

Rows(table) == {i \in DOMAIN table : table[i] # None}

(* Without AUTOINCREMENT a new row takes the largest id in the table plus   *)
(* one, so the id of a deleted last row is given out again.                 *)
IsNewRowid(table, n) ==
  /\ n \in DOMAIN table
  /\ \A m \in Rows(table) : m < n
  /\ n = 1 \/ n - 1 \in Rows(table)
=============================================================================
