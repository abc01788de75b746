---------------------------- MODULE FKConstraints ----------------------------
(***************************************************************************)
(* The foreign keys of a database, in any number and any shape: several    *)
(* for one table, to the table itself, in cycles, and of tables outside a  *)
(* branch.  fks is the list of them in the order the catalog returns them; *)
(* the index of a foreign key stands for its column.                       *)
(***************************************************************************)
EXTENDS Integers, Sequences

CONSTANTS Names      \* table names

VARIABLES fks

Rules == {"CASCADE", "SET NULL", "RESTRICT", "NO ACTION", "SET DEFAULT"}

FKConstraint == [source : Names, referenced : Names, rule : Rules]
=============================================================================
