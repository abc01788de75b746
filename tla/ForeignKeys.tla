----------------------------- MODULE ForeignKeys -----------------------------
(***************************************************************************)
(* Tables as one map from keys to rows, and what a DELETE does to such a   *)
(* map under declared foreign keys.                                        *)
(*                                                                         *)
(* A key is a pair <<table, id>>.  A row keeps one payload column and one  *)
(* foreign-key column, ref.  A table has at most one foreign key and the   *)
(* foreign keys form no cycle.  The same operators describe PostgreSQL's   *)
(* own referential actions on the production tables and the closure that   *)
(* the generated DELETE triggers compute on a branch.                      *)
(*                                                                         *)
(* An operator named in a parenthesis before a definition is a wrong form  *)
(* of that definition, kept to show that some property notices the bug.    *)
(***************************************************************************)
EXTENDS Integers, FiniteSets

CONSTANTS
    Tables,      \* tracked tables
    ProdIds,     \* ids that the production sequences hand out
    LocalIds,    \* ids at and above the branch sequence's START WITH offset
    Vals,        \* payloads
    FK,          \* FK[t] = [table, rule]: t's foreign key; table Null if none
    Null,        \* SQL NULL
    Absent       \* there is no row at this key

Ids  == ProdIds \cup LocalIds
Keys == Tables \X Ids
Refs == Ids \cup {Null}
Rows == [val : Vals \cup {Null}, ref : Refs]
Rules == {"CASCADE", "SET NULL", "RESTRICT", "NONE"}

\* RESTRICT stands for NO ACTION too: both triggers and base refuse the DELETE.
ASSUME IdsAssumption ==
    /\ ProdIds \subseteq Nat
    /\ LocalIds \subseteq Nat
    /\ \A p \in ProdIds, l \in LocalIds : p < l
ASSUME SentinelAssumption ==
    /\ Null \notin Ids
    /\ Null \notin Tables
    /\ Absent \notin Rows
ASSUME FKAssumption ==
    /\ IsFiniteSet(Tables)
    /\ FK \in [Tables -> [table : Tables \cup {Null}, rule : Rules]]
    /\ \E rank \in [Tables -> 0..Cardinality(Tables)] :
         \A t \in Tables : FK[t].table # Null => rank[FK[t].table] < rank[t]

-----------------------------------------------------------------------------
(* A row map is a function from Keys to Rows \cup {Absent}.                *)

Present(rows) == {k \in Keys : rows[k] # Absent}

\* The key that row r of table t refers to.
Parent(t, r) == <<FK[t].table, r.ref>>

Refers(rows, c, k) == rows[c] # Absent /\ Parent(c[1], rows[c]) = k

\* A DELETE of roots takes with them the rows that refer to them by CASCADE, and
\* so on.  Without cycles the cascade is no deeper than the number of tables.
Taken(rows, roots) ==
    LET upTo[n \in Nat] ==
          IF n = 0 THEN roots
          ELSE LET before == upTo[n - 1]
               IN  before \cup {c \in Keys : /\ FK[c[1]].rule = "CASCADE"
                                            /\ rows[c] # Absent
                                            /\ Parent(c[1], rows[c]) \in before}
    IN  upTo[Cardinality(Tables)]

Doomed(rows, roots) == Present(rows) \cap Taken(rows, roots)

\* Rows that refer, under the given rule, to a row that a DELETE of roots removes.
DoomedBy(rows, roots, rule) ==
    LET doomed == Doomed(rows, roots)
    IN  {c \in Keys : FK[c[1]].rule = rule /\ \E k \in doomed : Refers(rows, c, k)}

\* The rows whose foreign key the DELETE sets to NULL.
\* (OrphanedNone: SET NULL is forgotten.)
OrphanedNone(rows, roots) == {}
Orphaned(rows, roots) == DoomedBy(rows, roots, "SET NULL")

\* The DELETE is refused: a row it would remove is still referred to.
Restricted(rows, roots) == DoomedBy(rows, roots, "RESTRICT") # {}

AfterDelete(rows, roots) ==
    LET doomed   == Doomed(rows, roots)
        orphaned == Orphaned(rows, roots)
    IN  [k \in Keys |-> IF k \in doomed THEN Absent
                        ELSE IF k \in orphaned THEN [rows[k] EXCEPT !.ref = Null]
                        ELSE rows[k]]

\* Every reference of a present row has its parent.
Closed(rows) ==
    \A k \in Present(rows) : rows[k].ref # Null => Parent(k[1], rows[k]) \in Present(rows)
=============================================================================
