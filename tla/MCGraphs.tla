------------------------------- MODULE MCGraphs -------------------------------
(***************************************************************************)
(* The algorithms over foreign keys, on every small input.  sortTables: any *)
(* list of three tracked tables and of up to MaxSortFKs foreign keys, also *)
(* cyclic ones, self references and references to an untracked table.      *)
(* BuildCascadeGraph: any list of up to MaxGraphFKs foreign keys between   *)
(* these tables, the untracked one included.  The DELETE triggers: any     *)
(* list of up to MaxRuledFKs foreign keys with rules between two tables    *)
(* and an untracked one, and any references between three or four rows.    *)
(* Each behaviour runs one of the three; the variables of the others are  *)
(* idle.                                                                   *)
(***************************************************************************)
EXTENDS SortTables, CascadeGraph, DeleteTriggers, SequencesExt, TLC

CONSTANTS
    users, orders,   \* two of the tracked tables
    Untracked,       \* a table outside the branch
    Nobody,          \* a table without foreign keys
    MaxSortFKs,      \* longest list of foreign keys for sortTables
    MaxGraphFKs,     \* longest list for BuildCascadeGraph
    MaxRuledFKs      \* longest list for the triggers

OnlySort   == <<tables, next, visiting, visited, result>>
OnlyGraph  == <<root, calls, seen, nodes>>
OnlyDelete == <<victim, before, rows, tombstones, triggers, refused>>
vars == <<fks, OnlySort, OnlyGraph, OnlyDelete>>

AllTables == Tracked \cup {Untracked}
PlainFKs  == [source : AllTables, referenced : AllTables, rule : {"CASCADE"}]
OwnFKs    == {fk \in PlainFKs : fk.source # Untracked}
RuledFKs  == [source : {users, orders}, referenced : {users, orders},
              rule : {"CASCADE", "SET NULL", "NO ACTION"}]
             \cup [source : {Untracked}, referenced : {users, orders}, rule : {"CASCADE"}]

\* The longest lists come with one order only.
Stored(list) ==
    ({users, orders} \X Ids) \ (IF Len(list) < MaxRuledFKs THEN {} ELSE {<<orders, 2>>})

\* A foreign key of the row's own table refers to some row or is NULL.
RowsOf(k, list) ==
    {k :> r : r \in {r \in [1..Len(list) -> Ids \cup {Null}] :
        \A i \in 1..Len(list) :
            r[i] # Null => k[1] = list[i].source /\ <<list[i].referenced, r[i]>> \in Stored(list)}}
DataOf(list) ==
    {u1 @@ u2 @@ o1 @@ o2 :
        u1 \in RowsOf(<<users, 1>>, list), u2 \in RowsOf(<<users, 2>>, list),
        o1 \in RowsOf(<<orders, 1>>, list),
        o2 \in IF <<orders, 2>> \in Stored(list) THEN RowsOf(<<orders, 2>>, list) ELSE {<<>>}}

NoSort   == tables = <<>> /\ SortStart
NoGraph  == root = Nobody /\ calls = <<>> /\ seen = {} /\ nodes = <<>>
NoDelete == /\ victim = <<>> /\ before = <<>> /\ rows = <<>>
            /\ tombstones = {} /\ triggers = <<>> /\ refused = FALSE

Init ==
    \/ /\ tables \in SetToSeqs(Tracked) /\ fks \in SeqOf(OwnFKs, MaxSortFKs)
       /\ SortStart /\ NoGraph /\ NoDelete
    \/ /\ root \in Tracked /\ fks \in SeqOf(PlainFKs, MaxGraphFKs)
       /\ GraphStart /\ NoSort /\ NoDelete
    \/ /\ victim = <<users, 1>> /\ fks \in SeqOf(RuledFKs, MaxRuledFKs)
       /\ before \in DataOf(fks)
       /\ DeleteStart /\ NoSort /\ NoGraph

Sort    == SortNext   /\ UNCHANGED <<OnlyGraph, OnlyDelete>>
Inspect == GraphNext  /\ UNCHANGED <<OnlySort, OnlyDelete>>
Delete  == DeleteNext /\ UNCHANGED <<OnlySort, OnlyGraph>>

Next == Sort \/ Inspect \/ Delete

Spec == Init /\ [][Next]_vars
=============================================================================
