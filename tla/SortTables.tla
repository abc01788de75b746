------------------------------ MODULE SortTables ------------------------------
(***************************************************************************)
(* sortTables (merge/engine.go): the order in which a merge replays the    *)
(* tables, by depth-first visits along the foreign keys.  The recursion of *)
(* the closure visit is a stack of calls, and a step is one iteration of a *)
(* loop or one return.                                                     *)
(*                                                                         *)
(* An operator named in a parenthesis before a definition is a wrong form  *)
(* of that definition, kept to show that some property notices the bug.    *)
(***************************************************************************)
EXTENDS FKConstraints

VARIABLES
    tables,      \* the tables to sort
    next,        \* position of the last loop in tables
    visiting,    \* the calls of visit, the innermost last, each [table, fk]:
                 \* fk is the position of its loop in fks
    visited,
    result

sortVars == <<fks, tables, next, visiting, visited, result>>

Listed == {tables[i] : i \in 1..Len(tables)}

\* The test of the loop: a foreign key of this table to another listed table.
\* (FollowsAnywhere: no test that the other table is listed; FollowsBackwards:
\* source and referenced table exchanged.)
FollowsAnywhere(name, fk) == fk.source = name /\ fk.referenced # name
FollowsBackwards(name, fk) ==
    fk.referenced = name /\ fk.source # name /\ fk.source \in Listed
Follows(name, fk) ==
    fk.source = name /\ fk.referenced # name /\ fk.referenced \in Listed

SortStart == next = 1 /\ visiting = <<>> /\ visited = {} /\ result = <<>>

SortInit == fks \in Seq(FKConstraint) /\ tables \in Seq(Names) /\ SortStart

\* A call of visit by the last of callers, or by the loop if there is none.
Visit(name, callers) ==
    \/ /\ name \in visited
       /\ visiting' = callers
       /\ UNCHANGED visited
    \/ /\ name \notin visited
       /\ visiting' = Append(callers, [table |-> name, fk |-> 1])
       /\ visited' = visited \cup {name}

VisitNext ==
    /\ visiting = <<>> /\ next <= Len(tables)
    /\ next' = next + 1
    /\ Visit(tables[next], visiting)
    /\ UNCHANGED <<fks, tables, result>>

Innermost == visiting[Len(visiting)]
Advanced  == [visiting EXCEPT ![Len(visiting)].fk = @ + 1]

FollowFK ==
    /\ visiting # <<>> /\ Innermost.fk <= Len(fks)
    /\ LET fk == fks[Innermost.fk]
       IN  \/ /\ Follows(Innermost.table, fk)
              /\ Visit(fk.referenced, Advanced)
           \/ /\ ~Follows(Innermost.table, fk)
              /\ visiting' = Advanced
              /\ UNCHANGED visited
    /\ UNCHANGED <<fks, tables, next, result>>

LeaveTable ==
    /\ visiting # <<>> /\ Innermost.fk > Len(fks)
    /\ result' = Append(result, Innermost.table)
    /\ visiting' = SubSeq(visiting, 1, Len(visiting) - 1)
    /\ UNCHANGED <<fks, tables, next, visited>>

SortNext == VisitNext \/ FollowFK \/ LeaveTable

SortSpec == SortInit /\ [][SortNext]_sortVars

-----------------------------------------------------------------------------
(* What the order promises.                                                *)

Sorted == visiting = <<>> /\ next > Len(tables)

\* The listed tables that t refers to, other than itself.
Parents(t) ==
    {p \in Listed \ {t} : \E i \in 1..Len(fks) : fks[i].source = t /\ fks[i].referenced = p}

\* All ancestors: what is in every set that has the parents, and theirs.
Ancestors(t) ==
    {a \in Listed :
        \A S \in SUBSET Listed : Parents(t) \subseteq S /\ (\A s \in S : Parents(s) \subseteq S)
                                   => a \in S}

(* Every listed table is replayed exactly once, whatever the foreign keys  *)
(* are (merge/engine.go, sortTables).                                      *)
EachTableOnce ==
    Sorted => /\ {result[i] : i \in 1..Len(result)} = Listed
              /\ \A i, j \in 1..Len(result) : result[i] = result[j] => i = j

(* A table comes after each table it refers to, unless the two refer to    *)
(* each other through a cycle: the replay inserts parents before children. *)
ParentsFirst ==
    Sorted => \A j \in 1..Len(result) : \A p \in Parents(result[j]) :
                result[j] \notin Ancestors(p) => \E i \in 1..(j - 1) : result[i] = p
=============================================================================
