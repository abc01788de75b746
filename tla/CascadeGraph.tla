----------------------------- MODULE CascadeGraph -----------------------------
(***************************************************************************)
(* BuildCascadeGraph (delta/schema.go): the tree of the foreign keys that  *)
(* lead to a table.  The recursion of the helper is a stack of calls; a    *)
(* node of the tree stands for the foreign keys from the root down to it.  *)
(*                                                                         *)
(* An operator named in a parenthesis before a definition is a wrong form  *)
(* of that definition, kept to show that some property notices the bug.    *)
(***************************************************************************)
EXTENDS FKConstraints

VARIABLES
    root,      \* the table whose graph is built
    calls,     \* the calls of the helper, the innermost last, each [table, fk]:
               \* fk is the position of its loop over the query's result
    seen,      \* the visited map
    nodes      \* the nodes so far, in the order they are appended

graphVars == <<fks, root, calls, seen, nodes>>

GraphStart ==
    calls = <<[table |-> root, fk |-> 1]>> /\ seen = {root} /\ nodes = <<>>

GraphInit == fks \in Seq(FKConstraint) /\ root \in Names /\ GraphStart

Call   == calls[Len(calls)]
Passed(list) == [list EXCEPT ![Len(list)].fk = @ + 1]

\* The node of the foreign key that the innermost of these calls is at.
NodeAt(list) == [n \in 1..Len(list) |-> list[n].fk]

\* delete(visited, table) at the end of the helper.
\* (NeverLeave: without that line.)
NeverLeave(t) == seen
Leave(t) == seen \ {t}

\* The query returns only the foreign keys that refer to the table.
SkipFK ==
    /\ calls # <<>> /\ Call.fk <= Len(fks)
    /\ fks[Call.fk].referenced # Call.table
    /\ calls' = Passed(calls)
    /\ UNCHANGED <<fks, root, seen, nodes>>

\* The helper is called for a table in the visited map: no children.
MeetAgain ==
    /\ calls # <<>> /\ Call.fk <= Len(fks)
    /\ fks[Call.fk].referenced = Call.table
    /\ fks[Call.fk].source \in seen
    /\ nodes' = Append(nodes, NodeAt(calls))
    /\ calls' = Passed(calls)
    /\ UNCHANGED <<fks, root, seen>>

Descend ==
    /\ calls # <<>> /\ Call.fk <= Len(fks)
    /\ fks[Call.fk].referenced = Call.table
    /\ LET source == fks[Call.fk].source
       IN  /\ source \notin seen
           /\ seen' = seen \cup {source}
           /\ calls' = Append(calls, [table |-> source, fk |-> 1])
    /\ UNCHANGED <<fks, root, nodes>>

\* The helper returns its children, and the caller appends their node.
Return ==
    /\ calls # <<>> /\ Call.fk > Len(fks)
    /\ seen' = Leave(Call.table)
    /\ LET callers == SubSeq(calls, 1, Len(calls) - 1)
       IN  \/ /\ callers = <<>>
              /\ calls' = <<>>
              /\ UNCHANGED nodes
           \/ /\ callers # <<>>
              /\ nodes' = Append(nodes, NodeAt(callers))
              /\ calls' = Passed(callers)
    /\ UNCHANGED <<fks, root>>

GraphNext == SkipFK \/ MeetAgain \/ Descend \/ Return

GraphSpec == GraphInit /\ [][GraphNext]_graphVars

-----------------------------------------------------------------------------
(* What the graph promises.                                                *)

Built == calls = <<>>

\* The table that path p from table t has reached after n foreign keys.
TableAt(t, p, n) == IF n = 0 THEN t ELSE fks[p[n]].source

\* A path follows foreign keys backwards from t and ends when it meets a table again.
IsPath(t, p) ==
    /\ p # <<>>
    /\ \A n \in 1..Len(p) : fks[p[n]].referenced = TableAt(t, p, n - 1)
    /\ \A m, n \in 0..(Len(p) - 1) : m # n => TableAt(t, p, m) # TableAt(t, p, n)

\* No path has a foreign key twice.
AllPaths(t) == {p \in UNION {[1..n -> 1..Len(fks)] : n \in 1..Len(fks)} : IsPath(t, p)}

(* The cascade graph of a table has each chain of foreign keys that leads  *)
(* to the table exactly once, through a table reached twice as well, and   *)
(* stops at cycles (delta/schema.go:153-210).                              *)
GraphHasAllPaths ==
    Built => /\ {nodes[n] : n \in 1..Len(nodes)} = AllPaths(root)
             /\ \A m, n \in 1..Len(nodes) : nodes[m] = nodes[n] => m = n
=============================================================================
