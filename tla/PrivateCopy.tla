----------------------------- MODULE PrivateCopy -----------------------------
(***************************************************************************)
(* What a branch promises an application that works on it: the tables look *)
(* like ordinary tables (INSERT gives a fresh id, UPDATE changes one       *)
(* column of one row, DELETE follows the foreign keys) and a row, once the *)
(* branch has written it, never moves under it: production shows through   *)
(* only where the branch has written nothing.                              *)
(***************************************************************************)
EXTENDS ForeignKeys

VARIABLES
    rows,     \* what the branch's views show
    mine      \* keys that the branch has written

Init ==
    /\ rows \in [Keys -> Rows \cup {Absent}]
    /\ mine = {}

\* Only the row at k changes.
Write(k) ==
    /\ mine' = mine \cup {k}
    /\ rows'[k] # Absent
    /\ \A j \in Keys \ {k} : rows'[j] = rows[j]

Insert == \E k \in Keys \ mine :
    /\ rows[k] = Absent
    /\ Write(k)

Update == \E k \in Present(rows) :
    /\ Write(k)
    /\ rows'[k].val = rows[k].val \/ rows'[k].ref = rows[k].ref

Delete == \E k \in Present(rows) \ Present(rows') :
    /\ ~Restricted(rows, {k})
    /\ rows' = AfterDelete(rows, {k})
    /\ mine' = mine \cup Doomed(rows, {k}) \cup Orphaned(rows, {k})

\* Production changed rows that the branch has not written.
Refresh ==
    /\ \A k \in mine : rows'[k] = rows[k]
    /\ mine' = mine

Next == Insert \/ Update \/ Delete \/ Refresh

Spec == Init /\ [][Next]_<<rows, mine>>
=============================================================================
