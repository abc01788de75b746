---------------------------- MODULE DeleteTriggers ----------------------------
(***************************************************************************)
(* A DELETE of one row on a branch: the DELETE path of the generated       *)
(* triggers (delta/schema.go) for foreign keys of any shape, on upgraded   *)
(* views.  BranchStore has one foreign key per table and no cycles; here a *)
(* table has any number of them, to itself and in cycles, and a foreign    *)
(* key may belong to a table that is not tracked.                          *)
(*                                                                         *)
(* A trigger tombstones its row and executes one statement for each node   *)
(* at the top of its table's cascade graph, that is for each foreign key   *)
(* that refers to the table.  The statements work on views, whose triggers *)
(* go on from there: the triggers that have not returned form a stack.     *)
(*                                                                         *)
(* A row is a key <<table, id>> with an id or Null for each foreign key.   *)
(*                                                                         *)
(* An operator named in a parenthesis before a definition is a wrong form  *)
(* of that definition, kept to show that some property notices the bug.    *)
(***************************************************************************)
EXTENDS FKConstraints

CONSTANTS
    Tracked,      \* tables with a view in the branch schema
    Ids,          \* ids of rows
    Null          \* SQL NULL

ASSUME NullAssumption == Null \notin Ids

VARIABLES
    victim,       \* the row of the DELETE
    before,       \* the rows at its start
    rows,         \* the same rows with their references now
    tombstones,   \* rows deleted so far
    triggers,     \* the triggers, the innermost last, each [row, fk, todo]: at the
                  \* statement for fk, whose rows in todo are still to be deleted
    refused       \* an error has ended the statement

deleteVars == <<fks, victim, before, rows, tombstones, triggers, refused>>

Keys == DOMAIN before

Trigger(k) == [row |-> k, fk |-> 1, todo |-> {}]

DeleteStart ==
    /\ rows = before /\ tombstones = {victim}
    /\ triggers = <<Trigger(victim)>> /\ refused = FALSE

DeleteInit ==
    /\ fks \in Seq(FKConstraint)
    /\ \E S \in SUBSET (Names \X Ids) : before \in [S -> [1..Len(fks) -> Ids \cup {Null}]]
    /\ victim \in Keys
    /\ DeleteStart

RefersTo(data, c, i, k) ==
    c[1] = fks[i].source /\ k[1] = fks[i].referenced /\ data[c][i] = k[2]

\* The rows that a statement finds.
Hits(i, k) == {c \in Keys \ tombstones : RefersTo(rows, c, i, k)}

\* The rules with a statement.
Handled == {"CASCADE", "SET NULL", "RESTRICT", "NO ACTION"}

\* (RefusesRestrict: NO ACTION is forgotten.)
RefusesRestrict(rule) == rule = "RESTRICT"
Refuses(rule) == rule \in {"RESTRICT", "NO ACTION"}

Firing == triggers[Len(triggers)]

\* The innermost trigger is about to execute the statement for fk, if it has one.
AtFK == triggers # <<>> /\ Firing.fk <= Len(fks) /\ Firing.todo = {}
AtStatement ==
    AtFK /\ fks[Firing.fk].referenced = Firing.row[1] /\ fks[Firing.fk].rule \in Handled

OnView == fks[Firing.fk].source \in Tracked
Found  == Hits(Firing.fk, Firing.row)

Continue == triggers' = [triggers EXCEPT ![Len(triggers)].fk = @ + 1]

NoStatement ==
    /\ AtFK /\ ~AtStatement
    /\ Continue
    /\ UNCHANGED <<fks, victim, before, rows, tombstones, refused>>

\* The view does not exist, or the statement raises: everything is rolled back.
Refuse ==
    /\ AtStatement
    /\ OnView => Refuses(fks[Firing.fk].rule) /\ Found # {}
    /\ refused' = TRUE
    /\ triggers' = <<>>
    /\ rows' = before /\ tombstones' = {}
    /\ UNCHANGED <<fks, victim, before>>

NothingFound ==
    /\ AtStatement /\ OnView
    /\ fks[Firing.fk].rule # "SET NULL"
    /\ fks[Firing.fk].rule = "CASCADE" \/ Refuses(fks[Firing.fk].rule) => Found = {}
    /\ Continue
    /\ UNCHANGED <<fks, victim, before, rows, tombstones, refused>>

SetNull ==
    /\ AtStatement /\ OnView
    /\ fks[Firing.fk].rule = "SET NULL"
    /\ rows' = [c \in Keys |-> IF c \in Found THEN [rows[c] EXCEPT ![Firing.fk] = Null]
                                              ELSE rows[c]]
    /\ Continue
    /\ UNCHANGED <<fks, victim, before, tombstones, refused>>

Cascade ==
    /\ AtStatement /\ OnView
    /\ fks[Firing.fk].rule = "CASCADE" /\ Found # {}
    /\ triggers' = [triggers EXCEPT ![Len(triggers)].todo = Found]
    /\ UNCHANGED <<fks, victim, before, rows, tombstones, refused>>

\* The trigger of a row that a cascading DELETE found, deleted meanwhile or not.
Fire(c) ==
    /\ triggers # <<>> /\ c \in Firing.todo
    /\ tombstones' = tombstones \cup {c}
    /\ LET rest == Firing.todo \ {c}
           caller == [Firing EXCEPT !.todo = rest, !.fk = IF rest = {} THEN @ + 1 ELSE @]
       IN  triggers' = Append([triggers EXCEPT ![Len(triggers)] = caller], Trigger(c))
    /\ UNCHANGED <<fks, victim, before, rows, refused>>

EndTrigger ==
    /\ triggers # <<>> /\ Firing.fk > Len(fks)
    /\ triggers' = SubSeq(triggers, 1, Len(triggers) - 1)
    /\ UNCHANGED <<fks, victim, before, rows, tombstones, refused>>

DeleteNext ==
    \/ NoStatement \/ Refuse \/ NothingFound \/ SetNull \/ Cascade
    \/ \E c \in Keys : Fire(c)
    \/ EndTrigger

DeleteSpec == DeleteInit /\ [][DeleteNext]_deleteVars

-----------------------------------------------------------------------------
(* The DELETE on the branch against the one on production, where NO ACTION *)
(* is checked at the end of the statement.                                 *)

Deleted == triggers = <<>>

\* There is no statement for SET DEFAULT.
RulesAreHandled == \A i \in 1..Len(fks) : fks[i].rule \in Handled

\* What production removes: what is in every set that is closed under the cascade.
Cascaded(S) ==
    \A k \in S, c \in Keys, i \in 1..Len(fks) :
        fks[i].rule = "CASCADE" /\ RefersTo(before, c, i, k) => c \in S
Removed == {c \in Keys : \A S \in SUBSET Keys : victim \in S /\ Cascaded(S) => c \in S}

RefersToRemoved(c, i, rules) ==
    fks[i].rule \in rules /\ \E k \in Removed : RefersTo(before, c, i, k)

(* A DELETE that the branch accepts removes and changes what production    *)
(* removes and changes, and production accepts it too; the branch refuses  *)
(* it only for a RESTRICT or NO ACTION reference to a row that goes, or    *)
(* because an untracked table refers to a table of such a row              *)
(* (delta/schema.go:503).                                                  *)
DeleteMatchesProduction ==
    Deleted /\ RulesAreHandled =>
        IF refused
        THEN \E i \in 1..Len(fks) :
               \/ \E c \in Keys : RefersToRemoved(c, i, {"RESTRICT", "NO ACTION"})
               \/ fks[i].source \notin Tracked /\ \E k \in Removed : fks[i].referenced = k[1]
        ELSE /\ tombstones = Removed
             /\ \A c \in Keys \ Removed, i \in 1..Len(fks) :
                  /\ ~RefersToRemoved(c, i, {"RESTRICT", "NO ACTION"})
                  /\ rows[c][i] = IF RefersToRemoved(c, i, {"SET NULL"}) THEN Null
                                                                         ELSE before[c][i]
=============================================================================
