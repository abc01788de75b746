----------------------------- MODULE BranchMerge -----------------------------
(***************************************************************************)
(* The merge of a branch (internal/merge): one SERIALIZABLE transaction    *)
(* that validates, looks for conflicts, renames new rows, repairs          *)
(* references to them, replays the delta tables into production and drops  *)
(* the branch schema, while applications keep writing to the branch and to *)
(* production with their own READ COMMITTED statements.                    *)
(*                                                                         *)
(* tbase and tdelta are what the transaction sees: the snapshot of its     *)
(* first query plus its own writes.  Writing a row that somebody else      *)
(* changed after the snapshot is a serialization failure; others wait for  *)
(* a row that the transaction has written, so their statement does not     *)
(* happen before the transaction has ended.                                *)
(*                                                                         *)
(* An operator named in a parenthesis before a definition is a wrong form  *)
(* of that definition, kept to show that some property notices the bug.    *)
(***************************************************************************)
EXTENDS BranchStore, Sequences

CONSTANTS
    Order,        \* the tables as sortTables orders them
    MaxMerges     \* bound on merge attempts

ASSUME MergeAssumption ==
    /\ Order \in Seq(Tables)
    /\ \A t \in Tables : \E i \in 1..Len(Order) : Order[i] = t
    /\ MaxMerges \in Nat

VARIABLES
    phase,      \* what the merge is doing
    attempts,   \* merge attempts left
    outcome,    \* how the last attempt ended
    tbase,      \* production tables as the transaction sees them
    tdelta,     \* delta tables as the transaction sees them
    todo,       \* __is_new rows still to be renamed
    remap,      \* remap[<<t, old>>] = the production id given to row old of t
    fixes,      \* <<child table, old id>>: references still to be repaired
    pos,        \* position in Order of the table to be replayed next
    own,        \* production keys that the transaction has written
    since,      \* what others did to a production row since the snapshot
    foreign     \* delta rows that others changed since the snapshot

txVars    == <<tbase, tdelta, todo, remap, fixes, pos, own>>
mergeVars == <<phase, attempts, outcome, txVars, since, foreign>>
vars      == <<storeVars, mergeVars>>

Phases   == {"idle", "remap", "fix", "replay", "merged"}
Outcomes == {"none", "fk violations", "conflicts", "dry run", "remap failed",
             "fix failed", "foreign key error", "serialization failure",
             "connection lost", "merged"}
Changes  == {"same", "updated", "removed"}
Running  == phase \in {"remap", "fix", "replay"}

MergeTypeOK ==
    /\ TypeOK
    /\ phase \in Phases
    /\ attempts \in 0..MaxMerges
    /\ outcome \in Outcomes
    /\ tbase \in [Keys -> Rows \cup {Absent}]
    /\ tdelta \in [Keys -> Deltas \cup {Absent}]
    /\ todo \subseteq Keys
    /\ remap \in [Keys -> ProdIds \cup {Null}]
    /\ fixes \subseteq Tables \X Ids
    /\ pos \in 1..Len(Order) + 1
    /\ own \subseteq Keys
    /\ since \in [Keys -> Changes]
    /\ foreign \subseteq Keys

NoTransaction ==
    /\ tbase' = EmptyRows
    /\ tdelta' = EmptyRows
    /\ todo' = {}
    /\ remap' = [k \in Keys |-> Null]
    /\ fixes' = {}
    /\ pos' = 1
    /\ own' = {}
    /\ since' = [k \in Keys |-> "same"]
    /\ foreign' = {}

MergeInit ==
    /\ Init
    /\ phase = "idle"
    /\ attempts = MaxMerges
    /\ outcome = "none"
    /\ tbase = EmptyRows
    /\ tdelta = EmptyRows
    /\ todo = {}
    /\ remap = [k \in Keys |-> Null]
    /\ fixes = {}
    /\ pos = 1
    /\ own = {}
    /\ since = [k \in Keys |-> "same"]
    /\ foreign = {}

-----------------------------------------------------------------------------
(* Everybody else, up to the commit of the merge.                          *)

\* Delta rows the merge has written, and so holds locked.
LockedDelta == {k \in Keys \ foreign : tdelta[k] # delta[k]}

\* A statement on the branch; there is none once the schema is dropped.
OnBranch ==
    /\ phase # "merged"
    /\ BranchStatement
    /\ LET touched == {k \in Keys : delta'[k] # delta[k]}
       IN  /\ Running => touched \cap LockedDelta = {}
           /\ foreign' = IF Running THEN foreign \cup touched ELSE foreign
    /\ UNCHANGED <<phase, attempts, outcome, txVars, since>>

OnListener ==
    /\ phase # "merged"
    /\ ListenerStep
    /\ UNCHANGED mergeVars

\* The merge has referred to parent k, or has removed it.
HoldsParent(k) == \E c \in own : Refers(tbase, c, k)
RemovedParent(r, t) == Parent(t, r) \in own /\ tbase[Parent(t, r)] = Absent

\* A production statement: it waits for rows the merge has written, a DELETE
\* for rows the merge refers to, an INSERT for a parent the merge deletes.
OnBase ==
    /\ phase # "merged"
    /\ BaseStatement
    /\ LET touched == {k \in Keys : base'[k] # base[k]}
       IN  /\ Running => \A k \in touched :
                /\ k \notin own
                /\ base'[k] = Absent => ~HoldsParent(k)
                /\ base'[k] # Absent => ~RemovedParent(base'[k], k[1])
           /\ since' = [k \in Keys |->
                IF ~Running \/ k \notin touched THEN since[k]
                ELSE IF base'[k] = Absent \/ since[k] = "removed" THEN "removed"
                ELSE "updated"]
    /\ UNCHANGED <<phase, attempts, outcome, txVars, foreign>>

-----------------------------------------------------------------------------
(* Start: validation and conflict detection read the snapshot only, so the *)
(* checks and the snapshot are one step.                                   *)

\* ValidateFKs: live delta rows whose parent the branch view does not show.
\* (FKViolationsInTables: looks for the parent in the two tables, tombstoned or not.)
FKViolationsInTables ==
    {k \in Keys : /\ IsLive(delta, k)
                  /\ delta[k].row.ref # Null
                  /\ LET p == Parent(k[1], delta[k].row)
                     IN  base[p] = Absent /\ delta[p] = Absent}
FKViolations ==
    {k \in Keys : /\ IsLive(delta, k)
                  /\ delta[k].row.ref # Null
                  /\ Shown(Parent(k[1], delta[k].row)) = Absent}

\* DetectConflicts: delta rows joined with the production row by id.
\* (LiveConflicts: leaves out the rows that the branch has deleted.)
LiveConflicts == {k \in stamped : IsLive(delta, k) /\ base[k] # Absent}
Conflicts == {k \in stamped : delta[k] # Absent /\ base[k] # Absent}

Attempt ==
    /\ phase = "idle"
    /\ attempts > 0
    /\ attempts' = attempts - 1

\* The transaction ends without an effect; a sequence keeps what it gave out.
EndWith(result) ==
    /\ phase' = "idle"
    /\ outcome' = result
    /\ NoTransaction
    /\ UNCHANGED <<base, delta, view, pending, localSeq, stamped, budget, attempts>>

RejectViolations ==
    /\ Attempt
    /\ FKViolations # {}
    /\ outcome' = "fk violations"
    /\ UNCHANGED <<storeVars, phase, txVars, since, foreign>>

RejectConflicts ==
    /\ Attempt
    /\ FKViolations = {}
    /\ Conflicts # {}
    /\ outcome' = "conflicts"
    /\ UNCHANGED <<storeVars, phase, txVars, since, foreign>>

DryRun ==
    /\ Attempt
    /\ FKViolations = {} /\ Conflicts = {}
    /\ outcome' = "dry run"
    /\ UNCHANGED <<storeVars, phase, txVars, since, foreign>>

Start ==
    /\ Attempt
    /\ FKViolations = {} /\ Conflicts = {}
    /\ phase' = "remap"
    /\ tbase' = base
    /\ tdelta' = delta
    /\ todo' = {k \in Keys : delta[k] # Absent /\ delta[k].isNew}
    /\ UNCHANGED <<storeVars, outcome, remap, fixes, pos, own, since, foreign>>

-----------------------------------------------------------------------------
(* RemapNewRows: each __is_new row of a table, by ascending id, gets the   *)
(* next production id; tables do not affect each other.                    *)

\* nextval on the production sequence, which no rollback undoes.
\* (DrawWithoutAdvance: the same id again for whoever draws next.)
DrawWithoutAdvance(t) == pubSeq[t] \in ProdIds /\ UNCHANGED pubSeq
Draw(t) == pubSeq[t] \in ProdIds /\ pubSeq' = [pubSeq EXCEPT ![t] = @ + 1]

RemapRow(k) ==
    LET t   == k[1]
        new == <<t, pubSeq[t]>>
        taken == /\ new # k
                 /\ tdelta[new] # Absent \/ (new \in foreign /\ delta[new] # Absent)
    IN  /\ phase = "remap"
        /\ k \in todo
        /\ \A j \in todo : j[1] = t => k[2] <= j[2]
        /\ Draw(t)
        /\ \/ /\ k \in foreign
              /\ EndWith("serialization failure")
           \/ /\ k \notin foreign
              /\ taken
              /\ EndWith("remap failed")
           \/ /\ k \notin foreign
              /\ ~taken
              /\ tdelta' = [tdelta EXCEPT ![k] = Absent, ![new] = tdelta[k]]
              /\ remap' = [remap EXCEPT ![k] = pubSeq[t]]
              /\ todo' = todo \ {k}
              /\ UNCHANGED <<base, delta, view, pending, localSeq, stamped, budget>>
              /\ UNCHANGED <<phase, attempts, outcome, tbase, fixes, pos, own, since, foreign>>

\* Child table and old parent id of every UPDATE that FixFKReferences runs.
\* (RepairsByChild: looks the child table up in remaps, not the referenced one.)
RepairsByChild == {f \in Tables \X Ids : FK[f[1]].table # Null /\ remap[f] # Null}
Repairs == {f \in Tables \X Ids : /\ FK[f[1]].table # Null
                                  /\ remap[<<FK[f[1]].table, f[2]>>] # Null}

RemapDone ==
    /\ phase = "remap"
    /\ todo = {}
    /\ phase' = "fix"
    /\ fixes' = Repairs
    /\ UNCHANGED <<storeVars, attempts, outcome, tbase, tdelta, todo, remap, pos, own,
                   since, foreign>>

\* FixFKReferences, one UPDATE: every delta row of child table f[1] that refers
\* to old id f[2].  The remap table is a Go map, so the entries come in any
\* order.
FixReference(f) ==
    LET hits == {k \in Keys : /\ k[1] = f[1]
                              /\ tdelta[k] # Absent
                              /\ tdelta[k].row.ref = f[2]}
        new  == remap[<<FK[f[1]].table, f[2]>>]
    IN  /\ phase = "fix"
        /\ f \in fixes
        /\ \/ /\ hits \cap foreign # {}
              /\ EndWith("serialization failure")
              /\ UNCHANGED pubSeq
           \/ /\ hits \cap foreign = {}
              /\ tdelta' = [k \in Keys |-> IF k \in hits
                                           THEN [tdelta[k] EXCEPT !.row.ref = new]
                                           ELSE tdelta[k]]
              /\ fixes' = fixes \ {f}
              /\ UNCHANGED <<storeVars, phase, attempts, outcome, tbase, todo, remap, pos,
                             own, since, foreign>>

FixDone ==
    /\ phase = "fix"
    /\ fixes = {}
    /\ phase' = "replay"
    /\ UNCHANGED <<storeVars, attempts, outcome, txVars, since, foreign>>

-----------------------------------------------------------------------------
(* Replay of one table: an upsert of its live delta rows, then a DELETE of *)
(* the tombstoned ones, with PostgreSQL's referential actions.             *)

\* Production as the transaction would leave it if it committed now.
Latest == [k \in Keys |-> IF k \in own THEN tbase[k] ELSE base[k]]

\* PostgreSQL accepts a reference to parent p: the transaction sees p, and
\* nobody has removed it since.
ParentHolds(p) == tbase[p] # Absent /\ since[p] # "removed"

Replay(t) ==
    LET live   == {k \in Keys : k[1] = t /\ IsLive(tdelta, k)}
        gone   == {k \in Keys : /\ k[1] = t /\ tdelta[k] # Absent /\ tdelta[k].deleted
                                /\ tbase[k] # Absent}
        latest == Latest
        put    == [k \in Keys |-> IF k \in live THEN tdelta[k].row ELSE latest[k]]
        after  == AfterDelete(put, gone)
        hit    == {k \in Keys : after[k] # put[k]}
        clash  == \/ \E k \in live : since[k] # "same" /\ base[k] # Absent
                  \/ \E k \in gone \cup hit : since[k] # "same"
        broken == \/ \E k \in live : /\ tdelta[k].row.ref # Null
                                     /\ ~ParentHolds(Parent(t, tdelta[k].row))
                  \/ Restricted(put, gone)
    IN  /\ phase = "replay"
        /\ pos <= Len(Order)
        /\ t = Order[pos]
        /\ \/ /\ clash
              /\ EndWith("serialization failure")
              /\ UNCHANGED pubSeq
           \/ /\ broken
              /\ EndWith("foreign key error")
              /\ UNCHANGED pubSeq
           \/ /\ ~clash
              /\ ~broken
              /\ own' = own \cup live \cup hit
              /\ tbase' = [k \in Keys |-> IF k \in own' THEN after[k] ELSE tbase[k]]
              /\ pos' = pos + 1
              /\ UNCHANGED <<storeVars, phase, attempts, outcome, tdelta, todo, remap, fixes,
                             since, foreign>>

\* History, status, active branch, DROP SCHEMA ... CASCADE and COMMIT: from
\* here on production holds the merge and the delta tables are gone.
Finish ==
    /\ phase = "replay"
    /\ pos > Len(Order)
    /\ base' = Latest
    /\ delta' = EmptyRows
    /\ phase' = "merged"
    /\ outcome' = "merged"
    /\ NoTransaction
    /\ UNCHANGED <<view, pending, pubSeq, localSeq, stamped, budget, attempts>>

\* The connection or the process goes away: PostgreSQL rolls back.
Crash ==
    /\ Running
    /\ EndWith("connection lost")
    /\ UNCHANGED pubSeq

MergeStep ==
    \/ RejectViolations \/ RejectConflicts \/ DryRun \/ Start
    \/ \E k \in Keys : RemapRow(k)
    \/ RemapDone
    \/ \E f \in Tables \X Ids : FixReference(f)
    \/ FixDone
    \/ \E t \in Tables : Replay(t)
    \/ Finish
    \/ Crash

MergeNext == OnBranch \/ OnListener \/ OnBase \/ MergeStep

MergeSpec == MergeInit /\ [][MergeNext]_vars

-----------------------------------------------------------------------------
(* Properties.                                                             *)

Merges == phase = "replay" /\ phase' = "merged"

(* No id of the branch sequence reaches production, neither as a primary   *)
(* key nor in a reference: RemapNewRows and FixFKReferences between them   *)
(* rename every row and every reference that the replay copies             *)
(* (merge/remap.go).  A local id that a key update has named can get out.  *)
NoBranchIdInBase ==
    \A k \in Present(base) : k[2] \notin DrawnIds /\ base[k].ref \notin DrawnIds

(* The production id given to a new row belongs to no production row that  *)
(* the merge has not put there itself, whatever production inserts         *)
(* meanwhile (merge/remap.go draws it with nextval, outside the            *)
(* transaction).  remap is empty again once the merge has committed.       *)
RemapTargetsFresh ==
    \A k \in Keys : remap[k] # Null => base[<<k[1], remap[k]>>] = Absent

(* The merge does to production exactly what the branch showed: if no      *)
(* branch write slipped in after the snapshot and the branch view has no   *)
(* dangling reference, production becomes the overlay under the renaming   *)
(* (merge/engine.go).                                                      *)
NewRef(t, i) == IF i # Null /\ FK[t].table # Null /\ remap[<<FK[t].table, i>>] # Null
                THEN remap[<<FK[t].table, i>>] ELSE i
NewRow(t, r) == IF r = Absent THEN Absent ELSE [r EXCEPT !.ref = NewRef(t, @)]
Renamed(rows) ==
    [k \in Keys |->
        IF \E i \in Ids : remap[<<k[1], i>>] = k[2]
        THEN NewRow(k[1], rows[<<k[1], CHOOSE i \in Ids : remap[<<k[1], i>>] = k[2]>>])
        ELSE IF remap[k] # Null THEN Absent
        ELSE NewRow(k[1], rows[k])]
MergeIsFaithful ==
    [][Merges /\ foreign = {} /\ Closed(Overlay(base, delta)) =>
         base' = Renamed(Overlay(base, delta))]_vars

(* A production row that got a new updated_at after the branch was created *)
(* keeps what production wrote, although the branch changed the row too:   *)
(* DetectConflicts catches what committed before the snapshot, PostgreSQL  *)
(* what committed after it.                                                *)
ProductionUpdateSurvives ==
    [][Merges =>
         \A k \in stamped : base[k] # Absent /\ tdelta[k] # Absent =>
             base'[k] = base[k]]_vars

(* A branch that passed validation is not refused by PostgreSQL's foreign  *)
(* keys during the replay, unless production changed meanwhile: parents    *)
(* come before children (sortTables) and every reference was checked       *)
(* (ValidateFKs).                                                          *)
ValidatedBranchReplays ==
    [][phase = "replay" /\ phase' = "idle" /\ outcome' = "foreign key error" =>
         \E k \in Keys : since[k] # "same"]_vars

(* A row inserted and deleted in the branch does nothing to production.    *)
InsertThenDeleteIsNoOp ==
    [][Merges =>
         \A k \in Keys : tdelta[k] # Absent /\ tdelta[k].isNew /\ tdelta[k].deleted =>
             base'[k] = base[k]]_vars

(* The merge takes every branch write that committed before it.            *)
NoBranchWriteLost == [][Merges => foreign = {}]_vars
=============================================================================
