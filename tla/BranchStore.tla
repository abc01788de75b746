----------------------------- MODULE BranchStore -----------------------------
(***************************************************************************)
(* The data plane of one branch: the production tables, the branch's delta *)
(* tables, the view of each table (passthrough or overlay), the generated  *)
(* INSTEAD OF triggers (internal/delta/schema.go) and the asynchronous     *)
(* upgrade of a view by the proxy's listener (internal/proxy/proxy.go).    *)
(* Every statement commits by itself.                                      *)
(*                                                                         *)
(* An operator named in a parenthesis before a definition is a wrong form  *)
(* of that definition, kept to show that some property notices the bug.    *)
(***************************************************************************)
EXTENDS ForeignKeys

CONSTANTS
    StartBase,      \* production rows when the branch is created
    StartSeq,       \* next value of each production id sequence
    StartLocal,     \* START WITH of the branch sequences
    StartView,      \* view of each table when the behaviour starts
    ExplicitIds,    \* ids the application names itself (seed rows, key updates)
    HasUpdatedAt,   \* tables with an updated_at column that the application sets
    MaxWrites       \* bound on application statements, branch and production

EmptyRows == [k \in Keys |-> Absent]
Deltas    == [row : Rows, deleted : BOOLEAN, isNew : BOOLEAN]
Views     == {"passthrough", "overlay"}
Paths     == {"INSERT", "UPDATE"}
NextIds(ids) == ids \cup {i + 1 : i \in ids}

ASSUME StartAssumption ==
    /\ StartBase \in [Keys -> Rows \cup {Absent}]
    /\ \A k \in Keys : StartBase[k] # Absent =>
         /\ k[2] \in ProdIds
         /\ StartBase[k].ref \in ProdIds \cup {Null}
         /\ FK[k[1]].table = Null => StartBase[k].ref = Null
    /\ StartSeq \in [Tables -> NextIds(ProdIds)]
    /\ StartView \in [Tables -> Views]
    /\ ExplicitIds \subseteq Ids
    /\ HasUpdatedAt \subseteq Tables
    /\ StartLocal \in LocalIds
    /\ Absent \notin Deltas
    /\ MaxWrites \in Nat

VARIABLES
    base,       \* production tables
    delta,      \* delta tables of the branch
    view,       \* definition of each branch view
    pending,    \* tables with an undelivered chuck_write notification
    pubSeq,     \* next value of each production id sequence
    localSeq,   \* next value of each branch-local id sequence
    stamped,    \* production rows with updated_at after the branch's created_at
    budget      \* application statements left

storeVars == <<base, delta, view, pending, pubSeq, localSeq, stamped, budget>>
sideVars  == <<view, pending, pubSeq, localSeq>>

TypeOK ==
    /\ base \in [Keys -> Rows \cup {Absent}]
    /\ delta \in [Keys -> Deltas \cup {Absent}]
    /\ view \in [Tables -> Views]
    /\ pending \subseteq Tables
    /\ pubSeq \in [Tables -> NextIds(ProdIds)]
    /\ localSeq \in [Tables -> NextIds(LocalIds)]
    /\ stamped \subseteq Keys
    /\ budget \in 0..MaxWrites

Init ==
    /\ base = StartBase
    /\ delta = EmptyRows
    /\ view = StartView
    /\ pending = {}
    /\ pubSeq = StartSeq
    /\ localSeq = [t \in Tables |-> StartLocal]
    /\ stamped = {}
    /\ budget = MaxWrites

-----------------------------------------------------------------------------
(* What the views show.                                                    *)

\* (IsAny: no test of __deleted.)
IsAny(d, k) == d[k] # Absent
IsLive(d, k) == d[k] # Absent /\ ~d[k].deleted

\* (OverlayRowUndeleted: leaves live delta rows out of the base rows only, so that
\* a deleted row shows again.)
OverlayRowUndeleted(b, d, k) == IF IsLive(d, k) THEN d[k].row ELSE b[k]
OverlayRow(b, d, k) == IF d[k] = Absent THEN b[k]
                       ELSE IF d[k].deleted THEN Absent
                       ELSE d[k].row

Overlay(b, d) == [k \in Keys |-> OverlayRow(b, d, k)]

\* (ShownInBase: the view stays a passthrough.)
ShownInBase(k) == base[k]
Shown(k) == IF view[k[1]] = "overlay" THEN OverlayRow(base, delta, k) ELSE base[k]

Visible == [k \in Keys |-> Shown(k)]

-----------------------------------------------------------------------------
(* The triggers.                                                           *)

\* INSERT ... ON CONFLICT (pk) DO UPDATE of the INSERT and UPDATE paths: every
\* column of NEW is written, __is_new is not among the updated columns.
\* (UpsertIsNew: __is_new is among them.)
UpsertIsNew(d, k, r, path) ==
    [d EXCEPT ![k] = [row |-> r, deleted |-> FALSE, isNew |-> path = "INSERT"]]
Upsert(d, k, r, path) ==
    [d EXCEPT ![k] = [row     |-> r,
                      deleted |-> FALSE,
                      isNew   |-> IF d[k] = Absent THEN path = "INSERT" ELSE d[k].isNew]]

\* INSERT (pk, __deleted) ... ON CONFLICT DO UPDATE SET __deleted = true.
\* (TombstoneNoDefault: __is_new without DEFAULT false.)
TombstoneNoDefault(d, k) ==
    IF d[k] = Absent
    THEN [row |-> [val |-> Null, ref |-> Null], deleted |-> TRUE, isNew |-> Null]
    ELSE [d[k] EXCEPT !.deleted = TRUE]
Tombstone(d, k) ==
    IF d[k] = Absent
    THEN [row |-> [val |-> Null, ref |-> Null], deleted |-> TRUE, isNew |-> FALSE]
    ELSE [d[k] EXCEPT !.deleted = TRUE]

\* pg_notify('chuck_write', ...).  For a table already in overlay mode the
\* listener replaces the view by itself, so that notification is left out.
Notify(ts) == pending' = pending \cup {t \in ts : view[t] = "passthrough"}

Spend == budget > 0 /\ budget' = budget - 1

\* Ids of parent rows that the application has seen, present or not.
KnownRefs(t) ==
    {Null} \cup {i \in Ids : /\ FK[t].table # Null
                             /\ \/ base[<<FK[t].table, i>>] # Absent
                                \/ delta[<<FK[t].table, i>>] # Absent}

\* INSERT of row r through the view of t.  asked is the id the statement
\* names, or Null: then the view's default draws one from the production
\* sequence.  An id that no production row has is replaced by a local one.
BranchInsert(t, asked, r) ==
    LET given == IF asked = Null THEN pubSeq[t] ELSE asked
        keep  == base[<<t, given>>] # Absent
        id    == IF keep THEN given ELSE localSeq[t]
    IN  /\ Spend
        /\ asked = Null => given \in ProdIds
        /\ keep \/ id \in LocalIds
        /\ delta' = Upsert(delta, <<t, id>>, r, "INSERT")
        /\ pubSeq' = [pubSeq EXCEPT ![t] = IF asked = Null THEN given + 1 ELSE @]
        /\ localSeq' = [localSeq EXCEPT ![t] = IF keep THEN @ ELSE @ + 1]
        /\ Notify({t})
        /\ UNCHANGED <<base, view, stamped>>

\* UPDATE of one column of a visible row: NEW is the row the view shows with
\* that column replaced.  (An UPDATE that changes nothing is left out, here
\* and in production.)
BranchUpdate(k, r) ==
    /\ Spend
    /\ Shown(k) # Absent
    /\ Shown(k) # r
    /\ delta' = Upsert(delta, k, r, "UPDATE")
    /\ Notify({k[1]})
    /\ UNCHANGED <<base, view, pubSeq, localSeq, stamped>>

\* UPDATE of the primary key: the trigger writes NEW under its new key, any
\* id, with __is_new = false, and does nothing about OLD.
BranchMove(k, id) ==
    /\ Spend
    /\ Shown(k) # Absent
    /\ id # k[2]
    /\ delta' = Upsert(delta, <<k[1], id>>, Shown(k), "UPDATE")
    /\ Notify({k[1]})
    /\ UNCHANGED <<base, view, pubSeq, localSeq, stamped>>

\* DELETE of a visible row: tombstone it and run the cascade code, which
\* deletes or updates the children through their own views; one RESTRICT or
\* NO ACTION child anywhere raises and rolls the statement back.
BranchDelete(k) ==
    LET seen     == Visible
        doomed   == Doomed(seen, {k})
        orphaned == Orphaned(seen, {k})
        cut(c)   == [seen[c] EXCEPT !.ref = Null]
    IN  /\ Spend
        /\ seen[k] # Absent
        /\ ~Restricted(seen, {k})
        /\ delta' = [c \in Keys |-> IF c \in doomed THEN Tombstone(delta, c)
                                    ELSE IF c \in orphaned
                                    THEN Upsert(delta, c, cut(c), "UPDATE")[c]
                                    ELSE delta[c]]
        /\ Notify({c[1] : c \in doomed \cup orphaned})
        /\ UNCHANGED <<base, view, pubSeq, localSeq, stamped>>

BranchStatement ==
    \/ \E t \in Tables, asked \in ExplicitIds \cup {Null}, v \in Vals :
         \E i \in KnownRefs(t) : BranchInsert(t, asked, [val |-> v, ref |-> i])
    \/ \E k \in Keys, v \in Vals :
         BranchUpdate(k, [Shown(k) EXCEPT !.val = v])
    \/ \E k \in Keys, i \in Refs :
         i \in KnownRefs(k[1]) /\ BranchUpdate(k, [Shown(k) EXCEPT !.ref = i])
    \/ \E k \in Keys, id \in ExplicitIds : BranchMove(k, id)
    \/ \E k \in Keys : BranchDelete(k)

-----------------------------------------------------------------------------
(* The listener.                                                           *)

\* One delivered notification: CREATE OR REPLACE VIEW with the overlay query.
Upgrade(t) ==
    /\ t \in pending
    /\ view' = [view EXCEPT ![t] = "overlay"]
    /\ pending' = pending \ {t}
    /\ UNCHANGED <<base, delta, pubSeq, localSeq, stamped, budget>>

\* Notifications sent while the listener has no connection are not delivered.
LoseNotification(t) ==
    /\ t \in pending
    /\ pending' = pending \ {t}
    /\ UNCHANGED <<base, delta, view, pubSeq, localSeq, stamped, budget>>

-----------------------------------------------------------------------------
(* The application on the production tables, where PostgreSQL enforces the *)
(* foreign keys.                                                           *)

Stamp(k) == stamped' = stamped \cup (IF k[1] \in HasUpdatedAt THEN {k} ELSE {})

\* A colliding id is a unique violation: the id drawn stays drawn.
BaseInsert(t, r) ==
    LET k == <<t, pubSeq[t]>>
    IN  /\ Spend
        /\ pubSeq[t] \in ProdIds
        /\ r.ref # Null => FK[t].table # Null /\ base[Parent(t, r)] # Absent
        /\ pubSeq' = [pubSeq EXCEPT ![t] = @ + 1]
        /\ IF base[k] = Absent
           THEN base' = [base EXCEPT ![k] = r] /\ Stamp(k)
           ELSE UNCHANGED <<base, stamped>>
        /\ UNCHANGED <<delta, view, pending, localSeq>>

BaseUpdate(k, v) ==
    /\ Spend
    /\ base[k] # Absent
    /\ base[k].val # v
    /\ base' = [base EXCEPT ![k].val = v]
    /\ Stamp(k)
    /\ UNCHANGED <<delta, view, pending, pubSeq, localSeq>>

BaseDelete(k) ==
    /\ Spend
    /\ base[k] # Absent
    /\ ~Restricted(base, {k})
    /\ base' = AfterDelete(base, {k})
    /\ UNCHANGED <<delta, view, pending, pubSeq, localSeq, stamped>>

BaseStatement ==
    \/ \E t \in Tables, v \in Vals, i \in ProdIds \cup {Null} :
         BaseInsert(t, [val |-> v, ref |-> i])
    \/ \E k \in Keys, v \in Vals : BaseUpdate(k, v)
    \/ \E k \in Keys : BaseDelete(k)

ListenerStep == \E t \in Tables : Upgrade(t) \/ LoseNotification(t)

Next == BranchStatement \/ ListenerStep \/ BaseStatement

Spec == Init /\ [][Next]_storeVars

-----------------------------------------------------------------------------
(* Properties.                                                             *)

\* Branch-local ids that nobody but the branch sequence brings into play.
DrawnIds == LocalIds \ ExplicitIds

(* A row under an id of the branch sequence is a row of the branch: it is  *)
(* marked __is_new, so that a merge renames it (delta/schema.go, the three *)
(* trigger paths), and no production row has or refers to such an id.  A   *)
(* local id that a key update has named itself is the exception: the       *)
(* UPDATE path writes __is_new = false under any key.                      *)
LocalIdsStayNew ==
    /\ \A k \in Keys : delta[k] # Absent /\ k[2] \in DrawnIds => delta[k].isNew
    /\ \A k \in Present(base) : k[2] \notin DrawnIds /\ base[k].ref \notin DrawnIds

(* The branch behaves as a private copy with foreign keys: every statement *)
(* through an overlay view maps to the statement on ordinary tables, ids   *)
(* are never handed out twice, and production never changes a row that the *)
(* branch has written.                                                     *)
Owned == {k \in Keys : delta[k] # Absent}
Copy == INSTANCE PrivateCopy WITH rows <- Overlay(base, delta), mine <- Owned
ImplementsPrivateCopy == Copy!Spec

(* A DELETE in the branch, cascades included, leaves no branch row that    *)
(* refers to a row it removed (generateCascadeDDL).                        *)
DeleteLeavesNoOrphans ==
    [][delta' # delta =>
         LET before == Overlay(base, delta)
             after  == Overlay(base', delta')
         IN  \A k \in Present(before) \ Present(after) :
               \A c \in Present(after) : ~Refers(after, c, k)]_storeVars

(* An UPDATE of one column changes one column: what the branch wrote to    *)
(* the other one before stays (the UPDATE path writes the whole NEW row).  *)
UpdateChangesOneColumn ==
    [][\A k \in Keys :
         IsLive(delta, k) /\ IsLive(delta', k) =>
           \/ delta'[k].row.val = delta[k].row.val
           \/ delta'[k].row.ref = delta[k].row.ref]_storeVars
=============================================================================
