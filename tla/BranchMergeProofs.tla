-------------------------- MODULE BranchMergeProofs --------------------------
(***************************************************************************)
(* Proofs about BranchMerge: type correctness, that no branch-local id     *)
(* reaches production, that the production ids given to new rows are       *)
(* fresh, that a merge overwrites no row that production has changed, that *)
(* a row the branch inserted and deleted does nothing, that a merge does   *)
(* to production what the branch showed, and that a validated branch       *)
(* replays.                                                                *)
(***************************************************************************)
EXTENDS BranchMerge, BranchStoreProofs

-----------------------------------------------------------------------------
(* The inductive invariant.                                                *)

\* A row map of production: no ids of the branch sequence, in keys or references.
Clean(rows) ==
    \A k \in Keys : rows[k] # Absent =>
        /\ k[2] \notin DrawnIds
        /\ rows[k].ref \notin DrawnIds
        /\ FK[k[1]].table = Null => rows[k].ref = Null

\* Rows under an id of the branch sequence are still to be renamed.
LocalRowsAreToDo ==
    /\ \A k \in Keys : tdelta[k] # Absent /\ k[2] \in DrawnIds => k \in todo
    /\ phase \in {"fix", "replay"} => todo = {}

\* A live row's reference to such an id has its repair ahead of it.
LocalRefsHaveRepair ==
    \A k \in Keys : IsLive(tdelta, k) /\ tdelta[k].row.ref \in DrawnIds =>
        LET p == Parent(k[1], tdelta[k].row)
        IN  /\ p \in Keys
            /\ \/ phase = "remap" /\ (p \in todo \/ remap[p] # Null)
               \/ phase = "fix" /\ <<k[1], tdelta[k].row.ref>> \in fixes

\* A repair is for a table with a foreign key and has an id to put in.
FixesAreKnown ==
    \A f \in fixes : /\ FK[f[1]].table # Null
                     /\ remap[<<FK[f[1]].table, f[2]>>] # Null

SnapshotRefsHaveFK ==
    \A k \in Keys : tdelta[k] # Absent /\ FK[k[1]].table = Null =>
        tdelta[k].row.ref = Null

MergeInv ==
    /\ StoreInv
    /\ MergeTypeOK
    /\ Clean(tbase)
    /\ LocalRowsAreToDo
    /\ LocalRefsHaveRepair
    /\ FixesAreKnown
    /\ SnapshotRefsHaveFK

-----------------------------------------------------------------------------
(* Facts.                                                                  *)

(* Production is clean in every state of the data plane.                   *)
LEMMA StoreIsClean == ASSUME StoreInv PROVE Clean(base)
BY DEF StoreInv, LocalIdsStayNew, RefsHaveFK, Present, Clean

(* A transaction that has ended satisfies the merge's part of the          *)
(* invariant.                                                              *)
LEMMA EndedIsFine ==
    ASSUME StoreInv', NoTransaction, phase' \in Phases, outcome' \in Outcomes,
           attempts' \in 0..MaxMerges
    PROVE  MergeInv'
<1>1. /\ tbase' = EmptyRows /\ tdelta' = EmptyRows
      /\ todo' = {} /\ fixes' = {} /\ own' = {} /\ foreign' = {}
      /\ pos' = 1
      /\ remap' = [k \in Keys |-> Null]
      /\ since' = [k \in Keys |-> "same"]
  BY DEF NoTransaction
<1>2. /\ tbase' \in [Keys -> Rows \cup {Absent}]
      /\ tdelta' \in [Keys -> Deltas \cup {Absent}]
      /\ \A k \in Keys : tbase'[k] = Absent /\ tdelta'[k] = Absent
  BY <1>1 DEF EmptyRows
<1>3. remap' \in [Keys -> ProdIds \cup {Null}] /\ since' \in [Keys -> Changes]
  BY <1>1 DEF Changes
<1>4. Len(Order) \in Nat
  BY MergeAssumption
<1>5. pos' \in 1..Len(Order) + 1
  BY <1>1, <1>4
<1>6. MergeTypeOK'
  BY <1>1, <1>2, <1>3, <1>5 DEF MergeTypeOK, StoreInv
<1>7. Clean(tbase)' /\ LocalRowsAreToDo' /\ SnapshotRefsHaveFK'
  BY <1>1, <1>2 DEF Clean, LocalRowsAreToDo, SnapshotRefsHaveFK
<1>8. LocalRefsHaveRepair' /\ FixesAreKnown'
  BY <1>1, <1>2 DEF LocalRefsHaveRepair, FixesAreKnown, IsLive
<1> QED
  BY <1>6, <1>7, <1>8 DEF MergeInv

(* A step that leaves the transaction and its phase alone keeps the        *)
(* merge's part of the invariant.                                          *)
LEMMA OutsideIsFine ==
    ASSUME MergeInv, StoreInv', UNCHANGED <<phase, attempts, outcome, txVars>>,
           since' \in [Keys -> Changes], foreign' \subseteq Keys
    PROVE  MergeInv'
<1>1. UNCHANGED <<phase, attempts, outcome, tbase, tdelta, todo, remap, fixes, pos, own>>
  BY DEF txVars
<1>2. MergeTypeOK'
  BY <1>1 DEF MergeInv, MergeTypeOK, StoreInv
<1>3. Clean(tbase)' /\ LocalRowsAreToDo' /\ SnapshotRefsHaveFK' /\ FixesAreKnown'
  BY <1>1 DEF MergeInv, Clean, LocalRowsAreToDo, SnapshotRefsHaveFK, FixesAreKnown
<1>4. LocalRefsHaveRepair'
  BY <1>1 DEF MergeInv, LocalRefsHaveRepair, IsLive
<1> QED
  BY <1>2, <1>3, <1>4 DEF MergeInv

(* The data plane's invariant does not depend on the merge's variables.    *)
LEMMA StoreUnchanged ==
    ASSUME StoreInv, UNCHANGED storeVars
    PROVE  StoreInv'
BY DEF storeVars, StoreInv, TypeOK, LocalIdsStayNew, RefsHaveFK, Present

(* A failed transaction keeps the invariant, whatever nextval gave out.    *)
LEMMA FailureKeepsInv ==
    ASSUME MergeInv, NEW result \in Outcomes, EndWith(result),
           pubSeq' \in [Tables -> NextIds(ProdIds)]
    PROVE  MergeInv'
<1>1. /\ UNCHANGED <<base, delta, view, pending, localSeq, stamped, budget, attempts>>
      /\ phase' = "idle" /\ outcome' = result
      /\ NoTransaction
  BY DEF EndWith
<1>2. StoreInv'
  BY <1>1 DEF MergeInv, StoreInv, TypeOK, LocalIdsStayNew, RefsHaveFK, Present
<1>3. attempts' \in 0..MaxMerges
  BY <1>1 DEF MergeInv, MergeTypeOK
<1> QED
  BY <1>1, <1>2, <1>3, EndedIsFine DEF Phases

-----------------------------------------------------------------------------
(* Steps of others.                                                        *)

(* A statement on the branch.                                             *)
LEMMA OnBranchKeepsInv ==
    ASSUME MergeInv, OnBranch
    PROVE  MergeInv'
<1>1. StoreInv'
  BY BranchKeepsInv DEF OnBranch, MergeInv
<1>2. UNCHANGED <<phase, attempts, outcome, txVars, since>>
  BY DEF OnBranch
<1>3. foreign' \subseteq Keys
  BY DEF OnBranch, MergeInv, MergeTypeOK
<1>4. since' \in [Keys -> Changes]
  BY <1>2 DEF MergeInv, MergeTypeOK
<1> QED
  BY <1>1, <1>2, <1>3, <1>4, OutsideIsFine

(* A delivered or lost notification.                                       *)
LEMMA OnListenerKeepsInv ==
    ASSUME MergeInv, OnListener
    PROVE  MergeInv'
<1>1. StoreInv'
  BY ListenerKeepsInv DEF OnListener, MergeInv
<1>2. UNCHANGED <<phase, attempts, outcome, txVars>> /\ UNCHANGED <<since, foreign>>
  BY DEF OnListener, mergeVars
<1>3. since' \in [Keys -> Changes] /\ foreign' \subseteq Keys
  BY <1>2 DEF MergeInv, MergeTypeOK
<1> QED
  BY <1>1, <1>2, <1>3, OutsideIsFine

(* A production statement.                                                 *)
LEMMA OnBaseKeepsInv ==
    ASSUME MergeInv, OnBase
    PROVE  MergeInv'
<1>1. StoreInv'
  BY BaseKeepsInv DEF OnBase, MergeInv
<1>2. UNCHANGED <<phase, attempts, outcome, txVars>> /\ UNCHANGED foreign
  BY DEF OnBase
<1>3. since' \in [Keys -> Changes]
  <2>1. since \in [Keys -> Changes]
    BY DEF MergeInv, MergeTypeOK
  <2> QED
    BY <2>1 DEF OnBase, Changes
<1>4. foreign' \subseteq Keys
  BY <1>2 DEF MergeInv, MergeTypeOK
<1> QED
  BY <1>1, <1>2, <1>3, <1>4, OutsideIsFine

-----------------------------------------------------------------------------
(* Steps of the merge.                                                     *)

(* An attempt uses up one of the attempts.                                 *)
LEMMA AttemptType ==
    ASSUME attempts \in 0..MaxMerges, Attempt
    PROVE  attempts' \in 0..MaxMerges
<1>1. MaxMerges \in Nat
  BY MergeAssumption
<1>2. attempts > 0 /\ attempts' = attempts - 1
  BY DEF Attempt
<1> QED
  BY <1>1, <1>2

(* A rejected merge or a dry run changes nothing that the invariant reads. *)
LEMMA RejectionKeepsInv ==
    ASSUME MergeInv, RejectViolations \/ RejectConflicts \/ DryRun
    PROVE  MergeInv'
<1>1. /\ UNCHANGED storeVars
      /\ UNCHANGED <<phase, txVars>> /\ UNCHANGED <<since, foreign>>
      /\ attempts > 0 /\ attempts' = attempts - 1
      /\ outcome' \in {"fk violations", "conflicts", "dry run"}
  BY DEF RejectViolations, RejectConflicts, DryRun, Attempt
<1>2. StoreInv'
  BY <1>1, StoreUnchanged DEF MergeInv
<1>3. attempts' \in 0..MaxMerges
  <2>1. attempts \in 0..MaxMerges /\ Attempt
    BY DEF MergeInv, MergeTypeOK, RejectViolations, RejectConflicts, DryRun
  <2> QED
    BY <2>1, AttemptType
<1>4. UNCHANGED <<phase, tbase, tdelta, todo, remap, fixes, pos, own, since, foreign>>
  BY <1>1 DEF txVars
<1>5. MergeTypeOK'
  BY <1>1, <1>2, <1>3, <1>4 DEF MergeInv, MergeTypeOK, StoreInv, Outcomes
<1>6. Clean(tbase)' /\ LocalRowsAreToDo' /\ SnapshotRefsHaveFK' /\ FixesAreKnown'
  BY <1>4 DEF MergeInv, Clean, LocalRowsAreToDo, SnapshotRefsHaveFK, FixesAreKnown
<1>7. LocalRefsHaveRepair'
  BY <1>4 DEF MergeInv, LocalRefsHaveRepair, IsLive
<1> QED
  BY <1>2, <1>5, <1>6, <1>7 DEF MergeInv

(* Start: the snapshot is clean, every row under a local id is __is_new    *)
(* and so to be renamed, and since validation found the parent of every    *)
(* reference to a local id, that parent is a live new row.                 *)
LEMMA StartKeepsInv ==
    ASSUME MergeInv, Start
    PROVE  MergeInv'
<1>1. /\ UNCHANGED storeVars
      /\ UNCHANGED <<outcome, remap, fixes, pos, own, since, foreign>>
      /\ phase = "idle" /\ phase' = "remap"
      /\ tbase' = base /\ tdelta' = delta
      /\ todo' = {k \in Keys : delta[k] # Absent /\ delta[k].isNew}
      /\ attempts > 0 /\ attempts' = attempts - 1
      /\ FKViolations = {}
  BY DEF Start, Attempt
<1>2. StoreInv'
  BY <1>1, StoreUnchanged DEF MergeInv
<1>3. MergeTypeOK'
  <2>1. attempts \in 0..MaxMerges /\ Attempt
    BY DEF MergeInv, MergeTypeOK, Start
  <2>2. attempts' \in 0..MaxMerges
    BY <2>1, AttemptType
  <2>3. tbase' \in [Keys -> Rows \cup {Absent}] /\ tdelta' \in [Keys -> Deltas \cup {Absent}]
    BY <1>1 DEF MergeInv, StoreInv, TypeOK
  <2> QED
    BY <1>1, <1>2, <2>2, <2>3 DEF MergeInv, MergeTypeOK, StoreInv, Phases
<1>4. Clean(tbase)'
  BY <1>1, StoreIsClean DEF MergeInv, Clean
<1>5. \A k \in Keys : delta[k] # Absent /\ k[2] \in DrawnIds => k \in todo'
  BY <1>1 DEF MergeInv, StoreInv, LocalIdsStayNew
<1>6. LocalRowsAreToDo'
  BY <1>1, <1>5 DEF LocalRowsAreToDo
<1>7. SnapshotRefsHaveFK' /\ FixesAreKnown'
  BY <1>1 DEF MergeInv, StoreInv, RefsHaveFK, SnapshotRefsHaveFK, FixesAreKnown
<1>8. LocalRefsHaveRepair'
  <2> SUFFICES ASSUME NEW k \in Keys, IsLive(delta, k), delta[k].row.ref \in DrawnIds
               PROVE  /\ Parent(k[1], delta[k].row) \in Keys
                      /\ Parent(k[1], delta[k].row) \in todo'
    BY <1>1 DEF LocalRefsHaveRepair, IsLive
  <2> DEFINE i == delta[k].row.ref
             p == Parent(k[1], delta[k].row)
  <2>1. i # Null /\ i \in Ids
    BY DrawnIsLocal DEF Ids
  <2>2. FK[k[1]].table # Null /\ k[1] \in Tables
    BY <2>1 DEF MergeInv, StoreInv, RefsHaveFK, IsLive, Keys
  <2>3. FK[k[1]].table \in Tables
    BY <2>2, FKAssumption
  <2>4. p \in Keys /\ p[2] = i
    BY <2>1, <2>3 DEF Parent, Keys
  <2>5. Shown(p) # Absent
    BY <1>1, <2>1 DEF FKViolations
  <2>6. base[p] = Absent
    BY <2>4, DisjointIds DEF MergeInv, StoreInv, LocalIdsStayNew, Present
  <2>7. delta[p] # Absent
    BY <2>4, <2>5, <2>6, ShownWithoutDelta
  <2> QED
    BY <1>5, <2>4, <2>7
<1> QED
  BY <1>2, <1>3, <1>4, <1>6, <1>7, <1>8 DEF MergeInv

(* A renamed row leaves todo and takes a production id; a row that refers  *)
(* to it finds that id in remap.                                           *)
LEMMA RemapRowKeepsInv ==
    ASSUME MergeInv, NEW k \in Keys, RemapRow(k)
    PROVE  MergeInv'
<1> DEFINE new == <<k[1], pubSeq[k[1]]>>
<1>1. /\ phase = "remap" /\ k \in todo
      /\ k[1] \in Tables /\ pubSeq[k[1]] \in ProdIds
      /\ pubSeq' = [pubSeq EXCEPT ![k[1]] = @ + 1]
  BY DEF RemapRow, Draw, Keys
<1>2. pubSeq' \in [Tables -> NextIds(ProdIds)]
  <2>1. pubSeq \in [Tables -> NextIds(ProdIds)]
    BY DEF MergeInv, StoreInv, TypeOK
  <2> QED
    BY <1>1, <2>1 DEF NextIds
<1>3. CASE EndWith("serialization failure") \/ EndWith("remap failed")
  BY <1>2, <1>3, FailureKeepsInv DEF Outcomes
<1>4. CASE /\ tdelta' = [tdelta EXCEPT ![k] = Absent, ![new] = tdelta[k]]
           /\ remap' = [remap EXCEPT ![k] = pubSeq[k[1]]]
           /\ todo' = todo \ {k}
           /\ UNCHANGED <<base, delta, view, pending, localSeq, stamped, budget>>
           /\ UNCHANGED <<phase, attempts, outcome, tbase, fixes, pos, own, since, foreign>>
  <2>1. new \in Keys /\ new[1] = k[1] /\ new[2] \in ProdIds
    BY <1>1 DEF Keys, Ids
  <2>2. /\ tdelta \in [Keys -> Deltas \cup {Absent}]
        /\ remap \in [Keys -> ProdIds \cup {Null}]
        /\ todo \subseteq Keys
    BY DEF MergeInv, MergeTypeOK
  <2> HIDE DEF new
  <2>3. \A j \in Keys :
          tdelta'[j] = IF j = new THEN tdelta[k] ELSE IF j = k THEN Absent ELSE tdelta[j]
    BY <1>4, <2>1, <2>2
  <2>4. tdelta' \in [Keys -> Deltas \cup {Absent}] /\ tdelta[k] \in Deltas \cup {Absent}
    BY <1>4, <2>1, <2>2
  <2>5. /\ remap' \in [Keys -> ProdIds \cup {Null}]
        /\ remap'[k] # Null
        /\ \A j \in Keys : j # k => remap'[j] = remap[j]
    BY <1>1, <1>4, <2>2, SentinelAssumption DEF Ids
  <2>6. StoreInv'
    BY <1>2, <1>4 DEF MergeInv, StoreInv, TypeOK, LocalIdsStayNew, RefsHaveFK, Present
  <2>7. MergeTypeOK'
    BY <1>4, <2>2, <2>4, <2>5, <2>6 DEF MergeInv, MergeTypeOK, StoreInv
  <2>8. Clean(tbase)'
    BY <1>4 DEF MergeInv, Clean
  <2>9. LocalRowsAreToDo'
    BY <1>1, <1>4, <2>1, <2>3, DrawnIsLocal DEF MergeInv, LocalRowsAreToDo
  <2>10. \A j \in Keys : tdelta'[j] # Absent =>
           \E i \in Keys : i[1] = j[1] /\ tdelta[i] = tdelta'[j]
    BY <2>1, <2>3
  <2>11. SnapshotRefsHaveFK'
    BY <2>10 DEF MergeInv, SnapshotRefsHaveFK
  <2>12. LocalRefsHaveRepair'
    <3> SUFFICES ASSUME NEW j \in Keys, IsLive(tdelta', j), tdelta'[j].row.ref \in DrawnIds
                 PROVE  /\ Parent(j[1], tdelta'[j].row) \in Keys
                        /\ \/ Parent(j[1], tdelta'[j].row) \in todo'
                           \/ remap'[Parent(j[1], tdelta'[j].row)] # Null
      BY <1>1, <1>4 DEF LocalRefsHaveRepair, IsLive
    <3>1. PICK i \in Keys : i[1] = j[1] /\ tdelta[i] = tdelta'[j]
      BY <2>10 DEF IsLive
    <3> DEFINE p == Parent(i[1], tdelta[i].row)
    <3>2. p \in Keys /\ (p \in todo \/ remap[p] # Null)
      BY <1>1, <3>1 DEF MergeInv, LocalRefsHaveRepair, IsLive
    <3>3. p = Parent(j[1], tdelta'[j].row)
      BY <3>1
    <3> HIDE DEF p
    <3>4. p \in todo' \/ remap'[p] # Null
      BY <1>4, <2>5, <3>2
    <3> QED
      BY <3>2, <3>3, <3>4
  <2>13. FixesAreKnown'
    <3> SUFFICES ASSUME NEW f \in fixes
                 PROVE  FK[f[1]].table # Null /\ remap'[<<FK[f[1]].table, f[2]>>] # Null
      BY <1>4 DEF FixesAreKnown
    <3>1. f \in Tables \X Ids
      BY DEF MergeInv, MergeTypeOK
    <3>2. FK[f[1]].table # Null /\ remap[<<FK[f[1]].table, f[2]>>] # Null
      BY DEF MergeInv, FixesAreKnown
    <3>3. <<FK[f[1]].table, f[2]>> \in Keys
      BY <3>1, <3>2, FKAssumption DEF Keys
    <3> QED
      BY <2>5, <3>2, <3>3
  <2> QED
    BY <2>6, <2>7, <2>8, <2>9, <2>11, <2>12, <2>13 DEF MergeInv
<1> QED
  BY <1>3, <1>4 DEF RemapRow

(* Once every row is renamed, each reference to a local id has a repair.   *)
LEMMA RemapDoneKeepsInv ==
    ASSUME MergeInv, RemapDone
    PROVE  MergeInv'
<1>1. /\ phase = "remap" /\ phase' = "fix" /\ todo = {}
      /\ fixes' = {f \in Tables \X Ids : /\ FK[f[1]].table # Null
                                         /\ remap[<<FK[f[1]].table, f[2]>>] # Null}
      /\ UNCHANGED storeVars
      /\ UNCHANGED <<attempts, outcome, tbase, tdelta, todo, remap, pos, own, since, foreign>>
  BY DEF RemapDone, Repairs
<1>2. StoreInv'
  BY <1>1, StoreUnchanged DEF MergeInv
<1>3. MergeTypeOK'
  BY <1>1, <1>2 DEF MergeInv, MergeTypeOK, StoreInv, Phases
<1>4. Clean(tbase)' /\ LocalRowsAreToDo' /\ SnapshotRefsHaveFK' /\ FixesAreKnown'
  BY <1>1 DEF MergeInv, Clean, LocalRowsAreToDo, SnapshotRefsHaveFK, FixesAreKnown
<1>5. LocalRefsHaveRepair'
  <2> SUFFICES ASSUME NEW k \in Keys, IsLive(tdelta, k), tdelta[k].row.ref \in DrawnIds
               PROVE  /\ Parent(k[1], tdelta[k].row) \in Keys
                      /\ <<k[1], tdelta[k].row.ref>> \in fixes'
    BY <1>1 DEF LocalRefsHaveRepair, IsLive
  <2>1. /\ Parent(k[1], tdelta[k].row) \in Keys
        /\ remap[Parent(k[1], tdelta[k].row)] # Null
    BY <1>1 DEF MergeInv, LocalRefsHaveRepair
  <2>2. FK[k[1]].table # Null
    BY <2>1, SentinelAssumption DEF Parent, Keys
  <2>3. k[1] \in Tables /\ tdelta[k].row.ref \in Ids
    BY DrawnIsLocal DEF Keys, Ids
  <2> QED
    BY <1>1, <2>1, <2>2, <2>3 DEF Parent
<1> QED
  BY <1>2, <1>3, <1>4, <1>5 DEF MergeInv

(* A repair leaves no reference to its old id, and the other references    *)
(* keep theirs.                                                            *)
LEMMA FixReferenceKeepsInv ==
    ASSUME MergeInv, NEW f \in Tables \X Ids, FixReference(f)
    PROVE  MergeInv'
<1> DEFINE hits == {k \in Keys : /\ k[1] = f[1]
                                 /\ tdelta[k] # Absent
                                 /\ tdelta[k].row.ref = f[2]}
           new  == remap[<<FK[f[1]].table, f[2]>>]
<1>1. phase = "fix" /\ f \in fixes
  BY DEF FixReference
<1>2. CASE EndWith("serialization failure") /\ UNCHANGED pubSeq
  <2>1. pubSeq' \in [Tables -> NextIds(ProdIds)]
    BY <1>2 DEF MergeInv, StoreInv, TypeOK
  <2> QED
    BY <1>2, <2>1, FailureKeepsInv DEF Outcomes
<1>3. CASE /\ tdelta' = [k \in Keys |-> IF k \in hits
                                        THEN [tdelta[k] EXCEPT !.row.ref = new]
                                        ELSE tdelta[k]]
           /\ fixes' = fixes \ {f}
           /\ UNCHANGED <<storeVars, phase, attempts, outcome, tbase, todo, remap, pos,
                          own, since, foreign>>
  <2>1. /\ UNCHANGED storeVars
        /\ UNCHANGED <<phase, attempts, outcome, tbase, todo, remap, pos, own, since, foreign>>
    BY <1>3
  <2>2. StoreInv'
    BY <2>1, StoreUnchanged DEF MergeInv
  <2>3. FK[f[1]].table # Null /\ new \in ProdIds
    <3>1. FK[f[1]].table # Null /\ new # Null
      BY <1>1 DEF MergeInv, FixesAreKnown
    <3>2. <<FK[f[1]].table, f[2]>> \in Keys
      BY <3>1, FKAssumption DEF Keys
    <3> QED
      BY <3>1, <3>2 DEF MergeInv, MergeTypeOK
  <2>4. tdelta \in [Keys -> Deltas \cup {Absent}]
    BY DEF MergeInv, MergeTypeOK
  <2> HIDE DEF new
  <2>5. ASSUME NEW k \in hits
        PROVE  /\ tdelta[k] \in Deltas /\ k \in Keys /\ k[1] = f[1]
               /\ tdelta'[k] \in Deltas
               /\ tdelta'[k].row.ref = new
    <3>1. tdelta[k] \in Deltas /\ k \in Keys /\ k[1] = f[1]
      BY <2>4
    <3>2. tdelta'[k] = [tdelta[k] EXCEPT !.row.ref = new]
      BY <1>3, <3>1
    <3>3. tdelta'[k] \in Deltas /\ tdelta'[k].row.ref = new
      BY <2>3, <3>1, <3>2 DEF Deltas, Rows, Refs, Ids
    <3> QED
      BY <3>1, <3>3
  <2>6. \A k \in Keys : k \notin hits => tdelta'[k] = tdelta[k]
    BY <1>3
  <2>7. tdelta' \in [Keys -> Deltas \cup {Absent}]
    BY <1>3, <2>4, <2>5, <2>6
  <2>8. MergeTypeOK'
    BY <1>3, <2>1, <2>2, <2>7 DEF MergeInv, MergeTypeOK, StoreInv
  <2>9. Clean(tbase)' /\ FixesAreKnown'
    BY <1>3, <2>1 DEF MergeInv, Clean, FixesAreKnown
  <2>10. LocalRowsAreToDo'
    <3>1. todo' = todo /\ phase' = phase
      BY <2>1
    <3>2. \A k \in hits : tdelta[k] # Absent
      OBVIOUS
    <3> QED
      BY <2>6, <3>1, <3>2 DEF MergeInv, LocalRowsAreToDo
  <2>11. SnapshotRefsHaveFK'
    BY <2>3, <2>5, <2>6 DEF MergeInv, SnapshotRefsHaveFK
  <2>12. LocalRefsHaveRepair'
    <3> SUFFICES ASSUME NEW k \in Keys, IsLive(tdelta', k), tdelta'[k].row.ref \in DrawnIds
                 PROVE  /\ Parent(k[1], tdelta'[k].row) \in Keys
                        /\ <<k[1], tdelta'[k].row.ref>> \in fixes'
      BY <1>1, <2>1 DEF LocalRefsHaveRepair, IsLive
    <3>1. k \notin hits
      BY <2>3, <2>5, DrawnIsLocal
    <3>2. tdelta'[k] = tdelta[k]
      BY <2>6, <3>1
    <3>3. Parent(k[1], tdelta[k].row) \in Keys /\ <<k[1], tdelta[k].row.ref>> \in fixes
      BY <1>1, <3>2 DEF MergeInv, LocalRefsHaveRepair, IsLive
    <3>4. tdelta[k] # Absent
      BY <3>2 DEF IsLive
    <3>5. <<k[1], tdelta[k].row.ref>> # f
      BY <3>1, <3>4
    <3> QED
      BY <1>3, <3>2, <3>3, <3>5
  <2> QED
    BY <2>2, <2>8, <2>9, <2>10, <2>11, <2>12 DEF MergeInv
<1> QED
  BY <1>2, <1>3 DEF FixReference

(* Once every repair is done, no live row refers to a local id.            *)
LEMMA FixDoneKeepsInv ==
    ASSUME MergeInv, FixDone
    PROVE  MergeInv'
<1>1. /\ phase = "fix" /\ fixes = {} /\ phase' = "replay"
      /\ UNCHANGED storeVars /\ UNCHANGED <<attempts, outcome, since, foreign>>
      /\ UNCHANGED <<tbase, tdelta, todo, remap, fixes, pos, own>>
  BY DEF FixDone, txVars
<1>2. StoreInv'
  BY <1>1, StoreUnchanged DEF MergeInv
<1>3. MergeTypeOK'
  BY <1>1, <1>2 DEF MergeInv, MergeTypeOK, StoreInv, Phases
<1>4. Clean(tbase)' /\ LocalRowsAreToDo' /\ SnapshotRefsHaveFK' /\ FixesAreKnown'
  BY <1>1 DEF MergeInv, Clean, LocalRowsAreToDo, SnapshotRefsHaveFK, FixesAreKnown
<1>5. LocalRefsHaveRepair'
  BY <1>1 DEF MergeInv, LocalRefsHaveRepair, IsLive
<1> QED
  BY <1>2, <1>3, <1>4, <1>5 DEF MergeInv

(* Production as the transaction would leave it is clean.                  *)
LEMMA LatestIsClean ==
    ASSUME MergeInv
    PROVE  Latest \in [Keys -> Rows \cup {Absent}] /\ Clean(Latest)
<1>1. Clean(base)
  BY StoreIsClean DEF MergeInv
<1>2. Clean(tbase)
  BY DEF MergeInv
<1>3. /\ base \in [Keys -> Rows \cup {Absent}]
      /\ tbase \in [Keys -> Rows \cup {Absent}]
  BY DEF MergeInv, MergeTypeOK, StoreInv, TypeOK
<1>4. \A k \in Keys : Latest[k] = tbase[k] \/ Latest[k] = base[k]
  BY DEF Latest
<1>5. Latest \in [Keys -> Rows \cup {Absent}]
  BY <1>3 DEF Latest
<1> QED
  BY <1>1, <1>2, <1>4, <1>5 DEF Clean

(* The replay copies renamed rows and repaired references only, and a      *)
(* referential action puts nothing but NULL into a reference.              *)
LEMMA ReplayKeepsInv ==
    ASSUME MergeInv, NEW t \in Tables, Replay(t)
    PROVE  MergeInv'
<1> DEFINE live  == {k \in Keys : k[1] = t /\ IsLive(tdelta, k)}
           gone  == {k \in Keys : /\ k[1] = t /\ tdelta[k] # Absent /\ tdelta[k].deleted
                                  /\ tbase[k] # Absent}
           put   == [k \in Keys |-> IF k \in live THEN tdelta[k].row ELSE Latest[k]]
           after == AfterDelete(put, gone)
           hit   == {k \in Keys : after[k] # put[k]}
<1>1. phase = "replay" /\ pos <= Len(Order)
  BY DEF Replay
<1>2. CASE /\ EndWith("serialization failure") \/ EndWith("foreign key error")
           /\ UNCHANGED pubSeq
  <2>1. pubSeq' \in [Tables -> NextIds(ProdIds)]
    BY <1>2 DEF MergeInv, StoreInv, TypeOK
  <2> QED
    BY <1>2, <2>1, FailureKeepsInv DEF Outcomes
<1>3. CASE /\ own' = own \cup live \cup hit
           /\ tbase' = [k \in Keys |-> IF k \in own' THEN after[k] ELSE tbase[k]]
           /\ pos' = pos + 1
           /\ UNCHANGED <<storeVars, phase, attempts, outcome, tdelta, todo, remap, fixes,
                          since, foreign>>
  <2>1. /\ UNCHANGED storeVars
        /\ UNCHANGED <<phase, attempts, outcome, tdelta, todo, remap, fixes, since, foreign>>
    BY <1>3
  <2>2. StoreInv'
    BY <2>1, StoreUnchanged DEF MergeInv
  <2>3. pos' \in 1..Len(Order) + 1
    <3>1. Len(Order) \in Nat
      BY MergeAssumption
    <3>2. pos \in 1..Len(Order) + 1
      BY DEF MergeInv, MergeTypeOK
    <3>3. pos <= Len(Order) /\ pos' = pos + 1
      BY <1>1, <1>3
    <3> QED
      BY <3>1, <3>2, <3>3
  <2>4. ASSUME NEW k \in live
        PROVE  /\ k \in Keys /\ k[2] \notin DrawnIds
               /\ tdelta[k].row \in Rows
               /\ tdelta[k].row.ref \notin DrawnIds
               /\ FK[k[1]].table = Null => tdelta[k].row.ref = Null
    <3>1. k \in Keys /\ tdelta[k] # Absent /\ IsLive(tdelta, k)
      BY DEF IsLive
    <3>2. tdelta[k] \in Deltas
      BY <3>1 DEF MergeInv, MergeTypeOK
    <3>3. tdelta[k].row \in Rows /\ tdelta[k].row.ref \in Refs
      BY <3>2 DEF Deltas, Rows
    <3>4. k[2] \notin DrawnIds /\ k[2] \in Ids
      BY <1>1, <3>1 DEF MergeInv, LocalRowsAreToDo, Keys
    <3>5. tdelta[k].row.ref \notin DrawnIds
      BY <1>1, <3>1 DEF MergeInv, LocalRefsHaveRepair
    <3>6. FK[k[1]].table = Null => tdelta[k].row.ref = Null
      BY <3>1 DEF MergeInv, SnapshotRefsHaveFK
    <3> QED
      BY <3>1, <3>3, <3>4, <3>5, <3>6 DEF Ids, Refs
  <2> HIDE DEF live, gone
  <2>5. Latest \in [Keys -> Rows \cup {Absent}] /\ Clean(Latest)
    BY LatestIsClean
  <2>6. put \in [Keys -> Rows \cup {Absent}] /\ Clean(put)
    BY <2>4, <2>5 DEF Clean
  <2> HIDE DEF put
  <2>7. /\ after \in [Keys -> Rows \cup {Absent}]
        /\ \A k \in Keys : \/ after[k] = Absent
                           \/ after[k] = put[k]
                           \/ /\ put[k] # Absent
                              /\ after[k] = [put[k] EXCEPT !.ref = Null]
    BY <2>6, AfterDeleteRow
  <2> HIDE DEF after
  <2>8. \A k \in Keys : put[k] # Absent => [put[k] EXCEPT !.ref = Null].ref = Null
    BY <2>6 DEF Rows
  <2>9. Clean(after)
    BY <2>6, <2>7, <2>8, DrawnIsLocal DEF Clean
  <2>10. Clean(tbase)' /\ tbase' \in [Keys -> Rows \cup {Absent}]
    <3>1. Clean(tbase) /\ tbase \in [Keys -> Rows \cup {Absent}]
      BY DEF MergeInv, MergeTypeOK
    <3>2. \A k \in Keys : tbase'[k] = after[k] \/ tbase'[k] = tbase[k]
      BY <1>3
    <3>3. tbase' \in [Keys -> Rows \cup {Absent}]
      BY <1>3, <2>7, <3>1
    <3> QED
      BY <2>9, <3>1, <3>2, <3>3 DEF Clean
  <2>11. own' \subseteq Keys
    <3>1. own \subseteq Keys
      BY DEF MergeInv, MergeTypeOK
    <3> QED
      BY <1>3, <2>4, <3>1
  <2>12. MergeTypeOK'
    BY <2>1, <2>2, <2>3, <2>10, <2>11 DEF MergeInv, MergeTypeOK, StoreInv
  <2>13. LocalRowsAreToDo' /\ SnapshotRefsHaveFK' /\ FixesAreKnown'
    BY <2>1 DEF MergeInv, LocalRowsAreToDo, SnapshotRefsHaveFK, FixesAreKnown
  <2>14. LocalRefsHaveRepair'
    BY <2>1 DEF MergeInv, LocalRefsHaveRepair, IsLive
  <2> QED
    BY <2>2, <2>10, <2>12, <2>13, <2>14 DEF MergeInv
<1> QED
  BY <1>2, <1>3 DEF Replay

(* The commit makes production what the transaction would leave.           *)
LEMMA FinishKeepsInv ==
    ASSUME MergeInv, Finish
    PROVE  MergeInv'
<1>1. /\ base' = Latest /\ delta' = EmptyRows
      /\ phase' = "merged" /\ outcome' = "merged"
      /\ NoTransaction
      /\ UNCHANGED <<view, pending, pubSeq, localSeq, stamped, budget, attempts>>
  BY DEF Finish
<1>2. Latest \in [Keys -> Rows \cup {Absent}] /\ Clean(Latest)
  BY LatestIsClean
<1>3. delta' \in [Keys -> Deltas \cup {Absent}] /\ \A k \in Keys : delta'[k] = Absent
  BY <1>1 DEF EmptyRows
<1>4. StoreInv'
  <2>1. TypeOK'
    BY <1>1, <1>2, <1>3 DEF MergeInv, StoreInv, TypeOK
  <2>2. LocalIdsStayNew' /\ RefsHaveFK'
    BY <1>1, <1>2, <1>3 DEF LocalIdsStayNew, RefsHaveFK, Present, Clean
  <2> QED
    BY <2>1, <2>2 DEF StoreInv
<1>5. attempts' \in 0..MaxMerges
  BY <1>1 DEF MergeInv, MergeTypeOK
<1> QED
  BY <1>1, <1>4, <1>5, EndedIsFine DEF Phases, Outcomes

(* A lost connection rolls the transaction back.                           *)
LEMMA CrashKeepsInv ==
    ASSUME MergeInv, Crash
    PROVE  MergeInv'
<1>1. EndWith("connection lost") /\ UNCHANGED pubSeq
  BY DEF Crash
<1>2. pubSeq' \in [Tables -> NextIds(ProdIds)]
  BY <1>1 DEF MergeInv, StoreInv, TypeOK
<1> QED
  BY <1>1, <1>2, FailureKeepsInv DEF Outcomes

(* The invariant holds before the first merge.                             *)
LEMMA MergeInitEstablishesInv == MergeInit => MergeInv
<1> SUFFICES ASSUME MergeInit PROVE MergeInv
  OBVIOUS
<1>1. StoreInv
  BY InitEstablishesInv DEF MergeInit
<1>2. /\ tbase = EmptyRows /\ tdelta = EmptyRows
      /\ todo = {} /\ fixes = {} /\ own = {} /\ foreign = {}
      /\ phase = "idle" /\ outcome = "none" /\ pos = 1 /\ attempts = MaxMerges
      /\ remap = [k \in Keys |-> Null]
      /\ since = [k \in Keys |-> "same"]
  BY DEF MergeInit
<1>3. /\ tbase \in [Keys -> Rows \cup {Absent}]
      /\ tdelta \in [Keys -> Deltas \cup {Absent}]
      /\ \A k \in Keys : tbase[k] = Absent /\ tdelta[k] = Absent
  BY <1>2 DEF EmptyRows
<1>4. remap \in [Keys -> ProdIds \cup {Null}] /\ since \in [Keys -> Changes]
  BY <1>2 DEF Changes
<1>5. attempts \in 0..MaxMerges
  <2>1. MaxMerges \in Nat
    BY MergeAssumption
  <2> QED
    BY <1>2, <2>1
<1>6. pos \in 1..Len(Order) + 1
  <2>1. Len(Order) \in Nat
    BY MergeAssumption
  <2> QED
    BY <1>2, <2>1
<1>7. MergeTypeOK
  BY <1>1, <1>2, <1>3, <1>4, <1>5, <1>6 DEF MergeTypeOK, StoreInv, Phases, Outcomes
<1>8. Clean(tbase) /\ LocalRowsAreToDo /\ SnapshotRefsHaveFK
  BY <1>2, <1>3 DEF Clean, LocalRowsAreToDo, SnapshotRefsHaveFK
<1>9. LocalRefsHaveRepair /\ FixesAreKnown
  BY <1>2, <1>3 DEF LocalRefsHaveRepair, FixesAreKnown, IsLive
<1> QED
  BY <1>1, <1>7, <1>8, <1>9 DEF MergeInv

-----------------------------------------------------------------------------
(* The theorems.                                                           *)

(* The invariant of the merge and everything it runs beside.               *)
THEOREM MergeInvariance == MergeSpec => []MergeInv
<1>1. MergeInv /\ [MergeNext]_vars => MergeInv'
  <2> SUFFICES ASSUME MergeInv, [MergeNext]_vars PROVE MergeInv'
    OBVIOUS
  <2>1. CASE OnBranch
    BY <2>1, OnBranchKeepsInv
  <2>2. CASE OnListener
    BY <2>2, OnListenerKeepsInv
  <2>3. CASE OnBase
    BY <2>3, OnBaseKeepsInv
  <2>4. CASE MergeStep
    <3>1. CASE RejectViolations \/ RejectConflicts \/ DryRun
      BY <3>1, RejectionKeepsInv
    <3>2. CASE Start
      BY <3>2, StartKeepsInv
    <3>3. ASSUME NEW k \in Keys, RemapRow(k) PROVE MergeInv'
      BY <3>3, RemapRowKeepsInv
    <3>4. CASE RemapDone
      BY <3>4, RemapDoneKeepsInv
    <3>5. ASSUME NEW f \in Tables \X Ids, FixReference(f) PROVE MergeInv'
      BY <3>5, FixReferenceKeepsInv
    <3>6. CASE FixDone
      BY <3>6, FixDoneKeepsInv
    <3>7. ASSUME NEW t \in Tables, Replay(t) PROVE MergeInv'
      BY <3>7, ReplayKeepsInv
    <3>8. CASE Finish
      BY <3>8, FinishKeepsInv
    <3>9. CASE Crash
      BY <3>9, CrashKeepsInv
    <3> QED
      BY <2>4, <3>1, <3>2, <3>3, <3>4, <3>5, <3>6, <3>7, <3>8, <3>9 DEF MergeStep
  <2>5. CASE UNCHANGED vars
    <3>1. UNCHANGED storeVars /\ UNCHANGED <<phase, attempts, outcome, txVars>>
          /\ UNCHANGED <<since, foreign>>
      BY <2>5 DEF vars, mergeVars
    <3>2. StoreInv'
      BY <3>1, StoreUnchanged DEF MergeInv
    <3>3. since' \in [Keys -> Changes] /\ foreign' \subseteq Keys
      BY <3>1 DEF MergeInv, MergeTypeOK
    <3> QED
      BY <3>1, <3>2, <3>3, OutsideIsFine
  <2> QED
    BY <2>1, <2>2, <2>3, <2>4, <2>5 DEF MergeNext
<1> QED
  BY <1>1, MergeInitEstablishesInv, PTL DEF MergeSpec

(* The merge keeps its own state and that of the data plane well typed.    *)
THEOREM MergeTypeCorrect == MergeSpec => []MergeTypeOK
<1>1. MergeInv => MergeTypeOK
  BY DEF MergeInv
<1> QED
  BY <1>1, MergeInvariance, PTL

(* No branch-local id is ever a primary key or a reference in production:  *)
(* renaming and repair together miss none, whatever the branch did, however*)
(* a merge was interrupted and whatever others wrote meanwhile.            *)
THEOREM BaseHasNoBranchId == MergeSpec => []NoBranchIdInBase
<1>1. MergeInv => NoBranchIdInBase
  <2> SUFFICES ASSUME MergeInv, NEW k \in Present(base)
               PROVE  k[2] \notin DrawnIds /\ base[k].ref \notin DrawnIds
    BY DEF NoBranchIdInBase
  <2> QED
    BY DEF MergeInv, StoreInv, LocalIdsStayNew
<1> QED
  BY <1>1, MergeInvariance, PTL

-----------------------------------------------------------------------------
(* Freshness of the ids that RemapNewRows gives out.  It needs production  *)
(* sequences that are ahead of the rows when the branch is created.        *)

SequencesAhead == \A k \in Keys : StartBase[k] # Absent => k[2] < StartSeq[k[1]]

\* Until the merge commits, every production id comes from its sequence.
RowsBelowSequence ==
    phase # "merged" => \A k \in Keys : base[k] # Absent => k[2] < pubSeq[k[1]]

RemapBelowSequence ==
    /\ \A k \in Keys : remap[k] # Null => remap[k] < pubSeq[k[1]]
    /\ phase \in {"idle", "merged"} => \A k \in Keys : remap[k] = Null

FreshInv ==
    /\ MergeInv
    /\ RowsBelowSequence
    /\ RemapBelowSequence
    /\ RemapTargetsFresh

(* Ids and sequence values are numbers.                                    *)
LEMMA IdsAreNat ==
    /\ \A i \in Ids : i \in Nat
    /\ \A i \in NextIds(ProdIds) : i \in Nat
BY IdsAreNumbers

(* Sequences only move forward, and no step outside the merge touches      *)
(* remap: what is below its sequence stays below.                          *)
LEMMA OutsideIsFresh ==
    ASSUME FreshInv, MergeInv', UNCHANGED <<phase, remap>>,
           \A t \in Tables : pubSeq'[t] = pubSeq[t] \/ pubSeq'[t] = pubSeq[t] + 1,
           \A k \in Keys : base'[k] # Absent /\ base[k] = Absent =>
               k[2] = pubSeq[k[1]] /\ pubSeq'[k[1]] = pubSeq[k[1]] + 1,
           phase = "merged" => UNCHANGED base
    PROVE  FreshInv'
<1>1. pubSeq \in [Tables -> NextIds(ProdIds)] /\ remap \in [Keys -> ProdIds \cup {Null}]
  BY DEF FreshInv, MergeInv, StoreInv, TypeOK, MergeTypeOK
<1>2. ASSUME NEW k \in Keys
      PROVE  /\ k[1] \in Tables /\ k[2] \in Nat /\ pubSeq[k[1]] \in Nat
             /\ remap[k] # Null => remap[k] \in Nat
  BY <1>1, IdsAreNat DEF Keys, Ids
<1>3. ASSUME NEW k \in Keys, NEW n \in Nat, n < pubSeq[k[1]]
      PROVE  n < pubSeq'[k[1]]
  BY <1>2, <1>3
<1>4. RowsBelowSequence'
  <2> SUFFICES ASSUME phase # "merged", NEW k \in Keys, base'[k] # Absent
               PROVE  k[2] < pubSeq'[k[1]]
    BY DEF RowsBelowSequence
  <2>1. CASE base[k] = Absent
    BY <1>2, <2>1
  <2>2. CASE base[k] # Absent
    BY <1>2, <1>3, <2>2 DEF FreshInv, RowsBelowSequence
  <2> QED
    BY <2>1, <2>2
<1>5. RemapBelowSequence'
  BY <1>2, <1>3 DEF FreshInv, RemapBelowSequence
<1>6. RemapTargetsFresh'
  <2> SUFFICES ASSUME NEW k \in Keys, remap[k] # Null,
                      base'[<<k[1], remap[k]>>] # Absent
               PROVE  FALSE
    BY DEF RemapTargetsFresh
  <2> DEFINE j == <<k[1], remap[k]>>
  <2>1. j \in Keys /\ j[1] = k[1] /\ j[2] = remap[k]
    BY <1>1, <1>2 DEF Keys, Ids
  <2>2. base[j] = Absent
    BY DEF FreshInv, RemapTargetsFresh
  <2>3. remap[k] = pubSeq[k[1]]
    BY <2>1, <2>2
  <2>4. remap[k] < pubSeq[k[1]]
    BY DEF FreshInv, RemapBelowSequence
  <2> QED
    BY <1>2, <2>3, <2>4
<1> QED
  BY <1>4, <1>5, <1>6 DEF FreshInv

(* A statement of an application: only a production INSERT adds a row, and *)
(* its id is the one it draws.                                             *)
LEMMA StatementIsFresh ==
    ASSUME FreshInv, MergeInv', OnBranch \/ OnListener \/ OnBase
    PROVE  FreshInv'
<1>1. /\ base \in [Keys -> Rows \cup {Absent}]
      /\ pubSeq \in [Tables -> NextIds(ProdIds)]
  BY DEF FreshInv, MergeInv, StoreInv, TypeOK
<1>2. UNCHANGED <<phase, remap>> /\ phase # "merged"
  BY DEF OnBranch, OnListener, OnBase, mergeVars, txVars
<1> DEFINE Grows == /\ \A t \in Tables : pubSeq'[t] = pubSeq[t] \/ pubSeq'[t] = pubSeq[t] + 1
                    /\ \A k \in Keys : base'[k] # Absent /\ base[k] = Absent =>
                         k[2] = pubSeq[k[1]] /\ pubSeq'[k[1]] = pubSeq[k[1]] + 1
<1>3. CASE OnBranch
  <2>1. UNCHANGED base
    BY <1>3 DEF OnBranch, BranchStatement, BranchInsert, BranchUpdate, BranchMove, BranchDelete
  <2>2. ASSUME NEW t \in Tables, NEW asked, NEW r, BranchInsert(t, asked, r)
        PROVE  Grows
    BY <1>1, <2>1, <2>2 DEF BranchInsert
  <2>3. ASSUME UNCHANGED pubSeq PROVE Grows
    BY <1>1, <2>1, <2>3
  <2>4. Grows
    BY <1>3, <2>2, <2>3 DEF OnBranch, BranchStatement, BranchUpdate, BranchMove, BranchDelete
  <2> QED
    BY <1>2, <2>4, OutsideIsFresh
<1>4. CASE OnListener
  <2>1. UNCHANGED <<base, pubSeq>>
    BY <1>4 DEF OnListener, ListenerStep, Upgrade, LoseNotification
  <2> QED
    BY <1>2, <2>1, OutsideIsFresh
<1>5. CASE OnBase
  <2>1. ASSUME NEW t \in Tables, NEW r, BaseInsert(t, r)
        PROVE  Grows
    BY <1>1, <2>1 DEF BaseInsert, Keys
  <2>2. ASSUME NEW k \in Keys, NEW v, BaseUpdate(k, v)
        PROVE  Grows
    BY <1>1, <2>2 DEF BaseUpdate
  <2>3. ASSUME NEW k \in Keys, BaseDelete(k)
        PROVE  Grows
    <3>1. UNCHANGED pubSeq /\ base' = AfterDelete(base, {k})
      BY <2>3 DEF BaseDelete
    <3>2. \A c \in Keys : \/ base'[c] = Absent
                           \/ base'[c] = base[c]
                           \/ /\ base[c] # Absent
                              /\ base'[c] = [base[c] EXCEPT !.ref = Null]
      BY <1>1, <3>1, AfterDeleteRow
    <3> QED
      BY <3>1, <3>2
  <2>4. Grows
    BY <1>5, <2>1, <2>2, <2>3 DEF OnBase, BaseStatement
  <2> QED
    BY <1>2, <2>4, OutsideIsFresh
<1> QED
  BY <1>3, <1>4, <1>5

(* A step of a running merge that draws no id.                             *)
LEMMA InsideIsFresh ==
    ASSUME FreshInv, MergeInv', UNCHANGED <<base, pubSeq, remap>>,
           phase # "merged", phase' # "merged", phase' = "idle" => phase = "idle"
    PROVE  FreshInv'
BY DEF FreshInv, RowsBelowSequence, RemapBelowSequence, RemapTargetsFresh

(* The end of a merge empties remap.                                       *)
LEMMA EndIsFresh ==
    ASSUME FreshInv, MergeInv', NoTransaction,
           \/ phase' = "merged"
           \/ /\ phase # "merged"
              /\ UNCHANGED base
              /\ \A t \in Tables : pubSeq'[t] = pubSeq[t] \/ pubSeq'[t] = pubSeq[t] + 1
    PROVE  FreshInv'
<1>1. \A k \in Keys : remap'[k] = Null
  BY DEF NoTransaction
<1>2. pubSeq \in [Tables -> NextIds(ProdIds)]
  BY DEF FreshInv, MergeInv, StoreInv, TypeOK
<1>3. RowsBelowSequence'
  <2> SUFFICES ASSUME phase' # "merged", NEW k \in Keys, base'[k] # Absent
               PROVE  k[2] < pubSeq'[k[1]]
    BY DEF RowsBelowSequence
  <2>1. k[1] \in Tables /\ k[2] \in Nat /\ pubSeq[k[1]] \in Nat
    BY <1>2, IdsAreNat DEF Keys
  <2>2. k[2] < pubSeq[k[1]]
    BY DEF FreshInv, RowsBelowSequence
  <2>3. pubSeq'[k[1]] = pubSeq[k[1]] \/ pubSeq'[k[1]] = pubSeq[k[1]] + 1
    BY <2>1
  <2> QED
    BY <2>1, <2>2, <2>3
<1> QED
  BY <1>1, <1>3 DEF FreshInv, RemapBelowSequence, RemapTargetsFresh

(* A renamed row gets the next id of a sequence that is ahead of every     *)
(* production row.                                                         *)
LEMMA RemapRowIsFresh ==
    ASSUME FreshInv, MergeInv', NEW k \in Keys, RemapRow(k)
    PROVE  FreshInv'
<1>1. /\ phase = "remap"
      /\ k[1] \in Tables /\ pubSeq[k[1]] \in ProdIds
      /\ pubSeq' = [pubSeq EXCEPT ![k[1]] = @ + 1]
  BY DEF RemapRow, Draw, Keys
<1>2. /\ pubSeq \in [Tables -> NextIds(ProdIds)]
      /\ remap \in [Keys -> ProdIds \cup {Null}]
  BY DEF FreshInv, MergeInv, StoreInv, TypeOK, MergeTypeOK
<1>3. \A t \in Tables : pubSeq'[t] = pubSeq[t] \/ pubSeq'[t] = pubSeq[t] + 1
  BY <1>1, <1>2
<1>4. CASE EndWith("serialization failure") \/ EndWith("remap failed")
  <2>1. NoTransaction /\ UNCHANGED base
    BY <1>4 DEF EndWith
  <2> QED
    BY <1>1, <1>3, <2>1, EndIsFresh
<1>5. CASE /\ remap' = [remap EXCEPT ![k] = pubSeq[k[1]]]
           /\ UNCHANGED <<base, phase>>
  <2>1. ASSUME NEW j \in Keys
        PROVE  /\ j[1] \in Tables /\ j[2] \in Nat /\ pubSeq[j[1]] \in Nat
               /\ remap[j] # Null => remap[j] \in Nat
    BY <1>2, IdsAreNat DEF Keys, Ids
  <2>2. ASSUME NEW j \in Keys, NEW n \in Nat, n < pubSeq[j[1]]
        PROVE  n < pubSeq'[j[1]]
    <3>1. pubSeq'[j[1]] = pubSeq[j[1]] \/ pubSeq'[j[1]] = pubSeq[j[1]] + 1
      BY <1>3, <2>1
    <3> QED
      BY <2>1, <2>2, <3>1
  <2>3. RowsBelowSequence'
    BY <1>1, <1>5, <2>1, <2>2 DEF FreshInv, RowsBelowSequence
  <2>4. pubSeq'[k[1]] = pubSeq[k[1]] + 1 /\ remap'[k] = pubSeq[k[1]]
    BY <1>1, <1>2, <1>5
  <2>5. \A j \in Keys : j # k => remap'[j] = remap[j]
    BY <1>2, <1>5
  <2>6. RemapBelowSequence'
    <3>1. ASSUME NEW j \in Keys, remap'[j] # Null
          PROVE  remap'[j] < pubSeq'[j[1]]
      <4>1. CASE j = k
        BY <2>1, <2>4, <4>1
      <4>2. CASE j # k
        BY <2>1, <2>2, <2>5, <3>1, <4>2 DEF FreshInv, RemapBelowSequence
      <4> QED
        BY <4>1, <4>2
    <3> QED
      BY <1>1, <1>5, <3>1 DEF RemapBelowSequence
  <2>7. RemapTargetsFresh'
    <3>1. ASSUME NEW j \in Keys, remap'[j] # Null
          PROVE  base[<<j[1], remap'[j]>>] = Absent
      <4>1. CASE j = k
        <5> DEFINE new == <<k[1], pubSeq[k[1]]>>
        <5>1. new \in Keys /\ new[1] = k[1] /\ new[2] = pubSeq[k[1]]
          BY <1>1 DEF Keys, Ids
        <5>2. base[new] # Absent => pubSeq[k[1]] < pubSeq[k[1]]
          BY <1>1, <5>1 DEF FreshInv, RowsBelowSequence
        <5>3. base[new] = Absent
          BY <2>1, <5>2
        <5> QED
          BY <2>4, <4>1, <5>3
      <4>2. CASE j # k
        BY <2>5, <3>1, <4>2 DEF FreshInv, RemapTargetsFresh
      <4> QED
        BY <4>1, <4>2
    <3> QED
      BY <1>5, <3>1 DEF RemapTargetsFresh
  <2> QED
    BY <2>3, <2>6, <2>7 DEF FreshInv
<1> QED
  BY <1>4, <1>5 DEF RemapRow

(* Every step of a merge keeps the ids it gave out fresh.                  *)
LEMMA MergeStepIsFresh ==
    ASSUME FreshInv, MergeInv', MergeStep
    PROVE  FreshInv'
<1>1. CASE RejectViolations \/ RejectConflicts \/ DryRun
  <2>1. UNCHANGED <<base, pubSeq, remap, phase>> /\ phase = "idle"
    BY <1>1 DEF RejectViolations, RejectConflicts, DryRun, Attempt, storeVars, txVars
  <2> QED
    BY <2>1, InsideIsFresh
<1>2. CASE Start
  <2>1. UNCHANGED <<base, pubSeq, remap>> /\ phase = "idle" /\ phase' = "remap"
    BY <1>2 DEF Start, Attempt, storeVars
  <2> QED
    BY <2>1, InsideIsFresh
<1>3. ASSUME NEW k \in Keys, RemapRow(k) PROVE FreshInv'
  BY <1>3, RemapRowIsFresh
<1>4. CASE RemapDone \/ FixDone
  <2>1. /\ UNCHANGED <<base, pubSeq, remap>>
        /\ phase \in {"remap", "fix"} /\ phase' \in {"fix", "replay"}
    BY <1>4 DEF RemapDone, FixDone, storeVars, txVars
  <2> QED
    BY <2>1, InsideIsFresh
<1>5. ASSUME Running, NEW result, EndWith(result), UNCHANGED pubSeq PROVE FreshInv'
  <2>1. NoTransaction /\ UNCHANGED base /\ phase # "merged"
    BY <1>5 DEF EndWith, Running
  <2> QED
    BY <1>5, <2>1, EndIsFresh
<1>6. ASSUME Running, UNCHANGED <<storeVars, remap, phase>> PROVE FreshInv'
  <2>1. UNCHANGED <<base, pubSeq, remap, phase>> /\ phase \in {"remap", "fix", "replay"}
    BY <1>6 DEF storeVars, Running
  <2> QED
    BY <2>1, InsideIsFresh
<1>7. ASSUME NEW f \in Tables \X Ids, FixReference(f) PROVE FreshInv'
  BY <1>5, <1>6, <1>7 DEF FixReference, Running
<1>8. ASSUME NEW t \in Tables, Replay(t) PROVE FreshInv'
  BY <1>5, <1>6, <1>8 DEF Replay, Running
<1>9. CASE Finish
  BY <1>9, EndIsFresh DEF Finish
<1>10. CASE Crash
  BY <1>5, <1>10 DEF Crash
<1> QED
  BY <1>1, <1>2, <1>3, <1>4, <1>7, <1>8, <1>9, <1>10 DEF MergeStep

(* FreshInv is an invariant if the sequences start ahead of the rows.      *)
LEMMA FreshInvariance ==
    ASSUME SequencesAhead
    PROVE  MergeSpec => []FreshInv
<1>1. MergeInit => FreshInv
  <2> SUFFICES ASSUME MergeInit PROVE FreshInv
    OBVIOUS
  <2>1. base = StartBase /\ pubSeq = StartSeq /\ \A k \in Keys : remap[k] = Null
    BY DEF MergeInit, Init
  <2> QED
    BY <2>1, MergeInitEstablishesInv DEF FreshInv, RowsBelowSequence, RemapBelowSequence,
       RemapTargetsFresh, SequencesAhead
<1>2. FreshInv /\ MergeInv' /\ [MergeNext]_vars => FreshInv'
  <2> SUFFICES ASSUME FreshInv, MergeInv', [MergeNext]_vars PROVE FreshInv'
    OBVIOUS
  <2>1. CASE MergeStep
    BY <2>1, MergeStepIsFresh
  <2>2. CASE OnBranch \/ OnListener \/ OnBase
    BY <2>2, StatementIsFresh
  <2>3. CASE UNCHANGED vars
    BY <2>3 DEF vars, storeVars, mergeVars, txVars, FreshInv, RowsBelowSequence,
       RemapBelowSequence, RemapTargetsFresh
  <2> QED
    BY <2>1, <2>2, <2>3 DEF MergeNext
<1> QED
  BY <1>1, <1>2, MergeInvariance, PTL DEF MergeSpec

(* If production sequences start ahead of the rows, a new row's production *)
(* id belongs to no production row, whatever production inserts while the  *)
(* merge runs: the replay's upsert of a new row never overwrites one.      *)
THEOREM RemapIsFresh ==
    ASSUME SequencesAhead
    PROVE  MergeSpec => []RemapTargetsFresh
<1>1. FreshInv => RemapTargetsFresh
  BY DEF FreshInv
<1> QED
  BY <1>1, FreshInvariance, PTL

-----------------------------------------------------------------------------
(* Production rows that production changed.                                *)

\* A production row that was stamped and has a delta row has changed since the
\* snapshot: at the snapshot it would have been a conflict.
StampedHasChanged ==
    Running =>
        \A k \in stamped : base[k] # Absent /\ tdelta[k] # Absent => since[k] # "same"

\* Nobody changes a row that the merge has written.
OwnIsUnchanged == \A k \in own : since[k] = "same" \/ base[k] = Absent

NothingWrittenYet == phase # "replay" => own = {}

SurvivalInv ==
    /\ FreshInv
    /\ StampedHasChanged
    /\ OwnIsUnchanged
    /\ NothingWrittenYet

(* Only Finish commits a merge.                                            *)
LEMMA OnlyFinishMerges ==
    ASSUME MergeNext, Merges
    PROVE  Finish
<1>1. phase = "replay" /\ phase' = "merged"
  BY DEF Merges
<1>2. ~OnBranch /\ ~OnListener /\ ~OnBase
  BY <1>1 DEF OnBranch, OnListener, OnBase, mergeVars
<1>3. ~RejectViolations /\ ~RejectConflicts /\ ~DryRun /\ ~Start /\ ~RemapDone /\ ~FixDone
  BY <1>1 DEF RejectViolations, RejectConflicts, DryRun, Start, Attempt, RemapDone, FixDone
<1>4. ASSUME NEW k \in Keys PROVE ~RemapRow(k)
  BY <1>1 DEF RemapRow
<1>5. ASSUME NEW f \in Tables \X Ids PROVE ~FixReference(f)
  BY <1>1 DEF FixReference
<1>6. ASSUME NEW t \in Tables PROVE ~Replay(t)
  BY <1>1 DEF Replay, EndWith
<1>7. ~Crash
  BY <1>1 DEF Crash, EndWith
<1> QED
  BY <1>2, <1>3, <1>4, <1>5, <1>6, <1>7 DEF MergeNext, MergeStep

(* A production statement that stamps a row changes it.                    *)
LEMMA StampedIsTouched ==
    ASSUME TypeOK, BaseStatement
    PROVE  \A k \in stamped' : k \in stamped \/ base'[k] # base[k]
<1>1. base \in [Keys -> Rows \cup {Absent}] /\ Absent \notin Rows
  BY SentinelAssumption DEF TypeOK
<1>2. ASSUME NEW t \in Tables, NEW v \in Vals, NEW i \in ProdIds \cup {Null},
             BaseInsert(t, [val |-> v, ref |-> i])
      PROVE  \A k \in stamped' : k \in stamped \/ base'[k] # base[k]
  <2> DEFINE new == <<t, pubSeq[t]>>
             r == [val |-> v, ref |-> i]
  <2>1. new \in Keys
    BY <1>2 DEF BaseInsert, Keys, Ids
  <2>2. r # Absent
    BY <1>1 DEF Rows, Refs, Ids
  <2>3. CASE base[new] = Absent
    <3>1. base' = [base EXCEPT ![new] = r] /\ Stamp(new)
      BY <1>2, <2>3 DEF BaseInsert
    <3>2. base'[new] # base[new]
      BY <1>1, <2>1, <2>2, <2>3, <3>1
    <3> QED
      BY <3>1, <3>2 DEF Stamp
  <2>4. CASE base[new] # Absent
    BY <1>2, <2>4 DEF BaseInsert
  <2> QED
    BY <2>3, <2>4
<1>3. ASSUME NEW k \in Keys, NEW v \in Vals, BaseUpdate(k, v)
      PROVE  \A j \in stamped' : j \in stamped \/ base'[j] # base[j]
  <2>1. base[k] # Absent /\ base[k].val # v /\ base' = [base EXCEPT ![k].val = v] /\ Stamp(k)
    BY <1>3 DEF BaseUpdate
  <2>2. base[k] \in Rows
    BY <1>1, <2>1
  <2>3. base'[k].val = v
    BY <1>1, <2>1, <2>2 DEF Rows
  <2> QED
    BY <2>1, <2>3 DEF Stamp
<1>4. ASSUME NEW k \in Keys, BaseDelete(k)
      PROVE  stamped' = stamped
  BY <1>4 DEF BaseDelete
<1> QED
  BY <1>2, <1>3, <1>4 DEF BaseStatement

(* A statement of an application waits for the rows that the merge has     *)
(* written, and leaves its trace in since.                                 *)
LEMMA OthersKeepSurvival ==
    ASSUME SurvivalInv, FreshInv', OnBranch \/ OnListener \/ OnBase
    PROVE  SurvivalInv'
<1>1. CASE OnBranch \/ OnListener
  <2>1. UNCHANGED <<base, stamped, phase, tdelta, own, since>>
    BY <1>1 DEF OnBranch, OnListener, BranchStatement, BranchInsert, BranchUpdate, BranchMove,
       BranchDelete, ListenerStep, Upgrade, LoseNotification, mergeVars, txVars
  <2> QED
    BY <2>1 DEF SurvivalInv, StampedHasChanged, OwnIsUnchanged, NothingWrittenYet, Running
<1>2. CASE OnBase
  <2>1. /\ UNCHANGED <<phase, tdelta, own>>
        /\ stamped \subseteq Keys /\ own \subseteq Keys /\ stamped' \subseteq Keys
        /\ since \in [Keys -> Changes]
    BY <1>2 DEF OnBase, txVars, SurvivalInv, FreshInv, MergeInv, MergeTypeOK, StoreInv, TypeOK
  <2>2. \A k \in stamped' : k \in stamped \/ base'[k] # base[k]
    BY <1>2, StampedIsTouched DEF OnBase, SurvivalInv, FreshInv, MergeInv, StoreInv
  <2>3. ASSUME NEW k \in Keys, base'[k] # base[k]
        PROVE  Running => k \notin own /\ since'[k] \in {"updated", "removed"}
    BY <1>2, <2>3 DEF OnBase
  <2>4. ASSUME NEW k \in Keys, base'[k] = base[k]
        PROVE  since'[k] = since[k]
    BY <1>2, <2>1, <2>4 DEF OnBase
  <2>5. ~Running => since' = since
    BY <1>2, <2>1 DEF OnBase
  <2>6. StampedHasChanged'
    <3> SUFFICES ASSUME Running, NEW k \in stamped', base'[k] # Absent, tdelta[k] # Absent
                 PROVE  since'[k] # "same"
      BY <2>1 DEF StampedHasChanged, Running
    <3>1. CASE base'[k] # base[k]
      BY <2>1, <2>3, <3>1
    <3>2. CASE base'[k] = base[k]
      BY <2>1, <2>2, <2>4, <3>2 DEF SurvivalInv, StampedHasChanged
    <3> QED
      BY <3>1, <3>2
  <2>7. OwnIsUnchanged'
    <3>1. CASE ~Running
      <4>1. own = {}
        BY <1>2, <3>1 DEF OnBase, Running, SurvivalInv, NothingWrittenYet
      <4> QED
        BY <2>1, <4>1 DEF OwnIsUnchanged
    <3>2. CASE Running
      BY <2>1, <2>3, <2>4, <3>2 DEF SurvivalInv, OwnIsUnchanged
    <3> QED
      BY <3>1, <3>2
  <2> QED
    BY <2>1, <2>6, <2>7 DEF SurvivalInv, NothingWrittenYet
<1> QED
  BY <1>1, <1>2

(* The end of a transaction, committed or not.                             *)
LEMMA EndKeepsSurvival ==
    ASSUME FreshInv', NoTransaction, ~Running'
    PROVE  SurvivalInv'
BY DEF NoTransaction, SurvivalInv, StampedHasChanged, OwnIsUnchanged, NothingWrittenYet

(* A step of the merge before the replay: it writes no production row, and *)
(* what it writes into a delta table has no production row of that key.    *)
LEMMA PreparationKeepsSurvival ==
    ASSUME SurvivalInv, FreshInv', UNCHANGED <<base, stamped, since, own>>,
           own = {}, Running' => Running,
           \A k \in Keys : tdelta'[k] # Absent => tdelta[k] # Absent \/ base[k] = Absent
    PROVE  SurvivalInv'
<1>1. stamped \subseteq Keys
  BY DEF SurvivalInv, FreshInv, MergeInv, StoreInv, TypeOK
<1> QED
  BY <1>1 DEF SurvivalInv, StampedHasChanged, OwnIsUnchanged, NothingWrittenYet

(* The snapshot has no conflict.                                           *)
LEMMA StartKeepsSurvival ==
    ASSUME SurvivalInv, FreshInv', Start
    PROVE  SurvivalInv'
<1>1. /\ UNCHANGED <<base, stamped, since, own>>
      /\ phase = "idle" /\ phase' = "remap" /\ tdelta' = delta
      /\ Conflicts = {}
  BY DEF Start, Attempt, storeVars
<1>2. own = {}
  BY <1>1 DEF SurvivalInv, NothingWrittenYet
<1>3. \A k \in stamped : ~(base[k] # Absent /\ delta[k] # Absent)
  BY <1>1 DEF Conflicts
<1> QED
  BY <1>1, <1>2, <1>3 DEF SurvivalInv, StampedHasChanged, OwnIsUnchanged, NothingWrittenYet

(* A renamed row goes where production has none.                           *)
LEMMA RemapKeepsSurvival ==
    ASSUME SurvivalInv, FreshInv', NEW k \in Keys, RemapRow(k)
    PROVE  SurvivalInv'
<1> DEFINE new == <<k[1], pubSeq[k[1]]>>
<1>1. /\ phase = "remap" /\ k[1] \in Tables /\ pubSeq[k[1]] \in ProdIds
  BY DEF RemapRow, Draw, Keys
<1>2. new \in Keys /\ new[1] = k[1] /\ new[2] = pubSeq[k[1]] /\ pubSeq[k[1]] \in Nat
  BY <1>1, IdsAreNat DEF Keys, Ids
<1>3. base[new] = Absent
  <2>1. base[new] # Absent => new[2] < pubSeq[new[1]]
    BY <1>1, <1>2 DEF SurvivalInv, FreshInv, RowsBelowSequence
  <2> QED
    BY <1>2, <2>1
<1>4. CASE EndWith("serialization failure") \/ EndWith("remap failed")
  BY <1>4, EndKeepsSurvival DEF EndWith, Running
<1>5. CASE /\ tdelta' = [tdelta EXCEPT ![k] = Absent, ![new] = tdelta[k]]
           /\ UNCHANGED <<base, stamped, phase, own, since>>
  <2>1. tdelta \in [Keys -> Deltas \cup {Absent}]
    BY DEF SurvivalInv, FreshInv, MergeInv, MergeTypeOK
  <2> HIDE DEF new
  <2>2. \A j \in Keys :
          tdelta'[j] = IF j = new THEN tdelta[k] ELSE IF j = k THEN Absent ELSE tdelta[j]
    BY <1>2, <1>5, <2>1
  <2>3. own = {} /\ Running' = Running
    BY <1>1, <1>5 DEF SurvivalInv, NothingWrittenYet, Running
  <2> QED
    BY <1>3, <1>5, <2>2, <2>3, PreparationKeepsSurvival
<1> QED
  BY <1>4, <1>5 DEF RemapRow

(* The replay writes over no row that others have changed, except where    *)
(* they have removed it.                                                   *)
LEMMA ReplayKeepsSurvival ==
    ASSUME SurvivalInv, FreshInv', NEW t \in Tables, Replay(t)
    PROVE  SurvivalInv'
<1> DEFINE live == {k \in Keys : k[1] = t /\ IsLive(tdelta, k)}
           gone == {k \in Keys : /\ k[1] = t /\ tdelta[k] # Absent /\ tdelta[k].deleted
                                 /\ tbase[k] # Absent}
           put  == [k \in Keys |-> IF k \in live THEN tdelta[k].row ELSE Latest[k]]
           after == AfterDelete(put, gone)
           hit  == {k \in Keys : after[k] # put[k]}
           clash == \/ \E k \in live : since[k] # "same" /\ base[k] # Absent
                    \/ \E k \in gone \cup hit : since[k] # "same"
<1>1. phase = "replay"
  BY DEF Replay
<1>2. CASE EndWith("serialization failure") \/ EndWith("foreign key error")
  BY <1>2, EndKeepsSurvival DEF EndWith, Running
<1>3. CASE /\ ~clash
           /\ own' = own \cup live \cup hit
           /\ UNCHANGED <<base, stamped, tdelta, since, phase>>
  <2>1. OwnIsUnchanged'
    <3> SUFFICES ASSUME NEW k \in own'
                 PROVE  since[k] = "same" \/ base[k] = Absent
      BY <1>3 DEF OwnIsUnchanged
    <3>1. CASE k \in own
      BY <3>1 DEF SurvivalInv, OwnIsUnchanged
    <3>2. CASE k \in live
      BY <1>3, <3>2
    <3>3. CASE k \in hit
      BY <1>3, <3>3
    <3> QED
      BY <1>3, <3>1, <3>2, <3>3
  <2>2. StampedHasChanged' /\ NothingWrittenYet'
    BY <1>1, <1>3 DEF SurvivalInv, StampedHasChanged, NothingWrittenYet, Running
  <2> QED
    BY <2>1, <2>2 DEF SurvivalInv
<1> QED
  BY <1>2, <1>3 DEF Replay, storeVars

(* Every step of a merge.                                                  *)
LEMMA MergeStepKeepsSurvival ==
    ASSUME SurvivalInv, FreshInv', MergeStep
    PROVE  SurvivalInv'
<1>1. CASE RejectViolations \/ RejectConflicts \/ DryRun
  <2>1. UNCHANGED <<base, stamped, since, own, tdelta, phase>> /\ phase = "idle"
    BY <1>1 DEF RejectViolations, RejectConflicts, DryRun, Attempt, storeVars, txVars
  <2> QED
    BY <2>1, PreparationKeepsSurvival DEF SurvivalInv, NothingWrittenYet, Running
<1>2. CASE Start
  BY <1>2, StartKeepsSurvival
<1>3. ASSUME NEW k \in Keys, RemapRow(k) PROVE SurvivalInv'
  BY <1>3, RemapKeepsSurvival
<1>4. CASE RemapDone
  <2>1. UNCHANGED <<base, stamped, since, own, tdelta>> /\ phase = "remap"
    BY <1>4 DEF RemapDone, storeVars
  <2> QED
    BY <2>1, PreparationKeepsSurvival DEF SurvivalInv, NothingWrittenYet, Running
<1>5. ASSUME NEW f \in Tables \X Ids, FixReference(f) PROVE SurvivalInv'
  <2>1. CASE EndWith("serialization failure")
    BY <2>1, EndKeepsSurvival DEF EndWith, Running
  <2>2. CASE ~EndWith("serialization failure")
    <3>1. UNCHANGED <<base, stamped, since, own, phase>> /\ phase = "fix"
      BY <1>5, <2>2 DEF FixReference, storeVars
    <3>2. \A k \in Keys : tdelta'[k] # Absent => tdelta[k] # Absent
      BY <1>5, <2>2 DEF FixReference
    <3> QED
      BY <3>1, <3>2, PreparationKeepsSurvival DEF SurvivalInv, NothingWrittenYet, Running
  <2> QED
    BY <2>1, <2>2
<1>6. CASE FixDone
  <2>1. UNCHANGED <<base, stamped, since, own, tdelta>> /\ phase = "fix"
    BY <1>6 DEF FixDone, storeVars, txVars
  <2> QED
    BY <2>1, PreparationKeepsSurvival DEF SurvivalInv, NothingWrittenYet, Running
<1>7. ASSUME NEW t \in Tables, Replay(t) PROVE SurvivalInv'
  BY <1>7, ReplayKeepsSurvival
<1>8. CASE Finish \/ Crash
  BY <1>8, EndKeepsSurvival DEF Finish, Crash, EndWith, Running
<1> QED
  BY <1>1, <1>2, <1>3, <1>4, <1>5, <1>6, <1>7, <1>8 DEF MergeStep

(* If production sequences start ahead of the rows, a merge overwrites no  *)
(* production row that production has changed since the branch was         *)
(* created: a change before the snapshot is a conflict, one after it a     *)
(* serialization failure, and no renamed row lands on such a row.          *)
THEOREM ProductionIsNotOverwritten ==
    ASSUME SequencesAhead
    PROVE  MergeSpec => ProductionUpdateSurvives
<1>1. MergeInit => StampedHasChanged /\ OwnIsUnchanged /\ NothingWrittenYet
  BY DEF MergeInit, StampedHasChanged, OwnIsUnchanged, NothingWrittenYet, Running
<1>2. SurvivalInv /\ FreshInv' /\ [MergeNext]_vars => SurvivalInv'
  <2> SUFFICES ASSUME SurvivalInv, FreshInv', [MergeNext]_vars PROVE SurvivalInv'
    OBVIOUS
  <2>1. CASE MergeStep
    BY <2>1, MergeStepKeepsSurvival
  <2>2. CASE OnBranch \/ OnListener \/ OnBase
    BY <2>2, OthersKeepSurvival
  <2>3. CASE UNCHANGED vars
    BY <2>3 DEF vars, storeVars, mergeVars, txVars, SurvivalInv, StampedHasChanged,
       OwnIsUnchanged, NothingWrittenYet, Running
  <2> QED
    BY <2>1, <2>2, <2>3 DEF MergeNext
<1>3. ASSUME SurvivalInv, [MergeNext]_vars, Merges,
             NEW k \in stamped, base[k] # Absent, tdelta[k] # Absent
      PROVE  base'[k] = base[k]
  <2>1. phase = "replay" /\ phase' = "merged" /\ Finish
    BY <1>3, OnlyFinishMerges DEF Merges, vars, mergeVars
  <2>2. k \in Keys
    BY <1>3 DEF SurvivalInv, FreshInv, MergeInv, StoreInv, TypeOK
  <2>3. since[k] # "same"
    BY <1>3, <2>1 DEF SurvivalInv, StampedHasChanged, Running
  <2>4. k \notin own
    BY <1>3, <2>3 DEF SurvivalInv, OwnIsUnchanged
  <2> QED
    BY <2>1, <2>2, <2>4 DEF Finish, Latest
<1>4. SurvivalInv /\ [MergeNext]_vars =>
        [Merges => \A k \in stamped : base[k] # Absent /\ tdelta[k] # Absent =>
                     base'[k] = base[k]]_vars
  BY <1>3
<1>5. FreshInv /\ StampedHasChanged /\ OwnIsUnchanged /\ NothingWrittenYet => SurvivalInv
  BY DEF SurvivalInv
<1> QED
  BY <1>1, <1>2, <1>4, <1>5, FreshInvariance, PTL DEF MergeSpec, ProductionUpdateSurvives

-----------------------------------------------------------------------------
(* Rows that the branch has inserted and deleted.                          *)

\* k is an id that the merge has given to a new row.
IsTarget(k) == \E i \in Ids : remap[<<k[1], i>>] = k[2]

\* A new row of the snapshot is still to be renamed, or under its new id.
NewRowsAreTargets ==
    \A k \in Keys : tdelta[k] # Absent /\ tdelta[k].isNew => k \in todo \/ IsTarget(k)

\* What is still to be renamed has no new id.
ToDoHasNoTarget == \A k \in todo : remap[k] = Null

SnapshotBelowSequence ==
    phase = "remap" => \A k \in Keys : tbase[k] # Absent => k[2] < pubSeq[k[1]]

\* Where the merge has not written, the snapshot has no row with a new id.
TargetsAreFree == \A k \in Keys \ own : IsTarget(k) => tbase[k] = Absent

\* A new row that was deleted again is never written.
Vanished(k) == tdelta[k] # Absent /\ tdelta[k].isNew /\ tdelta[k].deleted
VanishedStayAway == \A k \in own : ~Vanished(k)

NoOpInv ==
    /\ FreshInv
    /\ NewRowsAreTargets
    /\ ToDoHasNoTarget
    /\ SnapshotBelowSequence
    /\ TargetsAreFree
    /\ VanishedStayAway
    /\ NothingWrittenYet

(* A step of somebody else does not reach the transaction.                 *)
LEMMA OthersKeepNoOp ==
    ASSUME NoOpInv, FreshInv', UNCHANGED <<phase, txVars>>,
           \A t \in Tables : pubSeq'[t] = pubSeq[t] \/ pubSeq'[t] = pubSeq[t] + 1
    PROVE  NoOpInv'
<1>1. UNCHANGED <<phase, tbase, tdelta, todo, remap, own>>
  BY DEF txVars
<1>2. pubSeq \in [Tables -> NextIds(ProdIds)]
  BY DEF NoOpInv, FreshInv, MergeInv, StoreInv, TypeOK
<1>3. SnapshotBelowSequence'
  <2> SUFFICES ASSUME phase = "remap", NEW k \in Keys, tbase[k] # Absent
               PROVE  k[2] < pubSeq'[k[1]]
    BY <1>1 DEF SnapshotBelowSequence
  <2>1. k[1] \in Tables /\ k[2] \in Nat /\ pubSeq[k[1]] \in Nat
    BY <1>2, IdsAreNat DEF Keys
  <2>2. k[2] < pubSeq[k[1]]
    BY DEF NoOpInv, SnapshotBelowSequence
  <2>3. pubSeq'[k[1]] = pubSeq[k[1]] \/ pubSeq'[k[1]] = pubSeq[k[1]] + 1
    BY <2>1
  <2> QED
    BY <2>1, <2>2, <2>3
<1> QED
  BY <1>1, <1>3 DEF NoOpInv, NewRowsAreTargets, ToDoHasNoTarget, TargetsAreFree, IsTarget,
     VanishedStayAway, Vanished, NothingWrittenYet

(* The end of a transaction, committed or not.                             *)
LEMMA EndKeepsNoOp ==
    ASSUME FreshInv', NoTransaction, ~Running'
    PROVE  NoOpInv'
<1>1. /\ tdelta' = EmptyRows /\ tbase' = EmptyRows
      /\ todo' = {} /\ own' = {} /\ phase' # "remap"
  BY DEF NoTransaction, Running
<1>2. \A k \in Keys : tdelta'[k] = Absent /\ tbase'[k] = Absent
  BY <1>1 DEF EmptyRows
<1> QED
  BY <1>1, <1>2 DEF NoOpInv, NewRowsAreTargets, ToDoHasNoTarget, SnapshotBelowSequence,
     TargetsAreFree, VanishedStayAway, NothingWrittenYet

(* The snapshot: everything new is to be renamed.                          *)
LEMMA StartKeepsNoOp ==
    ASSUME NoOpInv, FreshInv', Start
    PROVE  NoOpInv'
<1>1. /\ UNCHANGED <<base, pubSeq, remap, own>>
      /\ phase = "idle" /\ phase' = "remap"
      /\ tbase' = base /\ tdelta' = delta
      /\ todo' = {k \in Keys : delta[k] # Absent /\ delta[k].isNew}
  BY DEF Start, Attempt, storeVars
<1>2. own = {} /\ \A k \in Keys : remap[k] = Null
  BY <1>1 DEF NoOpInv, NothingWrittenYet, FreshInv, RemapBelowSequence
<1>3. NewRowsAreTargets' /\ ToDoHasNoTarget' /\ VanishedStayAway' /\ NothingWrittenYet'
  BY <1>1, <1>2 DEF NewRowsAreTargets, ToDoHasNoTarget, VanishedStayAway, NothingWrittenYet
<1>4. SnapshotBelowSequence'
  BY <1>1 DEF NoOpInv, FreshInv, RowsBelowSequence, SnapshotBelowSequence
<1>5. TargetsAreFree'
  <2> SUFFICES ASSUME NEW k \in Keys, NEW i \in Ids, remap[<<k[1], i>>] = k[2]
               PROVE  FALSE
    BY <1>1 DEF TargetsAreFree, IsTarget
  <2>1. k[2] # Null /\ <<k[1], i>> \in Keys
    BY SentinelAssumption DEF Keys
  <2> QED
    BY <1>2, <2>1
<1> QED
  BY <1>3, <1>4, <1>5 DEF NoOpInv

(* A renamed row takes an id that the snapshot has no row of.              *)
LEMMA RemapKeepsNoOp ==
    ASSUME NoOpInv, FreshInv', NEW k \in Keys, RemapRow(k)
    PROVE  NoOpInv'
<1> DEFINE new == <<k[1], pubSeq[k[1]]>>
<1>1. /\ phase = "remap" /\ k \in todo
      /\ k[1] \in Tables /\ pubSeq[k[1]] \in ProdIds
      /\ pubSeq' = [pubSeq EXCEPT ![k[1]] = @ + 1]
  BY DEF RemapRow, Draw, Keys
<1>2. new \in Keys /\ new[1] = k[1] /\ new[2] = pubSeq[k[1]] /\ pubSeq[k[1]] \in Nat
  BY <1>1, IdsAreNat DEF Keys, Ids
<1>3. CASE EndWith("serialization failure") \/ EndWith("remap failed")
  BY <1>3, EndKeepsNoOp DEF EndWith, Running
<1>4. CASE /\ tdelta' = [tdelta EXCEPT ![k] = Absent, ![new] = tdelta[k]]
           /\ remap' = [remap EXCEPT ![k] = pubSeq[k[1]]]
           /\ todo' = todo \ {k}
           /\ UNCHANGED <<phase, tbase, own>>
  <2>1. /\ tdelta \in [Keys -> Deltas \cup {Absent}]
        /\ remap \in [Keys -> ProdIds \cup {Null}]
        /\ todo \subseteq Keys
        /\ pubSeq \in [Tables -> NextIds(ProdIds)]
    BY DEF NoOpInv, FreshInv, MergeInv, MergeTypeOK, StoreInv, TypeOK
  <2>2. own = {} /\ own' = {}
    BY <1>1, <1>4 DEF NoOpInv, NothingWrittenYet
  <2>3. remap[k] = Null /\ remap'[k] = new[2]
    BY <1>1, <1>2, <1>4, <2>1 DEF NoOpInv, ToDoHasNoTarget
  <2>4. \A j \in Keys : j # k => remap'[j] = remap[j]
    BY <1>4, <2>1
  <2>5. tbase[new] = Absent
    <3>1. tbase[new] # Absent => new[2] < pubSeq[new[1]]
      BY <1>1, <1>2 DEF NoOpInv, SnapshotBelowSequence
    <3> QED
      BY <1>2, <3>1
  <2>6. remap'[<<new[1], k[2]>>] = new[2] /\ k[2] \in Ids
    <3>1. k[2] \in Ids /\ k = <<k[1], k[2]>>
      BY DEF Keys
    <3> QED
      BY <1>2, <2>3, <3>1
  <2> HIDE DEF new
  <2>7. \A j \in Keys :
          tdelta'[j] = IF j = new THEN tdelta[k] ELSE IF j = k THEN Absent ELSE tdelta[j]
    BY <1>2, <1>4, <2>1
  <2>8. ASSUME NEW j \in Keys, IsTarget(j)
        PROVE  IsTarget(j)'
    <3>1. PICK i \in Ids : remap[<<j[1], i>>] = j[2]
      BY <2>8 DEF IsTarget
    <3>2. <<j[1], i>> \in Keys /\ j[2] # Null
      BY SentinelAssumption DEF Keys
    <3>3. <<j[1], i>> # k
      BY <2>3, <3>1, <3>2
    <3>4. remap'[<<j[1], i>>] = j[2]
      BY <2>4, <3>1, <3>2, <3>3
    <3> QED
      BY <3>4 DEF IsTarget
  <2>9. ASSUME NEW j \in Keys, IsTarget(j)'
        PROVE  IsTarget(j) \/ j = new
    <3>1. PICK i \in Ids : remap'[<<j[1], i>>] = j[2]
      BY <2>9 DEF IsTarget
    <3>2. <<j[1], i>> \in Keys /\ j = <<j[1], j[2]>>
      BY DEF Keys
    <3>3. CASE <<j[1], i>> = k
      <4>1. j[1] = k[1] /\ j[2] = new[2]
        BY <2>3, <3>1, <3>3
      <4> QED
        BY <1>2, <3>2, <4>1 DEF new
    <3>4. CASE <<j[1], i>> # k
      BY <2>4, <3>1, <3>2, <3>4 DEF IsTarget
    <3> QED
      BY <3>3, <3>4
  <2>10. NewRowsAreTargets'
    <3> SUFFICES ASSUME NEW j \in Keys, tdelta'[j] # Absent, tdelta'[j].isNew
                 PROVE  j \in todo' \/ IsTarget(j)'
      BY DEF NewRowsAreTargets
    <3>1. CASE j = new
      BY <2>6, <3>1 DEF IsTarget
    <3>2. CASE j # new
      <4>1. j # k /\ tdelta'[j] = tdelta[j]
        BY <2>7, <3>2
      <4>2. j \in todo \/ IsTarget(j)
        BY <4>1 DEF NoOpInv, NewRowsAreTargets
      <4> QED
        BY <1>4, <2>8, <4>1, <4>2
    <3> QED
      BY <3>1, <3>2
  <2>11. ToDoHasNoTarget'
    BY <1>4, <2>1, <2>4 DEF NoOpInv, ToDoHasNoTarget
  <2>12. TargetsAreFree'
    BY <1>4, <2>2, <2>5, <2>9 DEF NoOpInv, TargetsAreFree
  <2>13. SnapshotBelowSequence'
    <3> SUFFICES ASSUME NEW j \in Keys, tbase[j] # Absent
                 PROVE  j[2] < pubSeq'[j[1]]
      BY <1>4 DEF SnapshotBelowSequence
    <3>1. j[1] \in Tables /\ j[2] \in Nat /\ pubSeq[j[1]] \in Nat
      BY <2>1, IdsAreNat DEF Keys
    <3>2. j[2] < pubSeq[j[1]]
      BY <1>1 DEF NoOpInv, SnapshotBelowSequence
    <3>3. pubSeq'[j[1]] = pubSeq[j[1]] \/ pubSeq'[j[1]] = pubSeq[j[1]] + 1
      BY <1>1, <2>1, <3>1
    <3> QED
      BY <3>1, <3>2, <3>3
  <2>14. VanishedStayAway' /\ NothingWrittenYet'
    BY <2>2 DEF VanishedStayAway, NothingWrittenYet
  <2> QED
    BY <2>10, <2>11, <2>12, <2>13, <2>14 DEF NoOpInv
<1> QED
  BY <1>3, <1>4 DEF RemapRow

(* A step of the merge that renames no row and writes no production row,   *)
(* but may change references in the delta tables.                          *)
LEMMA RepairKeepsNoOp ==
    ASSUME NoOpInv, FreshInv', UNCHANGED <<tbase, todo, remap, own>>,
           phase' # "remap", own = {},
           \A k \in Keys :
             /\ tdelta'[k] # Absent => tdelta[k] # Absent
             /\ tdelta'[k] # Absent => tdelta'[k].isNew = tdelta[k].isNew
    PROVE  NoOpInv'
BY DEF NoOpInv, NewRowsAreTargets, ToDoHasNoTarget, SnapshotBelowSequence, TargetsAreFree,
   IsTarget, VanishedStayAway, NothingWrittenYet

(* The replay writes no row that was inserted and deleted in the branch:   *)
(* the key is nobody's, so that neither the DELETE nor a cascade finds it. *)
LEMMA ReplayKeepsNoOp ==
    ASSUME NoOpInv, FreshInv', NEW t \in Tables, Replay(t)
    PROVE  NoOpInv'
<1> DEFINE live == {k \in Keys : k[1] = t /\ IsLive(tdelta, k)}
           gone == {k \in Keys : /\ k[1] = t /\ tdelta[k] # Absent /\ tdelta[k].deleted
                                 /\ tbase[k] # Absent}
           put  == [k \in Keys |-> IF k \in live THEN tdelta[k].row ELSE Latest[k]]
           after == AfterDelete(put, gone)
           hit  == {k \in Keys : after[k] # put[k]}
<1>1. phase = "replay"
  BY DEF Replay
<1>2. CASE EndWith("serialization failure") \/ EndWith("foreign key error")
  BY <1>2, EndKeepsNoOp DEF EndWith, Running
<1>3. CASE /\ own' = own \cup live \cup hit
           /\ tbase' = [k \in Keys |-> IF k \in own' THEN after[k] ELSE tbase[k]]
           /\ UNCHANGED <<base, tdelta, todo, remap, phase>>
  <2>1. /\ base \in [Keys -> Rows \cup {Absent}]
        /\ tbase \in [Keys -> Rows \cup {Absent}]
        /\ tdelta \in [Keys -> Deltas \cup {Absent}]
        /\ remap \in [Keys -> ProdIds \cup {Null}]
    BY DEF NoOpInv, FreshInv, MergeInv, MergeTypeOK, StoreInv, TypeOK
  <2>2. put \in [Keys -> Rows \cup {Absent}]
    <3>1. Latest \in [Keys -> Rows \cup {Absent}]
      BY <2>1 DEF Latest
    <3>2. \A k \in live : tdelta[k].row \in Rows
      BY <2>1 DEF IsLive, Deltas
    <3> QED
      BY <3>1, <3>2
  <2>3. ASSUME NEW k \in Keys, Vanished(k)
        PROVE  k \notin own'
    <3>1. k \notin own
      BY <2>3 DEF NoOpInv, VanishedStayAway
    <3>2. k \notin live
      BY <2>3 DEF Vanished, IsLive
    <3>3. todo = {}
      BY <1>1 DEF NoOpInv, FreshInv, MergeInv, LocalRowsAreToDo
    <3>4. IsTarget(k)
      BY <2>3, <3>3 DEF NoOpInv, NewRowsAreTargets, Vanished
    <3>5. base[k] = Absent
      <4>1. PICK i \in Ids : remap[<<k[1], i>>] = k[2]
        BY <3>4 DEF IsTarget
      <4>2. <<k[1], i>> \in Keys /\ k[2] # Null /\ k = <<k[1], k[2]>>
        BY SentinelAssumption DEF Keys
      <4> QED
        BY <4>1, <4>2 DEF NoOpInv, FreshInv, RemapTargetsFresh
    <3>6. put[k] = Absent
      BY <3>1, <3>2, <3>5 DEF Latest
    <3> HIDE DEF put, gone
    <3>7. after[k] = Absent
      BY <2>2, <3>6, AfterDeleteRow
    <3>8. k \notin hit
      BY <3>6, <3>7
    <3> QED
      BY <1>3, <3>1, <3>2, <3>8
  <2>4. own' \subseteq Keys /\ own \subseteq own'
    BY <1>3 DEF NoOpInv, FreshInv, MergeInv, MergeTypeOK
  <2>5. VanishedStayAway'
    BY <1>3, <2>3, <2>4 DEF VanishedStayAway, Vanished
  <2>6. TargetsAreFree'
    BY <1>3, <2>4 DEF NoOpInv, TargetsAreFree, IsTarget
  <2>7. NewRowsAreTargets' /\ ToDoHasNoTarget' /\ SnapshotBelowSequence' /\ NothingWrittenYet'
    BY <1>1, <1>3 DEF NoOpInv, NewRowsAreTargets, ToDoHasNoTarget, SnapshotBelowSequence,
       NothingWrittenYet, IsTarget
  <2> QED
    BY <2>5, <2>6, <2>7 DEF NoOpInv
<1> QED
  BY <1>2, <1>3 DEF Replay, storeVars

(* Every step of a merge.                                                  *)
LEMMA MergeStepKeepsNoOp ==
    ASSUME NoOpInv, FreshInv', MergeStep
    PROVE  NoOpInv'
<1>1. CASE RejectViolations \/ RejectConflicts \/ DryRun
  <2>1. UNCHANGED <<pubSeq, phase, txVars>>
    BY <1>1 DEF RejectViolations, RejectConflicts, DryRun, storeVars
  <2> QED
    BY <2>1, OthersKeepNoOp
<1>2. CASE Start
  BY <1>2, StartKeepsNoOp
<1>3. ASSUME NEW k \in Keys, RemapRow(k) PROVE NoOpInv'
  BY <1>3, RemapKeepsNoOp
<1>4. CASE RemapDone
  <2>1. UNCHANGED <<tbase, todo, remap, own, tdelta>> /\ phase = "remap" /\ phase' = "fix"
    BY <1>4 DEF RemapDone
  <2> QED
    BY <2>1, RepairKeepsNoOp DEF NoOpInv, NothingWrittenYet
<1>5. ASSUME NEW f \in Tables \X Ids, FixReference(f) PROVE NoOpInv'
  <2>1. CASE EndWith("serialization failure")
    BY <2>1, EndKeepsNoOp DEF EndWith, Running
  <2>2. CASE ~EndWith("serialization failure")
    <3>1. UNCHANGED <<tbase, todo, remap, own, phase>> /\ phase = "fix"
      BY <1>5, <2>2 DEF FixReference
    <3>2. ASSUME NEW k \in Keys, tdelta'[k] # Absent
          PROVE  /\ tdelta[k] # Absent
                 /\ tdelta'[k].isNew = tdelta[k].isNew
                 /\ tdelta'[k].deleted = tdelta[k].deleted
      <4>1. tdelta[k] \in Deltas \cup {Absent}
        BY DEF NoOpInv, FreshInv, MergeInv, MergeTypeOK
      <4> DEFINE ref == remap[<<FK[f[1]].table, f[2]>>]
      <4>2. tdelta'[k] = tdelta[k] \/ (/\ tdelta[k] # Absent
                                       /\ tdelta'[k] = [tdelta[k] EXCEPT !.row.ref = ref])
        BY <1>5, <2>2 DEF FixReference
      <4> QED
        BY <3>2, <4>1, <4>2 DEF Deltas
    <3> QED
      BY <3>1, <3>2, RepairKeepsNoOp DEF NoOpInv, NothingWrittenYet
  <2> QED
    BY <2>1, <2>2
<1>6. CASE FixDone
  <2>1. UNCHANGED <<tbase, todo, remap, own, tdelta>> /\ phase = "fix" /\ phase' = "replay"
    BY <1>6 DEF FixDone, txVars
  <2> QED
    BY <2>1, RepairKeepsNoOp DEF NoOpInv, NothingWrittenYet
<1>7. ASSUME NEW t \in Tables, Replay(t) PROVE NoOpInv'
  BY <1>7, ReplayKeepsNoOp
<1>8. CASE Finish \/ Crash
  BY <1>8, EndKeepsNoOp DEF Finish, Crash, EndWith, Running
<1> QED
  BY <1>1, <1>2, <1>3, <1>4, <1>5, <1>6, <1>7, <1>8 DEF MergeStep

(* A statement of an application moves a sequence forward by one at most.  *)
LEMMA SequencesMoveForward ==
    ASSUME TypeOK, OnBranch \/ OnListener \/ OnBase
    PROVE  \A t \in Tables : pubSeq'[t] = pubSeq[t] \/ pubSeq'[t] = pubSeq[t] + 1
<1>1. pubSeq \in [Tables -> NextIds(ProdIds)]
  BY DEF TypeOK
<1>2. ASSUME NEW t \in Tables, NEW asked, NEW r, BranchInsert(t, asked, r)
      PROVE  \A u \in Tables : pubSeq'[u] = pubSeq[u] \/ pubSeq'[u] = pubSeq[u] + 1
  BY <1>1, <1>2 DEF BranchInsert
<1>3. ASSUME NEW t \in Tables, NEW r, BaseInsert(t, r)
      PROVE  \A u \in Tables : pubSeq'[u] = pubSeq[u] \/ pubSeq'[u] = pubSeq[u] + 1
  BY <1>1, <1>3 DEF BaseInsert
<1>4. CASE OnBranch
  BY <1>2, <1>4 DEF OnBranch, BranchStatement, BranchUpdate, BranchMove, BranchDelete
<1>5. CASE OnBase
  BY <1>3, <1>5 DEF OnBase, BaseStatement, BaseUpdate, BaseDelete
<1>6. CASE OnListener
  BY <1>6 DEF OnListener, ListenerStep, Upgrade, LoseNotification
<1> QED
  BY <1>4, <1>5, <1>6

(* NoOpInv is an invariant if the sequences start ahead of the rows.       *)
LEMMA NoOpInvariance ==
    ASSUME SequencesAhead
    PROVE  MergeSpec => []NoOpInv
<1> DEFINE Rest == /\ NewRowsAreTargets /\ ToDoHasNoTarget /\ SnapshotBelowSequence
                   /\ TargetsAreFree /\ VanishedStayAway /\ NothingWrittenYet
<1>1. MergeInit => Rest
  <2>1. MergeInit => \A k \in Keys : tdelta[k] = Absent /\ tbase[k] = Absent
    BY DEF MergeInit, EmptyRows
  <2> QED
    BY <2>1 DEF MergeInit, NewRowsAreTargets, ToDoHasNoTarget, SnapshotBelowSequence,
       TargetsAreFree, VanishedStayAway, NothingWrittenYet
<1>2. NoOpInv /\ FreshInv' /\ [MergeNext]_vars => NoOpInv'
  <2> SUFFICES ASSUME NoOpInv, FreshInv', [MergeNext]_vars PROVE NoOpInv'
    OBVIOUS
  <2>1. CASE MergeStep
    BY <2>1, MergeStepKeepsNoOp
  <2>2. CASE OnBranch \/ OnListener \/ OnBase
    <3>1. UNCHANGED <<phase, txVars>>
      BY <2>2 DEF OnBranch, OnListener, OnBase, mergeVars
    <3>2. TypeOK
      BY DEF NoOpInv, FreshInv, MergeInv, StoreInv
    <3> QED
      BY <2>2, <3>1, <3>2, SequencesMoveForward, OthersKeepNoOp
  <2>3. CASE UNCHANGED vars
    <3>1. UNCHANGED <<phase, txVars, pubSeq>>
      BY <2>3 DEF vars, storeVars, mergeVars
    <3> QED
      BY <3>1, OthersKeepNoOp
  <2> QED
    BY <2>1, <2>2, <2>3 DEF MergeNext
<1>3. FreshInv /\ Rest => NoOpInv
  BY DEF NoOpInv
<1> HIDE DEF Rest
<1> QED
  BY <1>1, <1>2, <1>3, FreshInvariance, PTL DEF MergeSpec

(* If production sequences start ahead of the rows, a row that was         *)
(* inserted and deleted in the branch does nothing to production: the id   *)
(* it gets for the replay is nobody's, and nobody takes it meanwhile.      *)
THEOREM VanishedRowsDoNothing ==
    ASSUME SequencesAhead
    PROVE  MergeSpec => InsertThenDeleteIsNoOp
<1>1. ASSUME NoOpInv, [MergeNext]_vars, Merges, NEW k \in Keys, Vanished(k)
      PROVE  base'[k] = base[k]
  <2>1. Finish
    BY <1>1, OnlyFinishMerges DEF Merges, vars, mergeVars
  <2>2. k \notin own
    BY <1>1 DEF NoOpInv, VanishedStayAway
  <2> QED
    BY <2>1, <2>2 DEF Finish, Latest
<1>2. NoOpInv /\ [MergeNext]_vars =>
        [Merges => \A k \in Keys : tdelta[k] # Absent /\ tdelta[k].isNew /\ tdelta[k].deleted =>
                     base'[k] = base[k]]_vars
  BY <1>1 DEF Vanished
<1> QED
  BY <1>2, NoOpInvariance, PTL DEF MergeSpec, InsertThenDeleteIsNoOp

-----------------------------------------------------------------------------
(* What a merge makes of production: the ids of delta rows.                *)

\* Nothing refers to a table whose own foreign key cascades.
ShallowCascades ==
    \A t \in Tables : FK[t].table # Null =>
        LET p == FK[t].table IN FK[p].table = Null \/ FK[p].rule # "CASCADE"

\* What EachTableOnce and ParentsFirst say of the order that sortTables computes.
OrderIsSorted ==
    \A i, j \in 1..Len(Order) : i < j => Order[i] # Order[j] /\ FK[Order[i]].table # Order[j]

\* Every id is one that a sequence has handed out.
IdsFromSequences == SequencesAhead /\ ExplicitIds = {}

\* A new row has a local id, and a production id comes from its sequence.
NewRowsAreLocal == \A k \in Keys : delta[k] # Absent /\ delta[k].isNew => k[2] \in LocalIds
BelowSequence(d) ==
    \A k \in Keys : d[k] # Absent /\ k[2] \in ProdIds => k[2] < pubSeq[k[1]]

IdsInv ==
    /\ NoOpInv
    /\ DrawnIds = LocalIds
    /\ NewRowsAreLocal
    /\ BelowSequence(delta)
    /\ BelowSequence(tdelta)

(* A statement on the branch writes an old row's delta row over, a         *)
(* production row's delta row that is not new, or a row under a local id.  *)
LEMMA BranchWrites ==
    ASSUME FreshInv, ExplicitIds = {}, phase # "merged", BranchStatement
    PROVE  \A k \in Keys :
             /\ delta[k] # Absent => delta'[k] # Absent /\ delta'[k].isNew = delta[k].isNew
             /\ delta[k] = Absent /\ delta'[k] # Absent =>
                  k[2] \in LocalIds \/ (base[k] # Absent /\ ~delta'[k].isNew)
<1> DEFINE P == \A k \in Keys :
             /\ delta[k] # Absent => delta'[k] # Absent /\ delta'[k].isNew = delta[k].isNew
             /\ delta[k] = Absent /\ delta'[k] # Absent =>
                  k[2] \in LocalIds \/ (base[k] # Absent /\ ~delta'[k].isNew)
<1>1. TypeOK /\ delta \in [Keys -> Deltas \cup {Absent}]
  BY DEF FreshInv, MergeInv, StoreInv, TypeOK
<1>2. ASSUME NEW k \in Keys, NEW r \in Rows, NEW path \in Paths,
             delta' = Upsert(delta, k, r, path),
             k[2] \in LocalIds \/ (path = "UPDATE" /\ Shown(k) # Absent)
      PROVE  P
  BY <1>1, <1>2, UpsertType, ShownWithoutDelta
<1>3. ASSUME NEW t \in Tables, NEW r \in Rows, BranchInsert(t, Null, r)
      PROVE  P
  <2>1. pubSeq[t] \in ProdIds
    BY <1>3 DEF BranchInsert
  <2>2. base[<<t, pubSeq[t]>>] = Absent
    <3> DEFINE k == <<t, pubSeq[t]>>
    <3>1. k \in Keys /\ k[1] = t /\ k[2] = pubSeq[t] /\ pubSeq[t] \in Nat
      BY <2>1, IdsAreNat DEF Keys, Ids
    <3>2. base[k] # Absent => k[2] < pubSeq[k[1]]
      BY <3>1 DEF FreshInv, RowsBelowSequence
    <3> QED
      BY <3>1, <3>2
  <2> DEFINE new == <<t, localSeq[t]>>
  <2>3. localSeq[t] \in LocalIds /\ delta' = Upsert(delta, new, r, "INSERT")
    BY <1>3, <2>2 DEF BranchInsert
  <2>4. new \in Keys /\ new[2] \in LocalIds
    BY <2>3 DEF Keys, Ids
  <2> HIDE DEF new
  <2> QED
    BY <1>2, <2>3, <2>4 DEF Paths
<1>4. ASSUME NEW k \in Keys, NEW r \in Rows, BranchUpdate(k, r)
      PROVE  P
  BY <1>2, <1>4 DEF BranchUpdate, Paths
<1>5. ASSUME NEW k \in Keys, BranchDelete(k)
      PROVE  P
  <2> DEFINE cut(c) == [Visible[c] EXCEPT !.ref = Null]
  <2>1. ASSUME NEW c \in Keys
        PROVE  \/ delta'[c] = delta[c]
               \/ /\ Shown(c) # Absent
                  /\ \/ delta'[c] = Tombstone(delta, c)
                     \/ delta'[c] = Upsert(delta, c, cut(c), "UPDATE")[c] /\ cut(c) \in Rows
    <3>1. c \in Doomed(Visible, {k}) => Shown(c) # Absent
      BY DEF Doomed, Present, Visible
    <3>2. c \in Orphaned(Visible, {k}) => Shown(c) # Absent
      BY DEF Orphaned, DoomedBy, Refers, Visible
    <3>3. Shown(c) # Absent => cut(c) \in Rows
      BY <1>1, ShownType DEF Visible, Rows, Refs
    <3> QED
      BY <1>5, <3>1, <3>2, <3>3 DEF BranchDelete
  <2> HIDE DEF cut
  <2>2. ASSUME NEW c \in Keys, Shown(c) # Absent, delta'[c] = Tombstone(delta, c)
        PROVE  /\ delta[c] # Absent => delta'[c] # Absent /\ delta'[c].isNew = delta[c].isNew
               /\ delta[c] = Absent => base[c] # Absent /\ ~delta'[c].isNew
    <3>1. CASE delta[c] = Absent
      BY <2>2, <3>1, ShownWithoutDelta DEF Tombstone
    <3>2. CASE delta[c] # Absent
      <4>1. delta[c] \in Deltas /\ delta'[c] = [delta[c] EXCEPT !.deleted = TRUE]
        BY <1>1, <2>2, <3>2 DEF Tombstone
      <4>2. delta'[c] \in Deltas /\ delta'[c].isNew = delta[c].isNew
        BY <4>1 DEF Deltas
      <4> QED
        BY <3>2, <4>2, StartAssumption
    <3> QED
      BY <3>1, <3>2
  <2>3. ASSUME NEW c \in Keys, Shown(c) # Absent, cut(c) \in Rows,
               delta'[c] = Upsert(delta, c, cut(c), "UPDATE")[c]
        PROVE  /\ delta[c] # Absent => delta'[c] # Absent /\ delta'[c].isNew = delta[c].isNew
               /\ delta[c] = Absent => base[c] # Absent /\ ~delta'[c].isNew
    <3>1. PICK e : e = Upsert(delta, c, cut(c), "UPDATE")
      OBVIOUS
    <3>2. /\ e[c] # Absent
          /\ delta[c] = Absent => ~e[c].isNew
          /\ delta[c] # Absent => e[c].isNew = delta[c].isNew
      BY <1>1, <2>3, <3>1, UpsertType DEF Paths
    <3> QED
      BY <2>3, <3>1, <3>2, ShownWithoutDelta
  <2> QED
    BY <2>1, <2>2, <2>3
<1> HIDE DEF P
<1>6. ASSUME NEW t \in Tables, NEW v \in Vals, NEW i \in KnownRefs(t)
      PROVE  [val |-> v, ref |-> i] \in Rows
  BY DEF KnownRefs, Rows, Refs
<1>7. ASSUME NEW k \in Keys, NEW v \in Vals, BranchUpdate(k, [Shown(k) EXCEPT !.val = v])
      PROVE  P
  <2>1. [Shown(k) EXCEPT !.val = v] \in Rows
    BY <1>1, <1>7, ShownType DEF BranchUpdate, Rows
  <2> QED
    BY <1>4, <1>7, <2>1
<1>8. ASSUME NEW k \in Keys, NEW i \in Refs, BranchUpdate(k, [Shown(k) EXCEPT !.ref = i])
      PROVE  P
  <2>1. [Shown(k) EXCEPT !.ref = i] \in Rows
    BY <1>1, <1>8, ShownType DEF BranchUpdate, Rows
  <2> QED
    BY <1>4, <1>8, <2>1
<1> QED
  <2>1. P
    BY <1>3, <1>5, <1>6, <1>7, <1>8 DEF BranchStatement
  <2> QED
    BY <2>1 DEF P

(* Sequences only move forward.                                            *)
LEMMA StaysBelow ==
    ASSUME NEW d, BelowSequence(d), FreshInv,
           \A t \in Tables : pubSeq'[t] = pubSeq[t] \/ pubSeq'[t] = pubSeq[t] + 1
    PROVE  \A k \in Keys : d[k] # Absent /\ k[2] \in ProdIds => k[2] < pubSeq'[k[1]]
<1> SUFFICES ASSUME NEW k \in Keys, d[k] # Absent, k[2] \in ProdIds
             PROVE  k[2] < pubSeq'[k[1]]
  OBVIOUS
<1>1. k[1] \in Tables /\ k[2] \in Nat /\ pubSeq[k[1]] \in Nat
  BY IdsAreNat DEF Keys, FreshInv, MergeInv, StoreInv, TypeOK
<1>2. k[2] < pubSeq[k[1]]
  BY DEF BelowSequence
<1>3. pubSeq'[k[1]] = pubSeq[k[1]] \/ pubSeq'[k[1]] = pubSeq[k[1]] + 1
  BY <1>1
<1> QED
  BY <1>1, <1>2, <1>3

(* A statement of an application.                                          *)
LEMMA OthersKeepIds ==
    ASSUME IdsInv, NoOpInv', ExplicitIds = {}, OnBranch \/ OnListener \/ OnBase
    PROVE  IdsInv'
<1>1. FreshInv /\ phase # "merged" /\ UNCHANGED tdelta
  BY DEF IdsInv, NoOpInv, OnBranch, OnListener, OnBase, mergeVars, txVars
<1>2. \A t \in Tables : pubSeq'[t] = pubSeq[t] \/ pubSeq'[t] = pubSeq[t] + 1
  BY <1>1, SequencesMoveForward DEF FreshInv, MergeInv, StoreInv
<1>3. BelowSequence(tdelta)'
  BY <1>1, <1>2, StaysBelow DEF IdsInv, BelowSequence
<1>4. CASE UNCHANGED delta
  <2>1. BelowSequence(delta)'
    BY <1>1, <1>2, <1>4, StaysBelow DEF IdsInv, BelowSequence
  <2> QED
    BY <1>3, <1>4, <2>1 DEF IdsInv, NewRowsAreLocal
<1>5. CASE OnBranch
  <2>1. \A k \in Keys :
          /\ delta[k] # Absent => delta'[k] # Absent /\ delta'[k].isNew = delta[k].isNew
          /\ delta[k] = Absent /\ delta'[k] # Absent =>
               k[2] \in LocalIds \/ (base[k] # Absent /\ ~delta'[k].isNew)
    BY <1>1, <1>5, BranchWrites DEF OnBranch
  <2>2. NewRowsAreLocal'
    BY <2>1 DEF IdsInv, NewRowsAreLocal
  <2>3. BelowSequence(delta)'
    <3> SUFFICES ASSUME NEW k \in Keys, delta'[k] # Absent, k[2] \in ProdIds
                 PROVE  k[2] < pubSeq'[k[1]]
      BY DEF BelowSequence
    <3>1. CASE delta[k] # Absent
      BY <1>1, <1>2, <3>1, StaysBelow DEF IdsInv
    <3>2. CASE delta[k] = Absent
      <4>1. base[k] # Absent
        BY <2>1, <3>2, DisjointIds
      <4>2. BelowSequence(base)
        BY <1>1 DEF FreshInv, RowsBelowSequence, BelowSequence
      <4> QED
        BY <1>1, <1>2, <4>1, <4>2, StaysBelow
    <3> QED
      BY <3>1, <3>2
  <2> QED
    BY <1>3, <2>2, <2>3 DEF IdsInv
<1>6. OnListener \/ OnBase => UNCHANGED delta
  BY DEF OnListener, OnBase, ListenerStep, Upgrade, LoseNotification, BaseStatement, BaseInsert,
     BaseUpdate, BaseDelete
<1> QED
  BY <1>4, <1>5, <1>6

(* A step of the merge writes no delta row of the branch, and puts a new   *)
(* row of its own under an id that it draws.                               *)
LEMMA MergeStepKeepsIds ==
    ASSUME IdsInv, NoOpInv', MergeStep
    PROVE  IdsInv'
<1>0. FreshInv
  BY DEF IdsInv, NoOpInv
<1>1. /\ pubSeq \in [Tables -> NextIds(ProdIds)]
      /\ tdelta \in [Keys -> Deltas \cup {Absent}]
  BY <1>0 DEF FreshInv, MergeInv, MergeTypeOK, StoreInv, TypeOK
<1>2. ASSUME \A k \in Keys : delta'[k] = delta[k] \/ delta'[k] = Absent,
             \A k \in Keys : tdelta'[k] # Absent => tdelta[k] # Absent \/ delta[k] # Absent,
             \A t \in Tables : pubSeq'[t] = pubSeq[t] \/ pubSeq'[t] = pubSeq[t] + 1
      PROVE  IdsInv'
  <2>1. NewRowsAreLocal'
    BY <1>2 DEF IdsInv, NewRowsAreLocal
  <2>2. \A k \in Keys : delta[k] # Absent /\ k[2] \in ProdIds => k[2] < pubSeq'[k[1]]
    BY <1>0, <1>2, StaysBelow DEF IdsInv
  <2>3. \A k \in Keys : tdelta[k] # Absent /\ k[2] \in ProdIds => k[2] < pubSeq'[k[1]]
    BY <1>0, <1>2, StaysBelow DEF IdsInv
  <2>4. BelowSequence(delta)' /\ BelowSequence(tdelta)'
    BY <1>2, <2>2, <2>3 DEF BelowSequence
  <2> QED
    BY <2>1, <2>4 DEF IdsInv
<1>3. ASSUME NEW k \in Keys, RemapRow(k) PROVE IdsInv'
  <2> DEFINE new == <<k[1], pubSeq[k[1]]>>
  <2>1. /\ k[1] \in Tables /\ pubSeq[k[1]] \in ProdIds
        /\ pubSeq' = [pubSeq EXCEPT ![k[1]] = @ + 1]
        /\ UNCHANGED delta
    BY <1>3 DEF RemapRow, Draw, Keys, EndWith
  <2>2. \A t \in Tables : pubSeq'[t] = pubSeq[t] \/ pubSeq'[t] = pubSeq[t] + 1
    BY <1>1, <2>1
  <2>3. CASE NoTransaction
    BY <1>2, <2>1, <2>2, <2>3 DEF NoTransaction, EmptyRows
  <2>4. CASE tdelta' = [tdelta EXCEPT ![k] = Absent, ![new] = tdelta[k]]
    <3>1. NewRowsAreLocal' /\ BelowSequence(delta)'
      BY <1>0, <2>1, <2>2, StaysBelow DEF IdsInv, NewRowsAreLocal, BelowSequence
    <3>2. \A j \in Keys : tdelta[j] # Absent /\ j[2] \in ProdIds => j[2] < pubSeq'[j[1]]
      BY <1>0, <2>2, StaysBelow DEF IdsInv
    <3>3. pubSeq[k[1]] \in Nat /\ pubSeq'[k[1]] = pubSeq[k[1]] + 1
      BY <1>1, <2>1, IdsAreNat
    <3>4. new[1] = k[1] /\ new[2] < pubSeq'[new[1]]
      BY <3>3
    <3> HIDE DEF new
    <3>5. \A j \in Keys : tdelta'[j] # Absent => j = new \/ tdelta[j] # Absent
      BY <1>1, <2>4
    <3>6. BelowSequence(tdelta)'
      BY <3>2, <3>4, <3>5 DEF BelowSequence
    <3> QED
      BY <3>1, <3>6 DEF IdsInv
  <2> QED
    BY <1>3, <2>3, <2>4 DEF RemapRow, EndWith
<1>4. ASSUME UNCHANGED <<delta, pubSeq, tdelta>> PROVE IdsInv'
  BY <1>2, <1>4
<1>5. ASSUME UNCHANGED <<delta, pubSeq>>, NoTransaction PROVE IdsInv'
  BY <1>2, <1>5 DEF NoTransaction, EmptyRows
<1>6. CASE RejectViolations \/ RejectConflicts \/ DryRun \/ RemapDone \/ FixDone
  BY <1>4, <1>6 DEF RejectViolations, RejectConflicts, DryRun, RemapDone, FixDone, storeVars, txVars
<1>7. CASE Start
  BY <1>2, <1>7 DEF Start, storeVars
<1>8. ASSUME NEW f \in Tables \X Ids, FixReference(f) PROVE IdsInv'
  <2>1. UNCHANGED <<delta, pubSeq>>
    BY <1>8 DEF FixReference, EndWith, storeVars
  <2>2. CASE EndWith("serialization failure")
    BY <1>5, <2>1, <2>2 DEF EndWith
  <2>3. CASE ~EndWith("serialization failure")
    <3>1. \A k \in Keys : tdelta'[k] # Absent => tdelta[k] # Absent
      BY <1>8, <2>3 DEF FixReference
    <3> QED
      BY <1>2, <2>1, <3>1
  <2> QED
    BY <2>2, <2>3
<1>9. ASSUME NEW t \in Tables, Replay(t) PROVE IdsInv'
  BY <1>4, <1>5, <1>9 DEF Replay, EndWith, storeVars
<1>10. CASE Finish
  BY <1>2, <1>10 DEF Finish, NoTransaction, EmptyRows
<1>11. CASE Crash
  BY <1>5, <1>11 DEF Crash, EndWith
<1> QED
  BY <1>3, <1>6, <1>7, <1>8, <1>9, <1>10, <1>11 DEF MergeStep

(* IdsInv is an invariant if every id comes from a sequence.               *)
LEMMA IdsInvariance ==
    ASSUME IdsFromSequences
    PROVE  MergeSpec => []IdsInv
<1> DEFINE Rest == NewRowsAreLocal /\ BelowSequence(delta) /\ BelowSequence(tdelta)
<1>1. MergeInit => Rest
  BY DEF MergeInit, Init, EmptyRows, NewRowsAreLocal, BelowSequence
<1>2. IdsInv /\ NoOpInv' /\ [MergeNext]_vars => IdsInv'
  <2> SUFFICES ASSUME IdsInv, NoOpInv', [MergeNext]_vars PROVE IdsInv'
    OBVIOUS
  <2>1. CASE MergeStep
    BY <2>1, MergeStepKeepsIds
  <2>2. CASE OnBranch \/ OnListener \/ OnBase
    BY <2>2, OthersKeepIds DEF IdsFromSequences
  <2>3. CASE UNCHANGED vars
    BY <2>3 DEF vars, storeVars, mergeVars, txVars, IdsInv, NewRowsAreLocal, BelowSequence
  <2> QED
    BY <2>1, <2>2, <2>3 DEF MergeNext
<1>3. NoOpInv /\ Rest => IdsInv
  BY AllAreDrawn DEF IdsInv, IdsFromSequences
<1>4. SequencesAhead
  BY DEF IdsFromSequences
<1> HIDE DEF Rest
<1> QED
  BY <1>1, <1>2, <1>3, <1>4, NoOpInvariance, PTL DEF MergeSpec

-----------------------------------------------------------------------------
(* What a merge makes of production: the moved delta rows.                 *)

\* Where the delta row of key k is in the transaction's delta tables.
NewKey(k) == IF remap[k] = Null THEN k ELSE <<k[1], remap[k]>>

\* What has become so far of a reference to id i in a row of table t.
NewRefSoFar(t, i) ==
    IF phase = "remap" \/ (phase = "fix" /\ <<t, i>> \in fixes) THEN i ELSE NewRef(t, i)

\* e is what has become so far of the delta row d of table t.
Moved(d, e, t) ==
    /\ e # Absent
    /\ e.deleted = d.deleted /\ e.isNew = d.isNew
    /\ e.row.val = d.row.val /\ e.row.ref = NewRefSoFar(t, d.row.ref)

OnlyNewRowsMove ==
    \A k \in Keys : remap[k] # Null \/ k \in todo =>
        /\ k[2] \in LocalIds
        /\ Running /\ foreign = {} => delta[k] # Absent /\ delta[k].isNew

\* As long as nobody writes the branch, the transaction's delta rows are those of
\* the branch, moved.
DeltaIsMoved ==
    Running /\ foreign = {} =>
        /\ \A k \in Keys : delta[k] # Absent => Moved(delta[k], tdelta[NewKey(k)], k[1])
        /\ \A j \in Keys : tdelta[j] # Absent =>
             \E k \in Keys : delta[k] # Absent /\ NewKey(k) = j

MoveInv == IdsInv /\ OnlyNewRowsMove /\ DeltaIsMoved

(* What a typed row has.                                                   *)
LEMMA DeltaFields ==
    ASSUME NEW d \in Deltas
    PROVE  /\ d # Absent /\ d.row \in Rows /\ d.row # Absent
           /\ d.row.ref \in Refs
           /\ d.deleted \in BOOLEAN /\ d.isNew \in BOOLEAN
BY StartAssumption, SentinelAssumption DEF Deltas, Rows

(* Steps that reach neither the transaction nor, without leaving a trace,  *)
(* the delta tables of the branch.                                         *)
LEMMA OthersKeepMove ==
    ASSUME MoveInv, IdsInv', UNCHANGED <<phase, tdelta, todo, remap, fixes>>,
           Running /\ foreign' = {} => foreign = {} /\ \A k \in Keys : delta'[k] = delta[k]
    PROVE  MoveInv'
<1>1. OnlyNewRowsMove'
  BY DEF MoveInv, OnlyNewRowsMove, Running
<1>2. DeltaIsMoved'
  <2> SUFFICES ASSUME Running, foreign' = {}
               PROVE  /\ \A k \in Keys : delta[k] # Absent =>
                            Moved(delta[k], tdelta[NewKey(k)], k[1])
                      /\ \A j \in Keys : tdelta[j] # Absent =>
                            \E k \in Keys : delta[k] # Absent /\ NewKey(k) = j
    BY DEF DeltaIsMoved, Running, Moved, NewKey, NewRefSoFar, NewRef
  <2> QED
    BY DEF MoveInv, DeltaIsMoved
<1> QED
  BY <1>1, <1>2 DEF MoveInv

(* The end of a transaction, committed or not.                             *)
LEMMA EndKeepsMove ==
    ASSUME IdsInv', NoTransaction, ~Running'
    PROVE  MoveInv'
<1>1. /\ todo' = {} /\ \A k \in Keys : remap'[k] = Null
  BY DEF NoTransaction
<1> QED
  BY <1>1 DEF MoveInv, OnlyNewRowsMove, DeltaIsMoved

(* The snapshot: nothing has moved.                                        *)
LEMMA StartKeepsMove ==
    ASSUME MoveInv, IdsInv', Start
    PROVE  MoveInv'
<1>1. /\ phase = "idle" /\ phase' = "remap"
      /\ tdelta' = delta /\ UNCHANGED <<delta, remap>>
      /\ todo' = {k \in Keys : delta[k] # Absent /\ delta[k].isNew}
  BY DEF Start, Attempt, storeVars
<1>2. \A k \in Keys : remap[k] = Null
  BY <1>1 DEF MoveInv, IdsInv, NoOpInv, FreshInv, RemapBelowSequence
<1>3. OnlyNewRowsMove'
  BY <1>1, <1>2 DEF MoveInv, IdsInv, NewRowsAreLocal, OnlyNewRowsMove
<1>4. DeltaIsMoved'
  BY <1>1, <1>2 DEF DeltaIsMoved, Moved, NewKey, NewRefSoFar
<1> QED
  BY <1>3, <1>4 DEF MoveInv

(* A renamed row moves to an id that no delta row has; no other row does.  *)
LEMMA RemapRowKeepsMove ==
    ASSUME MoveInv, IdsInv', NEW k \in Keys, RemapRow(k)
    PROVE  MoveInv'
<1> DEFINE new == <<k[1], pubSeq[k[1]]>>
<1>1. /\ phase = "remap" /\ k \in todo
      /\ k[1] \in Tables /\ pubSeq[k[1]] \in ProdIds
  BY DEF RemapRow, Draw, Keys
<1>2. new \in Keys /\ new[1] = k[1] /\ new[2] = pubSeq[k[1]]
  BY <1>1 DEF Keys, Ids
<1>3. CASE EndWith("serialization failure") \/ EndWith("remap failed")
  BY <1>3, EndKeepsMove DEF EndWith, Running
<1>4. CASE /\ ~(/\ new # k
                /\ tdelta[new] # Absent \/ (new \in foreign /\ delta[new] # Absent))
           /\ tdelta' = [tdelta EXCEPT ![k] = Absent, ![new] = tdelta[k]]
           /\ remap' = [remap EXCEPT ![k] = pubSeq[k[1]]]
           /\ todo' = todo \ {k}
           /\ UNCHANGED <<delta, phase, foreign>>
  <2>1. /\ tdelta \in [Keys -> Deltas \cup {Absent}]
        /\ remap \in [Keys -> ProdIds \cup {Null}]
    BY DEF MoveInv, IdsInv, NoOpInv, FreshInv, MergeInv, MergeTypeOK
  <2>2. remap[k] = Null /\ remap'[k] = new[2] /\ new[2] # Null
    BY <1>1, <1>2, <1>4, <2>1, SentinelAssumption
       DEF MoveInv, IdsInv, NoOpInv, ToDoHasNoTarget, Ids
  <2>3. \A j \in Keys : j # k => remap'[j] = remap[j]
    BY <1>4, <2>1
  <2>4. k[2] \in LocalIds /\ new # k
    <3>1. k[2] \in LocalIds
      BY <1>1 DEF MoveInv, OnlyNewRowsMove
    <3> QED
      BY <1>1, <1>2, <3>1, DisjointIds
  <2>5. tdelta[new] = Absent
    BY <1>4, <2>4
  <2>6. OnlyNewRowsMove'
    BY <1>1, <1>4, <2>3 DEF MoveInv, OnlyNewRowsMove, Running
  <2>7. k = <<k[1], k[2]>> /\ \A j \in Keys : j = <<j[1], j[2]>>
    BY DEF Keys
  <2>8. NewKey(k) = k /\ NewKey(k)' = new
    BY <1>2, <2>2 DEF NewKey
  <2>9. \A j \in Keys : j # k => NewKey(j)' = NewKey(j)
    BY <2>3 DEF NewKey
  <2> HIDE DEF new
  <2>10. \A j \in Keys :
           tdelta'[j] = IF j = new THEN tdelta[k] ELSE IF j = k THEN Absent ELSE tdelta[j]
    BY <1>2, <1>4, <2>1
  <2>11. ASSUME NEW j \in Keys, j # k
         PROVE  NewKey(j) # k /\ NewKey(j) \in Keys
    <3>1. CASE remap[j] = Null
      BY <2>11, <3>1 DEF NewKey
    <3>2. CASE remap[j] # Null
      <4>1. NewKey(j) = <<j[1], remap[j]>> /\ remap[j] \in ProdIds
        BY <2>1, <3>2 DEF NewKey
      <4> QED
        BY <2>4, <4>1, DisjointIds DEF Keys, Ids
    <3> QED
      BY <3>1, <3>2
  <2>12. DeltaIsMoved'
    <3> SUFFICES ASSUME foreign = {}
                 PROVE  /\ \A j \in Keys : delta[j] # Absent =>
                             Moved(delta[j], tdelta'[NewKey(j)'], j[1])
                        /\ \A j \in Keys : tdelta'[j] # Absent =>
                             \E i \in Keys : delta[i] # Absent /\ NewKey(i)' = j
      BY <1>1, <1>4 DEF DeltaIsMoved, Running, Moved, NewRefSoFar
    <3>1. /\ \A j \in Keys : delta[j] # Absent => Moved(delta[j], tdelta[NewKey(j)], j[1])
          /\ \A j \in Keys : tdelta[j] # Absent =>
               \E i \in Keys : delta[i] # Absent /\ NewKey(i) = j
      BY <1>1 DEF MoveInv, DeltaIsMoved, Running
    <3>2. ASSUME NEW j \in Keys, delta[j] # Absent
          PROVE  Moved(delta[j], tdelta'[NewKey(j)'], j[1])
      <4>1. CASE j = k
        BY <1>2, <2>8, <2>10, <3>1, <3>2, <4>1
      <4>2. CASE j # k
        <5>1. tdelta[NewKey(j)] # Absent
          BY <3>1, <3>2 DEF Moved
        <5>2. NewKey(j) \in Keys /\ NewKey(j) # k /\ NewKey(j) # new
          BY <2>5, <2>11, <4>2, <5>1
        <5>3. tdelta'[NewKey(j)] = tdelta[NewKey(j)]
          BY <2>10, <5>2
        <5> QED
          BY <2>9, <3>1, <3>2, <4>2, <5>3
      <4> QED
        BY <4>1, <4>2
    <3>3. ASSUME NEW j \in Keys, tdelta'[j] # Absent
          PROVE  \E i \in Keys : delta[i] # Absent /\ NewKey(i)' = j
      <4>1. CASE j = new
        <5>1. delta[k] # Absent
          BY <1>1 DEF MoveInv, OnlyNewRowsMove, Running
        <5> QED
          BY <2>8, <4>1, <5>1
      <4>2. CASE j # new
        <5>1. j # k /\ tdelta[j] # Absent
          BY <2>10, <3>3, <4>2
        <5>2. PICK i \in Keys : delta[i] # Absent /\ NewKey(i) = j
          BY <3>1, <5>1
        <5>3. i # k
          BY <2>8, <5>1, <5>2
        <5> QED
          BY <2>9, <5>2, <5>3
      <4> QED
        BY <4>1, <4>2
    <3> QED
      BY <3>2, <3>3
  <2> QED
    BY <2>6, <2>12 DEF MoveInv
<1> QED
  BY <1>3, <1>4 DEF RemapRow

(* A reference that needs no repair refers to a row that does not move.    *)
LEMMA RemapDoneKeepsMove ==
    ASSUME MoveInv, IdsInv', RemapDone
    PROVE  MoveInv'
<1>1. /\ phase = "remap" /\ phase' = "fix" /\ fixes' = Repairs
      /\ UNCHANGED <<delta, tdelta, todo, remap, foreign>>
  BY DEF RemapDone, storeVars
<1>2. OnlyNewRowsMove'
  BY <1>1 DEF MoveInv, OnlyNewRowsMove, Running
<1>3. ASSUME NEW t \in Tables, NEW i \in Refs
      PROVE  NewRefSoFar(t, i)' = i
  <2>1. CASE <<t, i>> \in Repairs
    BY <1>1, <2>1 DEF NewRefSoFar
  <2>2. CASE <<t, i>> \notin Repairs
    <3>1. ~(i # Null /\ FK[t].table # Null /\ remap[<<FK[t].table, i>>] # Null)
      BY <2>2 DEF Repairs, Refs
    <3>2. NewRef(t, i)' = i
      BY <1>1, <3>1 DEF NewRef
    <3> QED
      BY <1>1, <2>2, <3>2 DEF NewRefSoFar
  <2> QED
    BY <2>1, <2>2
<1>4. DeltaIsMoved'
  <2> SUFFICES ASSUME foreign = {}
               PROVE  /\ \A k \in Keys : delta[k] # Absent =>
                           Moved(delta[k], tdelta[NewKey(k)], k[1])'
                      /\ \A j \in Keys : tdelta[j] # Absent =>
                           \E k \in Keys : delta[k] # Absent /\ NewKey(k) = j
    BY <1>1 DEF DeltaIsMoved, Running, NewKey
  <2>1. /\ \A k \in Keys : delta[k] # Absent => Moved(delta[k], tdelta[NewKey(k)], k[1])
        /\ \A j \in Keys : tdelta[j] # Absent =>
             \E k \in Keys : delta[k] # Absent /\ NewKey(k) = j
    BY <1>1 DEF MoveInv, DeltaIsMoved, Running
  <2>2. ASSUME NEW k \in Keys, delta[k] # Absent
        PROVE  Moved(delta[k], tdelta[NewKey(k)], k[1])'
    <3>1. Moved(delta[k], tdelta[NewKey(k)], k[1])
      BY <2>1, <2>2
    <3>2. NewKey(k)' = NewKey(k) /\ delta' = delta /\ tdelta' = tdelta
      BY <1>1 DEF NewKey
    <3>3. k[1] \in Tables /\ delta[k].row.ref \in Refs
      BY <2>2, DeltaFields DEF Keys, MoveInv, IdsInv, NoOpInv, FreshInv, MergeInv, StoreInv, TypeOK
    <3>4. NewRefSoFar(k[1], delta[k].row.ref)' = delta[k].row.ref
      BY <1>3, <3>2, <3>3
    <3>5. NewRefSoFar(k[1], delta[k].row.ref) = delta[k].row.ref
      BY <1>1 DEF NewRefSoFar
    <3> QED
      BY <3>1, <3>2, <3>4, <3>5 DEF Moved
  <2> QED
    BY <2>1, <2>2
<1> QED
  BY <1>2, <1>4 DEF MoveInv

(* An UPDATE repairs the references to one old id, and no reference that   *)
(* was repaired before: those are production ids, and no row with a        *)
(* production id is renamed.                                               *)
LEMMA FixReferenceKeepsMove ==
    ASSUME MoveInv, IdsInv', NEW f \in Tables \X Ids, FixReference(f)
    PROVE  MoveInv'
<1> DEFINE hits == {k \in Keys : /\ k[1] = f[1]
                                 /\ tdelta[k] # Absent
                                 /\ tdelta[k].row.ref = f[2]}
           new  == remap[<<FK[f[1]].table, f[2]>>]
<1>1. phase = "fix" /\ f \in fixes
  BY DEF FixReference
<1>2. CASE EndWith("serialization failure")
  BY <1>2, EndKeepsMove DEF EndWith, Running
<1>3. CASE /\ tdelta' = [k \in Keys |-> IF k \in hits
                                        THEN [tdelta[k] EXCEPT !.row.ref = new]
                                        ELSE tdelta[k]]
           /\ fixes' = fixes \ {f}
           /\ UNCHANGED <<delta, phase, todo, remap, foreign>>
  <2>1. /\ tdelta \in [Keys -> Deltas \cup {Absent}]
        /\ delta \in [Keys -> Deltas \cup {Absent}]
        /\ remap \in [Keys -> ProdIds \cup {Null}]
    BY DEF MoveInv, IdsInv, NoOpInv, FreshInv, MergeInv, MergeTypeOK, StoreInv, TypeOK
  <2>2. /\ FK[f[1]].table # Null /\ new # Null
        /\ f[1] \in Tables /\ f[2] \in Ids /\ f = <<f[1], f[2]>>
    BY <1>1 DEF MoveInv, IdsInv, NoOpInv, FreshInv, MergeInv, FixesAreKnown
  <2>3. f[2] \in LocalIds /\ f[2] # Null /\ new \in ProdIds
    <3>1. <<FK[f[1]].table, f[2]>> \in Keys
      BY <2>2, FKAssumption DEF Keys
    <3> QED
      BY <2>1, <2>2, <3>1, SentinelAssumption DEF MoveInv, OnlyNewRowsMove, Ids
  <2>4. new \in Refs
    BY <2>3 DEF Refs, Ids
  <2>5. ASSUME NEW k \in Keys, tdelta[k] # Absent
        PROVE  /\ tdelta'[k] # Absent
               /\ tdelta'[k].deleted = tdelta[k].deleted /\ tdelta'[k].isNew = tdelta[k].isNew
               /\ tdelta'[k].row.val = tdelta[k].row.val
               /\ tdelta'[k].row.ref = IF k[1] = f[1] /\ tdelta[k].row.ref = f[2]
                                       THEN new ELSE tdelta[k].row.ref
    <3> HIDE DEF new
    <3>1. tdelta[k] \in Deltas
      BY <2>1, <2>5
    <3>2. CASE k \in hits
      <4>1. tdelta'[k] = [tdelta[k] EXCEPT !.row.ref = new]
        BY <1>3, <3>2
      <4>2. tdelta'[k] \in Deltas
        BY <2>4, <3>1, <4>1 DEF Deltas, Rows
      <4>3. /\ tdelta'[k].deleted = tdelta[k].deleted /\ tdelta'[k].isNew = tdelta[k].isNew
            /\ tdelta'[k].row.val = tdelta[k].row.val /\ tdelta'[k].row.ref = new
        BY <3>1, <4>1 DEF Deltas, Rows
      <4> QED
        BY <3>2, <4>2, <4>3, DeltaFields
    <3>3. CASE k \notin hits
      BY <1>3, <2>5, <3>3
    <3> QED
      BY <3>2, <3>3
  <2>6. OnlyNewRowsMove'
    BY <1>3 DEF MoveInv, OnlyNewRowsMove, Running
  <2>7. \A k \in Keys : NewKey(k)' = NewKey(k) /\ NewKey(k) \in Keys /\ NewKey(k)[1] = k[1]
    BY <1>3, <2>1 DEF NewKey, Keys, Ids
  <2>8. ASSUME NEW t \in Tables, NEW i \in Refs
        PROVE  NewRefSoFar(t, i)' = IF t = f[1] /\ NewRefSoFar(t, i) = f[2]
                                    THEN new ELSE NewRefSoFar(t, i)
    <3>1. NewRef(t, i)' = NewRef(t, i)
      BY <1>3 DEF NewRef
    <3>2. CASE t = f[1] /\ i = f[2]
      <4>1. NewRefSoFar(t, i) = f[2]
        BY <1>1, <2>2, <3>2 DEF NewRefSoFar
      <4>2. NewRefSoFar(t, i)' = NewRef(t, i)
        BY <1>1, <1>3, <2>2, <3>1, <3>2 DEF NewRefSoFar
      <4>3. NewRef(t, i) = new
        BY <2>2, <2>3, <3>2 DEF NewRef
      <4> QED
        BY <3>2, <4>1, <4>2, <4>3
    <3>3. CASE ~(t = f[1] /\ i = f[2])
      <4>1. <<t, i>> # f
        BY <3>3
      <4>2. NewRefSoFar(t, i)' = NewRefSoFar(t, i)
        BY <1>1, <1>3, <3>1, <4>1 DEF NewRefSoFar
      <4>3. t = f[1] => NewRefSoFar(t, i) # f[2]
        <5> SUFFICES ASSUME t = f[1], i # f[2] PROVE NewRefSoFar(t, i) # f[2]
          BY <3>3
        <5>1. NewRefSoFar(t, i) \in {i, NewRef(t, i)}
          BY DEF NewRefSoFar
        <5>2. NewRef(t, i) = i \/ NewRef(t, i) \in ProdIds
          <6>1. CASE i # Null /\ FK[t].table # Null /\ remap[<<FK[t].table, i>>] # Null
            <7>1. <<FK[t].table, i>> \in Keys
              BY <6>1, FKAssumption DEF Keys, Refs
            <7> QED
              BY <2>1, <6>1, <7>1 DEF NewRef
          <6>2. CASE ~(i # Null /\ FK[t].table # Null /\ remap[<<FK[t].table, i>>] # Null)
            BY <6>2 DEF NewRef
          <6> QED
            BY <6>1, <6>2
        <5> QED
          BY <2>3, <5>1, <5>2, DisjointIds
      <4> QED
        BY <4>2, <4>3
    <3> QED
      BY <3>2, <3>3
  <2>9. DeltaIsMoved'
    <3> SUFFICES ASSUME foreign = {}
                 PROVE  /\ \A k \in Keys : delta[k] # Absent =>
                             Moved(delta[k], tdelta[NewKey(k)], k[1])'
                        /\ \A j \in Keys : tdelta'[j] # Absent =>
                             \E k \in Keys : delta[k] # Absent /\ NewKey(k)' = j
      BY <1>1, <1>3 DEF DeltaIsMoved, Running
    <3>1. /\ \A k \in Keys : delta[k] # Absent => Moved(delta[k], tdelta[NewKey(k)], k[1])
          /\ \A j \in Keys : tdelta[j] # Absent =>
               \E k \in Keys : delta[k] # Absent /\ NewKey(k) = j
      BY <1>1 DEF MoveInv, DeltaIsMoved, Running
    <3>2. ASSUME NEW k \in Keys, delta[k] # Absent
          PROVE  Moved(delta[k], tdelta[NewKey(k)], k[1])'
      <4> DEFINE e == tdelta[NewKey(k)]
                 g == tdelta'[NewKey(k)]
      <4>1. Moved(delta[k], e, k[1])
        BY <3>1, <3>2
      <4>2. NewKey(k) \in Keys /\ NewKey(k)[1] = k[1] /\ NewKey(k)' = NewKey(k)
        BY <2>7
      <4>3. k[1] \in Tables /\ delta[k].row.ref \in Refs
        BY <2>1, <3>2, DeltaFields DEF Keys
      <4>4. /\ g # Absent
            /\ g.deleted = e.deleted /\ g.isNew = e.isNew /\ g.row.val = e.row.val
            /\ g.row.ref = IF k[1] = f[1] /\ e.row.ref = f[2] THEN new ELSE e.row.ref
        BY <2>5, <4>1, <4>2 DEF Moved
      <4>5. e.row.ref = NewRefSoFar(k[1], delta[k].row.ref)
        BY <4>1 DEF Moved
      <4>6. g.row.ref = NewRefSoFar(k[1], delta[k].row.ref)'
        BY <1>3, <2>8, <4>3, <4>4, <4>5
      <4> HIDE DEF new
      <4>7. delta' = delta /\ tdelta[NewKey(k)]' = g
        BY <1>3, <4>2
      <4> QED
        BY <4>1, <4>4, <4>6, <4>7 DEF Moved
    <3>3. \A j \in Keys : tdelta'[j] # Absent => tdelta[j] # Absent
      BY <1>3
    <3> QED
      BY <2>7, <3>1, <3>2, <3>3
  <2> QED
    BY <2>6, <2>9 DEF MoveInv
<1> QED
  BY <1>2, <1>3 DEF FixReference, storeVars

(* Every step of a merge.                                                  *)
LEMMA MergeStepKeepsMove ==
    ASSUME MoveInv, IdsInv', MergeStep
    PROVE  MoveInv'
<1>1. CASE RejectViolations \/ RejectConflicts \/ DryRun
  <2>1. UNCHANGED <<phase, tdelta, todo, remap, fixes, delta, foreign>>
    BY <1>1 DEF RejectViolations, RejectConflicts, DryRun, storeVars, txVars
  <2> QED
    BY <2>1, OthersKeepMove
<1>2. CASE Start
  BY <1>2, StartKeepsMove
<1>3. ASSUME NEW k \in Keys, RemapRow(k) PROVE MoveInv'
  BY <1>3, RemapRowKeepsMove
<1>4. CASE RemapDone
  BY <1>4, RemapDoneKeepsMove
<1>5. ASSUME NEW f \in Tables \X Ids, FixReference(f) PROVE MoveInv'
  BY <1>5, FixReferenceKeepsMove
<1>6. CASE FixDone
  <2>1. /\ phase = "fix" /\ phase' = "replay" /\ fixes = {}
        /\ UNCHANGED <<tdelta, todo, remap, fixes, delta, foreign>>
    BY <1>6 DEF FixDone, storeVars, txVars
  <2>2. OnlyNewRowsMove'
    BY <2>1 DEF MoveInv, OnlyNewRowsMove, Running
  <2>3. DeltaIsMoved'
    BY <2>1 DEF MoveInv, DeltaIsMoved, Running, Moved, NewKey, NewRefSoFar, NewRef
  <2> QED
    BY <2>2, <2>3 DEF MoveInv
<1>7. ASSUME NEW t \in Tables, Replay(t) PROVE MoveInv'
  <2>1. CASE EndWith("serialization failure") \/ EndWith("foreign key error")
    BY <2>1, EndKeepsMove DEF EndWith, Running
  <2>2. CASE UNCHANGED <<phase, tdelta, todo, remap, fixes, delta, foreign>>
    BY <2>2, OthersKeepMove
  <2> QED
    BY <1>7, <2>1, <2>2 DEF Replay, storeVars
<1>8. CASE Finish \/ Crash
  BY <1>8, EndKeepsMove DEF Finish, Crash, EndWith, Running
<1> QED
  BY <1>1, <1>2, <1>3, <1>4, <1>5, <1>6, <1>7, <1>8 DEF MergeStep

(* Until somebody writes the branch, the delta rows stay as they are.      *)
LEMMA QuietBranch ==
    ASSUME OnBranch \/ OnListener \/ OnBase, Running, foreign' = {}
    PROVE  foreign = {} /\ \A k \in Keys : delta'[k] = delta[k]
<1>1. CASE OnBranch
  <2> DEFINE touched == {k \in Keys : delta'[k] # delta[k]}
  <2>1. foreign' = foreign \cup touched
    BY <1>1 DEF OnBranch
  <2> QED
    BY <2>1
<1>2. CASE OnListener \/ OnBase
  BY <1>2 DEF OnListener, OnBase, ListenerStep, Upgrade, LoseNotification, BaseStatement,
     BaseInsert, BaseUpdate, BaseDelete, mergeVars
<1> QED
  BY <1>1, <1>2

(* MoveInv is an invariant if every id comes from a sequence.              *)
LEMMA MoveInvariance ==
    ASSUME IdsFromSequences
    PROVE  MergeSpec => []MoveInv
<1>1. MergeInit => OnlyNewRowsMove /\ DeltaIsMoved
  BY DEF MergeInit, OnlyNewRowsMove, DeltaIsMoved, Running
<1>2. MoveInv /\ IdsInv' /\ [MergeNext]_vars => MoveInv'
  <2> SUFFICES ASSUME MoveInv, IdsInv', [MergeNext]_vars PROVE MoveInv'
    OBVIOUS
  <2>1. CASE MergeStep
    BY <2>1, MergeStepKeepsMove
  <2>2. CASE OnBranch \/ OnListener \/ OnBase
    <3>1. UNCHANGED <<phase, tdelta, todo, remap, fixes>>
      BY <2>2 DEF OnBranch, OnListener, OnBase, mergeVars, txVars
    <3> QED
      BY <2>2, <3>1, QuietBranch, OthersKeepMove
  <2>3. CASE UNCHANGED vars
    <3>1. UNCHANGED <<phase, tdelta, todo, remap, fixes, delta, foreign>>
      BY <2>3 DEF vars, storeVars, mergeVars, txVars
    <3> QED
      BY <3>1, OthersKeepMove
  <2> QED
    BY <2>1, <2>2, <2>3 DEF MergeNext
<1>3. IdsInv /\ OnlyNewRowsMove /\ DeltaIsMoved => MoveInv
  BY DEF MoveInv
<1> QED
  BY <1>1, <1>2, <1>3, IdsInvariance, PTL DEF MergeSpec

-----------------------------------------------------------------------------
(* What a merge makes of production: the replay.                           *)

\* What the snapshot does not have has not appeared since.
NothingAppears ==
    Running => \A k \in Keys \ own : tdelta[k] # Absent /\ tbase[k] = Absent => base[k] = Absent

\* The tables before pos are as the delta tables say.
ReplayedTables == {Order[i] : i \in 1..pos - 1}
ReplayedRows ==
    /\ phase # "replay" => pos = 1
    /\ \A k \in Keys : k[1] \in ReplayedTables /\ tdelta[k] # Absent =>
         /\ tdelta[k].deleted => Latest[k] = Absent
         /\ ~tdelta[k].deleted => k \in own /\ tbase[k] = tdelta[k].row

\* A written row without a delta row refers to a production row that is deleted.
OnlyOrphansAreLost ==
    Running =>
        \A k \in own : tdelta[k] = Absent =>
            /\ base[k] # Absent
            /\ LET p == Parent(k[1], base[k])
               IN  p \in Keys /\ tdelta[p] # Absent /\ tdelta[p].deleted /\ ~tdelta[p].isNew

ReplayInv ==
    /\ IdsInv
    /\ NothingAppears
    /\ ReplayedRows
    /\ OnlyOrphansAreLost

(* No table refers to itself.                                              *)
LEMMA NotItsOwnParent == \A t \in Tables : FK[t].table # t
<1> SUFFICES ASSUME NEW t \in Tables, FK[t].table = t PROVE FALSE
  OBVIOUS
<1>1. PICK rank \in [Tables -> 0..Cardinality(Tables)] :
        \A c \in Tables : FK[c].table # Null => rank[FK[c].table] < rank[c]
  BY FKAssumption
<1>2. rank[t] < rank[t]
  BY <1>1, SentinelAssumption
<1>3. rank[t] \in Nat
  BY <1>1, FKAssumption, FS_CardinalityType
<1> QED
  BY <1>2, <1>3

(* Taken is the least set that has the roots and what follows its rows.    *)
LEMMA TakenIsLeast ==
    ASSUME NEW rows, NEW roots \in SUBSET Keys, NEW S,
           roots \subseteq S, Added(rows, S) \subseteq S
    PROVE  Taken(rows, roots) \subseteq S
<1>1. PICK f : Levels(rows, roots, f) /\ Taken(rows, roots) = f[Cardinality(Tables)]
  BY TakenLevels
<1>2. Cardinality(Tables) \in Nat
  BY FKAssumption, FS_CardinalityType
<1> SUFFICES ASSUME \E n \in Nat : ~(f[n] \subseteq S) PROVE FALSE
  BY <1>1, <1>2
<1> DEFINE T == {n \in Nat : ~(f[n] \subseteq S)}
<1>3. PICK n \in T : \A m \in T : n <= m
  BY LeastExists
<1>4. n # 0
  BY <1>1 DEF Levels
<1>5. n - 1 \in Nat /\ ~(n <= n - 1) /\ n = n - 1 + 1
  BY <1>4
<1>6. f[n - 1] \subseteq S
  BY <1>3, <1>5
<1>7. f[n] = f[n - 1] \cup Added(rows, f[n - 1])
  BY <1>1, <1>5, LevelStep
<1> QED
  BY <1>6, <1>7 DEF Added

(* If cascades are shallow a DELETE changes its roots and the rows that    *)
(* refer to them, and nothing else.                                        *)
LEMMA DeleteReaches ==
    ASSUME ShallowCascades, NEW rows \in [Keys -> Rows \cup {Absent}], NEW roots \in SUBSET Keys,
           NEW k \in Keys
    PROVE  /\ k \in roots => AfterDelete(rows, roots)[k] = Absent
           /\ AfterDelete(rows, roots)[k] # rows[k] =>
                k \in roots \/ (rows[k] # Absent /\ Parent(k[1], rows[k]) \in roots)
<1> DEFINE S == roots \cup Added(rows, roots)
<1>1. ASSUME NEW c \in Keys, rows[c] # Absent, Parent(c[1], rows[c]) \in S
      PROVE  Parent(c[1], rows[c]) \in roots
  <2> DEFINE p == Parent(c[1], rows[c])
  <2> SUFFICES ASSUME p \in Added(rows, roots) PROVE FALSE
    BY <1>1
  <2>1. p \in Keys /\ Parent(p[1], rows[p]) \in Keys
    BY DEF Added
  <2>2. p[1] \in Tables /\ p[1] = FK[c[1]].table /\ c[1] \in Tables
    BY <2>1 DEF Keys, Parent
  <2>3. FK[p[1]].table \in Tables /\ FK[p[1]].rule = "CASCADE"
    BY <2>1 DEF Keys, Parent, Added, Follows
  <2> QED
    BY <2>2, <2>3, SentinelAssumption DEF ShallowCascades
<1>2. Added(rows, S) \subseteq S
  BY <1>1 DEF Added, Follows
<1> HIDE DEF S
<1>3. Taken(rows, roots) \subseteq S /\ roots \subseteq Taken(rows, roots)
  <2>1. roots \subseteq S
    BY DEF S
  <2> QED
    BY <1>2, <2>1, TakenIsLeast, TakenIsClosed
<1>4. k \in Doomed(rows, roots) =>
       k \in roots \/ (rows[k] # Absent /\ Parent(k[1], rows[k]) \in roots)
  BY <1>3 DEF Doomed, S, Added, Follows
<1>5. k \in Orphaned(rows, roots) => rows[k] # Absent /\ Parent(k[1], rows[k]) \in roots
  BY <1>1, <1>3 DEF Orphaned, DoomedBy, Doomed, Refers
<1>6. k \in roots /\ rows[k] # Absent => k \in Doomed(rows, roots)
  BY <1>3 DEF Doomed, Present
<1>7. rows[k] = Absent => AfterDelete(rows, roots)[k] = Absent
  BY <1>4, <1>5 DEF AfterDelete, Doomed, Present, Orphaned, DoomedBy, Refers
<1> QED
  BY <1>4, <1>5, <1>6, <1>7 DEF AfterDelete

(* A production row appears under the id that its INSERT draws.            *)
LEMMA AppearsAtSequence ==
    ASSUME TypeOK, BaseStatement, NEW k \in Keys, base[k] = Absent, base'[k] # Absent
    PROVE  k[2] = pubSeq[k[1]] /\ pubSeq[k[1]] \in ProdIds
<1>1. base \in [Keys -> Rows \cup {Absent}]
  BY DEF TypeOK
<1>2. ASSUME NEW t \in Tables, NEW r, BaseInsert(t, r)
      PROVE  k[2] = pubSeq[k[1]] /\ pubSeq[k[1]] \in ProdIds
  <2> DEFINE new == <<t, pubSeq[t]>>
  <2>1. base' = base \/ base' = [base EXCEPT ![new] = r]
    BY <1>2 DEF BaseInsert
  <2>2. k = new
    BY <1>1, <2>1
  <2> QED
    BY <1>2, <2>2 DEF BaseInsert
<1>3. ASSUME NEW j \in Keys, NEW v, BaseUpdate(j, v)
      PROVE  FALSE
  BY <1>1, <1>3 DEF BaseUpdate
<1>4. ASSUME NEW j \in Keys, BaseDelete(j)
      PROVE  FALSE
  BY <1>1, <1>4, AfterDeleteRow DEF BaseDelete
<1> QED
  BY <1>2, <1>3, <1>4 DEF BaseStatement

(* A statement of an application changes no row that the merge has         *)
(* written, and adds none under an id that a delta row has.                *)
LEMMA OthersKeepReplay ==
    ASSUME ReplayInv, IdsInv', OnBranch \/ OnListener \/ OnBase
    PROVE  ReplayInv'
<1>1. UNCHANGED <<phase, tbase, tdelta, own, pos>>
  BY DEF OnBranch, OnListener, OnBase, mergeVars, txVars
<1>2. CASE UNCHANGED base
  BY <1>1, <1>2 DEF ReplayInv, NothingAppears, ReplayedRows, ReplayedTables, Latest,
     OnlyOrphansAreLost, Running
<1>3. CASE OnBase
  <2>1. TypeOK
    BY DEF ReplayInv, IdsInv, NoOpInv, FreshInv, MergeInv, StoreInv
  <2>2. own \subseteq Keys
    BY DEF ReplayInv, IdsInv, NoOpInv, FreshInv, MergeInv, MergeTypeOK
  <2>3. ASSUME Running, NEW k \in own PROVE base'[k] = base[k]
    BY <1>3, <2>2, <2>3 DEF OnBase
  <2>4. ASSUME NEW k \in Keys, tdelta[k] # Absent, base[k] = Absent
        PROVE  base'[k] = Absent
    <3> SUFFICES ASSUME base'[k] # Absent PROVE FALSE
      OBVIOUS
    <3>1. k[2] = pubSeq[k[1]] /\ k[2] \in ProdIds /\ k[2] \in Nat
      BY <1>3, <2>1, <2>4, AppearsAtSequence, IdsAreNat DEF OnBase, Ids
    <3>2. k[2] < pubSeq[k[1]]
      BY <2>4, <3>1 DEF ReplayInv, IdsInv, BelowSequence
    <3> QED
      BY <3>1, <3>2
  <2>5. NothingAppears'
    BY <1>1, <2>4 DEF ReplayInv, NothingAppears, Running
  <2>6. OnlyOrphansAreLost'
    BY <1>1, <2>3 DEF ReplayInv, OnlyOrphansAreLost, Running
  <2>7. ReplayedRows'
    <3>1. CASE phase # "replay"
      <4>1. pos = 1
        BY <3>1 DEF ReplayInv, ReplayedRows
      <4>2. ReplayedTables' = {}
        BY <1>1, <4>1 DEF ReplayedTables
      <4> QED
        BY <1>1, <4>1, <4>2 DEF ReplayedRows
    <3>2. CASE phase = "replay"
      <4> SUFFICES ASSUME NEW k \in Keys, k[1] \in ReplayedTables, tdelta[k] # Absent
                   PROVE  /\ tdelta[k].deleted => Latest'[k] = Absent
                          /\ ~tdelta[k].deleted => k \in own /\ tbase[k] = tdelta[k].row
        BY <1>1, <3>2 DEF ReplayedRows, ReplayedTables
      <4>1. /\ tdelta[k].deleted => Latest[k] = Absent
            /\ ~tdelta[k].deleted => k \in own /\ tbase[k] = tdelta[k].row
        BY DEF ReplayInv, ReplayedRows
      <4>2. Latest[k] = Absent => Latest'[k] = Absent
        BY <1>1, <2>4 DEF Latest
      <4> QED
        BY <4>1, <4>2
    <3> QED
      BY <3>1, <3>2
  <2> QED
    BY <2>5, <2>6, <2>7 DEF ReplayInv
<1>4. OnBranch \/ OnListener => UNCHANGED base
  BY DEF OnBranch, OnListener, BranchStatement, BranchInsert, BranchUpdate, BranchMove,
     BranchDelete, ListenerStep, Upgrade, LoseNotification
<1> QED
  BY <1>2, <1>3, <1>4

(* The end of a transaction, committed or not.                             *)
LEMMA EndKeepsReplay ==
    ASSUME IdsInv', NoTransaction, ~Running'
    PROVE  ReplayInv'
<1>1. pos' = 1
  BY DEF NoTransaction
<1>2. ReplayedTables' = {}
  BY <1>1 DEF ReplayedTables
<1> QED
  BY <1>1, <1>2 DEF ReplayInv, NothingAppears, ReplayedRows, OnlyOrphansAreLost

(* A step before the replay: it writes no production row, and what it      *)
(* writes into a delta table has no production row of that key.            *)
LEMMA PreparationKeepsReplay ==
    ASSUME ReplayInv, IdsInv', phase # "replay", UNCHANGED <<base, own, pos>>,
           \/ tbase' = base
           \/ /\ UNCHANGED tbase
              /\ Running' => Running
              /\ \A k \in Keys : tdelta'[k] # Absent => tdelta[k] # Absent \/ base[k] = Absent
    PROVE  ReplayInv'
<1>1. own = {} /\ pos = 1
  BY DEF ReplayInv, ReplayedRows, IdsInv, NoOpInv, NothingWrittenYet
<1>2. ReplayedTables' = {}
  BY <1>1 DEF ReplayedTables
<1>3. ReplayedRows' /\ OnlyOrphansAreLost'
  BY <1>1, <1>2 DEF ReplayedRows, OnlyOrphansAreLost
<1>4. NothingAppears'
  BY <1>1 DEF ReplayInv, NothingAppears
<1> QED
  BY <1>3, <1>4 DEF ReplayInv

(* The replay of a table makes its rows what the delta rows say, and its   *)
(* DELETE finds only rows of later tables, which refer to a deleted row.   *)
LEMMA ReplayKeepsReplay ==
    ASSUME ReplayInv, IdsInv', ShallowCascades, OrderIsSorted, NEW t \in Tables, Replay(t)
    PROVE  ReplayInv'
<1> DEFINE live == {k \in Keys : k[1] = t /\ IsLive(tdelta, k)}
           gone == {k \in Keys : /\ k[1] = t /\ tdelta[k] # Absent /\ tdelta[k].deleted
                                 /\ tbase[k] # Absent}
           put  == [k \in Keys |-> IF k \in live THEN tdelta[k].row ELSE Latest[k]]
           after == AfterDelete(put, gone)
           hit  == {k \in Keys : after[k] # put[k]}
<1>1. phase = "replay" /\ pos <= Len(Order) /\ t = Order[pos]
  BY DEF Replay
<1>2. CASE EndWith("serialization failure") \/ EndWith("foreign key error")
  BY <1>2, EndKeepsReplay DEF EndWith, Running
<1>3. CASE /\ own' = own \cup live \cup hit
           /\ tbase' = [k \in Keys |-> IF k \in own' THEN after[k] ELSE tbase[k]]
           /\ pos' = pos + 1
           /\ UNCHANGED <<base, tdelta, phase>>
  <2>1. /\ base \in [Keys -> Rows \cup {Absent}]
        /\ tbase \in [Keys -> Rows \cup {Absent}]
        /\ tdelta \in [Keys -> Deltas \cup {Absent}]
        /\ own \subseteq Keys
        /\ pos \in 1..Len(Order) /\ Len(Order) \in Nat
        /\ todo = {}
    BY <1>1, MergeAssumption DEF ReplayInv, IdsInv, NoOpInv, FreshInv, MergeInv, MergeTypeOK,
       StoreInv, TypeOK, LocalRowsAreToDo
  <2>2. put \in [Keys -> Rows \cup {Absent}]
    <3>1. Latest \in [Keys -> Rows \cup {Absent}]
      BY <2>1 DEF Latest
    <3>2. \A k \in live : tdelta[k].row \in Rows
      BY <2>1, DeltaFields DEF IsLive
    <3> QED
      BY <3>1, <3>2
  <2>3. gone \subseteq Keys /\ \A k \in gone : k \notin live
    BY DEF IsLive
  <2>4. \A k \in Keys : put[k] = IF k \in live THEN tdelta[k].row ELSE Latest[k]
    OBVIOUS
  <2>5. own' \subseteq Keys /\ own \subseteq own' /\ live \subseteq own' /\ hit \subseteq own'
    BY <1>3, <2>1
  <2>6. \A k \in own' : k \in own \/ k \in live \/ k \in hit
    BY <1>3
  <2>7. \A k \in Keys : k \in hit <=> after[k] # put[k]
    OBVIOUS
  <2>8. \A k \in Keys : tbase'[k] = IF k \in own' THEN after[k] ELSE tbase[k]
    BY <1>3
  <2> HIDE DEF put
  <2>9. ASSUME NEW k \in Keys
        PROVE  /\ k \in gone => after[k] = Absent
               /\ after[k] # put[k] =>
                    k \in gone \/ (put[k] # Absent /\ Parent(k[1], put[k]) \in gone)
    BY <2>2, <2>3, DeleteReaches
  <2>10. ASSUME NEW k \in Keys, Parent(k[1], put[k]) \in gone
         PROVE  FK[k[1]].table = t
    BY <2>10 DEF Parent
  <2> HIDE DEF after, hit
  <2>11. \A k \in Keys : Latest'[k] = after[k]
    <3> SUFFICES ASSUME NEW k \in Keys PROVE Latest'[k] = after[k]
      OBVIOUS
    <3>1. CASE k \in own'
      BY <2>8, <3>1 DEF Latest
    <3>2. CASE k \notin own'
      BY <1>3, <2>4, <2>5, <2>7, <3>2 DEF Latest
    <3> QED
      BY <3>1, <3>2
  <2>12. NothingAppears'
    BY <1>1, <1>3, <2>5, <2>8 DEF ReplayInv, NothingAppears, Running
  <2>13. OnlyOrphansAreLost'
    <3> SUFFICES ASSUME NEW k \in own', tdelta[k] = Absent
                 PROVE  /\ base[k] # Absent
                        /\ LET p == Parent(k[1], base[k])
                           IN  /\ p \in Keys /\ tdelta[p] # Absent
                               /\ tdelta[p].deleted /\ ~tdelta[p].isNew
      BY <1>1, <1>3 DEF OnlyOrphansAreLost, Running
    <3>1. CASE k \in own
      BY <1>1, <3>1 DEF ReplayInv, OnlyOrphansAreLost, Running
    <3>2. CASE k \notin own
      <4>1. k \in Keys /\ k \notin live /\ k \in hit /\ k \notin gone
        BY <2>5, <2>6, <3>2 DEF IsLive
      <4>2. put[k] = base[k]
        BY <2>4, <3>2, <4>1 DEF Latest
      <4>3. base[k] # Absent /\ Parent(k[1], base[k]) \in gone
        BY <2>7, <2>9, <4>1, <4>2
      <4> DEFINE p == Parent(k[1], base[k])
      <4>4. p \in Keys /\ tdelta[p] # Absent /\ tdelta[p].deleted /\ tbase[p] # Absent
        BY <4>3
      <4> HIDE DEF p
      <4>5. ASSUME tdelta[p].isNew PROVE FALSE
        <5>1. Vanished(p)
          BY <4>4, <4>5 DEF Vanished
        <5>2. p \notin own
          BY <5>1 DEF ReplayInv, IdsInv, NoOpInv, VanishedStayAway
        <5>3. IsTarget(p)
          BY <2>1, <4>4, <4>5 DEF ReplayInv, IdsInv, NoOpInv, NewRowsAreTargets
        <5> QED
          BY <4>4, <5>2, <5>3 DEF ReplayInv, IdsInv, NoOpInv, TargetsAreFree
      <4> QED
        BY <4>3, <4>4, <4>5 DEF p
    <3> QED
      BY <3>1, <3>2
  <2>14. ReplayedRows'
    <3> SUFFICES ASSUME NEW k \in Keys, k[1] \in ReplayedTables', tdelta[k] # Absent
                 PROVE  /\ tdelta[k].deleted => after[k] = Absent
                        /\ ~tdelta[k].deleted => k \in own' /\ after[k] = tdelta[k].row
      BY <1>1, <1>3, <2>8, <2>11 DEF ReplayedRows
    <3>1. PICK i \in 1..pos : k[1] = Order[i]
      BY <1>3, <2>1 DEF ReplayedTables
    <3>2. i \in 1..Len(Order)
      BY <2>1
    <3>3. CASE i = pos
      <4>1. k[1] = t
        BY <1>1, <3>1, <3>3
      <4>2. FK[t].table # t
        BY NotItsOwnParent
      <4>3. CASE tdelta[k].deleted
        <5>1. CASE k \in gone
          BY <2>9, <4>3, <5>1
        <5>2. CASE k \notin gone
          <6>1. tbase[k] = Absent
            BY <4>1, <4>3, <5>2
          <6>2. Latest[k] = Absent
            BY <1>1, <6>1 DEF ReplayInv, NothingAppears, Running, Latest
          <6>3. put[k] = Absent
            BY <2>4, <4>3, <6>2 DEF IsLive
          <6> QED
            BY <2>9, <4>3, <5>2, <6>3
        <5> QED
          BY <5>1, <5>2
      <4>4. CASE ~tdelta[k].deleted
        <5>1. k \in live /\ k \notin gone
          BY <4>1, <4>4 DEF IsLive
        <5>2. after[k] = put[k]
          BY <2>9, <2>10, <4>1, <4>2, <5>1
        <5> QED
          BY <2>4, <2>5, <4>4, <5>1, <5>2
      <4> QED
        BY <4>3, <4>4
    <3>4. CASE i # pos
      <4>1. i < pos /\ i \in 1..pos - 1
        BY <2>1, <3>4
      <4>2. k[1] # t /\ FK[k[1]].table # t
        BY <1>1, <2>1, <3>1, <3>2, <4>1 DEF OrderIsSorted
      <4>3. k \notin live /\ k \notin gone
        BY <4>2
      <4>4. after[k] = put[k] /\ put[k] = Latest[k]
        BY <2>4, <2>9, <2>10, <4>2, <4>3
      <4>5. k[1] \in ReplayedTables
        BY <3>1, <4>1 DEF ReplayedTables
      <4>6. /\ tdelta[k].deleted => Latest[k] = Absent
            /\ ~tdelta[k].deleted => k \in own /\ tbase[k] = tdelta[k].row
        BY <4>5 DEF ReplayInv, ReplayedRows
      <4>7. k \in own => Latest[k] = tbase[k]
        BY DEF Latest
      <4> QED
        BY <2>5, <4>4, <4>6, <4>7
    <3> QED
      BY <3>3, <3>4
  <2> QED
    BY <2>12, <2>13, <2>14 DEF ReplayInv
<1> QED
  BY <1>2, <1>3 DEF Replay, storeVars

(* Every step of a merge.                                                  *)
LEMMA MergeStepKeepsReplay ==
    ASSUME ReplayInv, IdsInv', ShallowCascades, OrderIsSorted, MergeStep
    PROVE  ReplayInv'
<1>0. FreshInv
  BY DEF ReplayInv, IdsInv, NoOpInv
<1>1. CASE RejectViolations \/ RejectConflicts \/ DryRun
  <2>1. UNCHANGED <<base, own, pos, tbase, tdelta, phase>> /\ phase = "idle"
    BY <1>1 DEF RejectViolations, RejectConflicts, DryRun, Attempt, storeVars, txVars
  <2> QED
    BY <2>1, PreparationKeepsReplay DEF Running
<1>2. CASE Start
  <2>1. UNCHANGED <<base, own, pos>> /\ tbase' = base /\ phase = "idle"
    BY <1>2 DEF Start, Attempt, storeVars
  <2> QED
    BY <2>1, PreparationKeepsReplay
<1>3. ASSUME NEW k \in Keys, RemapRow(k) PROVE ReplayInv'
  <2> DEFINE new == <<k[1], pubSeq[k[1]]>>
  <2>1. phase = "remap" /\ k[1] \in Tables /\ pubSeq[k[1]] \in ProdIds
    BY <1>3 DEF RemapRow, Draw, Keys
  <2>2. new \in Keys /\ new[1] = k[1] /\ new[2] = pubSeq[k[1]] /\ pubSeq[k[1]] \in Nat
    BY <2>1, IdsAreNat DEF Keys, Ids
  <2>3. base[new] = Absent
    <3>1. base[new] # Absent => new[2] < pubSeq[new[1]]
      BY <1>0, <2>1, <2>2 DEF FreshInv, RowsBelowSequence
    <3> QED
      BY <2>2, <3>1
  <2>4. CASE EndWith("serialization failure") \/ EndWith("remap failed")
    BY <2>4, EndKeepsReplay DEF EndWith, Running
  <2>5. CASE /\ tdelta' = [tdelta EXCEPT ![k] = Absent, ![new] = tdelta[k]]
             /\ UNCHANGED <<base, phase, own, pos, tbase>>
    <3>1. tdelta \in [Keys -> Deltas \cup {Absent}]
      BY <1>0 DEF FreshInv, MergeInv, MergeTypeOK
    <3> HIDE DEF new
    <3>2. \A j \in Keys : tdelta'[j] # Absent => j = new \/ tdelta[j] # Absent
      BY <2>2, <2>5, <3>1
    <3> QED
      BY <2>1, <2>3, <2>5, <3>2, PreparationKeepsReplay DEF Running
  <2> QED
    BY <1>3, <2>4, <2>5 DEF RemapRow
<1>4. CASE RemapDone \/ FixDone
  <2>1. UNCHANGED <<base, own, pos, tbase, tdelta>> /\ phase \in {"remap", "fix"}
    BY <1>4 DEF RemapDone, FixDone, storeVars, txVars
  <2> QED
    BY <2>1, PreparationKeepsReplay DEF Running
<1>5. ASSUME NEW f \in Tables \X Ids, FixReference(f) PROVE ReplayInv'
  <2>1. CASE EndWith("serialization failure")
    BY <2>1, EndKeepsReplay DEF EndWith, Running
  <2>2. CASE ~EndWith("serialization failure")
    <3>1. UNCHANGED <<base, own, pos, tbase, phase>> /\ phase = "fix"
      BY <1>5, <2>2 DEF FixReference, storeVars
    <3>2. \A k \in Keys : tdelta'[k] # Absent => tdelta[k] # Absent
      BY <1>5, <2>2 DEF FixReference
    <3> QED
      BY <3>1, <3>2, PreparationKeepsReplay DEF Running
  <2> QED
    BY <2>1, <2>2
<1>6. ASSUME NEW t \in Tables, Replay(t) PROVE ReplayInv'
  BY <1>6, ReplayKeepsReplay
<1>7. CASE Finish \/ Crash
  BY <1>7, EndKeepsReplay DEF Finish, Crash, EndWith, Running
<1> QED
  BY <1>1, <1>2, <1>3, <1>4, <1>5, <1>6, <1>7 DEF MergeStep

(* ReplayInv is an invariant if cascades are shallow.                      *)
LEMMA ReplayInvariance ==
    ASSUME IdsFromSequences, ShallowCascades, OrderIsSorted
    PROVE  MergeSpec => []ReplayInv
<1> DEFINE Rest == NothingAppears /\ ReplayedRows /\ OnlyOrphansAreLost
<1>1. MergeInit => Rest
  <2>1. MergeInit => phase = "idle" /\ pos = 1 /\ ReplayedTables = {}
    BY DEF MergeInit, ReplayedTables
  <2> QED
    BY <2>1 DEF NothingAppears, ReplayedRows, OnlyOrphansAreLost, Running
<1>2. ReplayInv /\ IdsInv' /\ [MergeNext]_vars => ReplayInv'
  <2> SUFFICES ASSUME ReplayInv, IdsInv', [MergeNext]_vars PROVE ReplayInv'
    OBVIOUS
  <2>1. CASE MergeStep
    BY <2>1, MergeStepKeepsReplay
  <2>2. CASE OnBranch \/ OnListener \/ OnBase
    BY <2>2, OthersKeepReplay
  <2>3. CASE UNCHANGED vars
    BY <2>3 DEF vars, storeVars, mergeVars, txVars, ReplayInv, NothingAppears, ReplayedRows,
       ReplayedTables, Latest, OnlyOrphansAreLost, Running
  <2> QED
    BY <2>1, <2>2, <2>3 DEF MergeNext
<1>3. IdsInv /\ Rest => ReplayInv
  BY DEF ReplayInv
<1> HIDE DEF Rest
<1> QED
  BY <1>1, <1>2, <1>3, IdsInvariance, PTL DEF MergeSpec

-----------------------------------------------------------------------------
(* What a merge makes of production: the commit.                           *)

(* A row with its reference renamed.                                       *)
LEMMA RenamedRow ==
    ASSUME NEW t, NEW r \in Rows, NEW s \in Rows, s.val = r.val, s.ref = NewRef(t, r.ref)
    PROVE  NewRow(t, r) = s
<1>1. r # Absent
  BY SentinelAssumption
<1>2. NewRow(t, r) = [r EXCEPT !.ref = NewRef(t, r.ref)]
  BY <1>1 DEF NewRow
<1> QED
  BY <1>2 DEF Rows

(* Where the branch has a delta row, or the row that it renames, the       *)
(* transaction leaves what the branch shows.                               *)
LEMMA ReplayedRowIsRenamed ==
    ASSUME MoveInv, ReplayInv, phase = "replay", foreign = {}, ReplayedTables = Tables,
           NEW q \in Keys, NEW k \in Keys, delta[q] # Absent, NewKey(q) = k, q[1] = k[1]
    PROVE  Latest[k] = NewRow(k[1], Overlay(base, delta)[q])
<1>1. /\ delta \in [Keys -> Deltas \cup {Absent}]
      /\ tdelta \in [Keys -> Deltas \cup {Absent}]
  BY DEF MoveInv, IdsInv, NoOpInv, FreshInv, MergeInv, MergeTypeOK, StoreInv, TypeOK
<1>2. Moved(delta[q], tdelta[k], k[1])
  BY DEF MoveInv, DeltaIsMoved, Running
<1>3. /\ tdelta[k] # Absent /\ tdelta[k].deleted = delta[q].deleted
      /\ tdelta[k].row.val = delta[q].row.val
      /\ tdelta[k].row.ref = NewRef(k[1], delta[q].row.ref)
  BY <1>2 DEF Moved, NewRefSoFar
<1>4. delta[q].row \in Rows /\ tdelta[k].row \in Rows
  BY <1>1, <1>3, DeltaFields
<1>5. k[1] \in ReplayedTables
  BY DEF Keys
<1>6. /\ tdelta[k].deleted => Latest[k] = Absent
      /\ ~tdelta[k].deleted => k \in own /\ tbase[k] = tdelta[k].row
  BY <1>3, <1>5 DEF ReplayInv, ReplayedRows
<1>7. Overlay(base, delta)[q] = IF delta[q].deleted THEN Absent ELSE delta[q].row
  BY DEF Overlay, OverlayRow
<1>8. CASE delta[q].deleted
  BY <1>3, <1>6, <1>7, <1>8 DEF NewRow
<1>9. CASE ~delta[q].deleted
  <2>1. Latest[k] = tdelta[k].row
    BY <1>3, <1>6, <1>9 DEF Latest
  <2> QED
    BY <1>3, <1>4, <1>7, <1>9, <2>1, RenamedRow
<1> QED
  BY <1>8, <1>9

(* Where the transaction has no delta row it leaves production alone: a    *)
(* referential action on such a row would have left a dangling reference   *)
(* in the branch.                                                          *)
LEMMA OtherRowsStay ==
    ASSUME MoveInv, ReplayInv, phase = "replay", foreign = {},
           Closed(Overlay(base, delta)), NEW k \in Keys, tdelta[k] = Absent
    PROVE  Latest[k] = base[k]
<1> SUFFICES ASSUME k \in own PROVE FALSE
  BY DEF Latest
<1> DEFINE p == Parent(k[1], base[k])
<1>1. /\ base[k] # Absent /\ p \in Keys
      /\ tdelta[p] # Absent /\ tdelta[p].deleted /\ ~tdelta[p].isNew
  BY DEF ReplayInv, OnlyOrphansAreLost, Running
<1>2. base[k].ref # Null
  BY <1>1, SentinelAssumption DEF Parent, Keys
<1> HIDE DEF p
<1>3. PICK q \in Keys : delta[q] # Absent /\ NewKey(q) = p
  BY <1>1 DEF MoveInv, DeltaIsMoved, Running
<1>4. delta[q].deleted = tdelta[p].deleted /\ delta[q].isNew = tdelta[p].isNew
  BY <1>3 DEF MoveInv, DeltaIsMoved, Running, Moved
<1>5. remap[q] = Null
  BY <1>1, <1>4 DEF MoveInv, OnlyNewRowsMove, Running
<1>6. delta[p] # Absent /\ delta[p].deleted
  BY <1>1, <1>3, <1>4, <1>5 DEF NewKey
<1>7. Overlay(base, delta)[p] = Absent
  BY <1>1, <1>6 DEF Overlay, OverlayRow
<1>8. CASE delta[k] = Absent
  <2>1. Overlay(base, delta)[k] = base[k]
    BY <1>8 DEF Overlay, OverlayRow
  <2>2. p \in Present(Overlay(base, delta))
    BY <1>1, <1>2, <2>1 DEF Closed, Present, p
  <2> QED
    BY <1>7, <2>2 DEF Present
<1>9. CASE delta[k] # Absent
  <2>1. tdelta[NewKey(k)] # Absent
    BY <1>9 DEF MoveInv, DeltaIsMoved, Running, Moved
  <2>2. remap[k] # Null
    BY <2>1 DEF NewKey
  <2>3. k[2] \in LocalIds
    BY <2>2 DEF MoveInv, OnlyNewRowsMove
  <2>4. Clean(base) /\ DrawnIds = LocalIds
    BY StoreIsClean DEF MoveInv, IdsInv, NoOpInv, FreshInv, MergeInv
  <2> QED
    BY <1>1, <2>3, <2>4 DEF Clean
<1> QED
  BY <1>8, <1>9

(* What the commit makes visible is what the branch showed, renamed.       *)
LEMMA LatestIsRenamed ==
    ASSUME MoveInv, ReplayInv, phase = "replay", pos > Len(Order), foreign = {},
           Closed(Overlay(base, delta))
    PROVE  Latest = Renamed(Overlay(base, delta))
<1>1. ReplayedTables = Tables
  <2>1. pos = Len(Order) + 1 /\ Len(Order) \in Nat
    BY MergeAssumption DEF MoveInv, IdsInv, NoOpInv, FreshInv, MergeInv, MergeTypeOK
  <2>2. ReplayedTables = {Order[i] : i \in 1..Len(Order)}
    BY <2>1 DEF ReplayedTables
  <2> QED
    BY <2>2, MergeAssumption
<1>2. /\ Clean(base) /\ DrawnIds = LocalIds
      /\ base \in [Keys -> Rows \cup {Absent}]
      /\ todo = {} /\ LocalRowsAreToDo
  BY StoreIsClean DEF MoveInv, IdsInv, NoOpInv, FreshInv, MergeInv, StoreInv, TypeOK,
     LocalRowsAreToDo
<1> SUFFICES ASSUME NEW k \in Keys
             PROVE  Latest[k] = Renamed(Overlay(base, delta))[k]
  BY DEF Latest, Renamed
<1>3. k[1] \in Tables /\ k[2] \in Ids /\ k[2] # Null /\ k = <<k[1], k[2]>>
  BY SentinelAssumption DEF Keys
<1>4. CASE IsTarget(k)
  <2> DEFINE i == CHOOSE i \in Ids : remap[<<k[1], i>>] = k[2]
             q == <<k[1], i>>
  <2>1. i \in Ids /\ remap[q] = k[2]
    BY <1>4 DEF IsTarget
  <2>2. Renamed(Overlay(base, delta))[k] = NewRow(k[1], Overlay(base, delta)[q])
    BY <1>4 DEF IsTarget, Renamed
  <2> HIDE DEF i
  <2>3. q \in Keys /\ q[1] = k[1]
    BY <1>3, <2>1 DEF Keys
  <2> HIDE DEF q
  <2>4. delta[q] # Absent
    BY <1>3, <2>1, <2>3 DEF MoveInv, OnlyNewRowsMove, Running
  <2>5. NewKey(q) = k
    BY <1>3, <2>1, <2>3 DEF NewKey
  <2> QED
    BY <1>1, <2>2, <2>3, <2>4, <2>5, ReplayedRowIsRenamed
<1>5. CASE ~IsTarget(k) /\ remap[k] # Null
  <2>1. Renamed(Overlay(base, delta))[k] = Absent
    BY <1>5 DEF IsTarget, Renamed
  <2>2. k[2] \in LocalIds
    BY <1>5 DEF MoveInv, OnlyNewRowsMove
  <2>3. base[k] = Absent /\ tdelta[k] = Absent
    BY <1>2, <2>2 DEF Clean, LocalRowsAreToDo
  <2> QED
    BY <2>1, <2>3, OtherRowsStay
<1>6. CASE ~IsTarget(k) /\ remap[k] = Null
  <2>1. Renamed(Overlay(base, delta))[k] = NewRow(k[1], Overlay(base, delta)[k])
    BY <1>6 DEF IsTarget, Renamed
  <2>2. CASE delta[k] # Absent
    BY <1>1, <1>6, <2>1, <2>2, ReplayedRowIsRenamed DEF NewKey
  <2>3. CASE delta[k] = Absent
    <3>1. tdelta[k] = Absent
      <4> SUFFICES ASSUME tdelta[k] # Absent PROVE FALSE
        OBVIOUS
      <4>1. PICK q \in Keys : delta[q] # Absent /\ NewKey(q) = k
        BY DEF MoveInv, DeltaIsMoved, Running
      <4>2. remap[q] # Null
        BY <2>3, <4>1 DEF NewKey
      <4>3. k[1] = q[1] /\ k[2] = remap[q] /\ q[2] \in Ids /\ q = <<q[1], q[2]>>
        BY <4>1, <4>2 DEF NewKey, Keys
      <4> QED
        BY <1>6, <4>3 DEF IsTarget
    <3>2. Latest[k] = base[k]
      BY <3>1, OtherRowsStay
    <3>3. Overlay(base, delta)[k] = base[k]
      BY <2>3 DEF Overlay, OverlayRow
    <3>4. CASE base[k] = Absent
      BY <2>1, <3>2, <3>3, <3>4 DEF NewRow
    <3>5. CASE base[k] # Absent
      <4>1. base[k] \in Rows /\ base[k].ref \in ProdIds \cup {Null}
        <5>1. base[k] \in Rows /\ base[k].ref \notin LocalIds
          BY <1>2, <3>5 DEF Clean
        <5> QED
          BY <5>1 DEF Rows, Refs, Ids
      <4>2. NewRef(k[1], base[k].ref) = base[k].ref
        <5> SUFFICES ASSUME base[k].ref # Null, FK[k[1]].table # Null,
                            remap[<<FK[k[1]].table, base[k].ref>>] # Null
                     PROVE  FALSE
          BY DEF NewRef
        <5> DEFINE p == <<FK[k[1]].table, base[k].ref>>
        <5>1. p \in Keys /\ p[2] \in ProdIds
          BY <1>3, <4>1, FKAssumption DEF Keys, Ids
        <5>2. p[2] \in LocalIds
          BY <5>1 DEF MoveInv, OnlyNewRowsMove
        <5> QED
          BY <5>1, <5>2, DisjointIds
      <4>3. NewRow(k[1], base[k]) = base[k]
        BY <4>1, <4>2, RenamedRow
      <4> QED
        BY <2>1, <3>2, <3>3, <4>3
    <3> QED
      BY <3>4, <3>5
  <2> QED
    BY <2>2, <2>3
<1> QED
  BY <1>4, <1>5, <1>6

(* If every id comes from a sequence, cascades are shallow and the tables  *)
(* are sorted, a merge does to production exactly what the branch showed:  *)
(* unless a branch write slipped in after the snapshot or the branch has a *)
(* dangling reference, production becomes the overlay with the new rows    *)
(* renamed, whatever others did meanwhile.                                 *)
THEOREM QuietMergesAreFaithful ==
    ASSUME IdsFromSequences, ShallowCascades, OrderIsSorted
    PROVE  MergeSpec => MergeIsFaithful
<1>1. MoveInv /\ ReplayInv /\ [MergeNext]_vars =>
        [Merges /\ foreign = {} /\ Closed(Overlay(base, delta)) =>
           base' = Renamed(Overlay(base, delta))]_vars
  <2> SUFFICES ASSUME MoveInv, ReplayInv, MergeNext, Merges, foreign = {},
                      Closed(Overlay(base, delta))
               PROVE  base' = Renamed(Overlay(base, delta))
    OBVIOUS
  <2>1. phase = "replay" /\ pos > Len(Order) /\ base' = Latest
    BY OnlyFinishMerges DEF Finish
  <2> QED
    BY <2>1, LatestIsRenamed
<1> QED
  BY <1>1, MoveInvariance, ReplayInvariance, PTL DEF MergeSpec, MergeIsFaithful

-----------------------------------------------------------------------------
(* A validated branch replays.                                             *)

\* Nothing refuses a DELETE.
NothingRestricts == \A t \in Tables : FK[t].rule # "RESTRICT"

\* p is a row that the replay still puts, or one that it leaves in place.
ParentWaits(p) ==
    /\ p \in Keys
    /\ IsLive(tdelta, p) \/ (tdelta[p] = Absent /\ tbase[p] # Absent)

\* The parents of the rows to be replayed, under the names they have by now.
ParentsWait ==
    Running => \A k \in Keys : IsLive(tdelta, k) /\ tdelta[k].row.ref # Null =>
        \E p \in Keys : p = Parent(k[1], tdelta[k].row) /\ ParentWaits(NewKey(p))

ValidInv ==
    /\ MoveInv
    /\ ReplayInv
    /\ AllOverlay
    /\ ParentsWait

(* The types that the proofs below need.                                   *)
LEMMA ValidTypes ==
    ASSUME IdsInv
    PROVE  /\ tdelta \in [Keys -> Deltas \cup {Absent}]
           /\ delta \in [Keys -> Deltas \cup {Absent}]
           /\ tbase \in [Keys -> Rows \cup {Absent}]
           /\ base \in [Keys -> Rows \cup {Absent}]
           /\ remap \in [Keys -> ProdIds \cup {Null}]
           /\ own \subseteq Keys
BY DEF IdsInv, NoOpInv, FreshInv, MergeInv, MergeTypeOK, StoreInv, TypeOK

(* A production id is nobody's old name.                                   *)
LEMMA ProductionIdStays ==
    ASSUME MoveInv, NEW p \in Keys, p[2] \in ProdIds
    PROVE  remap[p] = Null /\ NewKey(p) = p
BY DisjointIds DEF MoveInv, OnlyNewRowsMove, NewKey

(* Steps that reach nothing of the transaction but its phase.              *)
LEMMA OthersKeepParents ==
    ASSUME ParentsWait, UNCHANGED <<tdelta, tbase, remap>>, Running' => Running
    PROVE  ParentsWait'
BY DEF ParentsWait, ParentWaits, NewKey, IsLive

(* The snapshot: validation has found the parents.                         *)
LEMMA StartKeepsParents ==
    ASSUME ValidInv, MoveInv', Start
    PROVE  ParentsWait'
<1>1. /\ phase = "idle" /\ phase' = "remap" /\ FKViolations = {}
      /\ tdelta' = delta /\ tbase' = base /\ UNCHANGED remap
  BY DEF Start, Attempt
<1>2. \A k \in Keys : remap[k] = Null
  BY <1>1 DEF ValidInv, MoveInv, IdsInv, NoOpInv, FreshInv, RemapBelowSequence
<1>3. ASSUME NEW k \in Keys, IsLive(delta, k), delta[k].row.ref # Null
      PROVE  \E p \in Keys : p = Parent(k[1], delta[k].row) /\ ParentWaits(NewKey(p))'
  <2>1. delta[k] # Absent /\ delta[k] \in Deltas
    BY <1>3, ValidTypes DEF IsLive, ValidInv, MoveInv
  <2>2. FK[k[1]].table # Null
    BY <1>1, <1>3, <2>1 DEF MoveInv, IdsInv, NoOpInv, FreshInv, MergeInv, SnapshotRefsHaveFK
  <2>3. PICK p \in Keys : p = Parent(k[1], delta[k].row)
    BY <1>3, <2>1, <2>2, DeltaFields, FKAssumption DEF Parent, Keys, Refs
  <2>4. Shown(p) # Absent
    BY <1>1, <1>3, <2>3 DEF FKViolations
  <2>5. Shown(p) = OverlayRow(base, delta, p)
    BY DEF ValidInv, AllOverlay, Shown, Keys
  <2>6. IsLive(delta, p) \/ (delta[p] = Absent /\ base[p] # Absent)
    BY <2>4, <2>5 DEF OverlayRow, IsLive
  <2>7. NewKey(p)' = p
    BY <1>1, <1>2 DEF NewKey
  <2>8. ParentWaits(NewKey(p))'
    BY <1>1, <2>6, <2>7 DEF ParentWaits, IsLive
  <2> QED
    BY <2>3, <2>8
<1> QED
  BY <1>1, <1>3 DEF ParentsWait, IsLive

(* A parent that is renamed keeps its delta row; no other row is renamed   *)
(* or written over.                                                        *)
LEMMA RemapRowKeepsParents ==
    ASSUME ValidInv, NEW k \in Keys, RemapRow(k)
    PROVE  ParentsWait'
<1> DEFINE new == <<k[1], pubSeq[k[1]]>>
<1>1. /\ phase = "remap" /\ k \in todo
      /\ k[1] \in Tables /\ pubSeq[k[1]] \in ProdIds
  BY DEF RemapRow, Draw, Keys
<1>2. new \in Keys /\ new[1] = k[1] /\ new[2] = pubSeq[k[1]] /\ new[2] # Null
  BY <1>1, SentinelAssumption DEF Keys, Ids
<1>3. CASE EndWith("serialization failure") \/ EndWith("remap failed")
  BY <1>3 DEF EndWith, Running, ParentsWait
<1>4. CASE /\ ~(/\ new # k
                /\ tdelta[new] # Absent \/ (new \in foreign /\ delta[new] # Absent))
           /\ tdelta' = [tdelta EXCEPT ![k] = Absent, ![new] = tdelta[k]]
           /\ remap' = [remap EXCEPT ![k] = pubSeq[k[1]]]
           /\ UNCHANGED <<tbase, phase>>
  <2>1. /\ tdelta \in [Keys -> Deltas \cup {Absent}]
        /\ remap \in [Keys -> ProdIds \cup {Null}]
    BY ValidTypes DEF ValidInv, MoveInv
  <2>2. k[2] \in LocalIds /\ new # k /\ remap[k] = Null
    <3>1. k[2] \in LocalIds /\ remap[k] = Null
      BY <1>1 DEF ValidInv, MoveInv, OnlyNewRowsMove, IdsInv, NoOpInv, ToDoHasNoTarget
    <3> QED
      BY <1>1, <1>2, <3>1, DisjointIds
  <2>3. tdelta[new] = Absent
    BY <1>4, <2>2
  <2>4. tbase[new] = Absent
    <3>1. tbase[new] # Absent => new[2] < pubSeq[new[1]]
      BY <1>1, <1>2 DEF ValidInv, MoveInv, IdsInv, NoOpInv, SnapshotBelowSequence
    <3>2. new[2] \in Nat /\ new[2] = pubSeq[new[1]]
      BY <1>1, <1>2, IdsAreNat DEF Ids
    <3> QED
      BY <3>1, <3>2
  <2>5. tbase[k] = Absent
    <3>1. Clean(tbase) /\ DrawnIds = LocalIds
      BY DEF ValidInv, MoveInv, IdsInv, NoOpInv, FreshInv, MergeInv
    <3> QED
      BY <2>2, <3>1 DEF Clean
  <2>6. NewKey(k)' = new /\ NewKey(k) = k
    BY <1>2, <1>4, <2>1, <2>2 DEF NewKey
  <2>7. \A j \in Keys : j # k => NewKey(j)' = NewKey(j)
    BY <1>4, <2>1 DEF NewKey
  <2>8. \A j \in Keys : j # k => NewKey(j) # k
    <3> SUFFICES ASSUME NEW j \in Keys, j # k, remap[j] # Null PROVE NewKey(j) # k
      BY DEF NewKey
    <3>1. NewKey(j) = <<j[1], remap[j]>> /\ remap[j] \in ProdIds
      BY <2>1 DEF NewKey
    <3> QED
      BY <2>2, <3>1, DisjointIds
  <2> HIDE DEF new
  <2>9. \A j \in Keys :
          tdelta'[j] = IF j = new THEN tdelta[k] ELSE IF j = k THEN Absent ELSE tdelta[j]
    BY <1>2, <1>4, <2>1
  <2>10. ASSUME NEW p \in Keys, ParentWaits(NewKey(p)) PROVE ParentWaits(NewKey(p))'
    <3>1. CASE p = k
      <4>1. IsLive(tdelta, k)
        BY <2>5, <2>6, <2>10, <3>1 DEF ParentWaits
      <4>2. tdelta'[new] = tdelta[k] /\ NewKey(p)' = new
        BY <1>2, <2>6, <2>9, <3>1
      <4> QED
        BY <1>2, <4>1, <4>2 DEF ParentWaits, IsLive
    <3>2. CASE p # k
      <4> DEFINE q == NewKey(p)
      <4>1. q \in Keys /\ q # k /\ q # new /\ NewKey(p)' = q
        BY <2>3, <2>4, <2>7, <2>8, <2>10, <3>2 DEF ParentWaits, IsLive
      <4> HIDE DEF q
      <4>2. tdelta'[q] = tdelta[q] /\ tbase' = tbase
        BY <1>4, <2>9, <4>1
      <4> QED
        BY <2>10, <4>1, <4>2 DEF ParentWaits, IsLive, q
    <3> QED
      BY <3>1, <3>2
  <2>11. ASSUME NEW j \in Keys, IsLive(tdelta', j), tdelta'[j].row.ref # Null
         PROVE  \E p \in Keys : p = Parent(j[1], tdelta'[j].row) /\ ParentWaits(NewKey(p))'
    <3>1. PICK i \in Keys : i[1] = j[1] /\ tdelta'[j] = tdelta[i]
      BY <1>2, <2>9, <2>11 DEF IsLive
    <3>2. IsLive(tdelta, i) /\ tdelta[i].row.ref # Null
      BY <2>11, <3>1 DEF IsLive
    <3>3. PICK p \in Keys : p = Parent(i[1], tdelta[i].row) /\ ParentWaits(NewKey(p))
      BY <1>1, <3>2 DEF ValidInv, ParentsWait, Running
    <3> QED
      BY <2>10, <3>1, <3>3
  <2> QED
    BY <2>11 DEF ParentsWait, IsLive
<1> QED
  BY <1>3, <1>4 DEF RemapRow

(* A repaired reference names its parent by the new name.                  *)
LEMMA FixReferenceKeepsParents ==
    ASSUME ValidInv, NEW f \in Tables \X Ids, FixReference(f)
    PROVE  ParentsWait'
<1> DEFINE hits == {k \in Keys : /\ k[1] = f[1]
                                 /\ tdelta[k] # Absent
                                 /\ tdelta[k].row.ref = f[2]}
           old  == <<FK[f[1]].table, f[2]>>
           new  == remap[old]
<1>1. phase = "fix" /\ f \in fixes
  BY DEF FixReference
<1>2. CASE EndWith("serialization failure")
  BY <1>2 DEF EndWith, Running, ParentsWait
<1>3. CASE /\ tdelta' = [k \in Keys |-> IF k \in hits
                                        THEN [tdelta[k] EXCEPT !.row.ref = new]
                                        ELSE tdelta[k]]
           /\ UNCHANGED <<tbase, phase, remap>>
  <2>1. /\ tdelta \in [Keys -> Deltas \cup {Absent}]
        /\ remap \in [Keys -> ProdIds \cup {Null}]
    BY ValidTypes DEF ValidInv, MoveInv
  <2>2. /\ FK[f[1]].table # Null /\ new # Null
        /\ f[1] \in Tables /\ f[2] \in Ids
    BY <1>1 DEF ValidInv, MoveInv, IdsInv, NoOpInv, FreshInv, MergeInv, FixesAreKnown
  <2>3. old \in Keys /\ FK[f[1]].table \in Tables
    BY <2>2, FKAssumption DEF Keys
  <2>4. new \in ProdIds /\ new \in Refs
    BY <2>1, <2>2, <2>3 DEF Refs, Ids
  <2>5. NewKey(old) = <<FK[f[1]].table, new>>
    BY <2>2, <2>3 DEF NewKey
  <2>6. <<FK[f[1]].table, new>> \in Keys /\ NewKey(<<FK[f[1]].table, new>>) = NewKey(old)
    <3>1. <<FK[f[1]].table, new>> \in Keys
      BY <2>3, <2>4 DEF Keys, Ids
    <3>2. <<FK[f[1]].table, new>>[2] \in ProdIds
      BY <2>4
    <3> HIDE DEF new, old
    <3> QED
      BY <2>5, <3>1, <3>2, ProductionIdStays DEF ValidInv
  <2>7. \A p : NewKey(p)' = NewKey(p)
    BY <1>3 DEF NewKey
  <2> HIDE DEF new
  <2>8. ASSUME NEW k \in Keys
        PROVE  /\ k \in hits => /\ IsLive(tdelta', k) <=> IsLive(tdelta, k)
                                /\ tdelta'[k] # Absent /\ tdelta[k] # Absent
                                /\ tdelta'[k].row.ref = new
               /\ k \notin hits => tdelta'[k] = tdelta[k]
    <3>1. CASE k \in hits
      <4>1. tdelta[k] \in Deltas /\ tdelta[k] # Absent
        BY <2>1, <3>1
      <4>2. tdelta'[k] = [tdelta[k] EXCEPT !.row.ref = new]
        BY <1>3, <3>1
      <4>3. tdelta'[k] \in Deltas
        BY <2>4, <4>1, <4>2 DEF Deltas, Rows
      <4>4. tdelta'[k].deleted = tdelta[k].deleted /\ tdelta'[k].row.ref = new
        BY <4>1, <4>2 DEF Deltas, Rows
      <4> QED
        BY <3>1, <4>1, <4>3, <4>4, DeltaFields DEF IsLive
    <3>2. CASE k \notin hits
      BY <1>3, <3>2
    <3> QED
      BY <3>1, <3>2
  <2>9. ASSUME NEW p \in Keys, ParentWaits(NewKey(p)) PROVE ParentWaits(NewKey(p))'
    <3> DEFINE q == NewKey(p)
    <3>1. q \in Keys /\ NewKey(p)' = q /\ tbase' = tbase
      BY <1>3, <2>7, <2>9 DEF ParentWaits
    <3> HIDE DEF q
    <3>2. /\ IsLive(tdelta', q) <=> IsLive(tdelta, q)
          /\ tdelta'[q] = Absent <=> tdelta[q] = Absent
      BY <2>8, <3>1 DEF IsLive
    <3> QED
      BY <2>9, <3>1, <3>2 DEF ParentWaits, IsLive, q
  <2>10. ASSUME NEW k \in Keys, IsLive(tdelta', k), tdelta'[k].row.ref # Null
         PROVE  \E p \in Keys : p = Parent(k[1], tdelta'[k].row) /\ ParentWaits(NewKey(p))'
    <3>1. CASE k \in hits
      <4>1. IsLive(tdelta, k) /\ tdelta[k].row.ref = f[2] /\ f[2] # Null /\ k[1] = f[1]
        BY <2>2, <2>8, <2>10, <3>1, SentinelAssumption
      <4>2. Parent(k[1], tdelta[k].row) = old
        BY <4>1 DEF Parent
      <4>3. ParentWaits(NewKey(old))
        BY <1>1, <4>1, <4>2 DEF ValidInv, ParentsWait, Running
      <4>4. PICK p \in Keys : p = <<FK[f[1]].table, new>>
        BY <2>6
      <4>5. p = Parent(k[1], tdelta'[k].row)
        BY <2>8, <3>1, <4>1, <4>4 DEF Parent
      <4>6. ParentWaits(NewKey(p))
        BY <2>6, <4>3, <4>4
      <4> QED
        BY <2>9, <4>5, <4>6
    <3>2. CASE k \notin hits
      <4>1. tdelta'[k] = tdelta[k]
        BY <2>8, <3>2
      <4>2. IsLive(tdelta, k) /\ tdelta[k].row.ref # Null
        BY <2>10, <4>1 DEF IsLive
      <4>3. PICK p \in Keys : p = Parent(k[1], tdelta[k].row) /\ ParentWaits(NewKey(p))
        BY <1>1, <4>2 DEF ValidInv, ParentsWait, Running
      <4> QED
        BY <2>9, <4>1, <4>3
    <3> QED
      BY <3>1, <3>2
  <2> QED
    BY <2>10 DEF ParentsWait, IsLive
<1> QED
  BY <1>2, <1>3 DEF FixReference

(* A DELETE removes, besides its roots, rows of tables that cascade only.  *)
LEMMA OnlyCascadesTake ==
    ASSUME NEW rows \in [Keys -> Rows \cup {Absent}], NEW roots \in SUBSET Keys,
           NEW k \in Keys, rows[k] # Absent, AfterDelete(rows, roots)[k] = Absent
    PROVE  k \in roots \/ (FK[k[1]].rule = "CASCADE" /\ FK[k[1]].table \in Tables)
<1> DEFINE S == roots \cup {c \in Keys : FK[c[1]].rule = "CASCADE" /\ FK[c[1]].table \in Tables}
<1>1. Added(rows, S) \subseteq S
  <2> SUFFICES ASSUME NEW c \in Keys, Follows(rows, c), Parent(c[1], rows[c]) \in Keys
               PROVE  FK[c[1]].rule = "CASCADE" /\ FK[c[1]].table \in Tables
    BY DEF Added
  <2> QED
    BY DEF Follows, Parent, Keys
<1>2. roots \subseteq S
  OBVIOUS
<1> HIDE DEF S
<1>3. Taken(rows, roots) \subseteq S
  BY <1>1, <1>2, TakenIsLeast
<1>4. [rows[k] EXCEPT !.ref = Null] \in Rows
  BY DEF Rows, Refs
<1>5. k \in Doomed(rows, roots)
  BY <1>4, SentinelAssumption DEF AfterDelete
<1> QED
  BY <1>3, <1>5 DEF Doomed, S

(* A parent without a delta row stays: its own foreign key does not        *)
(* cascade.                                                                *)
LEMMA ReplayKeepsParents ==
    ASSUME ValidInv, ShallowCascades, NEW t \in Tables, Replay(t)
    PROVE  ParentsWait'
<1> DEFINE live == {k \in Keys : k[1] = t /\ IsLive(tdelta, k)}
           gone == {k \in Keys : /\ k[1] = t /\ tdelta[k] # Absent /\ tdelta[k].deleted
                                 /\ tbase[k] # Absent}
           put  == [k \in Keys |-> IF k \in live THEN tdelta[k].row ELSE Latest[k]]
           after == AfterDelete(put, gone)
           hit  == {k \in Keys : after[k] # put[k]}
<1>1. phase = "replay"
  BY DEF Replay
<1>2. CASE EndWith("serialization failure") \/ EndWith("foreign key error")
  BY <1>2 DEF EndWith, Running, ParentsWait
<1>3. CASE /\ own' = own \cup live \cup hit
           /\ tbase' = [k \in Keys |-> IF k \in own' THEN after[k] ELSE tbase[k]]
           /\ UNCHANGED <<base, tdelta, phase, remap>>
  <2>1. /\ tbase \in [Keys -> Rows \cup {Absent}] /\ base \in [Keys -> Rows \cup {Absent}]
        /\ tdelta \in [Keys -> Deltas \cup {Absent}]
    BY ValidTypes DEF ValidInv, MoveInv
  <2>2. put \in [Keys -> Rows \cup {Absent}]
    <3>1. Latest \in [Keys -> Rows \cup {Absent}]
      BY <2>1 DEF Latest
    <3>2. \A k \in live : tdelta[k].row \in Rows
      BY <2>1, DeltaFields DEF IsLive
    <3> QED
      BY <3>1, <3>2
  <2>3. gone \subseteq Keys
    OBVIOUS
  <2>4. \A k \in Keys : put[k] = IF k \in live THEN tdelta[k].row ELSE Latest[k]
    OBVIOUS
  <2>5. \A k \in Keys : tbase'[k] = IF k \in own' THEN after[k] ELSE tbase[k]
    BY <1>3
  <2>6. \A k \in Keys : k \in own' => k \in own \/ k \in live \/ after[k] # put[k]
    BY <1>3
  <2> HIDE DEF put
  <2>7. ASSUME NEW c \in Keys, NEW p \in Keys, FK[c[1]].table = p[1],
               tdelta[p] = Absent, tbase[p] # Absent
        PROVE  tbase'[p] # Absent
    <3> SUFFICES ASSUME p \in own', after[p] = Absent PROVE FALSE
      BY <2>5, <2>7
    <3>1. p \notin live /\ p \notin gone
      BY <2>7 DEF IsLive
    <3>2. p \in own => Latest[p] = tbase[p]
      BY DEF Latest
    <3>3. put[p] # Absent
      BY <2>4, <2>6, <2>7, <3>1, <3>2
    <3>4. FK[p[1]].rule = "CASCADE" /\ FK[p[1]].table \in Tables
      BY <2>2, <2>3, <3>1, <3>3, OnlyCascadesTake
    <3> QED
      BY <2>7, <3>4, SentinelAssumption DEF ShallowCascades, Keys
  <2> HIDE DEF after
  <2>8. ASSUME NEW k \in Keys, IsLive(tdelta, k), tdelta[k].row.ref # Null
        PROVE  \E p \in Keys : p = Parent(k[1], tdelta[k].row) /\ ParentWaits(NewKey(p))'
    <3>1. PICK p \in Keys : p = Parent(k[1], tdelta[k].row) /\ ParentWaits(NewKey(p))
      BY <1>1, <2>8 DEF ValidInv, ParentsWait, Running
    <3>2. PICK q \in Keys : q = NewKey(p)
      BY <3>1 DEF ParentWaits
    <3>3. q[1] = FK[k[1]].table
      BY <3>1, <3>2 DEF NewKey, Parent
    <3>4. NewKey(p)' = q
      BY <1>3, <3>2 DEF NewKey
    <3>5. IsLive(tdelta, q) \/ (tdelta[q] = Absent /\ tbase'[q] # Absent)
      BY <2>7, <3>1, <3>2, <3>3 DEF ParentWaits
    <3>6. ParentWaits(NewKey(p))'
      BY <1>3, <3>4, <3>5 DEF ParentWaits, IsLive
    <3> QED
      BY <3>1, <3>6
  <2> QED
    BY <1>3, <2>8 DEF ParentsWait, IsLive
<1> QED
  BY <1>2, <1>3 DEF Replay, storeVars

(* Every step of a merge.                                                  *)
LEMMA MergeStepKeepsParents ==
    ASSUME ValidInv, MoveInv', ShallowCascades, MergeStep
    PROVE  ParentsWait'
<1>1. CASE RejectViolations \/ RejectConflicts \/ DryRun \/ RemapDone \/ FixDone
  <2>1. UNCHANGED <<tdelta, tbase, remap>> /\ (Running' => Running)
    BY <1>1 DEF RejectViolations, RejectConflicts, DryRun, RemapDone, FixDone, txVars, Running
  <2> QED
    BY <2>1, OthersKeepParents DEF ValidInv
<1>2. CASE Start
  BY <1>2, StartKeepsParents
<1>3. ASSUME NEW k \in Keys, RemapRow(k) PROVE ParentsWait'
  BY <1>3, RemapRowKeepsParents
<1>4. ASSUME NEW f \in Tables \X Ids, FixReference(f) PROVE ParentsWait'
  BY <1>4, FixReferenceKeepsParents
<1>5. ASSUME NEW t \in Tables, Replay(t) PROVE ParentsWait'
  BY <1>5, ReplayKeepsParents
<1>6. CASE Finish \/ Crash
  BY <1>6 DEF Finish, Crash, EndWith, Running, ParentsWait
<1> QED
  BY <1>1, <1>2, <1>3, <1>4, <1>5, <1>6 DEF MergeStep

(* ValidInv is an invariant if every id comes from a sequence, cascades    *)
(* are shallow, the tables sorted and the views upgraded.                  *)
LEMMA ValidInvariance ==
    ASSUME IdsFromSequences, ShallowCascades, OrderIsSorted,
           \A t \in Tables : StartView[t] = "overlay"
    PROVE  MergeSpec => []ValidInv
<1>1. MergeInit => AllOverlay /\ ParentsWait
  BY DEF MergeInit, Init, AllOverlay, ParentsWait, Running
<1>2. ValidInv /\ MoveInv' /\ ReplayInv' /\ [MergeNext]_vars => ValidInv'
  <2> SUFFICES ASSUME ValidInv, MoveInv', ReplayInv', [MergeNext]_vars PROVE ValidInv'
    OBVIOUS
  <2>1. CASE MergeStep
    <3>1. UNCHANGED view
      BY <2>1 DEF MergeStep, RejectViolations, RejectConflicts, DryRun, Start, Attempt,
         RemapRow, RemapDone, FixReference, FixDone, Replay, Finish, Crash, EndWith, storeVars
    <3> QED
      BY <2>1, <3>1, MergeStepKeepsParents DEF ValidInv, AllOverlay
  <2>2. CASE OnBranch \/ OnListener \/ OnBase
    <3>1. UNCHANGED <<phase, tdelta, tbase, remap>>
      BY <2>2 DEF OnBranch, OnListener, OnBase, mergeVars, txVars
    <3>2. StoreInv /\ [Next]_storeVars
      BY <2>2 DEF ValidInv, MoveInv, IdsInv, NoOpInv, FreshInv, MergeInv, OnBranch, OnListener,
         OnBase, Next
    <3>3. AllOverlay'
      BY <3>2, OverlayStays DEF ValidInv
    <3> QED
      BY <3>1, <3>3, OthersKeepParents DEF ValidInv, Running
  <2>3. CASE UNCHANGED vars
    BY <2>3, OthersKeepParents DEF vars, storeVars, mergeVars, txVars, ValidInv, AllOverlay, Running
  <2> QED
    BY <2>1, <2>2, <2>3 DEF MergeNext
<1>3. MoveInv /\ ReplayInv /\ AllOverlay /\ ParentsWait => ValidInv
  BY DEF ValidInv
<1> QED
  BY <1>1, <1>2, <1>3, MoveInvariance, ReplayInvariance, PTL DEF MergeSpec

(* In the replay, the parent of a row that is about to be put is there.    *)
LEMMA ParentIsThere ==
    ASSUME ValidInv, OrderIsSorted, phase = "replay", NEW t \in Tables,
           pos <= Len(Order), t = Order[pos],
           NEW k \in Keys, k[1] = t, IsLive(tdelta, k), tdelta[k].row.ref # Null
    PROVE  tbase[Parent(t, tdelta[k].row)] # Absent
<1>1. PICK p \in Keys : p = Parent(t, tdelta[k].row) /\ ParentWaits(NewKey(p))
  BY DEF ValidInv, ParentsWait, Running
<1>2. tdelta[k] \in Deltas /\ tdelta[k].row.ref \in Ids
  BY ValidTypes, DeltaFields DEF ValidInv, MoveInv, IsLive, Refs
<1>3. tdelta[k].row.ref \notin LocalIds
  BY DEF ValidInv, MoveInv, IdsInv, NoOpInv, FreshInv, MergeInv, LocalRefsHaveRepair
<1>4. p[1] = FK[t].table /\ p[2] \in ProdIds
  BY <1>1, <1>2, <1>3 DEF Parent, Ids
<1>5. ParentWaits(p)
  BY <1>1, <1>4, ProductionIdStays DEF ValidInv
<1>6. CASE IsLive(tdelta, p)
  <2>1. p[1] \in Tables
    BY DEF Keys
  <2>2. PICK j \in 1..Len(Order) : Order[j] = p[1]
    BY <2>1, MergeAssumption
  <2>3. pos \in 1..Len(Order) /\ Len(Order) \in Nat
    BY MergeAssumption DEF ValidInv, MoveInv, IdsInv, NoOpInv, FreshInv, MergeInv, MergeTypeOK
  <2>4. j # pos
    BY <1>4, <2>2, NotItsOwnParent
  <2>5. ~(pos < j)
    BY <1>4, <2>2, <2>3 DEF OrderIsSorted
  <2>6. p[1] \in ReplayedTables
    BY <2>2, <2>3, <2>4, <2>5 DEF ReplayedTables
  <2>7. tbase[p] = tdelta[p].row
    BY <1>6, <2>6 DEF ValidInv, ReplayInv, ReplayedRows, IsLive
  <2>8. tdelta[p] \in Deltas
    BY <1>6, ValidTypes DEF ValidInv, MoveInv, IsLive
  <2> QED
    BY <1>1, <2>7, <2>8, DeltaFields
<1>7. CASE tbase[p] # Absent
  BY <1>1, <1>7
<1> QED
  BY <1>5, <1>6, <1>7 DEF ParentWaits

(* If moreover every view is upgraded and no foreign key is RESTRICT, a    *)
(* branch that passed validation is refused by PostgreSQL only if somebody *)
(* changed production during the merge.                                    *)
THEOREM ValidatedBranchesReplay ==
    ASSUME IdsFromSequences, ShallowCascades, OrderIsSorted, NothingRestricts,
           \A t \in Tables : StartView[t] = "overlay"
    PROVE  MergeSpec => ValidatedBranchReplays
<1> DEFINE Refused == phase = "replay" /\ phase' = "idle" /\ outcome' = "foreign key error"
<1>1. ASSUME ValidInv, MergeNext, Refused PROVE \E t \in Tables : Replay(t)
  <2>1. ~OnBranch /\ ~OnListener /\ ~OnBase
    BY <1>1 DEF OnBranch, OnListener, OnBase, mergeVars
  <2>2. /\ ~RejectViolations /\ ~RejectConflicts /\ ~DryRun /\ ~Start /\ ~RemapDone
        /\ ~FixDone /\ ~Finish
    BY <1>1 DEF RejectViolations, RejectConflicts, DryRun, Start, Attempt, RemapDone, FixDone,
       Finish
  <2>3. ~Crash
    BY <1>1 DEF Crash, EndWith
  <2>4. \A k \in Keys : ~RemapRow(k)
    BY <1>1 DEF RemapRow
  <2>5. \A f \in Tables \X Ids : ~FixReference(f)
    BY <1>1 DEF FixReference
  <2> QED
    BY <1>1, <2>1, <2>2, <2>3, <2>4, <2>5 DEF MergeNext, MergeStep
<1>2. ASSUME ValidInv, Refused, NEW t \in Tables, Replay(t)
      PROVE  \E k \in Keys : since[k] # "same"
  <2> DEFINE gone == {k \in Keys : /\ k[1] = t /\ tdelta[k] # Absent /\ tdelta[k].deleted
                                   /\ tbase[k] # Absent}
             put  == [k \in Keys |-> IF k[1] = t /\ IsLive(tdelta, k)
                                     THEN tdelta[k].row ELSE Latest[k]]
  <2>1. /\ phase = "replay" /\ pos <= Len(Order) /\ t = Order[pos]
        /\ \/ \E k \in Keys : /\ k[1] = t /\ IsLive(tdelta, k) /\ tdelta[k].row.ref # Null
                              /\ ~ParentHolds(Parent(t, tdelta[k].row))
           \/ \E rows, roots : Restricted(rows, roots)
    BY <1>2 DEF Replay, EndWith
  <2>2. \A rows, roots : ~Restricted(rows, roots)
    BY DEF NothingRestricts, Restricted, DoomedBy, Keys
  <2>3. PICK k \in Keys : /\ k[1] = t /\ IsLive(tdelta, k) /\ tdelta[k].row.ref # Null
                          /\ ~ParentHolds(Parent(t, tdelta[k].row))
    BY <2>1, <2>2
  <2>4. PICK p \in Keys : p = Parent(t, tdelta[k].row)
    BY <1>2, <2>1, <2>3 DEF ValidInv, ParentsWait, Running
  <2>5. tbase[p] # Absent
    BY <1>2, <2>1, <2>3, <2>4, ParentIsThere
  <2>6. since[p] = "removed"
    BY <2>3, <2>4, <2>5 DEF ParentHolds
  <2> QED
    BY <2>6
<1>3. ValidInv /\ [MergeNext]_vars =>
        [Refused => \E k \in Keys : since[k] # "same"]_vars
  BY <1>1, <1>2
<1> QED
  BY <1>3, ValidInvariance, PTL DEF MergeSpec, ValidatedBranchReplays

=============================================================================
