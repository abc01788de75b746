----------------------------- MODULE GraphProofs -----------------------------
(***************************************************************************)
(* Proofs about the algorithms over foreign keys, for any number of tables *)
(* and any list of foreign keys: sortTables, BuildCascadeGraph and the     *)
(* DELETE triggers.  The three share no variable but fks.  Each keeps its  *)
(* recursion in a stack of calls, and each inductive invariant says what   *)
(* the calls that have not returned have done and have left to do.         *)
(***************************************************************************)
EXTENDS SortTables, CascadeGraph, DeleteTriggers, SequenceTheorems, FiniteSetTheorems, TLAPS

(* What is left of a stack without its last element.                       *)
LEMMA Popped ==
    ASSUME NEW S, NEW s \in Seq(S), s # <<>>
    PROVE  /\ SubSeq(s, 1, Len(s) - 1) \in Seq(S)
           /\ Len(SubSeq(s, 1, Len(s) - 1)) = Len(s) - 1
           /\ \A n \in 1..(Len(s) - 1) : SubSeq(s, 1, Len(s) - 1)[n] = s[n]
<1> DEFINE m == Len(s) - 1
<1>1. Len(s) \in Nat \ {0} /\ m \in Int /\ \A i \in 1..m : s[i] \in S
  OBVIOUS
<1>2. /\ SubSeq(s, 1, m) \in Seq(S)
      /\ Len(SubSeq(s, 1, m)) = IF 1 <= m THEN m - 1 + 1 ELSE 0
      /\ \A i \in 1..(m - 1 + 1) : SubSeq(s, 1, m)[i] = s[1 + i - 1]
  BY <1>1, SubSeqProperties
<1>3. m \in Nat /\ m - 1 + 1 = m /\ \A i \in 1..m : 1 + i - 1 = i
  BY <1>1
<1>4. \A i \in 1..m : SubSeq(s, 1, m)[i] = s[i]
  BY <1>2, <1>3
<1>5. Len(SubSeq(s, 1, m)) = m
  BY <1>2, <1>3
<1> QED
  BY <1>2, <1>4, <1>5

-----------------------------------------------------------------------------
(* sortTables: the inductive invariant.                                    *)

SortCall == [table : Names, fk : Nat \ {0}]
Placed == {result[i] : i \in 1..Len(result)}
Open   == {visiting[n].table : n \in 1..Len(visiting)}

\* The type invariant.
SortTypeInv ==
    /\ fks \in Seq(FKConstraint)
    /\ tables \in Seq(Names)
    /\ next \in 1..(Len(tables) + 1)
    /\ visiting \in Seq(SortCall)
    /\ result \in Seq(Names)

\* The marked tables are those in the result and those of the open calls.
MarkInv ==
    /\ visited = Placed \cup Open
    /\ visited \subseteq Listed
    /\ \A i \in 1..(next - 1) : tables[i] \in visited

\* No table is there twice.
OnceInv ==
    /\ Placed \cap Open = {}
    /\ \A i, j \in 1..Len(result) : result[i] = result[j] => i = j
    /\ \A m, n \in 1..Len(visiting) : visiting[m].table = visiting[n].table => m = n

\* The loop of an open call has marked the parents it has passed.
FollowedInv ==
    \A n \in 1..Len(visiting), i \in 1..Len(fks) :
        i < visiting[n].fk /\ Follows(visiting[n].table, fks[i]) => fks[i].referenced \in visited

\* A call is for an ancestor of the tables of its callers.
NestedInv ==
    \A m, n \in 1..Len(visiting) : m < n => visiting[n].table \in Ancestors(visiting[m].table)

\* ParentsFirst, for the result so far.
OrderInv ==
    \A j \in 1..Len(result) : \A p \in Parents(result[j]) :
        result[j] \notin Ancestors(p) => \E i \in 1..(j - 1) : result[i] = p

SortInv ==
    SortTypeInv /\ MarkInv /\ OnceInv /\ FollowedInv /\ NestedInv /\ OrderInv

(* The ancestors of a table are its parents and the parents of its         *)
(* ancestors.                                                              *)
LEMMA ParentsAreAncestors ==
    ASSUME NEW t, NEW a
    PROVE  /\ a \in Parents(t) => a \in Ancestors(t)
           /\ \A b : a \in Ancestors(t) /\ b \in Parents(a) => b \in Ancestors(t)
<1>1. \A x : Parents(x) \subseteq Listed
  BY DEF Parents
<1>2. a \in Parents(t) => a \in Ancestors(t)
  BY <1>1 DEF Ancestors
<1>3. ASSUME a \in Ancestors(t), NEW b, b \in Parents(a) PROVE b \in Ancestors(t)
  BY <1>1, <1>3 DEF Ancestors
<1> QED
  BY <1>2, <1>3

(* The foreign keys that visit follows lead to the parents.                *)
LEMMA FollowedAreParents ==
    ASSUME NEW t
    PROVE  Parents(t) = {fks[i].referenced : i \in {j \in 1..Len(fks) : Follows(t, fks[j])}}
BY DEF Parents, Follows

(* sortTables leaves its inputs alone, and what depends on them.           *)
LEMMA SortInputsKept ==
    ASSUME UNCHANGED <<fks, tables>>
    PROVE  /\ Listed' = Listed
           /\ \A t : Parents(t)' = Parents(t)
           /\ \A t : Ancestors(t)' = Ancestors(t)
           /\ \A t, fk : Follows(t, fk)' = Follows(t, fk)
BY DEF Parents, Ancestors, Listed, Follows

(* A step that moves the loops on and calls nothing keeps the invariant.   *)
LEMMA CallsAdvance ==
    ASSUME SortInv, NEW s \in Seq(SortCall), Len(s) = Len(visiting),
           \A n \in 1..Len(s) : s[n].table = visiting[n].table,
           \A n \in 1..Len(s), i \in 1..Len(fks) :
               i < s[n].fk /\ Follows(s[n].table, fks[i]) => fks[i].referenced \in visited,
           visiting' = s, UNCHANGED <<fks, tables, visited, result>>,
           next' \in 1..(Len(tables) + 1), \A i \in 1..(next' - 1) : tables[i] \in visited
    PROVE  SortInv'
<1> USE DEF SortInv
<1>1. SortTypeInv'
  BY DEF SortTypeInv
<1>2. Placed' = Placed /\ Open' = Open
  BY DEF Placed, Open
<1>3. MarkInv'
  BY <1>2, SortInputsKept DEF MarkInv
<1>4. OnceInv'
  BY <1>2 DEF OnceInv
<1>5. FollowedInv'
  BY SortInputsKept DEF FollowedInv
<1>6. NestedInv'
  BY SortInputsKept DEF NestedInv
<1>7. OrderInv'
  BY SortInputsKept DEF OrderInv
<1> QED
  BY <1>1, <1>3, <1>4, <1>5, <1>6, <1>7

(* So does a call of visit for a table that is not marked yet.             *)
LEMMA CallPushed ==
    ASSUME SortInv, NEW s \in Seq(SortCall), Len(s) = Len(visiting),
           \A n \in 1..Len(s) : s[n].table = visiting[n].table,
           NEW p \in Names, p \in Listed, p \notin visited,
           \A n \in 1..Len(s) : p \in Ancestors(s[n].table),
           \A n \in 1..Len(s), i \in 1..Len(fks) :
               i < s[n].fk /\ Follows(s[n].table, fks[i])
                   => fks[i].referenced \in visited \cup {p},
           visiting' = Append(s, [table |-> p, fk |-> 1]), visited' = visited \cup {p},
           UNCHANGED <<fks, tables, result>>,
           next' \in 1..(Len(tables) + 1),
           \A i \in 1..(next' - 1) : tables[i] \in visited \cup {p}
    PROVE  SortInv'
<1> DEFINE L == Len(visiting)
<1> USE DEF SortInv
<1>1. /\ visiting' \in Seq(SortCall) /\ Len(visiting') = L + 1 /\ L \in Nat
      /\ \A n \in 1..L : visiting'[n] = s[n]
      /\ visiting'[L + 1] = [table |-> p, fk |-> 1]
  <2>1. [table |-> p, fk |-> 1] \in SortCall
    BY DEF SortCall
  <2> QED
    BY <2>1, AppendProperties
<1>2. SortTypeInv'
  BY <1>1 DEF SortTypeInv
<1>3. Placed' = Placed /\ Open' = Open \cup {p}
  <2>1. Open' \subseteq Open \cup {p}
    BY <1>1 DEF Open
  <2>2. Open \subseteq Open'
    BY <1>1 DEF Open
  <2>3. p \in Open'
    BY <1>1 DEF Open
  <2> QED
    BY <2>1, <2>2, <2>3 DEF Placed
<1>4. MarkInv'
  BY <1>3, SortInputsKept DEF MarkInv
<1>5. OnceInv'
  <2>1. p \notin Placed /\ p \notin Open
    BY DEF MarkInv
  <2>2. \A m, n \in 1..Len(visiting') : visiting'[m].table = visiting'[n].table => m = n
    BY <1>1, <2>1 DEF OnceInv, Open
  <2> QED
    BY <1>3, <2>1, <2>2 DEF OnceInv
<1>6. FollowedInv'
  BY <1>1, SortInputsKept DEF FollowedInv
<1>7. NestedInv'
  <2> SUFFICES ASSUME NEW m \in 1..Len(visiting'), NEW n \in 1..Len(visiting'), m < n
               PROVE  visiting'[n].table \in Ancestors(visiting'[m].table)
    BY SortInputsKept DEF NestedInv
  <2>1. m \in 1..L /\ visiting'[m].table = visiting[m].table
    BY <1>1
  <2>2. CASE n \in 1..L
    BY <1>1, <2>1, <2>2 DEF NestedInv
  <2>3. CASE n = L + 1
    BY <1>1, <2>1, <2>3
  <2> QED
    BY <1>1, <2>2, <2>3
<1>8. OrderInv'
  BY SortInputsKept DEF OrderInv
<1> QED
  BY <1>2, <1>4, <1>5, <1>6, <1>7, <1>8

(* The last loop of sortTables keeps the invariant.                        *)
LEMMA AfterNext ==
    ASSUME SortInv, VisitNext
    PROVE  SortInv'
<1> DEFINE p == tables[next]
<1>1. /\ next \in 1..Len(tables) /\ p \in Names /\ p \in Listed
      /\ next' = next + 1 /\ next' \in 1..(Len(tables) + 1)
      /\ visiting \in Seq(SortCall) /\ Len(visiting) = 0
      /\ \A i \in 1..(next' - 1) : tables[i] \in visited \cup {p}
  BY DEF SortInv, SortTypeInv, MarkInv, VisitNext, Listed
<1>2. UNCHANGED <<fks, tables, result>> /\ Visit(p, visiting)
  BY DEF VisitNext
<1>3. \A n \in 1..Len(visiting) : FALSE
  BY <1>1
<1>4. CASE p \in visited
  <2>1. visiting' = visiting /\ visited' = visited
    BY <1>2, <1>4 DEF Visit
  <2> QED
    BY <1>1, <1>2, <1>3, <1>4, <2>1, CallsAdvance
<1>5. CASE p \notin visited
  <2>1. visiting' = Append(visiting, [table |-> p, fk |-> 1]) /\ visited' = visited \cup {p}
    BY <1>2, <1>5 DEF Visit
  <2> QED
    BY <1>1, <1>2, <1>3, <1>5, <2>1, CallPushed
<1> QED
  BY <1>4, <1>5

(* The loop of visit over the foreign keys keeps it.                       *)
LEMMA AfterFollow ==
    ASSUME SortInv, FollowFK
    PROVE  SortInv'
<1> DEFINE L == Len(visiting)
           f == visiting[L].fk
           t == visiting[L].table
           p == fks[f].referenced
           s == Advanced
<1>a. visiting \in Seq(SortCall) /\ fks \in Seq(FKConstraint)
  BY DEF SortInv, SortTypeInv
<1>b. L \in Nat \ {0} /\ visiting[L] \in SortCall
  BY <1>a DEF FollowFK
<1>1. f \in 1..Len(fks)
  BY <1>a, <1>b DEF FollowFK, Innermost, SortCall
<1>2. /\ s \in Seq(SortCall) /\ Len(s) = L
      /\ \A n \in 1..L : s[n] = IF n = L THEN [visiting[L] EXCEPT !.fk = f + 1] ELSE visiting[n]
  BY <1>a, <1>b, <1>1 DEF Advanced, SortCall
<1>3. /\ \A n \in 1..Len(s) : s[n].table = visiting[n].table
      /\ \A n \in 1..L : s[n].fk = IF n = L THEN f + 1 ELSE visiting[n].fk
  BY <1>a, <1>b, <1>1, <1>2 DEF SortCall
<1>4. /\ UNCHANGED <<fks, tables, next, result>>
      /\ next' \in 1..(Len(tables) + 1) /\ \A i \in 1..(next' - 1) : tables[i] \in visited
  BY DEF FollowFK, SortInv, SortTypeInv, MarkInv
<1>5. \A n \in 1..Len(s), i \in 1..Len(fks) :
        i < s[n].fk /\ Follows(s[n].table, fks[i])
            => fks[i].referenced \in visited \/ (n = L /\ i = f)
  BY <1>a, <1>b, <1>1, <1>2, <1>3 DEF SortInv, FollowedInv, SortCall
<1>6. CASE ~Follows(t, fks[f]) \/ p \in visited
  <2>1. visiting' = s /\ visited' = visited
    BY <1>6 DEF FollowFK, Innermost, Visit
  <2>2. \A n \in 1..Len(s), i \in 1..Len(fks) :
          i < s[n].fk /\ Follows(s[n].table, fks[i]) => fks[i].referenced \in visited
    BY <1>3, <1>5, <1>6, <1>2
  <2> QED
    BY <1>a, <1>b, <1>2, <1>3, <1>4, <2>1, <2>2, CallsAdvance
<1>7. CASE Follows(t, fks[f]) /\ p \notin visited
  <2>1. visiting' = Append(s, [table |-> p, fk |-> 1]) /\ visited' = visited \cup {p}
    BY <1>7 DEF FollowFK, Innermost, Visit
  <2>2. \A n \in 1..Len(s), i \in 1..Len(fks) :
          i < s[n].fk /\ Follows(s[n].table, fks[i]) => fks[i].referenced \in visited \cup {p}
    BY <1>5
  <2>3. p \in Names /\ p \in Listed /\ p \in Parents(t)
    <3>1. fks[f] \in FKConstraint
      BY <1>a, <1>1
    <3> QED
      BY <1>7, <1>1, <3>1 DEF Follows, Parents, FKConstraint
  <2>4. \A n \in 1..Len(s) : p \in Ancestors(s[n].table)
    <3> SUFFICES ASSUME NEW n \in 1..L PROVE p \in Ancestors(visiting[n].table)
      BY <1>2, <1>3
    <3>1. CASE n = L
      BY <2>3, <3>1, ParentsAreAncestors
    <3>2. CASE n # L
      <4>1. t \in Ancestors(visiting[n].table)
        BY <3>2, <1>b DEF SortInv, NestedInv
      <4> QED
        BY <4>1, <2>3, ParentsAreAncestors
    <3> QED
      BY <3>1, <3>2
  <2> QED
    BY <1>a, <1>b, <1>2, <1>3, <1>4, <1>7, <2>1, <2>2, <2>3, <2>4, CallPushed
<1> QED
  BY <1>6, <1>7

(* A return of visit keeps it: each parent of the table is in the result   *)
(* by now, or is an open call and so refers back to the table.             *)
LEMMA AfterLeave ==
    ASSUME SortInv, LeaveTable
    PROVE  SortInv'
<1> DEFINE L == Len(visiting)
           t == visiting[L].table
           R == Len(result)
<1> USE DEF SortInv
<1>1. L \in Nat \ {0} /\ R \in Nat /\ visiting[L] \in SortCall
  BY DEF LeaveTable, SortTypeInv
<1>a. /\ visiting' \in Seq(SortCall) /\ Len(visiting') = L - 1
      /\ \A n \in 1..(L - 1) : visiting'[n] = visiting[n]
  <2>1. visiting' = SubSeq(visiting, 1, L - 1) /\ visiting \in Seq(SortCall)
    BY DEF LeaveTable, SortTypeInv
  <2> QED
    BY <1>1, <2>1, Popped
<1>b. /\ result' \in Seq(Names) /\ Len(result') = R + 1
      /\ result'[R + 1] = t /\ \A i \in 1..R : result'[i] = result[i]
  <2>1. result' = Append(result, t) /\ result \in Seq(Names) /\ t \in Names
    BY <1>1 DEF LeaveTable, SortTypeInv, Innermost, SortCall
  <2> HIDE DEF SortInv
  <2> QED
    BY <1>1, <2>1
<1>2. SortTypeInv'
  BY <1>1, <1>a, <1>b DEF SortTypeInv, LeaveTable
<1>3. Placed' = Placed \cup {t} /\ Open' = Open \ {t} /\ t \in Open
  BY <1>1, <1>a, <1>b DEF Placed, Open, OnceInv
<1>4. MarkInv'
  BY <1>3, SortInputsKept DEF MarkInv, LeaveTable
<1>5. OnceInv'
  <2>1. Placed' \cap Open' = {}
    BY <1>3 DEF OnceInv
  <2>2. t \notin Placed
    BY <1>3 DEF OnceInv
  <2>3. \A i, j \in 1..Len(result') : result'[i] = result'[j] => i = j
    BY <1>1, <1>b, <2>2 DEF OnceInv, Placed
  <2>4. \A m, n \in 1..Len(visiting') : visiting'[m].table = visiting'[n].table => m = n
    BY <1>1, <1>a DEF OnceInv
  <2> QED
    BY <2>1, <2>3, <2>4 DEF OnceInv
<1>6. FollowedInv'
  BY <1>1, <1>a, <1>b, SortInputsKept DEF FollowedInv, LeaveTable
<1>7. NestedInv'
  <2> SUFFICES ASSUME NEW m \in 1..Len(visiting'), NEW n \in 1..Len(visiting'), m < n
               PROVE  visiting'[n].table \in Ancestors(visiting'[m].table)
    BY SortInputsKept DEF NestedInv, LeaveTable
  <2>1. m \in 1..L /\ n \in 1..L /\ visiting'[n] = visiting[n] /\ visiting'[m] = visiting[m]
    BY <1>1, <1>a
  <2> QED
    BY <2>1, SortInputsKept DEF NestedInv, LeaveTable
<1>8. OrderInv'
  <2> SUFFICES ASSUME NEW j \in 1..Len(result'), NEW p \in Parents(result'[j]),
                      result'[j] \notin Ancestors(p)
               PROVE  \E i \in 1..(j - 1) : result'[i] = p
    BY SortInputsKept DEF OrderInv, LeaveTable
  <2>1. CASE j \in 1..R
    <3>1. \E i \in 1..(j - 1) : result[i] = p
      BY <2>1, <1>b DEF OrderInv
    <3> QED
      BY <3>1, <2>1, <1>1, <1>b
  <2>2. CASE j = R + 1
    <3>1. p \in visited /\ p # t
      <4>1. PICK i \in 1..Len(fks) : Follows(t, fks[i]) /\ p = fks[i].referenced
        BY <2>2, <1>b, FollowedAreParents
      <4>2. i < visiting[L].fk
        BY <4>1, <1>1 DEF LeaveTable, Innermost, SortCall, SortTypeInv
      <4> QED
        BY <4>1, <4>2, <1>1, <1>b, <2>2 DEF FollowedInv, Parents
    <3>2. p \notin Open
      <4> SUFFICES ASSUME NEW m \in 1..L, p = visiting[m].table PROVE FALSE
        BY DEF Open
      <4>1. m < L
        BY <3>1, <1>1
      <4> QED
        BY <4>1, <1>1, <1>b, <2>2 DEF NestedInv
    <3>3. PICK i \in 1..R : result[i] = p
      BY <3>1, <3>2 DEF MarkInv, Placed
    <3> QED
      BY <3>3, <2>2, <1>1, <1>b
  <2> QED
    BY <2>1, <2>2, <1>1, <1>b
<1> QED
  BY <1>2, <1>4, <1>5, <1>6, <1>7, <1>8

(* The invariant of sortTables.                                            *)
LEMMA SortInvariance == SortSpec => []SortInv
<1>1. SortInit => SortInv
  <2> SUFFICES ASSUME SortInit PROVE SortInv
    OBVIOUS
  <2>1. /\ fks \in Seq(FKConstraint) /\ tables \in Seq(Names) /\ next = 1
        /\ visiting = <<>> /\ visited = {} /\ result = <<>>
    BY DEF SortInit, SortStart
  <2>2. SortTypeInv
    BY <2>1 DEF SortTypeInv
  <2>3. Placed = {} /\ Open = {}
    BY <2>1 DEF Placed, Open
  <2> QED
    BY <2>1, <2>2, <2>3
       DEF SortInv, MarkInv, OnceInv, FollowedInv, NestedInv, OrderInv
<1>2. SortInv /\ [SortNext]_sortVars => SortInv'
  <2> SUFFICES ASSUME SortInv, [SortNext]_sortVars PROVE SortInv'
    OBVIOUS
  <2>1. CASE VisitNext
    BY <2>1, AfterNext
  <2>2. CASE FollowFK
    BY <2>2, AfterFollow
  <2>3. CASE LeaveTable
    BY <2>3, AfterLeave
  <2>4. CASE UNCHANGED sortVars
    <3>1. UNCHANGED <<fks, tables, visiting, visited, result>> /\ next' = next
      BY <2>4 DEF sortVars
    <3>2. /\ visiting \in Seq(SortCall)
          /\ \A n \in 1..Len(visiting), i \in 1..Len(fks) :
               i < visiting[n].fk /\ Follows(visiting[n].table, fks[i])
                   => fks[i].referenced \in visited
          /\ next \in 1..(Len(tables) + 1) /\ \A i \in 1..(next - 1) : tables[i] \in visited
      BY DEF SortInv, SortTypeInv, FollowedInv, MarkInv
    <3> QED
      BY <3>1, <3>2, CallsAdvance
  <2> QED
    BY <2>1, <2>2, <2>3, <2>4 DEF SortNext
<1> QED
  BY <1>1, <1>2, PTL DEF SortSpec

(* sortTables returns each table exactly once, for any tables and foreign  *)
(* keys (merge/engine.go:289).                                             *)
THEOREM OrderHasEachTable == SortSpec => []EachTableOnce
<1>1. SortInv => EachTableOnce
  <2> SUFFICES ASSUME SortInv, Sorted PROVE EachTableOnce
    BY DEF EachTableOnce
  <2>1. Open = {} /\ next = Len(tables) + 1 /\ Len(tables) \in Nat
    BY DEF Sorted, Open, SortInv, SortTypeInv
  <2>2. Placed = Listed
    BY <2>1 DEF SortInv, MarkInv, Listed
  <2> QED
    BY <2>2 DEF EachTableOnce, Placed, SortInv, OnceInv
<1> QED
  BY <1>1, SortInvariance, PTL

(* It returns a table after each table it refers to, unless the two refer  *)
(* to each other through a cycle.                                          *)
THEOREM OrderHasParentsFirst == SortSpec => []ParentsFirst
<1>1. SortInv => ParentsFirst
  BY DEF SortInv, OrderInv, ParentsFirst
<1> QED
  BY <1>1, SortInvariance, PTL

\* The tables can be numbered with each one after its parents.
Acyclic ==
    \E rank \in [Names -> Nat] : \A t \in Listed : \A p \in Parents(t) : rank[p] < rank[t]

(* Without cycles no table is replayed twice or before a table it refers to.*)
OrderIsTopological ==
    Sorted /\ Acyclic =>
        \A i, j \in 1..Len(result) :
            i < j => result[i] # result[j] /\ result[j] \notin Parents(result[i])

(* Along ranks no table is its own ancestor.                               *)
LEMMA RanksRise ==
    ASSUME SortTypeInv, NEW rank \in [Names -> Nat],
           \A t \in Listed : \A p \in Parents(t) : rank[p] < rank[t],
           NEW t \in Listed, NEW p \in Parents(t)
    PROVE  t \notin Ancestors(p)
<1> DEFINE S == {s \in Listed : rank[s] < rank[p]}
<1>1. Listed \subseteq Names
  BY DEF Listed, SortTypeInv
<1>2. p \in Listed /\ rank[p] < rank[t] /\ rank[p] \in Nat /\ rank[t] \in Nat
  BY <1>1 DEF Parents
<1>3. Parents(p) \subseteq S
  BY <1>2 DEF Parents
<1>4. ASSUME NEW s \in S PROVE Parents(s) \subseteq S
  <2> SUFFICES ASSUME NEW q \in Parents(s) PROVE q \in S
    OBVIOUS
  <2>1. q \in Listed /\ rank[q] < rank[s] /\ rank[s] < rank[p]
    BY DEF Parents
  <2> QED
    BY <2>1, <1>1, <1>2
<1>5. t \notin S
  BY <1>2
<1> QED
  BY <1>3, <1>4, <1>5 DEF Ancestors

(* Without cycles, self references aside, the result is a topological      *)
(* order: what BranchMerge assumes of its Order (OrderAssumption) and      *)
(* BranchMergeProofs of its foreign keys (OrderIsSorted).                  *)
THEOREM OrderIsTopologicallySorted == SortSpec => []OrderIsTopological
<1>1. SortInv => OrderIsTopological
  <2> SUFFICES ASSUME SortInv, Sorted, Acyclic,
                      NEW i \in 1..Len(result), NEW j \in 1..Len(result), i < j
               PROVE  result[i] # result[j] /\ result[j] \notin Parents(result[i])
    BY DEF OrderIsTopological
  <2>1. result[i] # result[j]
    BY DEF SortInv, OnceInv
  <2>2. ASSUME result[j] \in Parents(result[i]) PROVE FALSE
    <3>1. result[i] \in Listed
      BY DEF SortInv, MarkInv, Placed
    <3>2. PICK rank \in [Names -> Nat] :
                 \A t \in Listed : \A p \in Parents(t) : rank[p] < rank[t]
      BY DEF Acyclic
    <3>3. result[i] \notin Ancestors(result[j])
      BY <3>1, <3>2, <2>2, RanksRise DEF SortInv
    <3>4. PICK k \in 1..(i - 1) : result[k] = result[j]
      BY <2>2, <3>3 DEF SortInv, OrderInv
    <3> QED
      BY <3>4 DEF SortInv, OnceInv, SortTypeInv
  <2> QED
    BY <2>1, <2>2
<1> QED
  BY <1>1, SortInvariance, PTL

-----------------------------------------------------------------------------
(* BuildCascadeGraph: the inductive invariant.                             *)

GraphCall == [table : Names, fk : Nat \ {0}]
FKLists == Seq(1..Len(fks))

\* The type invariant.
GraphTypeInv ==
    /\ fks \in Seq(FKConstraint)
    /\ root \in Names
    /\ calls \in Seq(GraphCall)
    /\ nodes \in Seq(FKLists)

\* The open calls follow foreign keys from the root, through the tables of seen.
ChainInv ==
    /\ calls # <<>> => calls[1].table = root
    /\ \A n \in 1..(Len(calls) - 1) :
         /\ calls[n].fk \in 1..Len(fks)
         /\ fks[calls[n].fk].referenced = calls[n].table
         /\ fks[calls[n].fk].source = calls[n + 1].table
    /\ \A m, n \in 1..Len(calls) : calls[m].table = calls[n].table => m = n
    /\ seen = {calls[n].table : n \in 1..Len(calls)}

\* The loops of these calls have passed p.
Covered(list, p) ==
    \/ list = <<>>
    \/ \E m \in 1..Len(p) : /\ m <= Len(list)
                            /\ \A j \in 1..(m - 1) : p[j] = list[j].fk
                            /\ p[m] < list[m].fk
\* p goes on from the foreign keys that these calls are at.
Extends(p, list) == Len(p) >= Len(list) /\ \A j \in 1..Len(list) : p[j] = list[j].fk

\* The nodes are the paths that the loops have passed, once each.
NodesInv ==
    /\ \A n \in 1..Len(nodes) : IsPath(root, nodes[n]) /\ Covered(calls, nodes[n])
    /\ \A p \in FKLists :
         IsPath(root, p) /\ Covered(calls, p) => \E n \in 1..Len(nodes) : nodes[n] = p
    /\ \A m, n \in 1..Len(nodes) : nodes[m] = nodes[n] => m = n

GraphInv == GraphTypeInv /\ ChainInv /\ NodesInv

(* When the innermost loop moves on, it has passed the paths through the   *)
(* foreign key it leaves, and only these come in.                          *)
LEMMA CoveredPassed ==
    ASSUME NEW list \in Seq(GraphCall), list # <<>>, NEW p \in Seq(Nat)
    PROVE  /\ Covered(Passed(list), p) <=> Covered(list, p) \/ Extends(p, list)
           /\ Extends(p, list) => ~Covered(list, p)
<1> DEFINE L == Len(list)
           s == Passed(list)
<1>a. L \in Nat \ {0} /\ \A n \in 1..L : list[n] \in GraphCall
  OBVIOUS
<1>1. L \in Nat \ {0} /\ list[L] \in GraphCall /\ list[L].fk \in Nat
  BY <1>a DEF GraphCall
<1>2. /\ s \in Seq(GraphCall) /\ Len(s) = L
      /\ \A n \in 1..L : s[n] = IF n = L THEN [list[L] EXCEPT !.fk = @ + 1] ELSE list[n]
  BY <1>1 DEF Passed, GraphCall
<1>3. \A n \in 1..L : s[n].fk = IF n = L THEN list[L].fk + 1 ELSE list[n].fk
  BY <1>1, <1>2 DEF GraphCall
<1>4. s # <<>>
  BY <1>1, <1>2
<1>5. \A n \in 1..L : list[n].fk \in Nat
  BY <1>a DEF GraphCall
<1>6. \A n \in 1..Len(p) : p[n] \in Nat
  OBVIOUS
<1> HIDE DEF s
<1>7. Extends(p, list) => ~Covered(list, p)
  BY <1>1, <1>5, <1>6 DEF Covered, Extends
<1>8. ASSUME Covered(list, p) PROVE Covered(s, p)
  <2>1. PICK m \in 1..Len(p) : /\ m <= L
                               /\ \A j \in 1..(m - 1) : p[j] = list[j].fk
                               /\ p[m] < list[m].fk
    BY <1>8 DEF Covered
  <2>a. m \in 1..L /\ \A j \in 1..(m - 1) : j \in 1..L /\ j # L
    BY <2>1, <1>1
  <2>b. p[m] < s[m].fk
    BY <2>1, <2>a, <1>1, <1>3, <1>5, <1>6
  <2>2. p[m] < s[m].fk /\ \A j \in 1..(m - 1) : p[j] = s[j].fk
    BY <2>1, <2>a, <2>b, <1>3
  <2> QED
    BY <2>1, <2>2, <1>2 DEF Covered
<1>9. Extends(p, list) => Covered(s, p)
  <2> SUFFICES ASSUME Extends(p, list) PROVE Covered(s, p)
    OBVIOUS
  <2>1. L \in 1..Len(p) /\ L <= Len(s) /\ p[L] < s[L].fk
    BY <1>1, <1>2, <1>3 DEF Extends
  <2>2. \A j \in 1..(L - 1) : p[j] = s[j].fk
    BY <1>1, <1>3 DEF Extends
  <2> QED
    BY <2>1, <2>2 DEF Covered
<1>10. Covered(s, p) => Covered(list, p) \/ Extends(p, list)
  <2> SUFFICES ASSUME Covered(s, p) PROVE Covered(list, p) \/ Extends(p, list)
    OBVIOUS
  <2>1. PICK m \in 1..Len(p) : /\ m <= L
                               /\ \A j \in 1..(m - 1) : p[j] = s[j].fk
                               /\ p[m] < s[m].fk
    BY <1>2, <1>4 DEF Covered
  <2>a. m \in 1..L /\ \A j \in 1..(m - 1) : j \in 1..L /\ j # L
    BY <2>1, <1>1
  <2>2. \A j \in 1..(m - 1) : p[j] = list[j].fk
    BY <2>1, <2>a, <1>3
  <2>3. p[m] < list[m].fk \/ (m = L /\ p[m] = list[m].fk)
    BY <2>1, <1>1, <1>3, <1>5, <1>6
  <2> QED
    BY <2>1, <2>2, <2>3, <1>1 DEF Covered, Extends
<1> QED
  BY <1>7, <1>8, <1>9, <1>10 DEF s

(* A loop at its end has passed every path that goes on from its caller.   *)
LEMMA CoveredPopped ==
    ASSUME NEW list \in Seq(GraphCall), NEW shorter \in Seq(GraphCall),
           list # <<>>, shorter # <<>>, Len(list) = Len(shorter) + 1,
           \A n \in 1..Len(shorter) : shorter[n] = list[n],
           NEW p \in Seq(Nat), \A n \in 1..Len(p) : p[n] < list[Len(list)].fk
    PROVE  Covered(list, p) <=>
              \/ Covered(shorter, p)
              \/ Extends(p, shorter) /\ Len(p) # Len(shorter)
<1> DEFINE L == Len(shorter)
<1>1. L \in Nat \ {0} /\ Len(p) \in Nat
  OBVIOUS
<1>2. ASSUME Covered(shorter, p) PROVE Covered(list, p)
  <2>1. PICK m \in 1..Len(p) : /\ m <= L
                               /\ \A j \in 1..(m - 1) : p[j] = shorter[j].fk
                               /\ p[m] < shorter[m].fk
    BY <1>2 DEF Covered
  <2>a. m \in 1..L /\ m <= Len(list) /\ \A j \in 1..(m - 1) : j \in 1..L
    BY <2>1, <1>1
  <2>2. m <= Len(list) /\ p[m] < list[m].fk /\ \A j \in 1..(m - 1) : p[j] = list[j].fk
    BY <2>1, <2>a
  <2> QED
    BY <2>1, <2>2 DEF Covered
<1>3. Extends(p, shorter) /\ Len(p) # L => Covered(list, p)
  <2> SUFFICES ASSUME Extends(p, shorter), Len(p) # L PROVE Covered(list, p)
    OBVIOUS
  <2>1. L + 1 \in 1..Len(p) /\ p[L + 1] < list[L + 1].fk
    BY <1>1 DEF Extends
  <2> QED
    BY <1>1, <2>1 DEF Covered, Extends
<1>4. ASSUME Covered(list, p) PROVE Covered(shorter, p) \/ (Extends(p, shorter) /\ Len(p) # L)
  <2>1. PICK m \in 1..Len(p) : /\ m <= L + 1
                               /\ \A j \in 1..(m - 1) : p[j] = list[j].fk
                               /\ p[m] < list[m].fk
    BY <1>4 DEF Covered
  <2>2. CASE m <= L
    <3>a. m \in 1..L /\ \A j \in 1..(m - 1) : j \in 1..L
      BY <1>1, <2>2
    <3>1. p[m] < shorter[m].fk /\ \A j \in 1..(m - 1) : p[j] = shorter[j].fk
      BY <3>a, <2>1
    <3> QED
      BY <2>2, <3>1 DEF Covered
  <2>3. CASE m = L + 1
    BY <1>1, <2>1, <2>3 DEF Extends
  <2> QED
    BY <1>1, <2>1, <2>2, <2>3
<1> QED
  BY <1>2, <1>3, <1>4

(* A new loop has passed nothing yet.                                      *)
LEMMA CoveredPushed ==
    ASSUME NEW list \in Seq(GraphCall), list # <<>>, NEW p \in Seq(Nat \ {0}), NEW t \in Names
    PROVE  Covered(Append(list, [table |-> t, fk |-> 1]), p) <=> Covered(list, p)
<1> DEFINE L == Len(list)
           s == Append(list, [table |-> t, fk |-> 1])
<1>1. /\ L \in Nat \ {0} /\ Len(s) = L + 1 /\ s # <<>>
      /\ \A n \in 1..L : s[n] = list[n]
      /\ s[L + 1].fk = 1
  OBVIOUS
<1> HIDE DEF s
<1>2. ASSUME Covered(list, p) PROVE Covered(s, p)
  <2>1. PICK m \in 1..Len(p) : /\ m <= L
                               /\ \A j \in 1..(m - 1) : p[j] = list[j].fk
                               /\ p[m] < list[m].fk
    BY <1>2 DEF Covered
  <2>a. m \in 1..L /\ m <= Len(s) /\ \A j \in 1..(m - 1) : j \in 1..L
    BY <2>1, <1>1
  <2>2. m <= Len(s) /\ p[m] < s[m].fk /\ \A j \in 1..(m - 1) : p[j] = s[j].fk
    BY <2>1, <2>a, <1>1
  <2> QED
    BY <2>1, <2>2 DEF Covered
<1>3. ASSUME Covered(s, p) PROVE Covered(list, p)
  <2>1. PICK m \in 1..Len(p) : /\ m <= L + 1
                               /\ \A j \in 1..(m - 1) : p[j] = s[j].fk
                               /\ p[m] < s[m].fk
    BY <1>1, <1>3 DEF Covered
  <2>2. m # L + 1
    BY <1>1, <2>1
  <2>a. m \in 1..L /\ \A j \in 1..(m - 1) : j \in 1..L
    BY <2>1, <2>2, <1>1
  <2>3. m <= L /\ p[m] < list[m].fk /\ \A j \in 1..(m - 1) : p[j] = list[j].fk
    BY <2>1, <2>a, <1>1
  <2> QED
    BY <2>1, <2>3 DEF Covered
<1> QED
  BY <1>2, <1>3 DEF s

(* The helper leaves the foreign keys alone, and what a path is.           *)
LEMMA GraphInputsKept ==
    ASSUME UNCHANGED fks
    PROVE  /\ FKLists' = FKLists
           /\ \A t, p : IsPath(t, p)' = IsPath(t, p)
BY DEF FKLists, IsPath, TableAt

(* A step that appends the node of the one path it passes keeps NodesInv.  *)
LEMMA NodeAdded ==
    ASSUME GraphTypeInv, NodesInv, UNCHANGED <<fks, root>>,
           NEW q \in FKLists, IsPath(root, q), ~Covered(calls, q),
           nodes' = Append(nodes, q),
           \A p \in FKLists :
               IsPath(root, p) => (Covered(calls', p) <=> Covered(calls, p) \/ p = q)
    PROVE  nodes' \in Seq(FKLists) /\ NodesInv'
<1> DEFINE N == Len(nodes)
<1>1. /\ N \in Nat /\ nodes' \in Seq(FKLists) /\ Len(nodes') = N + 1 /\ nodes'[N + 1] = q
      /\ \A n \in 1..N : nodes'[n] = nodes[n] /\ nodes[n] \in FKLists
  BY AppendProperties DEF GraphTypeInv
<1>2. \A n \in 1..Len(nodes') : IsPath(root, nodes'[n]) /\ Covered(calls', nodes'[n])
  BY <1>1 DEF NodesInv
<1>3. \A p \in FKLists :
         IsPath(root, p) /\ Covered(calls', p) => \E n \in 1..Len(nodes') : nodes'[n] = p
  BY <1>1 DEF NodesInv
<1>4. \A m, n \in 1..Len(nodes') : nodes'[m] = nodes'[n] => m = n
  BY <1>1 DEF NodesInv
<1> QED
  BY <1>1, <1>2, <1>3, <1>4, GraphInputsKept DEF NodesInv

(* So does a step that passes no path and appends no node.                 *)
LEMMA NoNodeAdded ==
    ASSUME GraphTypeInv, NodesInv, UNCHANGED <<fks, root, nodes>>,
           \A p \in FKLists : IsPath(root, p) => (Covered(calls', p) <=> Covered(calls, p))
    PROVE  nodes' \in Seq(FKLists) /\ NodesInv'
<1>1. \A n \in 1..Len(nodes) : nodes[n] \in FKLists
  BY DEF GraphTypeInv
<1> QED
  BY <1>1, GraphInputsKept DEF NodesInv, GraphTypeInv

(* The foreign keys of the open calls make a path from the root.           *)
LEMMA CallsArePath ==
    ASSUME GraphTypeInv, ChainInv, NEW k \in 1..Len(calls),
           calls[k].fk \in 1..Len(fks), fks[calls[k].fk].referenced = calls[k].table
    PROVE  LET q == [n \in 1..k |-> calls[n].fk]
           IN  q \in FKLists /\ Len(q) = k /\ IsPath(root, q)
<1> DEFINE q == [n \in 1..k |-> calls[n].fk]
<1>1. Len(calls) \in Nat /\ k \in Nat \ {0}
  BY DEF GraphTypeInv
<1>2. \A n \in 1..k : q[n] \in 1..Len(fks) /\ fks[q[n]].referenced = calls[n].table
  BY <1>1 DEF ChainInv
<1>3. q \in FKLists /\ Len(q) = k
  BY <1>1, <1>2 DEF FKLists
<1>4. \A n \in 0..(k - 1) : TableAt(root, q, n) = calls[n + 1].table
  BY <1>1 DEF TableAt, ChainInv
<1>5. q # <<>>
  BY <1>1, <1>3
<1> HIDE DEF q
<1>6. \A n \in 1..k : fks[q[n]].referenced = TableAt(root, q, n - 1)
  <2> SUFFICES ASSUME NEW n \in 1..k PROVE fks[q[n]].referenced = TableAt(root, q, n - 1)
    OBVIOUS
  <2>1. n - 1 \in 0..(k - 1) /\ (n - 1) + 1 = n
    BY <1>1
  <2> QED
    BY <2>1, <1>2, <1>4
<1>7. \A m, n \in 0..(k - 1) : m # n => TableAt(root, q, m) # TableAt(root, q, n)
  <2> SUFFICES ASSUME NEW m \in 0..(k - 1), NEW n \in 0..(k - 1), m # n
               PROVE  TableAt(root, q, m) # TableAt(root, q, n)
    OBVIOUS
  <2>1. m + 1 \in 1..Len(calls) /\ n + 1 \in 1..Len(calls) /\ m + 1 # n + 1
    BY <1>1
  <2> QED
    BY <2>1, <1>4 DEF ChainInv
<1> QED
  BY <1>3, <1>5, <1>6, <1>7 DEF IsPath, q

(* A path that goes on from the open calls passes through their tables.    *)
LEMMA TablesOfExtension ==
    ASSUME GraphTypeInv, ChainInv, calls # <<>>, NEW p, Extends(p, calls)
    PROVE  \A n \in 0..(Len(calls) - 1) : TableAt(root, p, n) = calls[n + 1].table
<1>1. Len(calls) \in Nat \ {0}
  BY DEF GraphTypeInv
<1> SUFFICES ASSUME NEW n \in 0..(Len(calls) - 1)
             PROVE  TableAt(root, p, n) = calls[n + 1].table
  OBVIOUS
<1>2. CASE n = 0
  BY <1>2 DEF TableAt, ChainInv
<1>3. CASE n # 0
  <2>1. n \in 1..(Len(calls) - 1) /\ n \in 1..Len(calls)
    BY <1>1, <1>3
  <2> QED
    BY <1>3, <2>1 DEF TableAt, ChainInv, Extends
<1> QED
  BY <1>2, <1>3

(* A list of foreign keys is one of their positions.                       *)
LEMMA ListsAreNumbers ==
    ASSUME NEW p \in FKLists
    PROVE  p \in Seq(Nat) /\ p \in Seq(Nat \ {0}) /\ \A n \in 1..Len(p) : p[n] <= Len(fks)
BY DEF FKLists

(* What moving the innermost loop on does to the calls.                    *)
LEMMA PassedCalls ==
    ASSUME NEW list \in Seq(GraphCall), list # <<>>
    PROVE  /\ Passed(list) \in Seq(GraphCall) /\ Len(Passed(list)) = Len(list)
           /\ Passed(list) # <<>>
           /\ \A n \in 1..Len(list) : /\ Passed(list)[n].table = list[n].table
                                      /\ n # Len(list) => Passed(list)[n].fk = list[n].fk
<1> DEFINE L == Len(list)
           s == Passed(list)
<1>1. L \in Nat \ {0} /\ \A n \in 1..L : list[n] \in GraphCall
  OBVIOUS
<1>2. /\ s \in Seq(GraphCall) /\ Len(s) = L
      /\ \A n \in 1..L : s[n] = IF n = L THEN [list[L] EXCEPT !.fk = @ + 1] ELSE list[n]
  BY <1>1 DEF Passed, GraphCall
<1> HIDE DEF s
<1>3. s # <<>>
  BY <1>1, <1>2
<1>4. \A n \in 1..L : s[n].table = list[n].table /\ (n # L => s[n].fk = list[n].fk)
  BY <1>1, <1>2 DEF GraphCall
<1> QED
  BY <1>2, <1>3, <1>4 DEF s

(* ChainInv, for the calls after a step.                                   *)
LEMMA ChainBecomes ==
    ASSUME NEW s, s # <<>> => s[1].table = root,
           \A n \in 1..(Len(s) - 1) : /\ s[n].fk \in 1..Len(fks)
                                     /\ fks[s[n].fk].referenced = s[n].table
                                     /\ fks[s[n].fk].source = s[n + 1].table,
           \A m, n \in 1..Len(s) : s[m].table = s[n].table => m = n,
           calls' = s, UNCHANGED <<fks, root>>, seen' = {s[n].table : n \in 1..Len(s)}
    PROVE  ChainInv'
BY DEF ChainInv

(* ChainInv stays when the innermost loop moves on.                        *)
LEMMA ChainPassed ==
    ASSUME ChainInv, GraphTypeInv, calls # <<>>, UNCHANGED <<fks, root, seen>>,
           NEW s \in Seq(GraphCall), Len(s) = Len(calls),
           \A n \in 1..Len(calls) : /\ s[n].table = calls[n].table
                                    /\ n # Len(calls) => s[n].fk = calls[n].fk,
           calls' = s
    PROVE  ChainInv'
<1> DEFINE L == Len(calls)
<1>1. L \in Nat \ {0}
  BY DEF GraphTypeInv
<1>2. s[1].table = root
  BY <1>1 DEF ChainInv
<1>3. \A n \in 1..(Len(s) - 1) : /\ s[n].fk \in 1..Len(fks)
                                 /\ fks[s[n].fk].referenced = s[n].table
                                 /\ fks[s[n].fk].source = s[n + 1].table
  <2> SUFFICES ASSUME NEW n \in 1..(L - 1)
               PROVE  /\ s[n].fk \in 1..Len(fks)
                      /\ fks[s[n].fk].referenced = s[n].table
                      /\ fks[s[n].fk].source = s[n + 1].table
    OBVIOUS
  <2>1. n \in 1..L /\ n + 1 \in 1..L /\ n # L
    BY <1>1
  <2>2. s[n].fk = calls[n].fk /\ s[n].table = calls[n].table /\ s[n + 1].table = calls[n + 1].table
    BY <2>1
  <2> QED
    BY <2>2 DEF ChainInv
<1>4. \A m, n \in 1..Len(s) : s[m].table = s[n].table => m = n
  BY DEF ChainInv
<1>5. seen' = {s[n].table : n \in 1..Len(s)}
  BY DEF ChainInv
<1>6. calls' = s /\ UNCHANGED <<fks, root>>
  OBVIOUS
<1> HIDE DEF L
<1> QED
  BY ONLY <1>2, <1>3, <1>4, <1>5, <1>6, ChainBecomes

(* A foreign key that the query does not return is on no path from here.   *)
LEMMA AfterSkip ==
    ASSUME GraphInv, SkipFK
    PROVE  GraphInv'
<1> DEFINE L == Len(calls)
           s == Passed(calls)
<1> USE DEF GraphInv
<1>1. /\ L \in Nat \ {0} /\ calls # <<>> /\ calls \in Seq(GraphCall)
      /\ \A n \in 1..L : calls[n] \in GraphCall
  BY DEF GraphTypeInv, SkipFK
<1>2. /\ s \in Seq(GraphCall) /\ Len(s) = L /\ s # <<>>
      /\ \A n \in 1..L : /\ s[n].table = calls[n].table
                         /\ n # L => s[n].fk = calls[n].fk
  BY <1>1, PassedCalls
<1>3. calls' = s /\ UNCHANGED <<fks, root, seen, nodes>>
  BY DEF SkipFK
<1>4. ChainInv'
  BY <1>1, <1>2, <1>3, ChainPassed
<1>5. \A p \in FKLists : IsPath(root, p) => (Covered(calls', p) <=> Covered(calls, p))
  <2> SUFFICES ASSUME NEW p \in FKLists, IsPath(root, p), Extends(p, calls) PROVE FALSE
    BY <1>1, <1>3, CoveredPassed, ListsAreNumbers
  <2>1. L - 1 \in 0..(L - 1) /\ (L - 1) + 1 = L /\ L \in 1..Len(p)
    BY <1>1 DEF Extends, FKLists
  <2>2. TableAt(root, p, L - 1) = calls[L].table
    BY <1>1, <2>1, TablesOfExtension
  <2>3. fks[p[L]].referenced = TableAt(root, p, L - 1)
    BY <2>1 DEF IsPath
  <2>4. p[L] = calls[L].fk
    BY <2>1, <1>1 DEF Extends
  <2> QED
    BY <2>2, <2>3, <2>4 DEF SkipFK, Call
<1>6. nodes' \in Seq(FKLists) /\ NodesInv'
  BY <1>3, <1>5, NoNodeAdded
<1>7. GraphTypeInv'
  BY <1>2, <1>3, <1>6, GraphInputsKept DEF GraphTypeInv
<1> QED
  BY <1>4, <1>6, <1>7

(* A foreign key of a table in the visited map ends the path.              *)
LEMMA AfterMeet ==
    ASSUME GraphInv, MeetAgain
    PROVE  GraphInv'
<1> DEFINE L == Len(calls)
           s == Passed(calls)
           q == NodeAt(calls)
<1> USE DEF GraphInv
<1>1. /\ L \in Nat \ {0} /\ calls # <<>> /\ calls \in Seq(GraphCall)
      /\ \A n \in 1..L : calls[n] \in GraphCall
  BY DEF GraphTypeInv, MeetAgain
<1>2. /\ s \in Seq(GraphCall) /\ Len(s) = L /\ s # <<>>
      /\ \A n \in 1..L : /\ s[n].table = calls[n].table
                         /\ n # L => s[n].fk = calls[n].fk
  BY <1>1, PassedCalls
<1>3. calls' = s /\ nodes' = Append(nodes, q) /\ UNCHANGED <<fks, root, seen>>
  BY DEF MeetAgain
<1>4. ChainInv'
  BY <1>1, <1>2, <1>3, ChainPassed
<1>a. calls[L].fk \in 1..Len(fks) /\ fks[calls[L].fk].referenced = calls[L].table
  BY <1>1 DEF MeetAgain, Call, GraphCall, GraphTypeInv
<1>b. q \in FKLists /\ Len(q) = L /\ IsPath(root, q)
  BY <1>1, <1>a, CallsArePath DEF NodeAt
<1>c. Extends(q, calls)
  BY <1>b, <1>1 DEF Extends, NodeAt
<1>d. ~Covered(calls, q)
  BY <1>1, <1>b, <1>c, CoveredPassed, ListsAreNumbers
<1>5. \A p \in FKLists : IsPath(root, p) => (Covered(calls', p) <=> Covered(calls, p) \/ p = q)
  <2> SUFFICES ASSUME NEW p \in FKLists, IsPath(root, p), Extends(p, calls) PROVE p = q
    BY <1>1, <1>3, <1>c, CoveredPassed, ListsAreNumbers
  <2>1. L \in 1..Len(p) /\ Len(p) \in Nat
    BY <1>1 DEF Extends, FKLists
  <2>2. PICK j \in 1..L : calls[j].table = fks[calls[L].fk].source
    BY <1>1 DEF MeetAgain, Call, ChainInv
  <2>3. ASSUME Len(p) # L PROVE FALSE
    <3>1. L \in 0..(Len(p) - 1) /\ j - 1 \in 0..(Len(p) - 1) /\ j - 1 # L
          /\ j - 1 \in 0..(L - 1) /\ (j - 1) + 1 = j /\ L # 0
      BY <1>1, <2>1, <2>3
    <3>2. TableAt(root, p, j - 1) = calls[j].table
      BY <1>1, <3>1, TablesOfExtension
    <3>3. TableAt(root, p, L) = fks[calls[L].fk].source
      BY <1>1, <3>1 DEF TableAt, Extends
    <3> QED
      BY <2>2, <3>1, <3>2, <3>3 DEF IsPath
  <2> QED
    BY <2>1, <2>3, <1>b, <1>1, SeqEqual DEF Extends, NodeAt, FKLists
<1>6. nodes' \in Seq(FKLists) /\ NodesInv'
  BY <1>3, <1>5, <1>b, <1>d, NodeAdded
<1>7. GraphTypeInv'
  BY <1>2, <1>3, <1>6, GraphInputsKept DEF GraphTypeInv
<1> QED
  BY <1>4, <1>6, <1>7

(* A call of the helper keeps the invariant.                               *)
LEMMA AfterDescend ==
    ASSUME GraphInv, Descend
    PROVE  GraphInv'
<1> DEFINE L == Len(calls)
           t == fks[calls[L].fk].source
           s == Append(calls, [table |-> t, fk |-> 1])
<1> USE DEF GraphInv
<1>1. /\ L \in Nat \ {0} /\ calls # <<>> /\ calls \in Seq(GraphCall)
      /\ \A n \in 1..L : calls[n] \in GraphCall
  BY DEF GraphTypeInv, Descend
<1>a. calls[L].fk \in 1..Len(fks) /\ fks[calls[L].fk].referenced = calls[L].table
  <2>1. calls[L].fk \in Nat \ {0} /\ Len(fks) \in Nat
    BY <1>1 DEF GraphCall, GraphTypeInv
  <2> QED
    BY <2>1 DEF Descend, Call
<1>b. t \in Names /\ t \notin seen
  <2>1. fks[calls[L].fk] \in FKConstraint
    BY <1>a DEF GraphTypeInv
  <2> QED
    BY <2>1 DEF FKConstraint, Descend, Call
<1>3. calls' = s /\ seen' = seen \cup {t} /\ UNCHANGED <<fks, root, nodes>>
  BY DEF Descend, Call
<1>2. /\ s \in Seq(GraphCall) /\ Len(s) = L + 1 /\ s # <<>>
      /\ \A n \in 1..L : s[n] = calls[n]
      /\ s[L + 1].table = t
  <2>1. [table |-> t, fk |-> 1] \in GraphCall
    BY <1>b DEF GraphCall
  <2>2. /\ s \in Seq(GraphCall) /\ Len(s) = L + 1
        /\ \A n \in 1..L : s[n] = calls[n]
        /\ s[L + 1] = [table |-> t, fk |-> 1]
    BY <2>1, <1>1, AppendProperties
  <2> QED
    BY <2>2, <1>1
<1> HIDE DEF s
<1>4. ChainInv'
  <2>1. s[1].table = root
    BY <1>1, <1>2 DEF ChainInv
  <2>2. \A n \in 1..(Len(s) - 1) : /\ s[n].fk \in 1..Len(fks)
                                   /\ fks[s[n].fk].referenced = s[n].table
                                   /\ fks[s[n].fk].source = s[n + 1].table
    <3> SUFFICES ASSUME NEW n \in 1..L
                 PROVE  /\ s[n].fk \in 1..Len(fks)
                        /\ fks[s[n].fk].referenced = s[n].table
                        /\ fks[s[n].fk].source = s[n + 1].table
      BY <1>1, <1>2
    <3>1. CASE n = L
      BY <3>1, <1>1, <1>2, <1>a
    <3>2. CASE n # L
      <4>1. n \in 1..(L - 1) /\ n + 1 \in 1..L
        BY <3>2, <1>1
      <4> QED
        BY <4>1, <1>2 DEF ChainInv
    <3> QED
      BY <3>1, <3>2
  <2>3. \A n \in 1..L : calls[n].table # t
    BY <1>b DEF ChainInv
  <2>4. \A m, n \in 1..Len(s) : s[m].table = s[n].table => m = n
    BY <2>3, <1>1, <1>2 DEF ChainInv
  <2>5. {s[n].table : n \in 1..Len(s)} = seen \cup {t}
    <3>1. \A n \in 1..Len(s) : s[n].table \in seen \cup {t}
      BY <1>1, <1>2 DEF ChainInv
    <3>2. \A x \in seen : \E n \in 1..Len(s) : s[n].table = x
      BY <1>1, <1>2 DEF ChainInv
    <3> QED
      BY <3>1, <3>2, <1>1, <1>2
  <2> QED
    BY <2>1, <2>2, <2>4, <2>5, <1>3, ChainBecomes
<1>5. \A p \in FKLists : IsPath(root, p) => (Covered(calls', p) <=> Covered(calls, p))
  BY <1>1, <1>3, <1>b, CoveredPushed, ListsAreNumbers DEF s
<1>6. nodes' \in Seq(FKLists) /\ NodesInv'
  BY <1>3, <1>5, NoNodeAdded
<1>7. GraphTypeInv'
  BY <1>2, <1>3, <1>6, GraphInputsKept DEF GraphTypeInv
<1> QED
  BY <1>4, <1>6, <1>7

(* A return keeps it: the paths beyond the caller's foreign key are all    *)
(* nodes, and the path that ends there becomes one.                        *)
LEMMA AfterReturn ==
    ASSUME GraphInv, Return
    PROVE  GraphInv'
<1> DEFINE L == Len(calls)
           callers == SubSeq(calls, 1, L - 1)
           K == Len(callers)
           s == Passed(callers)
           q == NodeAt(callers)
<1> USE DEF GraphInv
<1>1. /\ L \in Nat \ {0} /\ calls # <<>> /\ calls \in Seq(GraphCall)
      /\ \A n \in 1..L : calls[n] \in GraphCall
  BY DEF GraphTypeInv, Return
<1>2. callers \in Seq(GraphCall) /\ K = L - 1 /\ \A n \in 1..K : callers[n] = calls[n]
  BY <1>1, Popped
<1>3. UNCHANGED <<fks, root>> /\ seen' = seen \ {calls[L].table} /\ calls[L].fk > Len(fks)
  BY DEF Return, Leave, Call
<1>a. \A p \in FKLists : \A n \in 1..Len(p) : p[n] \in Nat /\ p[n] < calls[L].fk
  <2>1. calls[L].fk \in Nat /\ Len(fks) \in Nat
    BY <1>1 DEF GraphCall, GraphTypeInv
  <2>2. \A p \in FKLists : \A n \in 1..Len(p) : p[n] \in 1..Len(fks)
    BY DEF FKLists
  <2> QED
    BY <2>1, <2>2, <1>3
<1>4. CASE callers = <<>>
  <2>1. L = 1 /\ calls' = <<>> /\ UNCHANGED nodes
    <3>1. K = 0
      <4> HIDE DEF callers
      <4> QED
        BY <1>4
    <3>2. L = 1
      BY <3>1, <1>1, <1>2
    <3>3. calls' = <<>> /\ UNCHANGED nodes
      BY <1>4 DEF Return
    <3> QED
      BY <3>2, <3>3
  <2>2. seen' = {} /\ Len(calls') = 0
    BY <1>3, <2>1 DEF ChainInv
  <2>3. ChainInv'
    BY <2>1, <2>2 DEF ChainInv
  <2>4. \A p \in FKLists : IsPath(root, p) => (Covered(calls', p) <=> Covered(calls, p))
    <3> SUFFICES ASSUME NEW p \in FKLists, IsPath(root, p) PROVE Covered(calls, p)
      BY <2>1 DEF Covered
    <3>1. 1 \in 1..Len(p)
      BY DEF IsPath, FKLists
    <3> QED
      BY <3>1, <1>1, <1>a, <2>1 DEF Covered
  <2>5. nodes' \in Seq(FKLists) /\ NodesInv'
    BY <1>3, <2>1, <2>4, NoNodeAdded
  <2>6. GraphTypeInv'
    BY <1>3, <2>1, <2>5, GraphInputsKept DEF GraphTypeInv
  <2> QED
    BY <2>3, <2>5, <2>6
<1>5. CASE callers # <<>>
  <2>1. calls' = s /\ nodes' = Append(nodes, q)
    BY <1>5 DEF Return
  <2>2. K \in Nat \ {0} /\ K \in 1..L /\ K = L - 1
    BY <1>1, <1>2, <1>5
  <2>3. /\ s \in Seq(GraphCall) /\ Len(s) = K /\ s # <<>>
        /\ \A n \in 1..K : s[n].table = calls[n].table
        /\ \A n \in 1..K : n # K => s[n].fk = calls[n].fk
    <3>1. /\ s \in Seq(GraphCall) /\ Len(s) = K /\ s # <<>>
          /\ \A n \in 1..K : s[n].table = callers[n].table
          /\ \A n \in 1..K : n # K => s[n].fk = callers[n].fk
      BY <1>2, <1>5, PassedCalls
    <3> QED
      BY <3>1, <1>2
  <2>4. ChainInv'
    <3> HIDE DEF s, K
    <3>1. s[1].table = root
      BY <1>1, <2>2, <2>3 DEF ChainInv
    <3>2. \A n \in 1..(Len(s) - 1) : /\ s[n].fk \in 1..Len(fks)
                                     /\ fks[s[n].fk].referenced = s[n].table
                                     /\ fks[s[n].fk].source = s[n + 1].table
      <4> SUFFICES ASSUME NEW n \in 1..(K - 1)
                   PROVE  /\ s[n].fk \in 1..Len(fks)
                          /\ fks[s[n].fk].referenced = s[n].table
                          /\ fks[s[n].fk].source = s[n + 1].table
        BY <2>3
      <4>1. n \in 1..K /\ n + 1 \in 1..K /\ n # K /\ n \in 1..(L - 1)
        BY <2>2
      <4>2. /\ s[n].fk = calls[n].fk /\ s[n].table = calls[n].table
            /\ s[n + 1].table = calls[n + 1].table
        BY <4>1, <2>3
      <4> QED
        BY <4>1, <4>2 DEF ChainInv
    <3>3. \A m, n \in 1..Len(s) : s[m].table = s[n].table => m = n
      <4> SUFFICES ASSUME NEW m \in 1..K, NEW n \in 1..K, s[m].table = s[n].table PROVE m = n
        BY <2>3
      <4>1. m \in 1..L /\ n \in 1..L
        BY <1>1, <2>2
      <4> QED
        BY <4>1, <2>3 DEF ChainInv
    <3>4. seen' = {s[n].table : n \in 1..Len(s)}
      <4>1. \A n \in 1..K : s[n].table \in seen /\ s[n].table # calls[L].table
        BY <1>1, <2>2, <2>3 DEF ChainInv
      <4>2. ASSUME NEW x \in seen, x # calls[L].table PROVE \E n \in 1..K : s[n].table = x
        <5>1. PICK n \in 1..L : calls[n].table = x
          BY DEF ChainInv
        <5>2. n \in 1..K
          BY <4>2, <5>1, <1>1, <2>2
        <5> QED
          BY <5>1, <5>2, <2>3
      <4>3. seen \ {calls[L].table} = {s[n].table : n \in 1..K}
        BY <4>1, <4>2
      <4> QED
        BY <4>3, <1>3, <2>3
    <3> QED
      BY <3>1, <3>2, <3>3, <3>4, <1>3, <2>1, ChainBecomes
  <2>5. calls[K].fk \in 1..Len(fks) /\ fks[calls[K].fk].referenced = calls[K].table
    BY <1>1, <2>2 DEF ChainInv
  <2>6. q = [n \in 1..K |-> calls[n].fk]
    BY <1>2 DEF NodeAt
  <2>7. q \in FKLists /\ Len(q) = K /\ IsPath(root, q)
    BY <2>2, <2>5, <2>6, CallsArePath
  <2>8. Extends(q, callers)
    BY <2>2, <2>7 DEF Extends, NodeAt
  <2>9. ASSUME NEW p \in FKLists
        PROVE  /\ Covered(s, p) <=> Covered(callers, p) \/ Extends(p, callers)
               /\ Extends(p, callers) => ~Covered(callers, p)
               /\ Covered(calls, p) <=>
                     Covered(callers, p) \/ (Extends(p, callers) /\ Len(p) # K)
    <3>1. p \in Seq(Nat)
      BY ListsAreNumbers
    <3>2. /\ Covered(s, p) <=> Covered(callers, p) \/ Extends(p, callers)
          /\ Extends(p, callers) => ~Covered(callers, p)
      BY <1>2, <1>5, <3>1, CoveredPassed
    <3>3. Covered(calls, p) <=>
             Covered(callers, p) \/ (Extends(p, callers) /\ Len(p) # K)
      <4>1. /\ calls # <<>> /\ Len(calls) = K + 1 /\ callers # <<>>
            /\ \A n \in 1..Len(p) : p[n] < calls[Len(calls)].fk
            /\ \A n \in 1..K : callers[n] = calls[n]
        BY <1>1, <1>2, <1>5, <1>a, <2>2
      <4> HIDE DEF callers, GraphInv
      <4> QED
        BY <1>1, <1>2, <3>1, <4>1, CoveredPopped
    <3> QED
      BY <3>2, <3>3
  <2>10. \A p \in FKLists : Extends(p, callers) /\ Len(p) = K => p = q
    <3> SUFFICES ASSUME NEW p \in FKLists, Extends(p, callers), Len(p) = K PROVE p = q
      OBVIOUS
    <3>1. \A n \in 1..K : p[n] = q[n]
      BY DEF Extends, NodeAt
    <3> QED
      BY <3>1, <2>7, SeqEqual DEF FKLists
  <2>11. \A p \in FKLists :
           IsPath(root, p) => (Covered(calls', p) <=> Covered(calls, p) \/ p = q)
    BY <2>1, <2>7, <2>8, <2>9, <2>10
  <2>12. ~Covered(calls, q)
    BY <2>7, <2>8, <2>9
  <2>13. nodes' \in Seq(FKLists) /\ NodesInv'
    BY <1>3, <2>1, <2>7, <2>11, <2>12, NodeAdded
  <2>14. GraphTypeInv'
    BY <1>3, <2>1, <2>3, <2>13, GraphInputsKept DEF GraphTypeInv
  <2> QED
    BY <2>4, <2>13, <2>14
<1> QED
  BY <1>4, <1>5

(* The invariant of BuildCascadeGraph.                                     *)
LEMMA GraphInvariance == GraphSpec => []GraphInv
<1>1. GraphInit => GraphInv
  <2> SUFFICES ASSUME GraphInit PROVE GraphInv
    OBVIOUS
  <2>1. /\ fks \in Seq(FKConstraint) /\ root \in Names /\ seen = {root} /\ nodes = <<>>
        /\ calls = <<[table |-> root, fk |-> 1]>>
    BY DEF GraphInit, GraphStart
  <2>2. [table |-> root, fk |-> 1] \in GraphCall
    BY <2>1 DEF GraphCall
  <2>3. /\ calls \in Seq(GraphCall) /\ Len(calls) = 1
        /\ calls[1].table = root /\ calls[1].fk = 1 /\ calls # <<>>
    BY <2>1, <2>2
  <2>4. GraphTypeInv
    BY <2>1, <2>3 DEF GraphTypeInv
  <2>5. ChainInv
    BY <2>1, <2>3 DEF ChainInv
  <2>6. \A p \in FKLists : ~Covered(calls, p)
    BY <2>3 DEF Covered, FKLists
  <2>7. NodesInv
    BY <2>1, <2>6 DEF NodesInv
  <2> QED
    BY <2>4, <2>5, <2>7 DEF GraphInv
<1>2. GraphInv /\ [GraphNext]_graphVars => GraphInv'
  <2> SUFFICES ASSUME GraphInv, [GraphNext]_graphVars PROVE GraphInv'
    OBVIOUS
  <2>1. CASE UNCHANGED graphVars
    <3>1. UNCHANGED <<fks, root, calls, seen, nodes>>
      BY <2>1 DEF graphVars
    <3>2. ChainInv'
      BY <3>1 DEF GraphInv, ChainInv
    <3>3. nodes' \in Seq(FKLists) /\ NodesInv'
      BY <3>1, NoNodeAdded DEF GraphInv
    <3>4. GraphTypeInv'
      BY <3>1, <3>3, GraphInputsKept DEF GraphInv, GraphTypeInv
    <3> QED
      BY <3>2, <3>3, <3>4 DEF GraphInv
  <2> QED
    BY <2>1, AfterSkip, AfterMeet, AfterDescend, AfterReturn DEF GraphNext
<1> QED
  BY <1>1, <1>2, PTL DEF GraphSpec

(* A path meets no table twice but at its end, so it has no foreign key    *)
(* twice.                                                                  *)
LEMMA PathsAreShort ==
    ASSUME fks \in Seq(FKConstraint), NEW p \in FKLists, IsPath(root, p)
    PROVE  Len(p) \in 1..Len(fks)
<1> DEFINE N == Len(p)
<1>1. N \in Nat \ {0} /\ Len(fks) \in Nat /\ \A n \in 1..N : p[n] \in 1..Len(fks)
  BY DEF FKLists, IsPath
<1>2. \A m, n \in 1..N : p[m] = p[n] => m = n
  <2> SUFFICES ASSUME NEW m \in 1..N, NEW n \in 1..N, p[m] = p[n], m # n PROVE FALSE
    OBVIOUS
  <2>1. m - 1 \in 0..(N - 1) /\ n - 1 \in 0..(N - 1) /\ m - 1 # n - 1
    BY <1>1
  <2>2. TableAt(root, p, m - 1) = TableAt(root, p, n - 1)
    BY DEF IsPath
  <2> QED
    BY <2>1, <2>2 DEF IsPath
<1>3. [n \in 1..N |-> p[n]] \in Injection(1..N, 1..Len(fks))
  BY <1>1, <1>2 DEF Injection, IsInjective
<1>4. IsFiniteSet(1..N) /\ Cardinality(1..N) = N /\ IsFiniteSet(1..Len(fks))
      /\ Cardinality(1..Len(fks)) = Len(fks)
  <2>1. \A n \in Nat : IsFiniteSet(1..n) /\ Cardinality(1..n) = IF 1 > n THEN 0 ELSE n - 1 + 1
    BY FS_Interval
  <2>2. \A n \in Nat : (IF 1 > n THEN 0 ELSE n - 1 + 1) = n
    OBVIOUS
  <2> QED
    BY <1>1, <2>1, <2>2
<1>5. Cardinality(1..N) <= Cardinality(1..Len(fks))
  BY <1>3, <1>4, FS_Injection
<1> QED
  BY <1>1, <1>4, <1>5

(* BuildCascadeGraph returns each chain of foreign keys that leads to the  *)
(* table exactly once, for any foreign keys (delta/schema.go:146).         *)
THEOREM GraphIsComplete == GraphSpec => []GraphHasAllPaths
<1>1. GraphInv => GraphHasAllPaths
  <2> SUFFICES ASSUME GraphInv, Built PROVE GraphHasAllPaths
    BY DEF GraphHasAllPaths
  <2>1. \A p : Covered(calls, p)
    BY DEF Built, Covered
  <2>2. \A n \in 1..Len(nodes) : nodes[n] \in FKLists
    BY DEF GraphInv, GraphTypeInv
  <2>3. ASSUME NEW n \in 1..Len(nodes) PROVE nodes[n] \in AllPaths(root)
    <3>1. nodes[n] \in FKLists /\ IsPath(root, nodes[n])
      BY <2>2 DEF GraphInv, NodesInv
    <3>2. Len(nodes[n]) \in 1..Len(fks)
      BY <3>1, PathsAreShort DEF GraphInv, GraphTypeInv
    <3>3. nodes[n] \in [1..Len(nodes[n]) -> 1..Len(fks)]
      BY <3>1 DEF FKLists
    <3> QED
      BY <3>1, <3>2, <3>3 DEF AllPaths
  <2>4. ASSUME NEW p \in AllPaths(root) PROVE \E n \in 1..Len(nodes) : nodes[n] = p
    <3>1. PICK k \in 1..Len(fks) : p \in [1..k -> 1..Len(fks)]
      BY DEF AllPaths
    <3>2. p \in FKLists
      BY <3>1 DEF FKLists, GraphInv, GraphTypeInv
    <3> QED
      BY <3>2, <2>1 DEF AllPaths, GraphInv, NodesInv
  <2> QED
    BY <2>3, <2>4 DEF GraphHasAllPaths, GraphInv, NodesInv
<1> QED
  BY <1>1, GraphInvariance, PTL

-----------------------------------------------------------------------------
(* The DELETE triggers: the inductive invariant.                           *)

Row    == [1..Len(fks) -> Ids \cup {Null}]
Frames == [row : Keys, fk : Nat \ {0}, todo : SUBSET Keys]

\* The type invariant.
DeleteTypeInv ==
    /\ fks \in Seq(FKConstraint)
    /\ Keys \subseteq Names \X Ids
    /\ before \in [Keys -> Row]
    /\ rows \in [Keys -> Row]
    /\ victim \in Keys
    /\ tombstones \subseteq Keys
    /\ triggers \in Seq(Frames)
    /\ refused \in BOOLEAN

\* Only rows that production removes are deleted.
RemovedInv ==
    /\ tombstones \subseteq Removed
    /\ \A n \in 1..Len(triggers) :
         triggers[n].row \in tombstones /\ triggers[n].todo \subseteq Removed

\* Only references to such rows are cleared, by SET NULL.
Nulled(c, i) == RefersToRemoved(c, i, {"SET NULL"})
ColumnsInv ==
    \A c \in Keys, i \in 1..Len(fks) :
        \/ rows[c][i] = before[c][i]
        \/ rows[c][i] = Null /\ Nulled(c, i)

\* With these references and tombstones, no row refers to k by the foreign key i.
Settled(data, gone, k, i) ==
    fks[i].rule \in Handled => \A c \in Keys \ gone : ~RefersTo(data, c, i, k)

\* A deleted row is settled for each foreign key its trigger has passed.
SettledInv ==
    /\ \A n \in 1..Len(triggers), i \in 1..Len(fks) :
         i < triggers[n].fk => Settled(rows, tombstones, triggers[n].row, i)
    /\ \A k \in tombstones :
         \/ \E n \in 1..Len(triggers) : triggers[n].row = k
         \/ \A i \in 1..Len(fks) : Settled(rows, tombstones, k, i)

\* A cascading DELETE still has all rows to delete that refer to its row.
TodoInv ==
    \A n \in 1..Len(triggers) : triggers[n].todo # {} =>
        /\ triggers[n].fk <= Len(fks)
        /\ \A c \in Keys \ tombstones :
             RefersTo(rows, c, triggers[n].fk, triggers[n].row) => c \in triggers[n].todo

\* The reasons for which the branch may refuse.
RefusedFor(i) ==
    \/ \E c \in Keys : RefersToRemoved(c, i, {"RESTRICT", "NO ACTION"})
    \/ fks[i].source \notin Tracked /\ \E k \in Removed : fks[i].referenced = k[1]

EndInv ==
    IF refused THEN triggers = <<>> /\ \E i \in 1..Len(fks) : RefusedFor(i)
               ELSE victim \in tombstones

DeleteInv ==
    /\ DeleteTypeInv /\ RemovedInv /\ ColumnsInv
    /\ SettledInv /\ TodoInv /\ EndInv

(* A DELETE leaves the foreign keys and the rows at its start alone, and   *)
(* what depends on them.                                                   *)
LEMMA DeleteInputsKept ==
    ASSUME UNCHANGED <<fks, victim, before>>
    PROVE  /\ Keys' = Keys /\ Row' = Row /\ Frames' = Frames /\ Removed' = Removed
           /\ \A data, c, i, k : RefersTo(data, c, i, k)' = RefersTo(data, c, i, k)
           /\ \A data, gone, k, i : Settled(data, gone, k, i)' = Settled(data, gone, k, i)
           /\ \A c, i : Nulled(c, i)' = Nulled(c, i)
           /\ \A i : RefusedFor(i)' = RefusedFor(i)
<1>1. Keys' = Keys /\ Row' = Row /\ Frames' = Frames
  BY DEF Keys, Row, Frames
<1>2. \A data, c, i, k : RefersTo(data, c, i, k)' = RefersTo(data, c, i, k)
  BY DEF RefersTo
<1>3. \A S : Cascaded(S)' = Cascaded(S)
  BY <1>1 DEF Cascaded, RefersTo
<1>4. Removed' = Removed
  BY <1>1, <1>3 DEF Removed
<1>5. \A c, i, rules : RefersToRemoved(c, i, rules)' = RefersToRemoved(c, i, rules)
  BY <1>4 DEF RefersToRemoved, RefersTo
<1>6. \A i : RefusedFor(i)' = RefusedFor(i)
  BY <1>1, <1>4, <1>5 DEF RefusedFor
<1>7. \A c, i : Nulled(c, i)' = Nulled(c, i)
  BY <1>5 DEF Nulled
<1>8. \A data, gone, k, i : Settled(data, gone, k, i)' = Settled(data, gone, k, i)
  BY <1>1, <1>2 DEF Settled
<1> QED
  BY <1>1, <1>2, <1>4, <1>6, <1>7, <1>8

(* What production removes has the victim and is closed under the cascade. *)
LEMMA RemovedIsClosed ==
    /\ victim \in Keys => victim \in Removed
    /\ \A k \in Removed, c \in Keys, i \in 1..Len(fks) :
         fks[i].rule = "CASCADE" /\ RefersTo(before, c, i, k) => c \in Removed
BY DEF Removed, Cascaded

(* A reference that is there was there at the start: the triggers only     *)
(* clear references.                                                       *)
LEMMA ReferencesAreOld ==
    ASSUME DeleteTypeInv, ColumnsInv, NEW c \in Keys, NEW i \in 1..Len(fks), NEW k \in Keys,
           RefersTo(rows, c, i, k)
    PROVE  RefersTo(before, c, i, k)
<1>1. k[2] \in Ids
  BY DEF DeleteTypeInv
<1> QED
  BY <1>1, NullAssumption DEF ColumnsInv, RefersTo

(* Clearing references and deleting rows keeps settled what is settled.    *)
LEMMA SettledStays ==
    ASSUME DeleteTypeInv, NEW data, NEW gone, tombstones \subseteq gone,
           NEW k \in Keys, NEW i \in 1..Len(fks),
           \A c \in Keys : data[c][i] = rows[c][i] \/ data[c][i] = Null,
           Settled(rows, tombstones, k, i)
    PROVE  Settled(data, gone, k, i)
<1>1. k[2] \in Ids
  BY DEF DeleteTypeInv
<1> QED
  BY <1>1, NullAssumption DEF Settled, RefersTo

(* The type of a trigger that has not returned.                            *)
LEMMA TriggersTyped ==
    ASSUME DeleteTypeInv, NEW n \in 1..Len(triggers)
    PROVE  /\ triggers[n].row \in Keys /\ triggers[n].fk \in Nat \ {0}
           /\ triggers[n].todo \subseteq Keys /\ triggers[n] \in Frames
<1>1. triggers[n] \in Frames
  BY DEF DeleteTypeInv
<1> QED
  BY <1>1 DEF Frames

(* The type of the innermost one.                                          *)
LEMMA FiringTyped ==
    ASSUME DeleteTypeInv, triggers # <<>>
    PROVE  /\ Len(triggers) \in Nat \ {0} /\ Len(triggers) \in 1..Len(triggers)
           /\ Firing = triggers[Len(triggers)] /\ Firing \in Frames
           /\ Firing.row \in Keys /\ Firing.fk \in Nat \ {0} /\ Firing.todo \subseteq Keys
           /\ Len(fks) \in Nat
<1>1. Len(triggers) \in Nat \ {0} /\ Len(triggers) \in 1..Len(triggers) /\ Len(fks) \in Nat
  BY DEF DeleteTypeInv
<1>2. Firing = triggers[Len(triggers)]
  BY DEF Firing
<1> QED
  BY <1>1, <1>2, TriggersTyped

(* What Continue does to the triggers.                                     *)
LEMMA Continued ==
    ASSUME DeleteTypeInv, triggers # <<>>, Continue
    PROVE  /\ triggers' \in Seq(Frames) /\ Len(triggers') = Len(triggers)
           /\ \A n \in 1..Len(triggers) :
                /\ triggers'[n].row = triggers[n].row
                /\ triggers'[n].todo = triggers[n].todo
                /\ triggers'[n].fk = IF n = Len(triggers) THEN Firing.fk + 1 ELSE triggers[n].fk
<1> DEFINE L == Len(triggers)
           top == [Firing EXCEPT !.fk = Firing.fk + 1]
<1>1. top \in Frames /\ top.row = Firing.row /\ top.todo = Firing.todo /\ top.fk = Firing.fk + 1
  BY FiringTyped DEF Frames
<1>2. triggers' = [triggers EXCEPT ![L] = top] /\ triggers \in Seq(Frames)
  BY DEF Continue, Firing, DeleteTypeInv
<1>3. L \in Nat \ {0} /\ Firing = triggers[L]
  BY FiringTyped
<1> HIDE DEF top
<1>4. /\ triggers' \in Seq(Frames) /\ Len(triggers') = L
      /\ \A n \in 1..L : triggers'[n] = IF n = L THEN top ELSE triggers[n]
  BY <1>1, <1>2, <1>3
<1> QED
  BY <1>1, <1>3, <1>4

(* The innermost trigger goes on to the next foreign key, this one being   *)
(* settled.                                                                *)
LEMMA AfterStatement ==
    ASSUME DeleteInv, triggers # <<>>, Continue, Firing.fk \in 1..Len(fks), Firing.todo = {},
           NEW data \in [Keys -> Row], rows' = data,
           UNCHANGED <<fks, victim, before, tombstones, refused>>,
           \A c \in Keys, i \in 1..Len(fks) :
               data[c][i] = rows[c][i] \/ (data[c][i] = Null /\ Nulled(c, i)),
           Settled(data, tombstones, Firing.row, Firing.fk)
    PROVE  DeleteInv'
<1> DEFINE L == Len(triggers)
<1>1. DeleteTypeInv /\ RemovedInv /\ ColumnsInv /\ SettledInv /\ TodoInv /\ EndInv
  BY DEF DeleteInv
<1>2. /\ L \in Nat \ {0} /\ L \in 1..L /\ Firing = triggers[L] /\ Firing.row \in Keys
      /\ Len(fks) \in Nat
  BY <1>1, FiringTyped
<1>3. /\ triggers' \in Seq(Frames) /\ Len(triggers') = L
      /\ \A n \in 1..L : /\ triggers'[n].row = triggers[n].row
                          /\ triggers'[n].todo = triggers[n].todo
                          /\ triggers'[n].fk = IF n = L THEN Firing.fk + 1 ELSE triggers[n].fk
  BY <1>1, Continued
<1>5. DeleteTypeInv'
  BY <1>1, <1>3, DeleteInputsKept DEF DeleteTypeInv
<1>6. RemovedInv'
  BY <1>1, <1>3, DeleteInputsKept DEF RemovedInv
<1>7. ColumnsInv'
  BY <1>1, DeleteInputsKept DEF ColumnsInv
<1>8. \A x \in Keys, i \in 1..Len(fks) :
        Settled(rows, tombstones, x, i) => Settled(data, tombstones, x, i)
  BY <1>1, SettledStays
<1>10. SettledInv'
  <2>1. ASSUME NEW n \in 1..L, NEW i \in 1..Len(fks), i < triggers'[n].fk
        PROVE  Settled(data, tombstones, triggers[n].row, i)
    <3>1. triggers[n].row \in Keys /\ triggers[n].fk \in Nat
      BY <1>1, TriggersTyped
    <3>2. CASE i < triggers[n].fk
      BY <3>1, <3>2, <1>1, <1>8 DEF SettledInv
    <3>3. CASE n = L /\ i = Firing.fk
      BY <3>3, <1>2
    <3> QED
      BY <2>1, <3>1, <3>2, <3>3, <1>2, <1>3
  <2>2. ASSUME NEW x \in tombstones
        PROVE  \/ \E n \in 1..L : triggers'[n].row = x
               \/ \A i \in 1..Len(fks) : Settled(data, tombstones, x, i)
    BY <1>1, <1>3, <1>8 DEF SettledInv, DeleteTypeInv
  <2>3. \A n \in 1..Len(triggers'), i \in 1..Len(fks) :
          i < triggers'[n].fk => Settled(data, tombstones, triggers'[n].row, i)
    BY <2>1, <1>3
  <2>4. \A x \in tombstones : \/ \E n \in 1..Len(triggers') : triggers'[n].row = x
                              \/ \A i \in 1..Len(fks) : Settled(data, tombstones, x, i)
    BY <2>2, <1>3
  <2> QED
    BY <2>3, <2>4, DeleteInputsKept DEF SettledInv
<1>11. TodoInv'
  <2>a. ASSUME NEW n \in 1..L, triggers'[n].todo # {}
        PROVE  triggers'[n].fk <= Len(fks)
    BY <2>a, <1>1, <1>2, <1>3 DEF TodoInv
  <2> SUFFICES ASSUME NEW n \in 1..L, triggers'[n].todo # {}, NEW c \in Keys \ tombstones,
                      RefersTo(data, c, triggers'[n].fk, triggers'[n].row)
               PROVE  c \in triggers'[n].todo
    BY <2>a, <1>3, DeleteInputsKept DEF TodoInv
  <2>1. triggers[n].todo # {} /\ n # L
    BY <1>2, <1>3
  <2>2. RefersTo(data, c, triggers[n].fk, triggers[n].row) /\ triggers[n].row \in Keys
    BY <2>1, <1>1, <1>3, TriggersTyped
  <2>3. RefersTo(rows, c, triggers[n].fk, triggers[n].row)
    <3>1. triggers[n].fk \in 1..Len(fks)
      BY <2>1, <1>1, <1>2, TriggersTyped DEF TodoInv
    <3>2. triggers[n].row[2] \in Ids
      BY <2>2, <1>1 DEF DeleteTypeInv
    <3> QED
      BY <2>2, <3>1, <3>2, NullAssumption DEF RefersTo
  <2> QED
    BY <2>1, <2>3, <1>1, <1>3 DEF TodoInv
<1>12. EndInv'
  BY <1>1, <1>2, DeleteInputsKept DEF EndInv
<1> QED
  BY <1>5, <1>6, <1>7, <1>10, <1>11, <1>12 DEF DeleteInv

(* A foreign key without a statement keeps the invariant.                  *)
LEMMA AfterNoStatement ==
    ASSUME DeleteInv, NoStatement
    PROVE  DeleteInv'
<1>1. DeleteTypeInv
  BY DEF DeleteInv
<1>2. /\ triggers # <<>> /\ Continue /\ Firing.todo = {} /\ Firing.fk \in 1..Len(fks)
      /\ UNCHANGED <<fks, victim, before, rows, tombstones, refused>>
  BY <1>1, FiringTyped DEF NoStatement, AtFK
<1>3. Settled(rows, tombstones, Firing.row, Firing.fk)
  BY DEF NoStatement, AtStatement, Settled, RefersTo
<1>4. rows \in [Keys -> Row]
  BY <1>1 DEF DeleteTypeInv
<1> QED
  BY <1>2, <1>3, <1>4, AfterStatement

(* A statement that finds nothing keeps it.                                *)
LEMMA AfterNothingFound ==
    ASSUME DeleteInv, NothingFound
    PROVE  DeleteInv'
<1>1. DeleteTypeInv
  BY DEF DeleteInv
<1>2. /\ triggers # <<>> /\ Continue /\ Firing.todo = {} /\ Firing.fk \in 1..Len(fks)
      /\ UNCHANGED <<fks, victim, before, rows, tombstones, refused>>
  <2>1. /\ triggers # <<>> /\ Continue /\ Firing.todo = {} /\ Firing.fk <= Len(fks)
        /\ UNCHANGED <<fks, victim, before, rows, tombstones, refused>>
    BY DEF NothingFound, AtStatement, AtFK
  <2> QED
    BY <1>1, <2>1, FiringTyped
<1>3. Found = {}
  BY DEF NothingFound, AtStatement, Handled, Refuses
<1>4. Settled(rows, tombstones, Firing.row, Firing.fk)
  BY <1>3 DEF Settled, Found, Hits
<1>5. rows \in [Keys -> Row]
  BY <1>1 DEF DeleteTypeInv
<1> QED
  BY <1>2, <1>4, <1>5, AfterStatement

(* An UPDATE to NULL keeps it: it settles its foreign key.                 *)
LEMMA AfterSetNull ==
    ASSUME DeleteInv, SetNull
    PROVE  DeleteInv'
<1> DEFINE k == Firing.row
           f == Firing.fk
           data == [c \in Keys |-> IF c \in Found THEN [rows[c] EXCEPT ![f] = Null]
                                                   ELSE rows[c]]
<1>1. DeleteTypeInv /\ ColumnsInv /\ RemovedInv
  BY DEF DeleteInv
<1>2. /\ triggers # <<>> /\ Continue /\ Firing.todo = {} /\ f \in 1..Len(fks)
      /\ UNCHANGED <<fks, victim, before, tombstones, refused>>
      /\ rows' = data /\ fks[f].rule = "SET NULL"
  <2>1. /\ triggers # <<>> /\ Continue /\ Firing.todo = {}
        /\ UNCHANGED <<fks, victim, before, tombstones, refused>>
        /\ rows' = data /\ fks[f].rule = "SET NULL"
    BY DEF SetNull, AtStatement, AtFK
  <2>2. triggers # <<>> /\ f <= Len(fks)
    BY DEF SetNull, AtStatement, AtFK
  <2>3. f \in 1..Len(fks)
    BY <1>1, <2>2, FiringTyped
  <2> QED
    BY <2>1, <2>3, Zenon
<1>3. k \in Keys /\ k \in Removed /\ k[2] \in Ids
  BY <1>1, <1>2, FiringTyped DEF RemovedInv, DeleteTypeInv
<1>4. rows \in [Keys -> Row] /\ \A c \in Keys : rows[c] \in Row
  BY <1>1 DEF DeleteTypeInv
<1>5. data \in [Keys -> Row]
  BY <1>2, <1>4 DEF Row
<1>6. \A c \in Keys : /\ c \in Found => /\ data[c][f] = Null
                                        /\ \A i \in 1..Len(fks) : i # f => data[c][i] = rows[c][i]
                      /\ c \notin Found => data[c] = rows[c]
  BY <1>2, <1>4 DEF Row
<1> HIDE DEF data
<1>7. \A c \in Found : Nulled(c, f)
  <2> SUFFICES ASSUME NEW c \in Found PROVE Nulled(c, f)
    OBVIOUS
  <2>1. c \in Keys /\ RefersTo(rows, c, f, k)
    BY DEF Found, Hits
  <2>2. RefersTo(before, c, f, k)
    BY <2>1, <1>1, <1>2, <1>3, ReferencesAreOld
  <2> QED
    BY <2>2, <1>2, <1>3 DEF Nulled, RefersToRemoved
<1>8. \A c \in Keys, i \in 1..Len(fks) :
        data[c][i] = rows[c][i] \/ (data[c][i] = Null /\ Nulled(c, i))
  BY <1>6, <1>7
<1>9. Settled(data, tombstones, k, f)
  <2> SUFFICES ASSUME NEW c \in Keys \ tombstones, RefersTo(data, c, f, k) PROVE FALSE
    BY DEF Settled
  <2>1. CASE c \in Found
    BY <2>1, <1>3, <1>6, NullAssumption DEF RefersTo
  <2>2. CASE c \notin Found
    BY <2>2, <1>6 DEF RefersTo, Found, Hits
  <2> QED
    BY <2>1, <2>2
<1> QED
  BY <1>2, <1>5, <1>8, <1>9, AfterStatement

(* An error keeps it: it has one of the two reasons.                       *)
LEMMA AfterRefuse ==
    ASSUME DeleteInv, Refuse
    PROVE  DeleteInv'
<1> DEFINE k == Firing.row
           f == Firing.fk
<1>1. DeleteTypeInv /\ ColumnsInv /\ RemovedInv
  BY DEF DeleteInv
<1>2. /\ triggers # <<>> /\ f \in 1..Len(fks) /\ fks[f].referenced = k[1]
      /\ OnView => Refuses(fks[f].rule) /\ Found # {}
  BY <1>1, FiringTyped DEF Refuse, AtStatement, AtFK
<1>3. k \in Keys /\ k \in Removed
  BY <1>1, <1>2, FiringTyped DEF RemovedInv, DeleteTypeInv
<1>4. /\ UNCHANGED <<fks, victim, before>> /\ refused' = TRUE /\ triggers' = <<>>
      /\ rows' = before /\ tombstones' = {}
  BY DEF Refuse
<1>5. RefusedFor(f)
  <2>1. CASE ~OnView
    BY <2>1, <1>2, <1>3 DEF OnView, RefusedFor
  <2>2. CASE OnView
    <3>1. PICK c \in Found : TRUE
      BY <2>2, <1>2
    <3>2. c \in Keys /\ RefersTo(rows, c, f, k)
      BY <3>1 DEF Found, Hits
    <3>3. RefersTo(before, c, f, k)
      BY <3>2, <1>1, <1>2, <1>3, ReferencesAreOld
    <3> QED
      BY <3>2, <3>3, <2>2, <1>2, <1>3 DEF RefusedFor, RefersToRemoved, Refuses
  <2> QED
    BY <2>1, <2>2
<1>6. Len(triggers') = 0 /\ triggers' \in Seq(Frames)
  BY <1>4
<1>7. DeleteTypeInv'
  BY <1>1, <1>4, <1>6, DeleteInputsKept DEF DeleteTypeInv
<1>8. RemovedInv' /\ SettledInv' /\ TodoInv'
  BY <1>4, <1>6 DEF RemovedInv, SettledInv, TodoInv
<1>9. ColumnsInv'
  BY <1>4, DeleteInputsKept DEF ColumnsInv
<1>10. EndInv'
  BY <1>2, <1>4, <1>5, DeleteInputsKept DEF EndInv
<1> QED
  BY <1>7, <1>8, <1>9, <1>10 DEF DeleteInv

(* A cascading DELETE that finds rows keeps it: production removes them    *)
(* too.                                                                    *)
LEMMA AfterCascade ==
    ASSUME DeleteInv, Cascade
    PROVE  DeleteInv'
<1> DEFINE L == Len(triggers)
           k == Firing.row
           f == Firing.fk
           top == [Firing EXCEPT !.todo = Found]
<1>1. DeleteTypeInv /\ RemovedInv /\ ColumnsInv /\ SettledInv /\ TodoInv /\ EndInv
  BY DEF DeleteInv
<1>2. /\ triggers # <<>> /\ f <= Len(fks) /\ fks[f].rule = "CASCADE"
      /\ triggers' = [triggers EXCEPT ![L].todo = Found]
      /\ UNCHANGED <<fks, victim, before, rows, tombstones, refused>>
  BY DEF Cascade, AtStatement, AtFK
<1>3. /\ L \in Nat \ {0} /\ L \in 1..L /\ Firing = triggers[L] /\ Firing \in Frames
      /\ k \in Keys /\ f \in 1..Len(fks)
  BY <1>1, <1>2, FiringTyped
<1>4. k \in Removed
  BY <1>1, <1>3 DEF RemovedInv
<1>5. Found \subseteq Keys /\ Found \subseteq Removed
  <2> SUFFICES ASSUME NEW c \in Found PROVE c \in Keys /\ c \in Removed
    OBVIOUS
  <2>1. c \in Keys /\ RefersTo(rows, c, f, k)
    BY DEF Found, Hits
  <2>2. RefersTo(before, c, f, k)
    BY <2>1, <1>1, <1>3, ReferencesAreOld
  <2> QED
    BY <2>1, <2>2, <1>2, <1>3, <1>4, RemovedIsClosed
<1>6. top \in Frames /\ top.row = k /\ top.fk = f /\ top.todo = Found
  BY <1>3, <1>5 DEF Frames
<1>7. triggers' = [triggers EXCEPT ![L] = top] /\ triggers \in Seq(Frames)
  BY <1>1, <1>2, <1>3 DEF DeleteTypeInv
<1> HIDE DEF top
<1>8. /\ triggers' \in Seq(Frames) /\ Len(triggers') = L
      /\ \A n \in 1..L : triggers'[n] = IF n = L THEN top ELSE triggers[n]
  BY <1>3, <1>6, <1>7
<1>9. \A n \in 1..L : triggers'[n].row = triggers[n].row /\ triggers'[n].fk = triggers[n].fk
  BY <1>3, <1>6, <1>8
<1>10. DeleteTypeInv'
  BY <1>1, <1>2, <1>8, DeleteInputsKept DEF DeleteTypeInv
<1>11. RemovedInv'
  <2>1. ASSUME NEW n \in 1..L
        PROVE  triggers'[n].row \in tombstones /\ triggers'[n].todo \subseteq Removed
    BY <1>1, <1>5, <1>6, <1>8, <1>9 DEF RemovedInv
  <2> QED
    BY <2>1, <1>1, <1>2, <1>8, DeleteInputsKept DEF RemovedInv
<1>12. ColumnsInv'
  BY <1>1, <1>2, DeleteInputsKept DEF ColumnsInv
<1>13. SettledInv'
  <2>1. \A n \in 1..L, i \in 1..Len(fks) :
          i < triggers'[n].fk => Settled(rows, tombstones, triggers'[n].row, i)
    BY <1>1, <1>9 DEF SettledInv
  <2>2. \A x \in tombstones : \/ \E n \in 1..L : triggers'[n].row = x
                             \/ \A i \in 1..Len(fks) : Settled(rows, tombstones, x, i)
    BY <1>1, <1>9 DEF SettledInv
  <2> QED
    BY <2>1, <2>2, <1>2, <1>8, DeleteInputsKept DEF SettledInv
<1>14. TodoInv'
  <2>1. ASSUME NEW n \in 1..L, triggers'[n].todo # {}
        PROVE  /\ triggers'[n].fk <= Len(fks)
               /\ \A c \in Keys \ tombstones :
                    RefersTo(rows, c, triggers'[n].fk, triggers'[n].row) => c \in triggers'[n].todo
    <3>1. CASE n = L
      BY <3>1, <1>2, <1>6, <1>8 DEF Found, Hits
    <3>2. CASE n # L
      BY <3>2, <2>1, <1>1, <1>8 DEF TodoInv
    <3> QED
      BY <3>1, <3>2
  <2> QED
    BY <2>1, <1>2, <1>8, DeleteInputsKept DEF TodoInv
<1>15. EndInv'
  BY <1>1, <1>2, DeleteInputsKept DEF EndInv
<1> QED
  BY <1>10, <1>11, <1>12, <1>13, <1>14, <1>15 DEF DeleteInv

(* The trigger of such a row keeps it; the last one settles the foreign    *)
(* key of the caller.                                                      *)
LEMMA AfterFire ==
    ASSUME DeleteInv, NEW c \in Keys, Fire(c)
    PROVE  DeleteInv'
<1> DEFINE L == Len(triggers)
           k == Firing.row
           f == Firing.fk
           rest == Firing.todo \ {c}
           caller == [Firing EXCEPT !.todo = rest, !.fk = IF rest = {} THEN @ + 1 ELSE @]
           callers == [triggers EXCEPT ![L] = caller]
           gone == tombstones \cup {c}
<1>1. DeleteTypeInv /\ RemovedInv /\ ColumnsInv /\ SettledInv /\ TodoInv /\ EndInv
  BY DEF DeleteInv
<1>2. /\ triggers # <<>> /\ c \in Firing.todo /\ tombstones' = gone
      /\ triggers' = Append(callers, Trigger(c))
      /\ UNCHANGED <<fks, victim, before, rows, refused>>
  BY DEF Fire
<1>3. /\ L \in Nat \ {0} /\ L \in 1..L /\ Firing = triggers[L] /\ Firing \in Frames
      /\ k \in Keys /\ f \in Nat \ {0} /\ Firing.todo \subseteq Keys
  BY <1>1, <1>2, FiringTyped
<1>4. f \in 1..Len(fks) /\ Len(fks) \in Nat
  <2>1. triggers[L].todo # {} /\ Len(fks) \in Nat
    BY <1>1, <1>2, <1>3, FiringTyped
  <2>2. triggers[L].fk <= Len(fks)
    BY <2>1, <1>1, <1>3 DEF TodoInv
  <2> QED
    BY <2>1, <2>2, <1>3
<1>5. c \in Removed
  BY <1>1, <1>2, <1>3 DEF RemovedInv
<1>6. /\ caller \in Frames /\ caller.row = k /\ caller.todo = rest
      /\ caller.fk = IF rest = {} THEN f + 1 ELSE f
  <2> DEFINE g == IF rest = {} THEN f + 1 ELSE f
  <2>1. g \in Nat \ {0} /\ rest \in SUBSET Keys
    BY <1>3
  <2>2. caller = [Firing EXCEPT !.todo = rest, !.fk = g]
    OBVIOUS
  <2> HIDE DEF g, rest
  <2>3. caller \in Frames /\ caller.row = k /\ caller.todo = rest /\ caller.fk = g
    BY <1>3, <2>1, <2>2 DEF Frames
  <2> QED
    BY <2>3 DEF g
<1>7. Trigger(c) \in Frames /\ Trigger(c).row = c /\ Trigger(c).fk = 1 /\ Trigger(c).todo = {}
  BY DEF Frames, Trigger
<1> HIDE DEF caller
<1>8. /\ callers \in Seq(Frames) /\ Len(callers) = L
      /\ \A n \in 1..L : callers[n] = IF n = L THEN caller ELSE triggers[n]
  BY <1>1, <1>3, <1>6 DEF DeleteTypeInv
<1> HIDE DEF callers
<1>9. /\ triggers' \in Seq(Frames) /\ Len(triggers') = L + 1
      /\ \A n \in 1..L : triggers'[n] = IF n = L THEN caller ELSE triggers[n]
      /\ triggers'[L + 1] = Trigger(c)
  BY <1>2, <1>3, <1>7, <1>8, AppendProperties
<1>10. \A n \in 1..L : triggers'[n].row = triggers[n].row
  BY <1>3, <1>6, <1>9
<1>11. \A n \in 1..Len(triggers') : n \in 1..L \/ n = L + 1
  BY <1>3, <1>9
<1>12. DeleteTypeInv'
  BY <1>1, <1>2, <1>9, DeleteInputsKept DEF DeleteTypeInv
<1>13. RemovedInv'
  <2>1. ASSUME NEW n \in 1..Len(triggers')
        PROVE  triggers'[n].row \in gone /\ triggers'[n].todo \subseteq Removed
    <3>1. CASE n = L + 1
      BY <3>1, <1>7, <1>9
    <3>2. CASE n \in 1..L /\ n # L
      BY <3>2, <1>1, <1>9 DEF RemovedInv
    <3>3. CASE n = L
      BY <3>3, <1>1, <1>3, <1>6, <1>9 DEF RemovedInv
    <3> QED
      BY <1>11, <3>1, <3>2, <3>3
  <2> QED
    BY <2>1, <1>1, <1>2, <1>5, DeleteInputsKept DEF RemovedInv
<1>14. ColumnsInv'
  BY <1>1, <1>2, DeleteInputsKept DEF ColumnsInv
<1>15. \A x \in Keys, i \in 1..Len(fks) :
         Settled(rows, tombstones, x, i) => Settled(rows, gone, x, i)
  BY DEF Settled
<1>16. SettledInv'
  <2>1. ASSUME NEW n \in 1..Len(triggers'), NEW i \in 1..Len(fks), i < triggers'[n].fk
        PROVE  Settled(rows, gone, triggers'[n].row, i)
    <3>1. CASE n = L + 1
      BY <3>1, <2>1, <1>7, <1>9
    <3>2. CASE n \in 1..L /\ i < triggers[n].fk
      <4>1. triggers[n].row \in Keys
        BY <3>2, <1>1, TriggersTyped
      <4>2. Settled(rows, tombstones, triggers[n].row, i)
        BY <3>2, <1>1 DEF SettledInv
      <4> QED
        BY <3>2, <4>1, <4>2, <1>10, <1>15
    <3>3. CASE n = L /\ ~(i < f)
      <4>1. rest = {} /\ i = f
        BY <3>3, <2>1, <1>3, <1>4, <1>6, <1>9
      <4>2. \A d \in Keys \ tombstones : RefersTo(rows, d, f, k) => d \in Firing.todo
        BY <1>1, <1>2, <1>3 DEF TodoInv
      <4>3. Settled(rows, gone, k, f)
        BY <4>1, <4>2 DEF Settled
      <4> QED
        BY <3>3, <4>1, <4>3, <1>3, <1>10
    <3> QED
      BY <2>1, <1>3, <1>9, <1>11, <3>1, <3>2, <3>3
  <2>2. ASSUME NEW x \in gone
        PROVE  \/ \E n \in 1..Len(triggers') : triggers'[n].row = x
               \/ \A i \in 1..Len(fks) : Settled(rows, gone, x, i)
    <3>1. CASE x = c
      <4>1. L + 1 \in 1..Len(triggers') /\ triggers'[L + 1].row = x
        BY <3>1, <1>3, <1>7, <1>9
      <4> QED
        BY <4>1
    <3>2. CASE \E n \in 1..L : triggers[n].row = x
      <4>1. PICK n \in 1..L : triggers[n].row = x
        BY <3>2
      <4>2. n \in 1..Len(triggers') /\ triggers'[n].row = x
        BY <4>1, <1>3, <1>9, <1>10
      <4> QED
        BY <4>2
    <3>3. CASE x \in tombstones /\ \A i \in 1..Len(fks) : Settled(rows, tombstones, x, i)
      BY <3>3, <1>1, <1>15 DEF DeleteTypeInv
    <3> QED
      BY <1>1, <3>1, <3>2, <3>3 DEF SettledInv
  <2> HIDE DEF gone
  <2> QED
    BY <2>1, <2>2, <1>2, DeleteInputsKept DEF SettledInv
<1>17. TodoInv'
  <2>1. ASSUME NEW n \in 1..Len(triggers'), triggers'[n].todo # {}
        PROVE  /\ triggers'[n].fk <= Len(fks)
               /\ \A d \in Keys \ gone :
                    RefersTo(rows, d, triggers'[n].fk, triggers'[n].row) => d \in triggers'[n].todo
    <3>1. CASE n = L + 1
      BY <3>1, <2>1, <1>7, <1>9
    <3>2. CASE n \in 1..L /\ n # L
      BY <3>2, <2>1, <1>1, <1>9 DEF TodoInv
    <3>3. CASE n = L
      <4>1. triggers'[n].todo = rest /\ triggers'[n].fk = f /\ triggers'[n].row = k
        BY <3>3, <2>1, <1>3, <1>6, <1>9
      <4>2. \A d \in Keys \ tombstones : RefersTo(rows, d, f, k) => d \in Firing.todo
        BY <1>1, <1>2, <1>3 DEF TodoInv
      <4> QED
        BY <4>1, <4>2, <1>4
    <3> QED
      BY <1>11, <3>1, <3>2, <3>3
  <2> QED
    BY <2>1, <1>2, DeleteInputsKept DEF TodoInv
<1>18. EndInv'
  BY <1>1, <1>2, DeleteInputsKept DEF EndInv
<1> QED
  BY <1>12, <1>13, <1>14, <1>16, <1>17, <1>18 DEF DeleteInv

(* A return keeps it: the row of the trigger is settled for every foreign  *)
(* key.                                                                    *)
LEMMA AfterEnd ==
    ASSUME DeleteInv, EndTrigger
    PROVE  DeleteInv'
<1> DEFINE L == Len(triggers)
           k == Firing.row
<1>1. DeleteTypeInv /\ RemovedInv /\ ColumnsInv /\ SettledInv /\ TodoInv /\ EndInv
  BY DEF DeleteInv
<1>2. /\ triggers # <<>> /\ Firing.fk > Len(fks)
      /\ triggers' = SubSeq(triggers, 1, L - 1)
      /\ UNCHANGED <<fks, victim, before, rows, tombstones, refused>>
  BY DEF EndTrigger
<1>3. /\ L \in Nat \ {0} /\ L \in 1..L /\ Firing = triggers[L]
      /\ k \in Keys /\ Firing.fk \in Nat \ {0} /\ Len(fks) \in Nat
  BY <1>1, <1>2, FiringTyped
<1>4. triggers \in Seq(Frames)
  BY <1>1 DEF DeleteTypeInv
<1>5. /\ triggers' \in Seq(Frames) /\ Len(triggers') = L - 1
      /\ \A n \in 1..(L - 1) : triggers'[n] = triggers[n]
  BY <1>2, <1>4, Popped
<1>6. DeleteTypeInv'
  BY <1>1, <1>2, <1>5, DeleteInputsKept DEF DeleteTypeInv
<1>7. \A n \in 1..(L - 1) : n \in 1..L
  BY <1>3
<1>8. RemovedInv'
  <2>1. \A n \in 1..(L - 1) : triggers'[n].row \in tombstones /\ triggers'[n].todo \subseteq Removed
    BY <1>1, <1>5, <1>7 DEF RemovedInv
  <2> QED
    BY <2>1, <1>1, <1>2, <1>5, DeleteInputsKept DEF RemovedInv
<1>9. ColumnsInv'
  BY <1>1, <1>2, DeleteInputsKept DEF ColumnsInv
<1>10. SettledInv'
  <2>1. \A n \in 1..(L - 1), i \in 1..Len(fks) :
          i < triggers'[n].fk => Settled(rows, tombstones, triggers'[n].row, i)
    BY <1>1, <1>5, <1>7 DEF SettledInv
  <2>2. ASSUME NEW x \in tombstones
        PROVE  \/ \E n \in 1..(L - 1) : triggers'[n].row = x
               \/ \A i \in 1..Len(fks) : Settled(rows, tombstones, x, i)
    <3>1. CASE x = k
      <4>1. \A i \in 1..Len(fks) : i < triggers[L].fk
        BY <1>2, <1>3
      <4> QED
        BY <3>1, <4>1, <1>1, <1>3 DEF SettledInv
    <3>2. CASE \E n \in 1..L : triggers[n].row = x /\ n # L
      <4>1. PICK n \in 1..L : triggers[n].row = x /\ n # L
        BY <3>2
      <4>2. n \in 1..(L - 1) /\ triggers'[n].row = x
        BY <4>1, <1>3, <1>5
      <4> QED
        BY <4>2
    <3>3. CASE \A i \in 1..Len(fks) : Settled(rows, tombstones, x, i)
      BY <3>3
    <3>4. \/ \E n \in 1..L : triggers[n].row = x
          \/ \A i \in 1..Len(fks) : Settled(rows, tombstones, x, i)
      BY <1>1 DEF SettledInv
    <3> QED
      BY <1>3, <3>1, <3>2, <3>3, <3>4
  <2> QED
    BY <2>1, <2>2, <1>2, <1>5, DeleteInputsKept DEF SettledInv
<1>11. TodoInv'
  <2>1. ASSUME NEW n \in 1..(L - 1), triggers'[n].todo # {}
        PROVE  /\ triggers'[n].fk <= Len(fks)
               /\ \A c \in Keys \ tombstones :
                    RefersTo(rows, c, triggers'[n].fk, triggers'[n].row) => c \in triggers'[n].todo
    BY <2>1, <1>1, <1>5, <1>7 DEF TodoInv
  <2> QED
    BY <2>1, <1>2, <1>5, DeleteInputsKept DEF TodoInv
<1>12. EndInv'
  BY <1>1, <1>2, DeleteInputsKept DEF EndInv
<1> QED
  BY <1>6, <1>8, <1>9, <1>10, <1>11, <1>12 DEF DeleteInv

(* The invariant holds when the DELETE starts.                             *)
LEMMA DeleteStarts ==
    ASSUME DeleteInit
    PROVE  DeleteInv
<1>1. PICK S \in SUBSET (Names \X Ids) : before \in [S -> [1..Len(fks) -> Ids \cup {Null}]]
  BY DEF DeleteInit
<1>2. Keys = S /\ before \in [Keys -> Row] /\ Keys \subseteq Names \X Ids
  BY <1>1 DEF Keys, Row
<1>3. /\ fks \in Seq(FKConstraint) /\ victim \in Keys /\ Len(fks) \in Nat
      /\ rows = before /\ tombstones = {victim}
      /\ triggers = <<Trigger(victim)>> /\ refused = FALSE
  BY DEF DeleteInit, DeleteStart
<1>4. /\ Trigger(victim) \in Frames /\ Trigger(victim).row = victim
      /\ Trigger(victim).fk = 1 /\ Trigger(victim).todo = {}
  BY <1>3 DEF Trigger, Frames
<1>5. /\ triggers \in Seq(Frames) /\ Len(triggers) = 1
      /\ \A n \in 1..Len(triggers) : n = 1 /\ triggers[n] = Trigger(victim)
  BY <1>3, <1>4
<1>6. DeleteTypeInv
  BY <1>2, <1>3, <1>5 DEF DeleteTypeInv
<1>7. RemovedInv
  BY <1>3, <1>4, <1>5, RemovedIsClosed DEF RemovedInv
<1>8. ColumnsInv
  BY <1>3 DEF ColumnsInv
<1>9. SettledInv
  <2>1. 1 \in 1..Len(triggers) /\ triggers[1].row = victim
    BY <1>4, <1>5
  <2> QED
    BY <2>1, <1>3, <1>4, <1>5 DEF SettledInv
<1>10. TodoInv /\ EndInv
  BY <1>3, <1>4, <1>5 DEF TodoInv, EndInv
<1> QED
  BY <1>6, <1>7, <1>8, <1>9, <1>10 DEF DeleteInv

(* It stays when nothing happens.                                          *)
LEMMA DeleteStutters ==
    ASSUME DeleteInv, UNCHANGED deleteVars
    PROVE  DeleteInv'
<1>1. UNCHANGED <<fks, victim, before, rows, tombstones, triggers, refused>>
  BY DEF deleteVars
<1>2. DeleteTypeInv' /\ RemovedInv' /\ ColumnsInv'
  BY <1>1, DeleteInputsKept DEF DeleteInv, DeleteTypeInv, RemovedInv, ColumnsInv
<1>3. SettledInv' /\ TodoInv' /\ EndInv'
  BY <1>1, DeleteInputsKept DEF DeleteInv, SettledInv, TodoInv, EndInv
<1> QED
  BY <1>2, <1>3 DEF DeleteInv

(* The invariant of the triggers.                                          *)
LEMMA DeleteInvariance == DeleteSpec => []DeleteInv
<1>1. DeleteInv /\ [DeleteNext]_deleteVars => DeleteInv'
  BY AfterNoStatement, AfterRefuse, AfterNothingFound, AfterSetNull, AfterCascade, AfterFire,
     AfterEnd, DeleteStutters DEF DeleteNext
<1> QED
  BY <1>1, DeleteStarts, PTL DEF DeleteSpec

(* At the end of an accepted DELETE the tombstones are closed under the    *)
(* cascade, so they are all that production removes.                       *)
LEMMA AllIsDeleted ==
    ASSUME DeleteInv, Deleted, RulesAreHandled, ~refused
    PROVE  tombstones = Removed
<1>1. DeleteTypeInv /\ RemovedInv /\ ColumnsInv /\ SettledInv /\ EndInv
  BY DEF DeleteInv
<1>2. Len(triggers) = 0 /\ victim \in tombstones /\ tombstones \in SUBSET Keys
  BY <1>1 DEF Deleted, EndInv, DeleteTypeInv
<1>3. Cascaded(tombstones)
  <2> SUFFICES ASSUME NEW k \in tombstones, NEW c \in Keys, NEW i \in 1..Len(fks),
                      fks[i].rule = "CASCADE", RefersTo(before, c, i, k), c \notin tombstones
               PROVE  FALSE
    BY DEF Cascaded
  <2>1. ~Nulled(c, i)
    BY DEF Nulled, RefersToRemoved
  <2>2. RefersTo(rows, c, i, k)
    BY <2>1, <1>1 DEF ColumnsInv, RefersTo
  <2>3. Settled(rows, tombstones, k, i)
    BY <1>1, <1>2 DEF SettledInv
  <2> QED
    BY <2>2, <2>3 DEF Settled, Handled
<1>4. \A c \in Removed : c \in tombstones
  BY <1>2, <1>3 DEF Removed
<1> QED
  BY <1>1, <1>4 DEF RemovedInv

(* Then no row that stays refers to a row that goes.                       *)
LEMMA NoneRefers ==
    ASSUME DeleteInv, Deleted, RulesAreHandled, ~refused,
           NEW c \in Keys \ Removed, NEW i \in 1..Len(fks), NEW k \in Removed
    PROVE  ~RefersTo(rows, c, i, k)
<1>1. SettledInv /\ Len(triggers) = 0 /\ tombstones = Removed
  BY AllIsDeleted DEF DeleteInv, Deleted
<1>2. Settled(rows, tombstones, k, i)
  BY <1>1 DEF SettledInv
<1> QED
  BY <1>1, <1>2 DEF Settled, RulesAreHandled

(* A DELETE on a branch removes and changes what it would in production,   *)
(* and is refused only where it may be, for any rows and any foreign keys  *)
(* whose rules have a statement (delta/schema.go:503).                     *)
THEOREM TriggersMatchProduction == DeleteSpec => []DeleteMatchesProduction
<1>1. ASSUME DeleteInv, Deleted, RulesAreHandled, refused
      PROVE  \E i \in 1..Len(fks) : RefusedFor(i)
  BY <1>1 DEF DeleteInv, EndInv
<1>2. ASSUME DeleteInv, Deleted, RulesAreHandled, ~refused,
             NEW c \in Keys \ Removed, NEW i \in 1..Len(fks)
      PROVE  /\ ~RefersToRemoved(c, i, {"RESTRICT", "NO ACTION"})
             /\ rows[c][i] = IF RefersToRemoved(c, i, {"SET NULL"}) THEN Null ELSE before[c][i]
  <2>1. \A k \in Removed : ~RefersTo(rows, c, i, k)
    BY <1>2, NoneRefers
  <2>2. \/ rows[c][i] = before[c][i]
        \/ rows[c][i] = Null /\ RefersToRemoved(c, i, {"SET NULL"})
    BY <1>2 DEF DeleteInv, ColumnsInv, Nulled
  <2>3. rows[c][i] = before[c][i] => \A rules : ~RefersToRemoved(c, i, rules)
    BY <2>1 DEF RefersTo, RefersToRemoved
  <2>4. RefersToRemoved(c, i, {"SET NULL"}) => ~RefersToRemoved(c, i, {"RESTRICT", "NO ACTION"})
    BY DEF RefersToRemoved
  <2> QED
    BY <2>2, <2>3, <2>4
<1>3. DeleteInv => DeleteMatchesProduction
  <2>1. CASE refused
    BY <2>1, <1>1 DEF DeleteMatchesProduction, RefusedFor
  <2>2. CASE ~refused
    BY <2>2, <1>2, AllIsDeleted DEF DeleteMatchesProduction
  <2> QED
    BY <2>1, <2>2
<1> QED
  BY <1>3, DeleteInvariance, PTL
=============================================================================
