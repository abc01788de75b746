-------------------------- MODULE BranchStoreProofs --------------------------
(***************************************************************************)
(* Proofs about BranchStore: type correctness, and that branch-local ids   *)
(* stay with rows marked __is_new and out of production.                   *)
(***************************************************************************)
EXTENDS BranchStore, FiniteSetTheorems, WellFoundedInduction, TLAPS

(* A row has a reference only if its table has a foreign key.              *)
RefsHaveFK ==
    /\ \A k \in Keys : base[k] # Absent /\ FK[k[1]].table = Null => base[k].ref = Null
    /\ \A k \in Keys : delta[k] # Absent /\ FK[k[1]].table = Null => delta[k].row.ref = Null

StoreInv == TypeOK /\ LocalIdsStayNew /\ RefsHaveFK

-----------------------------------------------------------------------------
(* Facts about the operators.                                              *)

(* No id is both a production id and a branch-local one.                   *)
LEMMA DisjointIds == \A i : ~(i \in ProdIds /\ i \in LocalIds)
<1> SUFFICES ASSUME NEW i \in ProdIds, i \in LocalIds PROVE FALSE
  OBVIOUS
<1>1. i \in Nat /\ i < i
  BY IdsAssumption
<1> QED
  BY <1>1

(* An id of the branch sequence is no production id, no NULL and none that *)
(* the application has named.                                              *)
LEMMA DrawnIsLocal ==
    /\ DrawnIds \subseteq LocalIds
    /\ Null \notin DrawnIds
    /\ \A i \in ProdIds \cup ExplicitIds : i \notin DrawnIds
BY DisjointIds, SentinelAssumption DEF DrawnIds, Ids

(* Unless the application names ids, the branch sequence gives out every   *)
(* local id there is.                                                      *)
LEMMA AllAreDrawn == ASSUME ExplicitIds = {} PROVE DrawnIds = LocalIds
BY DEF DrawnIds

(* What the view shows is a row or nothing (schema.go, both view queries). *)
LEMMA ShownType ==
    ASSUME TypeOK, NEW k \in Keys
    PROVE  Shown(k) \in Rows \cup {Absent}
BY SentinelAssumption, StartAssumption DEF TypeOK, Shown, OverlayRow, Deltas

(* A key that the view shows and the delta table does not have is a row of *)
(* production.                                                             *)
LEMMA ShownWithoutDelta ==
    ASSUME NEW k \in Keys, Shown(k) # Absent, delta[k] = Absent
    PROVE  base[k] # Absent /\ Shown(k) = base[k]
BY DEF Shown, OverlayRow

(* What the view shows has a reference only if its table has a foreign key.*)
LEMMA ShownRef ==
    ASSUME RefsHaveFK, NEW k \in Keys, Shown(k) # Absent, FK[k[1]].table = Null
    PROVE  Shown(k).ref = Null
BY DEF RefsHaveFK, Shown, OverlayRow

(* A DELETE leaves each row as it was, without its reference, or not at    *)
(* all.                                                                    *)
LEMMA AfterDeleteRow ==
    ASSUME NEW rows \in [Keys -> Rows \cup {Absent}], NEW roots
    PROVE  /\ AfterDelete(rows, roots) \in [Keys -> Rows \cup {Absent}]
           /\ \A k \in Keys :
                \/ AfterDelete(rows, roots)[k] = Absent
                \/ AfterDelete(rows, roots)[k] = rows[k]
                \/ /\ rows[k] # Absent
                   /\ AfterDelete(rows, roots)[k] = [rows[k] EXCEPT !.ref = Null]
<1>1. ASSUME NEW k \in Orphaned(rows, roots)
      PROVE  k \in Keys /\ rows[k] # Absent
  BY <1>1 DEF Orphaned, DoomedBy, Refers
<1>2. \A r \in Rows : [r EXCEPT !.ref = Null] \in Rows
  BY DEF Rows, Refs
<1> QED
  BY <1>1, <1>2 DEF AfterDelete

(* A statement uses one unit of the budget.                                *)
LEMMA SpendType ==
    ASSUME TypeOK, Spend
    PROVE  budget' \in 0..MaxWrites
<1>1. MaxWrites \in Nat
  BY StartAssumption
<1>2. budget \in 0..MaxWrites /\ budget > 0 /\ budget' = budget - 1
  BY DEF TypeOK, Spend
<1> QED
  BY <1>1, <1>2

(* What the upsert of the triggers makes of the delta table: every column  *)
(* of the row, live, and __is_new as it was or, for a new delta row, as    *)
(* the path says.                                                          *)
LEMMA UpsertType ==
    ASSUME NEW d \in [Keys -> Deltas \cup {Absent}], NEW k \in Keys,
           NEW r \in Rows, NEW path \in Paths,
           NEW e, e = Upsert(d, k, r, path)
    PROVE  /\ e \in [Keys -> Deltas \cup {Absent}]
           /\ e[k] # Absent /\ e[k].row = r /\ ~e[k].deleted
           /\ d[k] = Absent /\ path = "INSERT" => e[k].isNew
           /\ d[k] = Absent /\ path = "UPDATE" => ~e[k].isNew
           /\ d[k] # Absent => e[k].isNew = d[k].isNew
           /\ \A j \in Keys : j # k => e[j] = d[j]
<1> DEFINE new1 == IF d[k] = Absent THEN path = "INSERT" ELSE d[k].isNew
           rec  == [row |-> r, deleted |-> FALSE, isNew |-> new1]
<1>1. rec \in Deltas
  BY DEF Deltas
<1>2. rec # Absent
  BY <1>1, StartAssumption
<1>3. e = [d EXCEPT ![k] = rec]
  BY DEF Upsert
<1>4. e[k] = rec /\ \A j \in Keys : j # k => e[j] = d[j]
  BY <1>3
<1>5. e \in [Keys -> Deltas \cup {Absent}]
  BY <1>1, <1>3
<1>6. e[k] # Absent /\ e[k].row = r /\ ~e[k].deleted
  BY <1>2, <1>4
<1>7. CASE d[k] = Absent
  <2>1. rec.isNew = (path = "INSERT")
    BY <1>7
  <2> QED
    BY <1>4, <1>5, <1>6, <1>7, <2>1
<1>8. CASE d[k] # Absent
  <2>1. rec.isNew = d[k].isNew
    BY <1>8
  <2> QED
    BY <1>4, <1>5, <1>6, <1>8, <2>1
<1> QED
  BY <1>7, <1>8

-----------------------------------------------------------------------------
(* What a DELETE takes with it.                                            *)

\* The row at c goes when the row it refers to does.
Follows(rows, c) == FK[c[1]].rule = "CASCADE" /\ rows[c] # Absent
Added(rows, S)   == {c \in Keys : Follows(rows, c) /\ Parent(c[1], rows[c]) \in S}
Levels(rows, roots, f) ==
    f = [n \in Nat |-> IF n = 0 THEN roots ELSE f[n - 1] \cup Added(rows, f[n - 1])]

\* A chain of rows from c to one of the roots, each the parent of the one before it.
Chain(rows, roots, c, m, p) ==
    /\ p \in [0..m -> Keys] /\ p[0] = c /\ p[m] \in roots
    /\ \A i \in 0..(m - 1) : /\ Follows(rows, p[i])
                             /\ Parent(p[i][1], rows[p[i]]) = p[i + 1]
Within(rows, roots, n) ==
    {c \in Keys : \E m \in 0..n : \E p : Chain(rows, roots, c, m, p)}

(* A row without a parent on the way is a chain by itself.                 *)
LEMMA ShortChain ==
    ASSUME NEW rows, NEW roots \in SUBSET Keys, NEW c \in Keys
    PROVE  (\E p : Chain(rows, roots, c, 0, p)) <=> c \in roots
<1>1. ASSUME NEW p, Chain(rows, roots, c, 0, p) PROVE c \in roots
  BY <1>1 DEF Chain
<1>2. ASSUME c \in roots PROVE Chain(rows, roots, c, 0, [i \in 0..0 |-> c])
  BY <1>2 DEF Chain
<1> QED
  BY <1>1, <1>2

(* A longer chain begins with a row and its parent.                        *)
LEMMA LongChain ==
    ASSUME NEW rows, NEW roots \in SUBSET Keys, NEW c \in Keys, NEW m \in Nat
    PROVE  (\E p : Chain(rows, roots, c, m + 1, p)) <=>
               /\ Follows(rows, c)
               /\ Parent(c[1], rows[c]) \in Keys
               /\ \E p : Chain(rows, roots, Parent(c[1], rows[c]), m, p)
<1> DEFINE d == Parent(c[1], rows[c])
<1>1. ASSUME NEW p, Chain(rows, roots, c, m + 1, p)
      PROVE  Follows(rows, c) /\ d \in Keys /\ \E q : Chain(rows, roots, d, m, q)
  <2> DEFINE q == [i \in 0..m |-> p[i + 1]]
  <2>1. /\ p \in [0..(m + 1) -> Keys] /\ p[0] = c /\ p[m + 1] \in roots
        /\ \A i \in 0..m : Follows(rows, p[i]) /\ Parent(p[i][1], rows[p[i]]) = p[i + 1]
    BY <1>1 DEF Chain
  <2>2. Follows(rows, c) /\ d = p[1] /\ d \in Keys
    <3>1. 0 \in 0..m /\ 1 \in 0..(m + 1)
      OBVIOUS
    <3> HIDE DEF d
    <3>2. Follows(rows, p[0]) /\ Parent(p[0][1], rows[p[0]]) = p[0 + 1]
      BY <2>1, <3>1
    <3> QED
      BY <2>1, <3>1, <3>2 DEF d
  <2>3. q \in [0..m -> Keys] /\ q[0] = d /\ q[m] \in roots
    BY <2>1, <2>2
  <2>4. ASSUME NEW i \in 0..(m - 1)
        PROVE  Follows(rows, q[i]) /\ Parent(q[i][1], rows[q[i]]) = q[i + 1]
    <3>1. i + 1 \in 0..m /\ i \in 0..m /\ q[i] = p[i + 1] /\ q[i + 1] = p[i + 1 + 1]
      OBVIOUS
    <3> QED
      BY <2>1, <3>1
  <2> HIDE DEF q, d
  <2>5. Chain(rows, roots, d, m, q)
    BY <2>3, <2>4 DEF Chain
  <2> QED
    BY <2>2, <2>5
<1>2. ASSUME Follows(rows, c), d \in Keys, NEW p, Chain(rows, roots, d, m, p)
      PROVE  \E q : Chain(rows, roots, c, m + 1, q)
  <2> DEFINE q == [i \in 0..(m + 1) |-> IF i = 0 THEN c ELSE p[i - 1]]
  <2>1. /\ p \in [0..m -> Keys] /\ p[0] = d /\ p[m] \in roots
        /\ \A i \in 0..(m - 1) : /\ Follows(rows, p[i])
                                 /\ Parent(p[i][1], rows[p[i]]) = p[i + 1]
    BY <1>2 DEF Chain
  <2>2. q \in [0..(m + 1) -> Keys] /\ q[0] = c /\ q[m + 1] \in roots
    <3> HIDE DEF d
    <3> QED
      BY <2>1
  <2>3. ASSUME NEW i \in 0..m
        PROVE  Follows(rows, q[i]) /\ Parent(q[i][1], rows[q[i]]) = q[i + 1]
    <3>1. CASE i = 0
      <4>1. q[i] = c /\ q[i + 1] = p[0]
        BY <3>1
      <4> HIDE DEF q
      <4> QED
        BY <1>2, <2>1, <4>1
    <3>2. CASE i # 0
      <4>1. i - 1 \in 0..(m - 1) /\ q[i] = p[i - 1] /\ q[i + 1] = p[i - 1 + 1]
        BY <3>2
      <4> HIDE DEF q
      <4> QED
        BY <2>1, <4>1
    <3> QED
      BY <3>1, <3>2
  <2> HIDE DEF q
  <2>4. 0..(m + 1 - 1) = 0..m
    OBVIOUS
  <2>5. Chain(rows, roots, c, m + 1, q)
    BY <2>2, <2>3, <2>4 DEF Chain
  <2> QED
    BY <2>5
<1> QED
  BY <1>1, <1>2

(* The levels of the cascade exist, and the last one counts.               *)
LEMMA TakenLevels ==
    ASSUME NEW rows, NEW roots \in SUBSET Keys
    PROVE  \E f : Levels(rows, roots, f) /\ Taken(rows, roots) = f[Cardinality(Tables)]
<1> DEFINE W(n) == Within(rows, roots, n)
           w == [n \in Nat |-> W(n)]
<1>1. W(0) = roots
  <2>1. \A c \in Keys : c \in W(0) <=> \E p : Chain(rows, roots, c, 0, p)
    BY DEF Within
  <2> QED
    BY <2>1, ShortChain DEF Within
<1>2. ASSUME NEW n \in Nat PROVE W(n + 1) = W(n) \cup Added(rows, W(n))
  <2> SUFFICES ASSUME NEW c \in Keys
               PROVE  c \in W(n + 1) <=> c \in W(n) \cup Added(rows, W(n))
    BY DEF Within, Added
  <2> DEFINE d == Parent(c[1], rows[c])
  <2>1. c \in W(n + 1) <=> c \in roots \/ \E m \in 0..n : \E p : Chain(rows, roots, c, m + 1, p)
    <3>1. c \in W(n + 1) <=> \E m \in 0..(n + 1) : \E p : Chain(rows, roots, c, m, p)
      BY DEF Within
    <3>2. ASSUME NEW m \in 0..(n + 1) PROVE m = 0 \/ (m - 1 \in 0..n /\ m = m - 1 + 1)
      OBVIOUS
    <3>3. \A m \in 0..n : m + 1 \in 0..(n + 1)
      OBVIOUS
    <3> QED
      BY <3>1, <3>2, <3>3, ShortChain
  <2>2. c \in roots => c \in W(n)
    <3>1. 0 \in 0..n
      OBVIOUS
    <3> QED
      BY <3>1, ShortChain DEF Within
  <2>3. c \in W(n) => c \in W(n + 1)
    BY DEF Within
  <2>4. c \in Added(rows, W(n)) <=> \E m \in 0..n : \E p : Chain(rows, roots, c, m + 1, p)
    <3>1. ASSUME NEW m \in 0..n
          PROVE  (\E p : Chain(rows, roots, c, m + 1, p)) <=>
                   /\ Follows(rows, c) /\ d \in Keys
                   /\ \E p : Chain(rows, roots, d, m, p)
      <4>1. m \in Nat
        OBVIOUS
      <4> QED
        BY <4>1, LongChain
    <3>2. c \in Added(rows, W(n)) <=>
            Follows(rows, c) /\ d \in Keys /\ \E m \in 0..n : \E p : Chain(rows, roots, d, m, p)
      BY DEF Added, Within
    <3> QED
      BY <3>1, <3>2
  <2> QED
    BY <2>1, <2>2, <2>3, <2>4
<1> HIDE DEF W
<1>3. Levels(rows, roots, w)
  <2>1. ASSUME NEW n \in Nat, n # 0 PROVE n - 1 \in Nat /\ n = n - 1 + 1
    BY <2>1
  <2>2. ASSUME NEW n \in Nat
        PROVE  w[n] = IF n = 0 THEN roots ELSE w[n - 1] \cup Added(rows, w[n - 1])
    BY <1>1, <1>2, <2>1
  <2> HIDE DEF w
  <2>3. w = [n \in Nat |-> w[n]]
    BY DEF w
  <2> QED
    BY <2>2, <2>3 DEF Levels
<1> HIDE DEF w
<1> DEFINE F(g) == [n \in Nat |-> IF n = 0 THEN roots ELSE
                       g[n - 1] \cup {c \in Keys : /\ FK[c[1]].rule = "CASCADE"
                                                   /\ rows[c] # Absent
                                                   /\ Parent(c[1], rows[c]) \in g[n - 1]}]
           h == CHOOSE g : g = F(g)
<1>4. Taken(rows, roots) = h[Cardinality(Tables)]
  BY DEF Taken, Parent
<1>5. \A g : g = F(g) <=> Levels(rows, roots, g)
  BY DEF Levels, Added, Follows, Parent
<1> HIDE DEF F
<1>6. h = F(h)
  BY <1>3, <1>5
<1> QED
  BY <1>4, <1>5, <1>6

(* A nonempty set of numbers has a least element.                          *)
LEMMA LeastExists ==
    ASSUME NEW T \in SUBSET Nat, T # {}
    PROVE  \E n \in T : \A m \in T : n <= m
<1> DEFINE Below == OpToRel(<, Nat)
<1>1. IsWellFoundedOn(Below, Nat)
  BY NatLessThanWellFounded
<1>2. \A a, b \in Nat : a < b => <<a, b>> \in Below
  BY DEF OpToRel
<1> HIDE DEF Below
<1>3. PICK n \in T : \A m \in T : <<m, n>> \notin Below
  BY <1>1, WFMin
<1>4. ASSUME NEW m \in T PROVE n <= m
  <2>1. m \in Nat /\ n \in Nat /\ ~(m < n)
    BY <1>2, <1>3
  <2> QED
    BY <2>1
<1> QED
  BY <1>4

(* The levels, one by one.                                                 *)
LEMMA LevelStep ==
    ASSUME NEW rows, NEW roots, NEW f, Levels(rows, roots, f), NEW n \in Nat
    PROVE  f[n + 1] = f[n] \cup Added(rows, f[n])
<1>1. n + 1 \in Nat /\ n + 1 # 0 /\ n + 1 - 1 = n
  OBVIOUS
<1>2. \A k \in Nat : k # 0 => f[k] = f[k - 1] \cup Added(rows, f[k - 1])
  BY DEF Levels
<1> QED
  BY <1>1, <1>2

(* A level has all the rows of the levels before it.                       *)
LEMMA LevelsGrow ==
    ASSUME NEW rows, NEW roots, NEW f, Levels(rows, roots, f)
    PROVE  \A m, n \in Nat : m <= n => f[m] \subseteq f[n]
<1> SUFFICES ASSUME NEW m \in Nat, \E n \in Nat : m <= n /\ ~(f[m] \subseteq f[n])
             PROVE  FALSE
  OBVIOUS
<1> DEFINE T == {n \in Nat : m <= n /\ ~(f[m] \subseteq f[n])}
<1>1. PICK n \in T : \A k \in T : n <= k
  BY LeastExists
<1>2. n \in Nat /\ m <= n /\ n # m
  OBVIOUS
<1>3. n - 1 \in Nat /\ m <= n - 1 /\ n # 0 /\ ~(n <= n - 1)
  BY <1>2
<1>4. f[m] \subseteq f[n - 1]
  BY <1>1, <1>3
<1>5. f[n] = f[n - 1] \cup Added(rows, f[n - 1])
  BY <1>2, <1>3, LevelStep
<1> QED
  BY <1>4, <1>5

(* Without cycles a row is reached by the level of its table's rank.       *)
LEMMA RankBounds ==
    ASSUME NEW rows, NEW roots, NEW f, Levels(rows, roots, f), roots \subseteq Keys,
           NEW rank \in [Tables -> 0..Cardinality(Tables)],
           \A t \in Tables : FK[t].table # Null => rank[FK[t].table] < rank[t]
    PROVE  \A n \in Nat : \A c \in f[n] : c \in Keys /\ c \in f[rank[c[1]]]
<1>0. Cardinality(Tables) \in Nat
  BY FKAssumption, FS_CardinalityType
<1> SUFFICES ASSUME \E n \in Nat : \E c \in f[n] : ~(c \in Keys /\ c \in f[rank[c[1]]])
             PROVE  FALSE
  OBVIOUS
<1> DEFINE T == {n \in Nat : \E c \in f[n] : ~(c \in Keys /\ c \in f[rank[c[1]]])}
<1>1. PICK n \in T : \A k \in T : n <= k
  BY LeastExists
<1>2. PICK c \in f[n] : ~(c \in Keys /\ c \in f[rank[c[1]]])
  OBVIOUS
<1>3. ASSUME NEW b \in Keys PROVE b[1] \in Tables /\ rank[b[1]] \in Nat
  BY <1>0 DEF Keys
<1>4. CASE n = 0
  <2>1. f[0] = roots /\ c \in Keys
    BY <1>2, <1>4 DEF Levels
  <2>2. f[0] \subseteq f[rank[c[1]]]
    BY <1>3, <2>1, LevelsGrow
  <2> QED
    BY <1>2, <1>4, <2>1, <2>2
<1>5. CASE n # 0
  <2>0. n \in Nat /\ n - 1 \in Nat /\ ~(n <= n - 1) /\ n - 1 + 1 = n
    BY <1>5
  <2>1. f[n] = f[n - 1] \cup Added(rows, f[n - 1])
    BY <2>0, LevelStep
  <2>2. \A b \in f[n - 1] : b \in Keys /\ b \in f[rank[b[1]]]
    BY <1>1, <2>0
  <2>3. c \in Added(rows, f[n - 1])
    BY <1>2, <2>1, <2>2
  <2> DEFINE d == Parent(c[1], rows[c])
  <2>4. c \in Keys /\ Follows(rows, c) /\ d \in Keys /\ d \in f[rank[d[1]]]
    BY <2>2, <2>3 DEF Added
  <2>5. d[1] = FK[c[1]].table
    BY DEF Parent
  <2>6. FK[c[1]].table # Null
    BY <1>3, <2>4, <2>5, SentinelAssumption
  <2>7. rank[d[1]] < rank[c[1]] /\ rank[d[1]] \in Nat /\ rank[c[1]] \in Nat
    BY <1>3, <2>4, <2>5, <2>6
  <2>8. rank[c[1]] - 1 \in Nat /\ rank[d[1]] <= rank[c[1]] - 1 /\ rank[c[1]] # 0
    BY <2>7
  <2>9. d \in f[rank[c[1]] - 1]
    BY <2>4, <2>7, <2>8, LevelsGrow
  <2>10. f[rank[c[1]]] = f[rank[c[1]] - 1] \cup Added(rows, f[rank[c[1]] - 1])
    BY <2>7, <2>8, LevelStep
  <2>11. c \in Added(rows, f[rank[c[1]] - 1])
    BY <2>4, <2>9 DEF Added
  <2> QED
    BY <1>2, <2>4, <2>10, <2>11
<1> QED
  BY <1>4, <1>5

(* A DELETE takes its roots, and with every row those that refer to it by  *)
(* CASCADE, however long the chains are: as many levels as there are       *)
(* tables are enough.                                                      *)
LEMMA TakenIsClosed ==
    ASSUME NEW rows, NEW roots \in SUBSET Keys
    PROVE  /\ roots \subseteq Taken(rows, roots)
           /\ Taken(rows, roots) \subseteq Keys
           /\ Added(rows, Taken(rows, roots)) \subseteq Taken(rows, roots)
<1> DEFINE N == Cardinality(Tables)
<1>1. PICK f : Levels(rows, roots, f) /\ Taken(rows, roots) = f[N]
  BY TakenLevels
<1>2. N \in Nat
  BY FKAssumption, FS_CardinalityType
<1>3. PICK rank \in [Tables -> 0..N] :
        \A t \in Tables : FK[t].table # Null => rank[FK[t].table] < rank[t]
  BY FKAssumption
<1>4. \A n \in Nat : \A c \in f[n] : c \in Keys /\ c \in f[rank[c[1]]]
  BY <1>1, <1>3, RankBounds
<1>5. \A m, n \in Nat : m <= n => f[m] \subseteq f[n]
  BY <1>1, LevelsGrow
<1>6. roots \subseteq f[N]
  <2>1. f[0] = roots
    BY <1>1 DEF Levels
  <2>2. f[0] \subseteq f[N]
    <3>1. 0 \in Nat /\ 0 <= N
      BY <1>2
    <3> QED
      BY <1>2, <1>5, <3>1
  <2> QED
    BY <2>1, <2>2
<1>7. f[N + 1] = f[N] \cup Added(rows, f[N])
  BY <1>1, <1>2, LevelStep
<1>8. ASSUME NEW c \in Added(rows, f[N]) PROVE c \in f[N]
  <2>1. N + 1 \in Nat
    BY <1>2
  <2>2. c \in Keys /\ c \in f[rank[c[1]]]
    BY <1>4, <1>7, <2>1
  <2>3. rank[c[1]] \in Nat /\ rank[c[1]] <= N
    BY <1>2, <1>3, <2>2 DEF Keys
  <2> QED
    BY <1>2, <1>5, <2>2, <2>3
<1> QED
  BY <1>1, <1>2, <1>4, <1>6, <1>8

-----------------------------------------------------------------------------
(* The statements.                                                         *)

(* An INSERT through a view keeps the invariant.                           *)
LEMMA InsertKeepsInv ==
    ASSUME StoreInv, NEW t \in Tables, NEW asked \in ExplicitIds \cup {Null},
           NEW v \in Vals, NEW i \in KnownRefs(t),
           BranchInsert(t, asked, [val |-> v, ref |-> i])
    PROVE  StoreInv'
<1> DEFINE given == IF asked = Null THEN pubSeq[t] ELSE asked
           keep  == base[<<t, given>>] # Absent
           id    == IF keep THEN given ELSE localSeq[t]
           r     == [val |-> v, ref |-> i]
<1>1. /\ asked = Null => given \in ProdIds
      /\ keep \/ id \in LocalIds
      /\ delta' = Upsert(delta, <<t, id>>, r, "INSERT")
      /\ pubSeq' = [pubSeq EXCEPT ![t] = IF asked = Null THEN given + 1 ELSE @]
      /\ localSeq' = [localSeq EXCEPT ![t] = IF keep THEN @ ELSE @ + 1]
      /\ budget > 0 /\ budget' = budget - 1
      /\ pending' = pending \cup {u \in {t} : view[u] = "passthrough"}
      /\ UNCHANGED <<base, view, stamped>>
  BY DEF BranchInsert, Spend, Notify
<1>2. r \in Rows /\ (FK[t].table = Null => r.ref = Null)
  BY DEF KnownRefs, Rows, Refs
<1>3. <<t, id>> \in Keys /\ id \in Ids
  BY <1>1, StartAssumption DEF Keys, Ids
<1>4. delta \in [Keys -> Deltas \cup {Absent}]
  BY DEF StoreInv, TypeOK
<1>5. /\ delta' \in [Keys -> Deltas \cup {Absent}]
      /\ delta'[<<t, id>>].row = r
      /\ delta[<<t, id>>] = Absent => delta'[<<t, id>>].isNew
      /\ delta[<<t, id>>] # Absent => delta'[<<t, id>>].isNew = delta[<<t, id>>].isNew
      /\ \A j \in Keys : j # <<t, id>> => delta'[j] = delta[j]
  <2> DEFINE k == <<t, id>>
  <2>1. k \in Keys /\ r \in Rows /\ delta' = Upsert(delta, k, r, "INSERT")
    BY <1>1, <1>2, <1>3
  <2> HIDE DEF k, r
  <2>2. /\ delta' \in [Keys -> Deltas \cup {Absent}]
        /\ delta'[k].row = r
        /\ delta[k] = Absent => delta'[k].isNew
        /\ delta[k] # Absent => delta'[k].isNew = delta[k].isNew
        /\ \A j \in Keys : j # k => delta'[j] = delta[j]
    BY <2>1, <1>4, UpsertType DEF Paths
  <2> QED
    BY <2>2 DEF k, r
<1>6. TypeOK'
  <2>1. pubSeq' \in [Tables -> NextIds(ProdIds)]
    BY <1>1 DEF StoreInv, TypeOK, NextIds
  <2>2. localSeq' \in [Tables -> NextIds(LocalIds)]
    BY <1>1 DEF StoreInv, TypeOK, NextIds
  <2>3. budget' \in 0..MaxWrites
    BY SpendType DEF StoreInv, BranchInsert
  <2> QED
    BY <1>1, <1>5, <2>1, <2>2, <2>3 DEF StoreInv, TypeOK
<1>7. LocalIdsStayNew'
  BY <1>1, <1>3, <1>5 DEF StoreInv, LocalIdsStayNew, Present
<1>8. RefsHaveFK'
  BY <1>1, <1>2, <1>3, <1>5 DEF StoreInv, RefsHaveFK, Keys
<1> QED
  BY <1>6, <1>7, <1>8 DEF StoreInv

(* The UPDATE path of a trigger: a row under a local id that has no delta  *)
(* row yet is never written through it.                                    *)
LEMMA UpsertKeepsInv ==
    ASSUME StoreInv, NEW k \in Keys, NEW r \in Rows,
           k[2] \in DrawnIds => delta[k] # Absent,
           FK[k[1]].table = Null => r.ref = Null,
           delta' = Upsert(delta, k, r, "UPDATE"),
           Spend, Notify({k[1]}),
           UNCHANGED <<base, view, pubSeq, localSeq, stamped>>
    PROVE  StoreInv'
<1>1. delta \in [Keys -> Deltas \cup {Absent}]
  BY DEF StoreInv, TypeOK
<1>2. /\ delta' \in [Keys -> Deltas \cup {Absent}]
      /\ delta'[k].row = r
      /\ delta'[k] # Absent
      /\ delta[k] = Absent => ~delta'[k].isNew
      /\ delta[k] # Absent => delta'[k].isNew = delta[k].isNew
      /\ \A j \in Keys : j # k => delta'[j] = delta[j]
  BY <1>1, UpsertType DEF Paths
<1>3. TypeOK'
  <2>1. k[1] \in Tables
    BY DEF Keys
  <2>2. budget' \in 0..MaxWrites
    BY SpendType DEF StoreInv
  <2> QED
    BY <1>2, <2>1, <2>2 DEF StoreInv, TypeOK, Notify
<1>4. LocalIdsStayNew'
  BY <1>2 DEF StoreInv, LocalIdsStayNew, Present
<1>5. RefsHaveFK'
  BY <1>2 DEF StoreInv, RefsHaveFK
<1> QED
  BY <1>3, <1>4, <1>5 DEF StoreInv

(* An UPDATE through a view, of the payload or of the reference, keeps the *)
(* invariant.                                                              *)
LEMMA UpdateKeepsInv ==
    ASSUME StoreInv, NEW k \in Keys, NEW r \in Rows, BranchUpdate(k, r),
           FK[k[1]].table = Null => r.ref = Null
    PROVE  StoreInv'
<1>1. k[2] \in DrawnIds => delta[k] # Absent
  <2>1. SUFFICES ASSUME k[2] \in DrawnIds, delta[k] = Absent
                 PROVE  FALSE
    OBVIOUS
  <2>2. base[k] # Absent
    BY <2>1, ShownWithoutDelta DEF BranchUpdate
  <2>3. k[2] \notin DrawnIds
    BY <2>2 DEF StoreInv, LocalIdsStayNew, Present
  <2> QED
    BY <2>1, <2>3
<1> QED
  BY <1>1, UpsertKeepsInv DEF BranchUpdate

(* An UPDATE of the primary key keeps the invariant.                       *)
LEMMA MoveKeepsInv ==
    ASSUME StoreInv, NEW k \in Keys, NEW id \in ExplicitIds, BranchMove(k, id)
    PROVE  StoreInv'
<1>1. <<k[1], id>> \in Keys /\ id \notin DrawnIds
  BY StartAssumption DEF Keys, DrawnIds
<1>2. Shown(k) \in Rows
  BY ShownType DEF BranchMove, StoreInv
<1>3. FK[k[1]].table = Null => Shown(k).ref = Null
  BY ShownRef DEF BranchMove, StoreInv
<1> QED
  BY <1>1, <1>2, <1>3, UpsertKeepsInv DEF BranchMove

(* A DELETE through a view, cascades included, touches only rows that the  *)
(* views show, so that no local id gets its first delta row by it.         *)
LEMMA DeleteRows ==
    ASSUME StoreInv, NEW k \in Keys, BranchDelete(k)
    PROVE  /\ delta' \in [Keys -> Deltas \cup {Absent}]
           /\ pending' \subseteq Tables
           /\ \A c \in Keys :
                \/ delta'[c] = delta[c]
                \/ /\ delta[c] = Absent
                   /\ c[2] \notin DrawnIds
                   /\ delta'[c] # Absent => delta'[c].row.ref = Null
                \/ /\ delta[c] # Absent
                   /\ delta'[c].isNew = delta[c].isNew
                   /\ delta'[c].row.ref \in {Null, delta[c].row.ref}
<1> DEFINE doomed   == Doomed(Visible, {k})
           orphaned == Orphaned(Visible, {k})
           cut(c)   == [Visible[c] EXCEPT !.ref = Null]
<1>1. /\ delta' = [c \in Keys |-> IF c \in doomed THEN Tombstone(delta, c)
                                 ELSE IF c \in orphaned
                                 THEN Upsert(delta, c, cut(c), "UPDATE")[c]
                                 ELSE delta[c]]
      /\ Spend
      /\ pending' = pending \cup {t \in {c[1] : c \in doomed \cup orphaned} :
                                      view[t] = "passthrough"}
      /\ UNCHANGED <<base, view, pubSeq, localSeq, stamped>>
  BY DEF BranchDelete, Notify
<1>2. \A c \in doomed \cup orphaned : c \in Keys /\ Shown(c) # Absent /\ Visible[c] = Shown(c)
  <2>1. \A c \in doomed : c \in Keys /\ Visible[c] # Absent
    BY DEF Doomed, Present
  <2>2. \A c \in orphaned : c \in Keys /\ Visible[c] # Absent
    BY DEF Orphaned, DoomedBy, Refers
  <2> QED
    BY <2>1, <2>2 DEF Visible
<1>3. ASSUME NEW c \in doomed \cup orphaned
      PROVE  /\ cut(c) \in Rows
             /\ cut(c).ref = Null
             /\ delta[c] = Absent => c[2] \notin DrawnIds
  <2>1. c \in Keys /\ Shown(c) \in Rows
    BY <1>2, ShownType DEF StoreInv
  <2>2. cut(c) \in Rows /\ cut(c).ref = Null
    BY <1>2, <2>1 DEF Rows, Refs
  <2>3. delta[c] = Absent => base[c] # Absent
    BY <1>2, <2>1, ShownWithoutDelta
  <2>4. base[c] # Absent => c[2] \notin DrawnIds
    BY <2>1 DEF StoreInv, LocalIdsStayNew, Present
  <2> QED
    BY <2>2, <2>3, <2>4
<1>4. delta \in [Keys -> Deltas \cup {Absent}]
  BY DEF StoreInv, TypeOK
<1> HIDE DEF doomed, orphaned, cut
<1>5. ASSUME NEW c \in Keys
      PROVE  /\ delta'[c] \in Deltas \cup {Absent}
             /\ \/ delta'[c] = delta[c]
                \/ /\ delta[c] = Absent
                   /\ c[2] \notin DrawnIds
                   /\ delta'[c] # Absent => delta'[c].row.ref = Null
                \/ /\ delta[c] # Absent
                   /\ delta'[c].isNew = delta[c].isNew
                   /\ delta'[c].row.ref \in {Null, delta[c].row.ref}
  <2>1. CASE c \in doomed
    <3>1. delta'[c] = Tombstone(delta, c)
      BY <1>1, <2>1
    <3>2. CASE delta[c] = Absent
      <4>1. delta'[c] = [row |-> [val |-> Null, ref |-> Null], deleted |-> TRUE, isNew |-> FALSE]
        BY <3>1, <3>2 DEF Tombstone
      <4>2. delta'[c] \in Deltas /\ delta'[c].row.ref = Null
        BY <4>1 DEF Deltas, Rows, Refs
      <4> QED
        BY <1>3, <2>1, <3>2, <4>2
    <3>3. CASE delta[c] # Absent
      <4>1. delta[c] \in Deltas /\ delta'[c] = [delta[c] EXCEPT !.deleted = TRUE]
        BY <1>4, <3>1, <3>3 DEF Tombstone
      <4>2. delta'[c] \in Deltas
        BY <4>1 DEF Deltas
      <4>3. delta'[c].isNew = delta[c].isNew /\ delta'[c].row = delta[c].row
        BY <4>1 DEF Deltas
      <4> QED
        BY <3>3, <4>2, <4>3
    <3> QED
      BY <3>2, <3>3
  <2>2. CASE c \notin doomed /\ c \in orphaned
    <3> DEFINE e == Upsert(delta, c, cut(c), "UPDATE")
    <3>1. delta'[c] = e[c]
      BY <1>1, <2>2
    <3>2. cut(c) \in Rows /\ cut(c).ref = Null
      BY <1>3, <2>2
    <3>3. /\ e \in [Keys -> Deltas \cup {Absent}]
          /\ e[c].row = cut(c)
          /\ delta[c] # Absent => e[c].isNew = delta[c].isNew
      <4> HIDE DEF e
      <4>1. e = Upsert(delta, c, cut(c), "UPDATE")
        BY DEF e
      <4> QED
        BY <1>4, <3>2, <4>1, UpsertType DEF Paths
    <3> HIDE DEF e
    <3> QED
      BY <1>3, <2>2, <3>1, <3>2, <3>3
  <2>3. CASE c \notin doomed /\ c \notin orphaned
    BY <1>1, <1>4, <2>3
  <2> QED
    BY <2>1, <2>2, <2>3
<1>6. delta' \in [Keys -> Deltas \cup {Absent}]
  BY <1>1, <1>5
<1>7. pending' \subseteq Tables
  BY <1>1, <1>2 DEF StoreInv, TypeOK, Keys
<1> QED
  BY <1>5, <1>6, <1>7

(* A DELETE keeps the invariant.                                           *)
LEMMA DeleteKeepsInv ==
    ASSUME StoreInv, NEW k \in Keys, BranchDelete(k)
    PROVE  StoreInv'
<1>1. Spend /\ UNCHANGED <<base, view, pubSeq, localSeq, stamped>>
  BY DEF BranchDelete
<1>2. TypeOK'
  <2>1. budget' \in 0..MaxWrites
    BY <1>1, SpendType DEF StoreInv
  <2> QED
    BY <1>1, <2>1, DeleteRows DEF StoreInv, TypeOK
<1>3. LocalIdsStayNew'
  BY <1>1, DeleteRows DEF StoreInv, LocalIdsStayNew, Present
<1>4. RefsHaveFK'
  BY <1>1, DeleteRows DEF StoreInv, RefsHaveFK
<1> QED
  BY <1>2, <1>3, <1>4 DEF StoreInv

(* The listener changes no row.                                            *)
LEMMA ListenerKeepsInv ==
    ASSUME StoreInv, ListenerStep
    PROVE  StoreInv'
<1>1. PICK t \in Tables : Upgrade(t) \/ LoseNotification(t)
  BY DEF ListenerStep
<1>2. UNCHANGED <<base, delta, pubSeq, localSeq, stamped, budget>>
  BY <1>1 DEF Upgrade, LoseNotification
<1>3. view' \in [Tables -> Views] /\ pending' \subseteq Tables
  BY <1>1 DEF Upgrade, LoseNotification, StoreInv, TypeOK, Views
<1> QED
  BY <1>2, <1>3 DEF StoreInv, TypeOK, LocalIdsStayNew, RefsHaveFK, Present

(* A production statement keeps the invariant.                             *)
LEMMA BaseKeepsInv ==
    ASSUME StoreInv, BaseStatement
    PROVE  StoreInv'
<1>1. /\ base \in [Keys -> Rows \cup {Absent}]
      /\ pubSeq \in [Tables -> NextIds(ProdIds)]
      /\ stamped \subseteq Keys
  BY DEF StoreInv, TypeOK
<1>2. SUFFICES /\ base' \in [Keys -> Rows \cup {Absent}]
               /\ pubSeq' \in [Tables -> NextIds(ProdIds)]
               /\ stamped' \subseteq Keys
               /\ Spend
               /\ UNCHANGED <<delta, view, pending, localSeq>>
               /\ \A k \in Keys : base'[k] # Absent =>
                    /\ k[2] \notin DrawnIds
                    /\ base'[k].ref \notin DrawnIds
                    /\ FK[k[1]].table = Null => base'[k].ref = Null
  <2>1. budget' \in 0..MaxWrites
    BY <1>2, SpendType DEF StoreInv
  <2>2. TypeOK'
    BY <1>2, <2>1 DEF StoreInv, TypeOK
  <2> QED
    BY <1>2, <2>2 DEF StoreInv, LocalIdsStayNew, RefsHaveFK, Present
<1>3. \A k \in Keys : base[k] # Absent =>
        /\ k[2] \notin DrawnIds
        /\ base[k].ref \notin DrawnIds
        /\ FK[k[1]].table = Null => base[k].ref = Null
  BY DEF StoreInv, LocalIdsStayNew, RefsHaveFK, Present
<1>4. ASSUME NEW t \in Tables, NEW v \in Vals, NEW i \in ProdIds \cup {Null},
             BaseInsert(t, [val |-> v, ref |-> i])
      PROVE  <1>2!1
  <2> DEFINE k == <<t, pubSeq[t]>>
             r == [val |-> v, ref |-> i]
  <2>1. /\ pubSeq[t] \in ProdIds
        /\ pubSeq' = [pubSeq EXCEPT ![t] = @ + 1]
        /\ r.ref # Null => FK[t].table # Null
        /\ \/ base' = [base EXCEPT ![k] = r] /\ Stamp(k)
           \/ UNCHANGED <<base, stamped>>
        /\ Spend
        /\ UNCHANGED <<delta, view, pending, localSeq>>
    BY <1>4 DEF BaseInsert
  <2>2. k \in Keys /\ r \in Rows /\ k[2] \in ProdIds /\ k[1] = t
    BY <2>1 DEF Keys, Ids, Rows, Refs
  <2>3. r.ref = i /\ i \notin DrawnIds /\ k[2] \notin DrawnIds
    BY <2>2, DrawnIsLocal
  <2>4. pubSeq' \in [Tables -> NextIds(ProdIds)]
    BY <1>1, <2>1 DEF NextIds
  <2>5. stamped' \subseteq Keys
    BY <1>1, <2>1, <2>2 DEF Stamp
  <2> HIDE DEF k, r
  <2> QED
    BY <1>1, <1>3, <2>1, <2>2, <2>3, <2>4, <2>5
<1>5. ASSUME NEW k \in Keys, NEW v \in Vals, BaseUpdate(k, v)
      PROVE  <1>2!1
  <2>1. base[k] \in Rows
    BY <1>1, <1>5 DEF BaseUpdate
  <2>2. [base[k] EXCEPT !.val = v] \in Rows /\ [base[k] EXCEPT !.val = v].ref = base[k].ref
    BY <2>1 DEF Rows
  <2>3. base' = [base EXCEPT ![k] = [base[k] EXCEPT !.val = v]]
    BY <1>5 DEF BaseUpdate
  <2> QED
    BY <1>1, <1>3, <1>5, <2>2, <2>3 DEF BaseUpdate, Stamp
<1>6. ASSUME NEW k \in Keys, BaseDelete(k)
      PROVE  <1>2!1
  <2>1. base' = AfterDelete(base, {k})
    BY <1>6 DEF BaseDelete
  <2>2. /\ base' \in [Keys -> Rows \cup {Absent}]
        /\ \A c \in Keys : \/ base'[c] = Absent
                           \/ base'[c] = base[c]
                           \/ /\ base[c] # Absent
                              /\ base'[c] = [base[c] EXCEPT !.ref = Null]
    BY <1>1, <2>1, AfterDeleteRow
  <2>3. \A c \in Keys : base[c] # Absent => [base[c] EXCEPT !.ref = Null].ref = Null
    BY <1>1 DEF Rows
  <2> QED
    BY <1>1, <1>3, <1>6, <2>2, <2>3, DrawnIsLocal DEF BaseDelete
<1> QED
  BY <1>4, <1>5, <1>6 DEF BaseStatement

(* Every statement on the branch keeps the invariant.                      *)
LEMMA BranchKeepsInv ==
    ASSUME StoreInv, BranchStatement
    PROVE  StoreInv'
<1>1. ASSUME NEW t \in Tables, NEW asked \in ExplicitIds \cup {Null}, NEW v \in Vals,
             NEW i \in KnownRefs(t), BranchInsert(t, asked, [val |-> v, ref |-> i])
      PROVE  StoreInv'
  BY <1>1, InsertKeepsInv
<1>2. ASSUME NEW k \in Keys, NEW v \in Vals, BranchUpdate(k, [Shown(k) EXCEPT !.val = v])
      PROVE  StoreInv'
  <2> DEFINE r == [Shown(k) EXCEPT !.val = v]
  <2>1. Shown(k) \in Rows /\ Shown(k) # Absent
    BY <1>2, ShownType DEF BranchUpdate, StoreInv
  <2>2. r \in Rows /\ r.ref = Shown(k).ref
    BY <2>1 DEF Rows
  <2>3. FK[k[1]].table = Null => r.ref = Null
    BY <2>1, <2>2, ShownRef DEF StoreInv
  <2> QED
    BY <1>2, <2>2, <2>3, UpdateKeepsInv
<1>3. ASSUME NEW k \in Keys, NEW i \in KnownRefs(k[1]),
             BranchUpdate(k, [Shown(k) EXCEPT !.ref = i])
      PROVE  StoreInv'
  <2> DEFINE r == [Shown(k) EXCEPT !.ref = i]
  <2>1. Shown(k) \in Rows /\ Shown(k) # Absent
    BY <1>3, ShownType DEF BranchUpdate, StoreInv
  <2>2. i \in Refs /\ (FK[k[1]].table = Null => i = Null)
    BY DEF KnownRefs, Refs
  <2>3. r \in Rows /\ r.ref = i
    BY <2>1, <2>2 DEF Rows
  <2> QED
    BY <1>3, <2>2, <2>3, UpdateKeepsInv
<1>4. ASSUME NEW k \in Keys, NEW id \in ExplicitIds, BranchMove(k, id)
      PROVE  StoreInv'
  BY <1>4, MoveKeepsInv
<1>5. ASSUME NEW k \in Keys, BranchDelete(k)
      PROVE  StoreInv'
  BY <1>5, DeleteKeepsInv
<1> QED
  BY <1>1, <1>2, <1>3, <1>4, <1>5 DEF BranchStatement

(* The invariant holds when the branch is created.                         *)
LEMMA InitEstablishesInv == Init => StoreInv
<1> SUFFICES ASSUME Init PROVE StoreInv
  OBVIOUS
<1>1. TypeOK
  <2>1. delta \in [Keys -> Deltas \cup {Absent}]
    BY DEF Init, EmptyRows
  <2>2. localSeq \in [Tables -> NextIds(LocalIds)]
    BY StartAssumption DEF Init, NextIds
  <2>3. budget \in 0..MaxWrites
    BY StartAssumption DEF Init
  <2> QED
    BY <2>1, <2>2, <2>3, StartAssumption DEF Init, TypeOK
<1>2. LocalIdsStayNew
  BY StartAssumption, DrawnIsLocal DEF Init, EmptyRows, LocalIdsStayNew, Present
<1>3. RefsHaveFK
  BY StartAssumption DEF Init, EmptyRows, RefsHaveFK
<1> QED
  BY <1>1, <1>2, <1>3 DEF StoreInv

(* The invariant of the data plane.                                        *)
THEOREM StoreInvariance == Spec => []StoreInv
<1>1. Init => StoreInv
  BY InitEstablishesInv
<1>2. StoreInv /\ [Next]_storeVars => StoreInv'
  <2> SUFFICES ASSUME StoreInv, [Next]_storeVars PROVE StoreInv'
    OBVIOUS
  <2>1. CASE BranchStatement
    BY <2>1, BranchKeepsInv
  <2>2. CASE ListenerStep
    BY <2>2, ListenerKeepsInv
  <2>3. CASE BaseStatement
    BY <2>3, BaseKeepsInv
  <2>4. CASE UNCHANGED storeVars
    BY <2>4 DEF storeVars, StoreInv, TypeOK, LocalIdsStayNew, RefsHaveFK, Present
  <2> QED
    BY <2>1, <2>2, <2>3, <2>4 DEF Next
<1> QED
  BY <1>1, <1>2, PTL DEF Spec

(* The delta tables, views, sequences and production tables stay well      *)
(* typed under every statement and notification (delta/schema.go).         *)
THEOREM TypeCorrect == Spec => []TypeOK
<1>1. StoreInv => TypeOK
  BY DEF StoreInv
<1> QED
  BY <1>1, StoreInvariance, PTL

(* A branch-local id only ever names a row marked __is_new, and production *)
(* has and refers to none (delta/schema.go, the three trigger paths).      *)
THEOREM LocalIdsAreNew == Spec => []LocalIdsStayNew
<1>1. StoreInv => LocalIdsStayNew
  BY DEF StoreInv
<1> QED
  BY <1>1, StoreInvariance, PTL

-----------------------------------------------------------------------------
(* The listener of BranchStore stands in for the real one.                 *)

Service == INSTANCE ViewUpgrade WITH Views <- Tables,
                                     upgraded <- {t \in Tables : view[t] = "overlay"},
                                     asked <- pending

(* Whatever ViewUpgrade lets a listener do to the views of a branch that   *)
(* stays, ListenerStep does: upgrade one that was asked for, or forget a   *)
(* request (several are forgotten one after the other).  The real listener *)
(* (proxy.go:81-165) does no more than that by                             *)
(* ListenerImplementsViewUpgrade, so that what holds beside ListenerStep   *)
(* holds beside it.                                                        *)
THEOREM ServiceIsCovered ==
    ASSUME TypeOK, view' \in [Tables -> Views],
           UNCHANGED <<base, delta, pubSeq, localSeq, stamped, budget>>,
           NEW t \in Tables, Service!Upgrade(t) \/ Service!Forget({t})
    PROVE  [ListenerStep]_storeVars
<1>1. CASE Service!Upgrade(t)
  <2>1. /\ t \in pending /\ pending' = pending \ {t}
        /\ {u \in Tables : view'[u] = "overlay"} =
              {u \in Tables : view[u] = "overlay"} \cup {t}
    BY <1>1 DEF Service!Upgrade
  <2>2. \A u \in Tables : view'[u] = IF u = t THEN "overlay" ELSE view[u]
    BY <2>1 DEF TypeOK, Views
  <2>3. view' = [view EXCEPT ![t] = "overlay"]
    BY <2>2 DEF TypeOK
  <2> QED
    BY <2>1, <2>3 DEF ListenerStep, Upgrade
<1>2. CASE Service!Forget({t})
  <2>1. /\ pending' = pending \ {t}
        /\ {u \in Tables : view'[u] = "overlay"} = {u \in Tables : view[u] = "overlay"}
    BY <1>2 DEF Service!Forget
  <2>2. \A u \in Tables : view'[u] = view[u]
    BY <2>1 DEF TypeOK, Views
  <2>3. view' = view
    BY <2>2 DEF TypeOK
  <2>4. CASE t \in pending
    BY <2>1, <2>3, <2>4 DEF ListenerStep, LoseNotification
  <2>5. CASE t \notin pending
    BY <2>1, <2>3, <2>5 DEF storeVars
  <2> QED
    BY <2>4, <2>5
<1> QED
  BY <1>1, <1>2

-----------------------------------------------------------------------------
(* A DELETE under the foreign keys, once the views are upgraded.           *)

AllOverlay == \A t \in Tables : view[t] = "overlay"

(* No view goes back.                                                      *)
LEMMA OverlayStays ==
    ASSUME StoreInv, AllOverlay, [Next]_storeVars
    PROVE  AllOverlay'
<1>1. view \in [Tables -> Views]
  BY DEF StoreInv, TypeOK
<1>2. CASE BranchStatement
  BY <1>2 DEF BranchStatement, BranchInsert, BranchUpdate, BranchMove, BranchDelete, AllOverlay
<1>3. CASE ListenerStep
  BY <1>1, <1>3 DEF ListenerStep, Upgrade, LoseNotification, AllOverlay
<1>4. CASE BaseStatement
  BY <1>4 DEF BaseStatement, BaseInsert, BaseUpdate, BaseDelete, AllOverlay
<1>5. CASE UNCHANGED storeVars
  BY <1>5 DEF storeVars, AllOverlay
<1> QED
  BY <1>2, <1>3, <1>4, <1>5 DEF Next

(* Upgraded views show production under the delta tables.                  *)
LEMMA OverlayShown ==
    ASSUME AllOverlay
    PROVE  /\ Visible = Overlay(base, delta)
           /\ \A k \in Keys : Shown(k) = Overlay(base, delta)[k]
<1>1. \A k \in Keys : Shown(k) = OverlayRow(base, delta, k)
  BY DEF AllOverlay, Shown, Keys
<1> QED
  BY <1>1 DEF Visible, Overlay

(* An upsert changes what the view shows at its key, and there only.       *)
LEMMA UpsertShown ==
    ASSUME StoreInv, NEW k \in Keys, NEW r \in Rows, NEW path \in Paths,
           delta' = Upsert(delta, k, r, path), base' = base
    PROVE  /\ Overlay(base', delta')[k] = r
           /\ \A j \in Keys : j # k => Overlay(base', delta')[j] = Overlay(base, delta)[j]
           /\ Owned' = Owned \cup {k}
           /\ delta'[k] # Absent /\ delta'[k].row = r
           /\ \A j \in Keys : j # k => delta'[j] = delta[j]
<1>1. delta \in [Keys -> Deltas \cup {Absent}]
  BY DEF StoreInv, TypeOK
<1>2. /\ delta'[k] # Absent /\ delta'[k].row = r /\ ~delta'[k].deleted
      /\ \A j \in Keys : j # k => delta'[j] = delta[j]
  BY <1>1, UpsertType
<1> QED
  BY <1>2 DEF Overlay, OverlayRow, Owned

(* The triggers do to the view what a DELETE does to tables with foreign   *)
(* keys, and write the rows they remove or detach.                         *)
LEMMA DeleteShown ==
    ASSUME StoreInv, AllOverlay, NEW k \in Keys, BranchDelete(k)
    PROVE  LET seen == Overlay(base, delta)
           IN  /\ base' = base /\ seen[k] # Absent /\ ~Restricted(seen, {k})
               /\ Overlay(base', delta') = AfterDelete(seen, {k})
               /\ Owned' = Owned \cup Doomed(seen, {k}) \cup Orphaned(seen, {k})
<1> DEFINE seen     == Overlay(base, delta)
           doomed   == Doomed(seen, {k})
           orphaned == Orphaned(seen, {k})
           cut(c)   == [seen[c] EXCEPT !.ref = Null]
<1>1. Visible = seen /\ seen \in [Keys -> Rows \cup {Absent}]
  <2>1. \A c \in Keys : seen[c] \in Rows \cup {Absent}
    BY OverlayShown, ShownType DEF StoreInv
  <2> QED
    BY <2>1, OverlayShown DEF Overlay
<1>2. /\ base' = base /\ seen[k] # Absent /\ ~Restricted(seen, {k})
      /\ delta' = [c \in Keys |-> IF c \in doomed THEN Tombstone(delta, c)
                                 ELSE IF c \in orphaned
                                 THEN Upsert(delta, c, cut(c), "UPDATE")[c]
                                 ELSE delta[c]]
  BY <1>1 DEF BranchDelete
<1>3. doomed \subseteq Keys /\ orphaned \subseteq Keys /\ \A c \in orphaned : seen[c] # Absent
  BY DEF Doomed, Present, Orphaned, DoomedBy, Refers
<1>4. delta \in [Keys -> Deltas \cup {Absent}]
  BY DEF StoreInv, TypeOK
<1>5. AfterDelete(seen, {k}) = [c \in Keys |-> IF c \in doomed THEN Absent
                                               ELSE IF c \in orphaned THEN cut(c)
                                               ELSE seen[c]]
  BY DEF AfterDelete
<1>6. \A c \in Keys : Overlay(base', delta')[c] = OverlayRow(base, delta', c)
  BY <1>2 DEF Overlay
<1>7. \A c \in Keys : seen[c] = OverlayRow(base, delta, c)
  BY DEF Overlay
<1> HIDE DEF doomed, orphaned, seen
<1>8. ASSUME NEW c \in doomed
      PROVE  delta'[c] # Absent /\ OverlayRow(base, delta', c) = Absent
  <2>1. c \in Keys /\ delta'[c] = Tombstone(delta, c)
    BY <1>2, <1>3
  <2>2. delta'[c] \in Deltas
    <3>1. delta'[c] \in Deltas \cup {Absent}
      BY <2>1, DeleteRows
    <3>2. CASE delta[c] = Absent
      BY <2>1, <3>2 DEF Tombstone, Deltas, Rows, Refs
    <3>3. CASE delta[c] # Absent
      <4>1. delta[c] \in Deltas /\ delta'[c] = [delta[c] EXCEPT !.deleted = TRUE]
        BY <1>4, <2>1, <3>3 DEF Tombstone
      <4> QED
        BY <4>1 DEF Deltas
    <3> QED
      BY <3>2, <3>3
  <2>3. delta'[c].deleted
    <3>1. CASE delta[c] = Absent
      BY <2>1, <3>1 DEF Tombstone
    <3>2. CASE delta[c] # Absent
      <4>1. delta[c] \in Deltas /\ delta'[c] = [delta[c] EXCEPT !.deleted = TRUE]
        BY <1>4, <2>1, <3>2 DEF Tombstone
      <4> QED
        BY <4>1 DEF Deltas
    <3> QED
      BY <3>1, <3>2
  <2> QED
    BY <2>2, <2>3, StartAssumption DEF OverlayRow
<1>9. ASSUME NEW c \in orphaned, c \notin doomed
      PROVE  delta'[c] # Absent /\ OverlayRow(base, delta', c) = cut(c)
  <2> DEFINE e == Upsert(delta, c, cut(c), "UPDATE")
             r == cut(c)
  <2>1. c \in Keys /\ delta'[c] = e[c] /\ r \in Rows
    <3>1. c \in Keys /\ seen[c] \in Rows
      BY <1>1, <1>3
    <3>2. cut(c) \in Rows
      BY <3>1 DEF Rows, Refs
    <3> QED
      BY <1>2, <1>9, <3>1, <3>2
  <2>2. e = Upsert(delta, c, r, "UPDATE")
    OBVIOUS
  <2> HIDE DEF e, r
  <2>3. e[c] # Absent /\ e[c].row = r /\ ~e[c].deleted
    BY <1>4, <2>1, <2>2, UpsertType DEF Paths
  <2> QED
    BY <2>1, <2>3 DEF OverlayRow, r
<1>10. ASSUME NEW c \in Keys, c \notin doomed, c \notin orphaned
       PROVE  delta'[c] = delta[c] /\ OverlayRow(base, delta', c) = seen[c]
  BY <1>2, <1>7, <1>10 DEF OverlayRow
<1>11. Overlay(base', delta') = AfterDelete(seen, {k})
  <2>1. ASSUME NEW c \in Keys PROVE Overlay(base', delta')[c] = AfterDelete(seen, {k})[c]
    BY <1>5, <1>6, <1>8, <1>9, <1>10
  <2>2. Overlay(base', delta') = [c \in Keys |-> Overlay(base', delta')[c]]
    BY DEF Overlay
  <2> QED
    BY <1>5, <2>1, <2>2
<1>12. Owned' = Owned \cup doomed \cup orphaned
  BY <1>3, <1>8, <1>9, <1>10 DEF Owned
<1> QED
  BY <1>2, <1>11, <1>12 DEF seen, doomed, orphaned

\* Every foreign key has one of the rules the triggers act on; they do nothing for
\* SET DEFAULT (schema.go:533-549).
RulesAreHandled == \A t \in Tables : FK[t].table # Null => FK[t].rule # "NONE"

(* What a DELETE leaves refers to nothing that it removed.                 *)
LEMMA NothingDangles ==
    ASSUME RulesAreHandled, NEW rows \in [Keys -> Rows \cup {Absent}], NEW roots \in SUBSET Keys,
           ~Restricted(rows, roots),
           NEW k \in Present(rows) \ Present(AfterDelete(rows, roots)),
           NEW c \in Present(AfterDelete(rows, roots)),
           Refers(AfterDelete(rows, roots), c, k)
    PROVE  FALSE
<1> DEFINE after    == AfterDelete(rows, roots)
           doomed   == Doomed(rows, roots)
           orphaned == Orphaned(rows, roots)
<1>1. /\ c \in Keys /\ k \in Keys /\ after[c] # Absent
      /\ Parent(c[1], after[c]) = k
      /\ after[k] = Absent /\ rows[k] # Absent
  BY DEF Present, Refers
<1>2. \A j \in Keys : after[j] = IF j \in doomed THEN Absent
                                 ELSE IF j \in orphaned THEN [rows[j] EXCEPT !.ref = Null]
                                 ELSE rows[j]
  BY DEF AfterDelete
<1>3. \A j \in orphaned : j \in Keys /\ rows[j] # Absent
  BY DEF Orphaned, DoomedBy, Refers
<1> HIDE DEF after, doomed, orphaned
<1>4. \A j \in orphaned : [rows[j] EXCEPT !.ref = Null] \in Rows
                          /\ [rows[j] EXCEPT !.ref = Null].ref = Null
  BY <1>3 DEF Rows, Refs
<1>5. k \in doomed /\ k \in Taken(rows, roots)
  <2>1. k \in doomed
    BY <1>1, <1>2, <1>4, SentinelAssumption
  <2> QED
    BY <2>1 DEF doomed, Doomed
<1>6. c \notin doomed
  BY <1>1, <1>2
<1>7. after[c].ref # Null /\ FK[c[1]].table \in Tables
  <2>1. after[c].ref = k[2] /\ FK[c[1]].table = k[1] /\ k[2] \in Ids /\ k[1] \in Tables
    BY <1>1 DEF Parent, Keys
  <2> QED
    BY <2>1, SentinelAssumption
<1>8. c \notin orphaned /\ after[c] = rows[c]
  BY <1>1, <1>2, <1>4, <1>6, <1>7
<1>9. Refers(rows, c, k)
  BY <1>1, <1>8 DEF Refers
<1>10. FK[c[1]].rule \in {"CASCADE", "SET NULL", "RESTRICT"}
  BY <1>1, <1>7, FKAssumption, SentinelAssumption DEF RulesAreHandled, Keys, Rules
<1>11. CASE FK[c[1]].rule = "CASCADE"
  <2>1. c \in Added(rows, Taken(rows, roots))
    BY <1>1, <1>5, <1>9, <1>11 DEF Added, Follows, Refers
  <2>2. c \in doomed
    BY <1>1, <1>8, <2>1, TakenIsClosed DEF doomed, Doomed, Present
  <2> QED
    BY <1>6, <2>2
<1>12. CASE FK[c[1]].rule # "CASCADE"
  <2>1. c \in DoomedBy(rows, roots, FK[c[1]].rule)
    BY <1>1, <1>5, <1>9 DEF DoomedBy, doomed
  <2> QED
    BY <1>8, <1>10, <1>12, <2>1 DEF Orphaned, Restricted, orphaned
<1> QED
  BY <1>11, <1>12

(* The upgraded views stay upgraded.                                       *)
OverlayInv == StoreInv /\ AllOverlay
LEMMA OverlayInvariance ==
    ASSUME \A t \in Tables : StartView[t] = "overlay"
    PROVE  Spec => []OverlayInv
<1>1. Init => AllOverlay
  BY DEF Init, AllOverlay
<1>2. StoreInv /\ AllOverlay /\ [Next]_storeVars => AllOverlay'
  BY OverlayStays
<1> QED
  BY <1>1, <1>2, StoreInvariance, PTL DEF Spec, OverlayInv

(* Only a DELETE takes rows out of the view.                               *)
LEMMA OthersRemoveNothing ==
    ASSUME OverlayInv, BranchStatement, \A k \in Keys : ~BranchDelete(k)
    PROVE  Present(Overlay(base, delta)) \subseteq Present(Overlay(base', delta'))
<1>1. PICK k \in Keys, r \in Rows, path \in Paths :
         delta' = Upsert(delta, k, r, path) /\ base' = base
  <2>1. ASSUME NEW t \in Tables, NEW asked \in ExplicitIds \cup {Null}, NEW v \in Vals,
               NEW i \in KnownRefs(t), BranchInsert(t, asked, [val |-> v, ref |-> i])
        PROVE  \E k \in Keys, r \in Rows, path \in Paths :
                  delta' = Upsert(delta, k, r, path) /\ base' = base
    <3> DEFINE given == IF asked = Null THEN pubSeq[t] ELSE asked
               id    == IF base[<<t, given>>] # Absent THEN given ELSE localSeq[t]
               r     == [val |-> v, ref |-> i]
    <3>1. delta' = Upsert(delta, <<t, id>>, r, "INSERT") /\ base' = base
      BY <2>1 DEF BranchInsert
    <3>2. <<t, id>> \in Keys
      BY <2>1, StartAssumption DEF BranchInsert, Keys, Ids
    <3>3. r \in Rows
      BY DEF KnownRefs, Rows, Refs
    <3> HIDE DEF r, id
    <3> QED
      BY <3>1, <3>2, <3>3 DEF Paths
  <2>2. ASSUME NEW k \in Keys, NEW r \in Rows, BranchUpdate(k, r)
        PROVE  delta' = Upsert(delta, k, r, "UPDATE") /\ base' = base
    BY <2>2 DEF BranchUpdate
  <2>3. ASSUME NEW k \in Keys, Shown(k) # Absent
        PROVE  /\ Shown(k) \in Rows
               /\ \A v \in Vals : [Shown(k) EXCEPT !.val = v] \in Rows
               /\ \A i \in Refs : [Shown(k) EXCEPT !.ref = i] \in Rows
    <3>1. Shown(k) \in Rows
      BY <2>3, ShownType DEF OverlayInv, StoreInv
    <3> QED
      BY <3>1 DEF Rows
  <2>4. ASSUME NEW k \in Keys, NEW v \in Vals, BranchUpdate(k, [Shown(k) EXCEPT !.val = v])
        PROVE  \E r \in Rows, path \in Paths : delta' = Upsert(delta, k, r, path) /\ base' = base
    BY <2>2, <2>3, <2>4 DEF BranchUpdate, Paths
  <2>5. ASSUME NEW k \in Keys, NEW i \in Refs, BranchUpdate(k, [Shown(k) EXCEPT !.ref = i])
        PROVE  \E r \in Rows, path \in Paths : delta' = Upsert(delta, k, r, path) /\ base' = base
    BY <2>2, <2>3, <2>5 DEF BranchUpdate, Paths
  <2>6. ASSUME NEW k \in Keys, NEW id \in ExplicitIds, BranchMove(k, id)
        PROVE  \E j \in Keys, r \in Rows, path \in Paths :
                  delta' = Upsert(delta, j, r, path) /\ base' = base
    <3>1. <<k[1], id>> \in Keys
      BY StartAssumption DEF Keys, Ids
    <3> QED
      BY <2>3, <2>6, <3>1 DEF BranchMove, Paths
  <2> QED
    BY <2>1, <2>4, <2>5, <2>6 DEF BranchStatement
<1>2. /\ Overlay(base', delta')[k] = r
      /\ \A j \in Keys : j # k => Overlay(base', delta')[j] = Overlay(base, delta)[j]
  BY <1>1, UpsertShown DEF OverlayInv
<1> QED
  BY <1>2, SentinelAssumption DEF Present

(* On a branch whose views are upgraded, a DELETE with all its cascades,   *)
(* through chains of any length, leaves no row that refers to one it       *)
(* removed (generateCascadeDDL, schema.go:533-549).                        *)
THEOREM DeletesLeaveNoOrphans ==
    ASSUME \A t \in Tables : StartView[t] = "overlay", RulesAreHandled
    PROVE  Spec => DeleteLeavesNoOrphans
<1> DEFINE A == \A k \in Present(Overlay(base, delta)) \ Present(Overlay(base', delta')) :
                  \A c \in Present(Overlay(base', delta')) : ~Refers(Overlay(base', delta'), c, k)
<1>1. ASSUME OverlayInv, [Next]_storeVars, delta' # delta
      PROVE  A
  <2>1. BranchStatement
    BY <1>1 DEF Next, ListenerStep, Upgrade, LoseNotification, BaseStatement, BaseInsert,
       BaseUpdate, BaseDelete, storeVars
  <2>2. CASE \A k \in Keys : ~BranchDelete(k)
    <3>1. Present(Overlay(base, delta)) \subseteq Present(Overlay(base', delta'))
      BY <1>1, <2>1, <2>2, OthersRemoveNothing
    <3> QED
      BY <3>1
  <2>3. ASSUME NEW k \in Keys, BranchDelete(k)
        PROVE  A
    <3> DEFINE seen == Overlay(base, delta)
    <3>1. ~Restricted(seen, {k}) /\ Overlay(base', delta') = AfterDelete(seen, {k})
      BY <1>1, <2>3, DeleteShown DEF OverlayInv
    <3>2. seen \in [Keys -> Rows \cup {Absent}]
      <4>1. \A c \in Keys : seen[c] \in Rows \cup {Absent}
        BY <1>1, OverlayShown, ShownType DEF OverlayInv, StoreInv
      <4> QED
        BY <4>1 DEF Overlay
    <3>3. {k} \in SUBSET Keys
      OBVIOUS
    <3> HIDE DEF seen
    <3>4. ASSUME NEW j \in Present(seen) \ Present(AfterDelete(seen, {k})),
                 NEW c \in Present(AfterDelete(seen, {k})),
                 Refers(AfterDelete(seen, {k}), c, j)
          PROVE  FALSE
      BY <3>1, <3>2, <3>3, <3>4, NothingDangles
    <3> QED
      BY <3>1, <3>4 DEF seen
  <2> QED
    BY <2>2, <2>3
<1>2. OverlayInv /\ [Next]_storeVars => [delta' # delta => A]_storeVars
  BY <1>1
<1> HIDE DEF A
<1>3. Spec => [][delta' # delta => A]_storeVars
  BY <1>2, OverlayInvariance, PTL DEF Spec
<1> QED
  BY <1>3 DEF DeleteLeavesNoOrphans, A

-----------------------------------------------------------------------------
(* An upgraded branch implements PrivateCopy.                              *)

\* The views are upgraded, the sequences are ahead of the rows and the application
\* leaves the ids to them.
PrivateStart ==
    /\ \A t \in Tables : StartView[t] = "overlay"
    /\ \A k \in Keys : StartBase[k] # Absent => k[2] < StartSeq[k[1]]
    /\ ExplicitIds = {}

\* No row has an id that a sequence has yet to hand out.
SequencesLead ==
    /\ \A k \in Keys : base[k] # Absent => k[2] < pubSeq[k[1]]
    /\ \A k \in Keys : delta[k] # Absent /\ k[2] \in LocalIds => k[2] < localSeq[k[1]]

PrivateInv == OverlayInv /\ SequencesLead

(* Ids are numbers.                                                        *)
LEMMA IdsAreNumbers ==
    /\ \A i \in Ids : i \in Nat /\ ~(i < i)
    /\ NextIds(ProdIds) \subseteq Nat /\ NextIds(LocalIds) \subseteq Nat
<1>1. ProdIds \subseteq Nat /\ LocalIds \subseteq Nat
  BY IdsAssumption
<1>2. \A i \in Ids : i \in Nat
  BY <1>1 DEF Ids
<1>3. \A i \in Nat : ~(i < i) /\ i + 1 \in Nat
  OBVIOUS
<1> QED
  BY <1>1, <1>2, <1>3 DEF NextIds

(* An INSERT without an id draws a local one that nothing has.             *)
LEMMA FreshInsert ==
    ASSUME PrivateInv, PrivateStart, NEW t \in Tables, NEW r, BranchInsert(t, Null, r)
    PROVE  LET k == <<t, localSeq[t]>>
           IN  /\ k \in Keys /\ base[k] = Absent /\ delta[k] = Absent
               /\ delta' = Upsert(delta, k, r, "INSERT")
               /\ base' = base
               /\ pubSeq' = [pubSeq EXCEPT ![t] = @ + 1]
               /\ localSeq' = [localSeq EXCEPT ![t] = @ + 1]
<1> DEFINE k == <<t, localSeq[t]>>
<1>1. pubSeq[t] \in ProdIds
  BY DEF BranchInsert
<1>2. base[<<t, pubSeq[t]>>] = Absent
  <2>1. <<t, pubSeq[t]>> \in Keys /\ ~(pubSeq[t] < pubSeq[t])
    BY <1>1, IdsAreNumbers DEF Keys, Ids
  <2> QED
    BY <2>1 DEF PrivateInv, SequencesLead
<1>3. localSeq[t] \in LocalIds
  BY <1>2 DEF BranchInsert
<1>4. k \in Keys /\ ~(localSeq[t] < localSeq[t])
  BY <1>3, IdsAreNumbers DEF Keys, Ids
<1>5. delta[k] = Absent
  BY <1>3, <1>4 DEF PrivateInv, SequencesLead
<1>6. base[k] = Absent
  BY <1>3, <1>4, AllAreDrawn DEF PrivateInv, PrivateStart, OverlayInv, StoreInv, LocalIdsStayNew,
     Present
<1> QED
  BY <1>2, <1>4, <1>5, <1>6 DEF BranchInsert

(* The kinds of statements on such a branch.                               *)
LEMMA PrivateStatements ==
    ASSUME PrivateInv, PrivateStart, BranchStatement
    PROVE  \/ \E t \in Tables, r \in Rows : BranchInsert(t, Null, r)
           \/ \E k \in Keys, r \in Rows : /\ BranchUpdate(k, r)
                                          /\ r.val = Shown(k).val \/ r.ref = Shown(k).ref
           \/ \E k \in Keys : BranchDelete(k)
<1>1. ASSUME NEW t \in Tables, NEW v \in Vals, NEW i \in KnownRefs(t)
      PROVE  [val |-> v, ref |-> i] \in Rows
  BY DEF KnownRefs, Rows, Refs
<1>2. ASSUME NEW k \in Keys, NEW r, BranchUpdate(k, r) PROVE Shown(k) \in Rows
  BY <1>2, ShownType DEF BranchUpdate, PrivateInv, OverlayInv, StoreInv
<1>3. ASSUME NEW s \in Rows
      PROVE  /\ \A v \in Vals : /\ [s EXCEPT !.val = v] \in Rows
                                /\ [s EXCEPT !.val = v].ref = s.ref
             /\ \A i \in Refs : /\ [s EXCEPT !.ref = i] \in Rows
                                /\ [s EXCEPT !.ref = i].val = s.val
  BY DEF Rows
<1>4. ASSUME NEW t \in Tables, NEW asked \in ExplicitIds \cup {Null}, NEW v \in Vals,
             NEW i \in KnownRefs(t), BranchInsert(t, asked, [val |-> v, ref |-> i])
      PROVE  \E r \in Rows : BranchInsert(t, Null, r)
  BY <1>1, <1>4 DEF PrivateStart
<1>5. ASSUME NEW k \in Keys, NEW v \in Vals, BranchUpdate(k, [Shown(k) EXCEPT !.val = v])
      PROVE  \E r \in Rows : BranchUpdate(k, r) /\ (r.val = Shown(k).val \/ r.ref = Shown(k).ref)
  BY <1>2, <1>3, <1>5
<1>6. ASSUME NEW k \in Keys, NEW i \in Refs, BranchUpdate(k, [Shown(k) EXCEPT !.ref = i])
      PROVE  \E r \in Rows : BranchUpdate(k, r) /\ (r.val = Shown(k).val \/ r.ref = Shown(k).ref)
  BY <1>2, <1>3, <1>6
<1> QED
  BY <1>4, <1>5, <1>6 DEF BranchStatement, PrivateStart

(* The sequences stay ahead.                                               *)
LEMMA SequencesStayAhead ==
    ASSUME PrivateInv, PrivateStart, [Next]_storeVars
    PROVE  SequencesLead'
<1>0. /\ pubSeq \in [Tables -> Nat] /\ localSeq \in [Tables -> Nat]
      /\ \A k \in Keys : k[1] \in Tables /\ k[2] \in Nat
  BY IdsAreNumbers DEF PrivateInv, OverlayInv, StoreInv, TypeOK, Keys
<1>1. ASSUME NEW t \in Tables, NEW r \in Rows, BranchInsert(t, Null, r)
      PROVE  SequencesLead'
  <2> DEFINE k == <<t, localSeq[t]>>
  <2>1. /\ k \in Keys /\ base' = base
        /\ delta' = Upsert(delta, k, r, "INSERT")
        /\ pubSeq' = [pubSeq EXCEPT ![t] = @ + 1]
        /\ localSeq' = [localSeq EXCEPT ![t] = @ + 1]
    BY <1>1, FreshInsert
  <2>2. \A j \in Keys : j # k => delta'[j] = delta[j]
    <3> HIDE DEF k
    <3> QED
      BY <2>1, UpsertShown DEF PrivateInv, OverlayInv, Paths
  <2>3. ASSUME NEW j \in Keys, base'[j] # Absent PROVE j[2] < pubSeq'[j[1]]
    BY <1>0, <2>1, <2>3 DEF PrivateInv, SequencesLead
  <2>4. ASSUME NEW j \in Keys, delta'[j] # Absent, j[2] \in LocalIds PROVE j[2] < localSeq'[j[1]]
    <3>1. CASE j = k
      BY <1>0, <2>1, <3>1
    <3>2. CASE j # k
      BY <1>0, <2>1, <2>2, <2>4, <3>2 DEF PrivateInv, SequencesLead
    <3> QED
      BY <3>1, <3>2
  <2> QED
    BY <2>3, <2>4 DEF SequencesLead
<1>2. ASSUME NEW k \in Keys, NEW r \in Rows, BranchUpdate(k, r)
      PROVE  SequencesLead'
  <2>1. /\ base' = base /\ UNCHANGED <<pubSeq, localSeq>> /\ Shown(k) # Absent
        /\ delta' = Upsert(delta, k, r, "UPDATE")
    BY <1>2 DEF BranchUpdate
  <2>2. \A j \in Keys : j # k => delta'[j] = delta[j]
    BY <2>1, UpsertShown DEF PrivateInv, OverlayInv, Paths
  <2>3. k[2] \in LocalIds => delta[k] # Absent
    BY <2>1, ShownWithoutDelta, AllAreDrawn
       DEF PrivateInv, PrivateStart, OverlayInv, StoreInv, LocalIdsStayNew, Present
  <2> QED
    BY <2>1, <2>2, <2>3 DEF PrivateInv, SequencesLead
<1>3. ASSUME NEW k \in Keys, BranchDelete(k)
      PROVE  SequencesLead'
  <2>1. base' = base /\ UNCHANGED <<pubSeq, localSeq>>
    BY <1>3 DEF BranchDelete
  <2> QED
    BY <1>3, <2>1, DeleteRows, AllAreDrawn DEF PrivateInv, PrivateStart, OverlayInv, SequencesLead
<1>4. CASE BaseStatement
  <2>1. UNCHANGED <<delta, localSeq>>
    BY <1>4 DEF BaseStatement, BaseInsert, BaseUpdate, BaseDelete
  <2>2. ASSUME NEW t \in Tables, NEW r, BaseInsert(t, r), NEW j \in Keys, base'[j] # Absent
        PROVE  j[2] < pubSeq'[j[1]]
    <3> DEFINE k == <<t, pubSeq[t]>>
    <3>1. /\ pubSeq' = [pubSeq EXCEPT ![t] = @ + 1]
          /\ base' = [base EXCEPT ![k] = r] \/ base' = base
      BY <2>2 DEF BaseInsert
    <3>2. j = k \/ base'[j] = base[j]
      BY <3>1 DEF PrivateInv, OverlayInv, StoreInv, TypeOK
    <3>3. CASE j = k
      BY <1>0, <3>1, <3>3
    <3>4. CASE base'[j] = base[j]
      BY <1>0, <2>2, <3>1, <3>4 DEF PrivateInv, SequencesLead
    <3> QED
      BY <3>2, <3>3, <3>4
  <2>3. ASSUME NEW k \in Keys, NEW v, BaseUpdate(k, v), NEW j \in Keys, base'[j] # Absent
        PROVE  j[2] < pubSeq'[j[1]]
    BY <2>3 DEF BaseUpdate, PrivateInv, OverlayInv, StoreInv, TypeOK, SequencesLead
  <2>4. ASSUME NEW k \in Keys, BaseDelete(k), NEW j \in Keys, base'[j] # Absent
        PROVE  j[2] < pubSeq'[j[1]]
    <3>1. base' = AfterDelete(base, {k}) /\ pubSeq' = pubSeq
      BY <2>4 DEF BaseDelete
    <3>2. base \in [Keys -> Rows \cup {Absent}]
      BY DEF PrivateInv, OverlayInv, StoreInv, TypeOK
    <3>3. \A c \in Keys : \/ base'[c] = Absent
                          \/ base'[c] = base[c]
                          \/ /\ base[c] # Absent
                             /\ base'[c] = [base[c] EXCEPT !.ref = Null]
      BY <3>1, <3>2, AfterDeleteRow
    <3>4. base[j] # Absent
      BY <2>4, <3>3
    <3> QED
      BY <3>1, <3>4 DEF PrivateInv, SequencesLead
  <2> QED
    BY <1>4, <2>1, <2>2, <2>3, <2>4 DEF BaseStatement, PrivateInv, SequencesLead
<1>5. CASE ListenerStep \/ UNCHANGED storeVars
  BY <1>5 DEF ListenerStep, Upgrade, LoseNotification, storeVars, PrivateInv, SequencesLead
<1> QED
  BY <1>1, <1>2, <1>3, <1>4, <1>5, PrivateStatements DEF Next

(* Nobody ever has an id that a sequence is about to hand out.             *)
LEMMA PrivateInvariance ==
    ASSUME PrivateStart
    PROVE  Spec => []PrivateInv
<1>1. Init => SequencesLead
  <2>1. \A k \in Keys : StartBase[k] # Absent => k[2] < StartSeq[k[1]]
    BY DEF PrivateStart
  <2> QED
    BY <2>1 DEF Init, SequencesLead, EmptyRows
<1>2. OverlayInv /\ SequencesLead /\ [Next]_storeVars => SequencesLead'
  BY SequencesStayAhead DEF PrivateInv
<1>3. Spec => []OverlayInv
  BY OverlayInvariance DEF PrivateStart
<1> QED
  BY <1>1, <1>2, <1>3, PTL DEF Spec, PrivateInv

(* PrivateCopy means by a DELETE what the triggers do.                     *)
LEMMA SameDelete ==
    ASSUME NEW rows, NEW roots
    PROVE  /\ Copy!Present(rows) = Present(rows)
           /\ Copy!Doomed(rows, roots) = Doomed(rows, roots)
           /\ Copy!Orphaned(rows, roots) = Orphaned(rows, roots)
           /\ Copy!Restricted(rows, roots) <=> Restricted(rows, roots)
           /\ Copy!AfterDelete(rows, roots) = AfterDelete(rows, roots)
<1>1. Copy!Present(rows) = Present(rows) /\ Copy!Keys = Keys
  BY DEF Copy!Present, Present, Copy!Keys, Keys, Copy!Ids, Ids
<1>2. Copy!Taken(rows, roots) = Taken(rows, roots)
  <2> DEFINE F(g) == [n \in Nat |-> IF n = 0 THEN roots ELSE
                         g[n - 1] \cup {c \in Tables \X (ProdIds \cup LocalIds) :
                                          /\ FK[c[1]].rule = "CASCADE"
                                          /\ rows[c] # Absent
                                          /\ <<FK[c[1]].table, rows[c].ref>> \in g[n - 1]}]
             h == CHOOSE g : g = F(g)
  <2>1. Taken(rows, roots) = h[Cardinality(Tables)]
    BY DEF Taken, Parent, Keys, Ids
  <2>2. Copy!Taken(rows, roots) = h[Copy!Cardinality(Tables)]
    BY DEF Copy!Taken, Copy!Parent, Copy!Keys, Copy!Ids
  <2>3. Copy!Cardinality(Tables) = Cardinality(Tables)
    BY DEF Copy!Cardinality, Cardinality
  <2> QED
    BY <2>1, <2>2, <2>3
<1>3. Copy!Doomed(rows, roots) = Doomed(rows, roots)
  BY <1>1, <1>2 DEF Copy!Doomed, Doomed
<1>4. \A c, k : Copy!Refers(rows, c, k) <=> Refers(rows, c, k)
  BY DEF Copy!Refers, Refers, Copy!Parent, Parent
<1>5. \A rule : Copy!DoomedBy(rows, roots, rule) = DoomedBy(rows, roots, rule)
  BY <1>1, <1>3, <1>4 DEF Copy!DoomedBy, DoomedBy
<1>6. /\ Copy!Orphaned(rows, roots) = Orphaned(rows, roots)
      /\ Copy!Restricted(rows, roots) <=> Restricted(rows, roots)
  BY <1>5 DEF Copy!Orphaned, Orphaned, Copy!Restricted, Restricted
<1>7. Copy!AfterDelete(rows, roots) = AfterDelete(rows, roots)
  BY <1>1, <1>3, <1>6 DEF Copy!AfterDelete, AfterDelete
<1> QED
  BY <1>1, <1>3, <1>6, <1>7

(* An upsert writes one row of the copy.                                   *)
LEMMA UpsertWrites ==
    ASSUME OverlayInv, NEW k \in Keys, NEW r \in Rows, NEW path \in Paths,
           delta' = Upsert(delta, k, r, path), base' = base
    PROVE  Copy!Write(k) /\ Overlay(base', delta')[k] = r
<1>1. /\ Overlay(base', delta')[k] = r
      /\ \A j \in Keys : j # k => Overlay(base', delta')[j] = Overlay(base, delta)[j]
      /\ Owned' = Owned \cup {k}
  BY UpsertShown DEF OverlayInv
<1>2. Copy!Keys = Keys
  BY DEF Copy!Keys, Keys, Copy!Ids, Ids
<1> QED
  BY <1>1, <1>2, SentinelAssumption DEF Copy!Write

(* A statement on the branch is one on the private copy.                   *)
LEMMA StatementOnCopy ==
    ASSUME PrivateInv, PrivateStart, BranchStatement
    PROVE  Copy!Next
<1>0. OverlayInv /\ Copy!Keys = Keys
  BY DEF PrivateInv, Copy!Keys, Keys, Copy!Ids, Ids
<1>1. ASSUME NEW t \in Tables, NEW r \in Rows, BranchInsert(t, Null, r)
      PROVE  Copy!Next
  <2> DEFINE k == <<t, localSeq[t]>>
  <2>1. /\ k \in Keys /\ base[k] = Absent /\ delta[k] = Absent
        /\ delta' = Upsert(delta, k, r, "INSERT") /\ base' = base
    BY <1>1, FreshInsert
  <2> HIDE DEF k
  <2>2. Copy!Write(k)
    BY <1>0, <2>1, UpsertWrites DEF Paths
  <2>3. k \in Keys \ Owned /\ Overlay(base, delta)[k] = Absent
    BY <2>1 DEF Owned, Overlay, OverlayRow
  <2> QED
    BY <1>0, <2>2, <2>3 DEF Copy!Insert, Copy!Next
<1>2. ASSUME NEW k \in Keys, NEW r \in Rows, BranchUpdate(k, r),
             r.val = Shown(k).val \/ r.ref = Shown(k).ref
      PROVE  Copy!Next
  <2>1. delta' = Upsert(delta, k, r, "UPDATE") /\ base' = base /\ Shown(k) # Absent
    BY <1>2 DEF BranchUpdate
  <2>2. Copy!Write(k) /\ Overlay(base', delta')[k] = r
    BY <1>0, <2>1, UpsertWrites DEF Paths
  <2>3. Shown(k) = Overlay(base, delta)[k]
    BY <1>0, OverlayShown DEF OverlayInv
  <2>4. k \in Copy!Present(Overlay(base, delta))
    BY <1>0, <2>1, <2>3 DEF Copy!Present
  <2>5. \/ Overlay(base', delta')[k].val = Overlay(base, delta)[k].val
        \/ Overlay(base', delta')[k].ref = Overlay(base, delta)[k].ref
    BY <1>2, <2>2, <2>3
  <2> QED
    BY <2>2, <2>4, <2>5 DEF Copy!Update, Copy!Next
<1>3. ASSUME NEW k \in Keys, BranchDelete(k)
      PROVE  Copy!Next
  <2> DEFINE seen == Overlay(base, delta)
  <2>1. /\ seen[k] # Absent /\ ~Restricted(seen, {k})
        /\ Overlay(base', delta') = AfterDelete(seen, {k})
        /\ Owned' = Owned \cup Doomed(seen, {k}) \cup Orphaned(seen, {k})
    BY <1>0, <1>3, DeleteShown DEF OverlayInv
  <2>2. k \in Present(seen) \ Present(AfterDelete(seen, {k}))
    <3>1. k \in Taken(seen, {k})
      BY TakenIsClosed
    <3> QED
      BY <2>1, <3>1 DEF AfterDelete, Doomed, Present
  <2>3. Copy!Delete
    BY <2>1, <2>2, SameDelete DEF Copy!Delete
  <2> QED
    BY <2>3 DEF Copy!Next
<1> QED
  BY <1>1, <1>2, <1>3, PrivateStatements

(* What production does shows only where the branch has written nothing.   *)
LEMMA ProductionRefreshes ==
    ASSUME delta' = delta
    PROVE  Copy!Next
<1>1. Owned' = Owned /\ \A k \in Owned : Overlay(base', delta')[k] = Overlay(base, delta)[k]
  BY DEF Owned, Overlay, OverlayRow
<1> QED
  BY <1>1 DEF Copy!Refresh, Copy!Next

(* For the application a branch with upgraded views is a private copy of   *)
(* the tables: statements, foreign keys and ids are those of ordinary      *)
(* tables, and nothing that production does changes a row that the branch  *)
(* has written (schema.go:412-549).                                        *)
THEOREM StoreImplementsPrivateCopy ==
    ASSUME PrivateStart
    PROVE  Spec => ImplementsPrivateCopy
<1>1. Init => Copy!Init
  <2> SUFFICES ASSUME Init PROVE Copy!Init
    OBVIOUS
  <2>1. delta = EmptyRows /\ base = StartBase
    BY DEF Init
  <2>2. Owned = {}
    BY <2>1 DEF Owned, EmptyRows
  <2>3. Overlay(base, delta) = StartBase
    <3>1. \A k \in Keys : OverlayRow(base, delta, k) = StartBase[k]
      BY <2>1 DEF EmptyRows, OverlayRow
    <3> QED
      BY <3>1, StartAssumption DEF Overlay
  <2>4. Copy!Keys = Keys /\ Copy!Rows = Rows
    BY DEF Copy!Keys, Keys, Copy!Ids, Ids, Copy!Rows, Rows, Copy!Refs, Refs
  <2> QED
    BY <2>2, <2>3, <2>4, StartAssumption DEF Copy!Init
<1>2. PrivateInv /\ [Next]_storeVars => Copy!Next
  <2> SUFFICES ASSUME PrivateInv, [Next]_storeVars PROVE Copy!Next
    OBVIOUS
  <2>1. CASE BranchStatement
    BY <2>1, StatementOnCopy
  <2>2. CASE ~BranchStatement
    <3>1. delta' = delta
      BY <2>2 DEF Next, ListenerStep, Upgrade, LoseNotification, BaseStatement, BaseInsert,
         BaseUpdate, BaseDelete, storeVars
    <3> QED
      BY <3>1, ProductionRefreshes
  <2> QED
    BY <2>1, <2>2
<1>3. PrivateInv /\ [Next]_storeVars => [Copy!Next]_<<Overlay(base, delta), Owned>>
  BY <1>2
<1> QED
  BY <1>1, <1>3, PrivateInvariance, PTL DEF Spec, ImplementsPrivateCopy, Copy!Spec

(* On such a branch an UPDATE of one column leaves the other as the branch *)
(* wrote it, though the trigger writes whole rows (schema.go:493-502).     *)
THEOREM UpdatesChangeOneColumn ==
    ASSUME PrivateStart
    PROVE  Spec => UpdateChangesOneColumn
<1> DEFINE A == \A k \in Keys : IsLive(delta, k) /\ IsLive(delta', k) =>
                    \/ delta'[k].row.val = delta[k].row.val
                    \/ delta'[k].row.ref = delta[k].row.ref
<1>1. ASSUME PrivateInv, [Next]_storeVars
      PROVE  A
  <2> SUFFICES ASSUME NEW k \in Keys, IsLive(delta, k), IsLive(delta', k)
               PROVE  \/ delta'[k].row.val = delta[k].row.val
                      \/ delta'[k].row.ref = delta[k].row.ref
    OBVIOUS
  <2>0. OverlayInv /\ StoreInv
    BY <1>1 DEF PrivateInv, OverlayInv
  <2>1. ASSUME NEW t \in Tables, NEW r \in Rows, BranchInsert(t, Null, r)
        PROVE  delta'[k] = delta[k]
    <3> DEFINE j == <<t, localSeq[t]>>
    <3>1. /\ j \in Keys /\ delta[j] = Absent
          /\ delta' = Upsert(delta, j, r, "INSERT") /\ base' = base
      BY <1>1, <2>1, FreshInsert
    <3> HIDE DEF j
    <3>2. k # j
      BY <3>1 DEF IsLive
    <3> QED
      BY <2>0, <3>1, <3>2, UpsertShown DEF Paths
  <2>2. ASSUME NEW j \in Keys, NEW r \in Rows, BranchUpdate(j, r),
               r.val = Shown(j).val \/ r.ref = Shown(j).ref
        PROVE  \/ delta'[k].row.val = delta[k].row.val
               \/ delta'[k].row.ref = delta[k].row.ref
    <3>1. delta' = Upsert(delta, j, r, "UPDATE") /\ base' = base
      BY <2>2 DEF BranchUpdate
    <3>2. delta'[j].row = r /\ \A i \in Keys : i # j => delta'[i] = delta[i]
      BY <2>0, <3>1, UpsertShown DEF Paths
    <3>3. k = j => Shown(j) = delta[j].row
      BY <2>0, OverlayShown DEF OverlayInv, IsLive, Overlay, OverlayRow
    <3> QED
      BY <2>2, <3>2, <3>3
  <2>3. ASSUME NEW j \in Keys, BranchDelete(j)
        PROVE  \/ delta'[k].row.val = delta[k].row.val
               \/ delta'[k].row.ref = delta[k].row.ref
    <3> DEFINE seen == Overlay(base, delta)
    <3>1. /\ base' = base
          /\ Overlay(base', delta') = AfterDelete(seen, {j})
          /\ seen \in [Keys -> Rows \cup {Absent}]
      <4>1. \A c \in Keys : seen[c] \in Rows \cup {Absent}
        BY <2>0, OverlayShown, ShownType DEF OverlayInv, StoreInv
      <4>2. seen \in [Keys -> Rows \cup {Absent}]
        BY <4>1 DEF Overlay
      <4> QED
        BY <2>0, <2>3, <4>2, DeleteShown DEF OverlayInv
    <3>2. seen[k] = delta[k].row /\ Overlay(base', delta')[k] = delta'[k].row
      BY DEF IsLive, Overlay, OverlayRow
    <3>3. delta[k].row \in Rows /\ delta'[k].row \in Rows
      BY <2>0, <2>3, DeleteRows DEF IsLive, StoreInv, TypeOK, Deltas
    <3> HIDE DEF seen
    <3>4. \A c \in Keys : \/ AfterDelete(seen, {j})[c] = Absent
                          \/ AfterDelete(seen, {j})[c] = seen[c]
                          \/ /\ seen[c] # Absent
                             /\ AfterDelete(seen, {j})[c] = [seen[c] EXCEPT !.ref = Null]
      BY <3>1, AfterDeleteRow
    <3>5. delta'[k].row = delta[k].row \/ delta'[k].row = [delta[k].row EXCEPT !.ref = Null]
      BY <3>1, <3>2, <3>3, <3>4, SentinelAssumption
    <3> QED
      BY <3>3, <3>5 DEF Rows
  <2>4. CASE ~BranchStatement
    <3>1. delta' = delta
      BY <1>1, <2>4 DEF Next, ListenerStep, Upgrade, LoseNotification, BaseStatement, BaseInsert,
         BaseUpdate, BaseDelete, storeVars
    <3> QED
      BY <3>1
  <2> QED
    BY <1>1, <2>1, <2>2, <2>3, <2>4, PrivateStatements
<1>2. PrivateInv /\ [Next]_storeVars => [A]_storeVars
  BY <1>1
<1> HIDE DEF A
<1>3. Spec => [][A]_storeVars
  BY <1>2, PrivateInvariance, PTL DEF Spec
<1> QED
  BY <1>3 DEF UpdateChangesOneColumn, A

=============================================================================
