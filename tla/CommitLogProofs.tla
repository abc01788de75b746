--------------------------- MODULE CommitLogProofs ---------------------------
(***************************************************************************)
(* Proofs about CommitLog, for any number of committers, clients, tables   *)
(* and rows: types, that the parent of a commit belongs to its branch or   *)
(* to the one it was forked from, that commits share a parent only if they *)
(* overlap or the query for one of the parents has failed, and that the    *)
(* counts of a commit that nothing disturbs, no failed query either, are   *)
(* exact.                                                                  *)
(***************************************************************************)
EXTENDS CommitLog, BranchLifecycleProofs, FiniteSetTheorems,
        WellFoundedInduction, TLAPS

-----------------------------------------------------------------------------
(* The inductive invariant.                                                *)

Log  == 1..Len(commits)
Busy == {c \in Committers : Working(c)}

\* There is room for the commits under way, so that Unread is none of them.
Room == Len(commits) + Cardinality(Busy) <= MaxCommits

\* p is no commit, or one of branch b or of the branch that b was forked from.
InLineage(p, b) == p # 0 => p \in Log /\ commits[p].branch \in {b, branches[b].parent}

\* Every commit of b with the parent p came after the first k commits.
OnlyLater(p, b, k) ==
    \A i \in Log : commits[i].branch = b /\ commits[i].parent = p => k < i

\* p is no commit, or one of branch b.
IsOf(p, b) == p # 0 => p \in Log /\ commits[p].branch = b

CommitsInOrder ==
    \A i \in Log : /\ commits[i].branch \in Created
                   /\ commits[i].parent < i
                   /\ InLineage(commits[i].parent, commits[i].branch)

WorkInOrder(w) ==
    /\ w.branch \in Created
    /\ w.before <= Len(commits)
    /\ w.parent # Unread => /\ InLineage(w.parent, w.branch)
                            /\ w.known => OnlyLater(w.parent, w.branch, w.before)
WorksInOrder == \A c \in Committers : Working(c) => WorkInOrder(work[c])

BasesInOrder == \A i \in Created : IsOf(base[i], branches[i].parent)

\* Only a running create has read a base commit.
BasisInOrder(c) == IF run[c].op = "create"
                   THEN basis[c] # Unread => IsOf(basis[c], run[c].seen)
                   ELSE basis[c] = Unread
ReadInOrder == \A c \in Clients : BasisInOrder(c)

\* Rows of the delta tables of b that queries before q have counted under m.
Place(m) == IF m = "inserted" THEN 1 ELSE IF m = "updated" THEN 2 ELSE 3
CountedRows(b, m, q) ==
    {r \in (1..TableCount) \X RowKeys :
        delta[b][r[1]][r[2]] = m /\ 3 * (r[1] - 1) + Place(m) < q}

\* A commit that nothing has disturbed has counted what is there now.
WorkIsExact(w) ==
    /\ w.query = 1 => w.counts = Zero /\ ~w.quiet
    /\ w.quiet => /\ w.branch \in Owner(w.schema)
                  /\ \A m \in DOMAIN Zero :
                       w.counts[m] = Cardinality(CountedRows(w.branch, m, w.query))
CountsAreExact == \A c \in Committers : WorkIsExact(work[c])

LogInv ==
    /\ LifeInv
    /\ CommitTypeOK
    /\ Room
    /\ CommitsInOrder
    /\ WorksInOrder
    /\ BasesInOrder
    /\ ReadInOrder
    /\ ForksOverlap

-----------------------------------------------------------------------------
(* Facts about the branch commands.                                        *)

\* No branch goes away or gets another parent or name.
SameLineage == \A i \in Created : /\ i \in Created'
                                  /\ branches'[i].parent = branches[i].parent
                                  /\ branches'[i].name = branches[i].name

(* The end of a command leaves what the other clients have seen.           *)
LEMMA SetActiveSeen ==
    ASSUME TypeOK, NEW c \in Clients, NEW b, NEW wrote \in BOOLEAN, SetActive(c, b, wrote)
    PROVE  \A d \in Clients : IF d = c THEN run'[d].op = "none"
                              ELSE run'[d].op = run[d].op /\ run'[d].seen = run[d].seen
<1>1. run \in [Clients -> Runs]
  BY DEF TypeOK
<1>2. run' = [d \in Clients |-> IF d = c THEN Idle
                                ELSE [run[d] EXCEPT !.moved = @ \/ wrote]]
  BY DEF SetActive
<1>3. ASSUME NEW d \in Clients
      PROVE  /\ [run[d] EXCEPT !.moved = @ \/ wrote].op = run[d].op
             /\ [run[d] EXCEPT !.moved = @ \/ wrote].seen = run[d].seen
  <2>1. run[d] \in Runs
    BY <1>1
  <2> DEFINE m == run[d].moved \/ wrote
  <2>2. [run[d] EXCEPT !.moved = @ \/ wrote] = [run[d] EXCEPT !.moved = m]
    OBVIOUS
  <2> HIDE DEF m
  <2>3. /\ [run[d] EXCEPT !.moved = m].op = run[d].op
        /\ [run[d] EXCEPT !.moved = m].seen = run[d].seen
    BY <2>1 DEF Runs
  <2> QED
    BY <2>2, <2>3
<1> QED
  BY <1>2, <1>3, IdleType

\* What a client that goes on with a create has seen stays.
SameSeen == \A d \in Clients : run[d].op = "create" /\ run'[d].op = "create" =>
                                   run'[d].seen = run[d].seen

(* A new branch gets the parent its creator has seen, and only the creator *)
(* ends its create at that.                                                *)
LEMMA CreateMakes ==
    ASSUME LifeInv, NEW c \in Clients, CreateCommit(c)
    PROVE  /\ made' = made + 1 /\ made' \in Ids /\ Created' = Created \cup {made'}
           /\ branches'[made'].parent = run[c].seen
           /\ run[c].op = "create"
           /\ \A d \in Clients : d # c => run'[d].op = run[d].op
           /\ SameLineage /\ SameSeen
<1> DEFINE b == [name |-> run[c].name, parent |-> run[c].seen, status |-> "active"]
           w == run[c].seen = 0
<1>1. /\ run[c].op = "create" /\ made' = made + 1 /\ made' \in Ids
      /\ branches' = [branches EXCEPT ![made + 1] = b]
      /\ SetActive(c, made + 1, w)
  BY DEF CreateCommit
<1>2. made \in Nat /\ branches \in [Ids -> Branches \cup {Nothing}] /\ \A i \in Created : i \in Ids
  BY CreatedIds DEF LifeInv, TypeOK
<1>3. Created' = Created \cup {made'} /\ made' \notin Created
  BY <1>1, <1>2 DEF Created
<1>4. branches'[made'] = b /\ b.parent = run[c].seen
  BY <1>1, <1>2
<1>5. SameLineage
  BY <1>1, <1>2, <1>3 DEF SameLineage
<1>6. w \in BOOLEAN
  OBVIOUS
<1> HIDE DEF w
<1>7. \A d \in Clients : IF d = c THEN run'[d].op = "none"
                         ELSE run'[d].op = run[d].op /\ run'[d].seen = run[d].seen
  BY <1>1, <1>6, SetActiveSeen DEF LifeInv
<1> QED
  BY <1>1, <1>3, <1>4, <1>5, <1>7 DEF SameSeen

(* The other steps make no branch.                                         *)
LEMMA OthersKeepLineage ==
    ASSUME LifeInv, Next, \A c \in Clients : ~CreateCommit(c)
    PROVE  made' = made /\ SameLineage /\ SameSeen
<1>0. /\ branches \in [Ids -> Branches \cup {Nothing}] /\ run \in [Clients -> Runs]
      /\ \A i \in Created : i \in Ids /\ branches[i] \in Branches
  BY CreatedIds DEF LifeInv, TypeOK
<1>1. ASSUME NEW c \in Clients, NEW op \in Ops, NEW n, NEW i, Begin(c, op, n, i)
      PROVE  made' = made /\ SameLineage /\ SameSeen
  <2>1. /\ run[c].op = "none" /\ UNCHANGED <<made, branches>>
        /\ \A d \in Clients : d # c => run'[d] = run[d]
    BY <1>0, <1>1 DEF Begin
  <2> QED
    BY <2>1 DEF SameLineage, SameSeen, Created
<1>2. ASSUME NEW c \in Clients, Fail(c)
      PROVE  made' = made /\ SameLineage /\ SameSeen
  <2>1. /\ UNCHANGED <<made, branches>>
        /\ run'[c].op = "none"
        /\ \A d \in Clients : d # c => run'[d] = run[d]
    BY <1>0, <1>2, IdleType DEF Fail
  <2> QED
    BY <2>1 DEF SameLineage, SameSeen, Created
<1>3. ASSUME NEW c \in Clients, NEW b, NEW w \in BOOLEAN, SetActive(c, b, w)
      PROVE  SameSeen
  BY <1>3, SetActiveSeen DEF LifeInv, SameSeen
<1>4. ASSUME NEW c \in Clients, CheckoutWrite(c)
      PROVE  made' = made /\ SameLineage /\ SameSeen
  BY <1>3, <1>4 DEF CheckoutWrite, SameLineage, Created
<1>5. ASSUME NEW c \in Clients, NEW status, UNCHANGED made,
             branches' = [branches EXCEPT ![run[c].id].status = status]
      PROVE  SameLineage
  BY <1>0, <1>5 DEF SameLineage, Created, Branches
<1>6. ASSUME NEW c \in Clients, DropCommit(c) \/ MergeCommit(c)
      PROVE  made' = made /\ SameLineage /\ SameSeen
  <2>1. made' = made /\ SameLineage
    BY <1>5, <1>6 DEF DropCommit, MergeCommit
  <2>2. CASE DropCommit(c)
    <3> DEFINE w == active = run[c].id
    <3>1. SetActive(c, 0, w) /\ w \in BOOLEAN
      BY <2>2 DEF DropCommit
    <3> HIDE DEF w
    <3> QED
      BY <1>3, <2>1, <3>1
  <2>3. CASE MergeCommit(c)
    <3> DEFINE w == run[c].seen = run[c].id
    <3>1. SetActive(c, 0, w) /\ w \in BOOLEAN
      BY <2>3 DEF MergeCommit
    <3> HIDE DEF w
    <3> QED
      BY <1>3, <2>1, <3>1
  <2> QED
    BY <1>6, <2>2, <2>3
<1>7. ASSUME NEW a \in Apps, Connect(a) \/ Disconnect(a)
      PROVE  made' = made /\ SameLineage /\ SameSeen
  BY <1>7 DEF Connect, Disconnect, SameLineage, SameSeen, Created
<1>8. ASSUME NEW c \in Clients, NEW n \in Names,
             CreateRead(c, n) \/ CheckoutRead(c, n) \/ DropRead(c, n) \/ MergeStart(c, n)
      PROVE  made' = made /\ SameLineage /\ SameSeen
  <2>1. \E op \in Ops : \E i : Begin(c, op, n, i)
    BY <1>8 DEF CreateRead, CheckoutRead, DropRead, MergeStart, Ops
  <2> QED
    BY <1>1, <2>1
<1>9. ASSUME NEW c \in Clients, CreateDuplicate(c) \/ DropDeadlock(c) \/ MergeFail(c)
      PROVE  made' = made /\ SameLineage /\ SameSeen
  BY <1>2, <1>9 DEF CreateDuplicate, DropDeadlock, MergeFail
<1> QED
  BY <1>4, <1>6, <1>7, <1>8, <1>9 DEF Next

-----------------------------------------------------------------------------
(* Facts about types.                                                      *)

(* The bounds are numbers, and Unread is no commit.                        *)
LEMMA Numbers ==
    /\ MaxCommits \in Nat /\ Unread \in Nat /\ Unread \notin 0..MaxCommits
    /\ 0 \in 0..MaxCommits /\ 0 \in 0..MaxBranches /\ Last \in Nat
    /\ 0 \in 0..Unread /\ Unread \in 0..Unread /\ 1 \in 1..(Last + 1)
BY CommitAssumption, LifecycleAssumption DEF Unread, Last

(* A free committer.                                                       *)
LEMMA NoWorkType ==
    NoWork \in Works /\ NoWork.branch = 0
<1>1. Zero \in Summaries
  BY DEF Zero, Summaries
<1> QED
  BY <1>1, Numbers DEF NoWork, Works

(* The length of the log.                                                  *)
LEMMA LogLength ==
    ASSUME CommitTypeOK
    PROVE  /\ Len(commits) \in Nat /\ Len(commits) <= MaxCommits /\ Log \subseteq 1..MaxCommits
           /\ \A i \in Log : commits[i] \in Commits
<1>1. commits \in Seq(Commits) /\ Len(commits) \in Nat /\ Len(commits) <= MaxCommits
  BY DEF CommitTypeOK
<1>2. \A i \in 1..Len(commits) : commits[i] \in Commits
  BY <1>1
<1>3. 1..Len(commits) \subseteq 1..MaxCommits
  BY <1>1, Numbers
<1> QED
  BY <1>1, <1>2, <1>3 DEF Log

(* The work of one committer changes.                                      *)
LEMMA WorkMoves ==
    ASSUME CommitTypeOK, NEW c \in Committers, NEW w \in Works, work' = [work EXCEPT ![c] = w]
    PROVE  /\ work' \in [Committers -> Works] /\ work'[c] = w
           /\ \A d \in Committers : d # c => work'[d] = work[d]
           /\ Busy' = IF w.branch = 0 THEN Busy \ {c} ELSE Busy \cup {c}
<1>1. /\ work' \in [Committers -> Works] /\ work'[c] = w
      /\ \A d \in Committers : d # c => work'[d] = work[d]
  BY DEF CommitTypeOK
<1> QED
  BY <1>1 DEF Busy, Working

(* There are finitely many commits under way.                              *)
LEMMA BusyFinite == IsFiniteSet(Busy) /\ Cardinality(Busy) \in Nat
<1>1. Busy \in SUBSET Committers
  BY DEF Busy
<1>2. IsFiniteSet(Busy)
  BY <1>1, CommitAssumption, FS_Subset
<1> QED
  BY <1>2, FS_CardinalityType

(* The steps of the log itself leave the branches alone.                   *)
LEMMA SameBranches ==
    ASSUME UNCHANGED lifeVars
    PROVE  UNCHANGED <<made, branches, schemas, active, run, session>> /\ Created' = Created
BY DEF lifeVars, Created

(* What was true of lineages stays true.                                   *)
LEMMA LineageStays ==
    ASSUME SameLineage, commits' = commits, NEW p, NEW b \in Created
    PROVE  /\ InLineage(p, b) => InLineage(p, b)'
           /\ IsOf(p, b) => IsOf(p, b)'
BY DEF SameLineage, InLineage, IsOf, Log

(* A running commit keeps its place while nobody commits, whatever happens *)
(* to its counts.                                                          *)
LEMMA SameWorks ==
    ASSUME LogInv, LifeInv', CommitTypeOK', SameLineage, commits' = commits,
           \A c \in Committers : /\ work'[c].branch = work[c].branch
                                 /\ work'[c].parent = work[c].parent
                                 /\ work'[c].before = work[c].before
                                 /\ work'[c].known = work[c].known
    PROVE  Room' /\ CommitsInOrder' /\ WorksInOrder' /\ ForksOverlap'
<1>1. Room'
  <2>1. Busy' = Busy
    BY DEF Busy, Working
  <2> QED
    BY <2>1 DEF LogInv, Room
<1>2. CommitsInOrder'
  BY LineageStays DEF LogInv, CommitsInOrder, SameLineage, Log
<1>3. WorksInOrder'
  <2> SUFFICES ASSUME NEW c \in Committers, Working(c)' PROVE WorkInOrder(work[c])'
    BY DEF WorksInOrder
  <2>1. WorkInOrder(work[c])
    BY DEF LogInv, WorksInOrder, Working
  <2>2. work[c].branch \in Created /\ work[c].branch \in Created'
    BY <2>1 DEF WorkInOrder, SameLineage
  <2>3. work[c].parent # Unread => /\ InLineage(work[c].parent, work[c].branch)'
                                   /\ work[c].known =>
                                        OnlyLater(work[c].parent, work[c].branch,
                                                  work[c].before)'
    <3>1. ASSUME NEW p, NEW b, NEW k PROVE OnlyLater(p, b, k) => OnlyLater(p, b, k)'
      BY DEF OnlyLater, Log
    <3>2. ASSUME NEW p, NEW b \in Created, InLineage(p, b)
          PROVE  p # 0 => /\ p \in Log'
                          /\ commits'[p].branch \in {b, branches'[b].parent}
      BY <3>2 DEF InLineage, SameLineage, Log
    <3> QED
      BY <2>1, <2>2, <3>1, <3>2 DEF WorkInOrder, InLineage, OnlyLater, Log
  <2> QED
    BY <2>1, <2>2, <2>3 DEF WorkInOrder, InLineage, OnlyLater, Log
<1>4. ForksOverlap'
  BY DEF LogInv, ForksOverlap
<1> QED
  BY <1>1, <1>2, <1>3, <1>4

(* The log only grows, and the bases that were read stay what they were.   *)
LEMMA BasesStay ==
    ASSUME LogInv, UNCHANGED <<lifeVars, base, basis>>, CommitTypeOK',
           Log \subseteq Log', \A i \in Log : commits'[i] = commits[i]
    PROVE  BasesInOrder' /\ ReadInOrder'
<1>1. /\ UNCHANGED <<branches, run, base, basis>> /\ Created' = Created
  BY SameBranches
<1>2. ASSUME NEW p, NEW b, IsOf(p, b) PROVE p # 0 => p \in Log' /\ commits'[p].branch = b
  BY <1>2 DEF IsOf
<1>3. BasesInOrder'
  BY <1>1, <1>2 DEF LogInv, BasesInOrder, IsOf
<1>4. ReadInOrder'
  BY <1>1, <1>2 DEF LogInv, ReadInOrder, BasisInOrder, IsOf
<1> QED
  BY <1>3, <1>4

(* Only quiet is taken from the disturbed commits.                         *)
LEMMA DisturbedType ==
    ASSUME CommitTypeOK, NEW is, work' = Disturbed(is)
    PROVE  /\ work' \in [Committers -> Works]
           /\ \A c \in Committers : /\ work'[c].branch = work[c].branch
                                    /\ work'[c].parent = work[c].parent
                                    /\ work'[c].before = work[c].before
                                    /\ work'[c].known = work[c].known
<1>1. ASSUME NEW c \in Committers
      PROVE  /\ [work[c] EXCEPT !.quiet = FALSE] \in Works
             /\ [work[c] EXCEPT !.quiet = FALSE].branch = work[c].branch
             /\ [work[c] EXCEPT !.quiet = FALSE].parent = work[c].parent
             /\ [work[c] EXCEPT !.quiet = FALSE].before = work[c].before
             /\ [work[c] EXCEPT !.quiet = FALSE].known = work[c].known
             /\ work[c] \in Works
  <2>1. work[c] \in Works
    BY DEF CommitTypeOK
  <2> QED
    BY <2>1 DEF Works
<1>2. \A c \in Committers : work'[c] \in {work[c], [work[c] EXCEPT !.quiet = FALSE]}
  BY DEF Disturbed
<1>3. work' \in [Committers -> Works]
  BY <1>1 DEF Disturbed
<1> QED
  BY <1>1, <1>2, <1>3

(* The branches keep their invariant while nobody touches them.            *)
LEMMA LifeInvStays ==
    ASSUME LifeInv, UNCHANGED lifeVars
    PROVE  LifeInv'
BY SameBranches DEF LifeInv, TypeOK, LiveNamesDiffer, RunsKnowTheirBranch, MergesHoldTheirBranch

(* One committer goes on with a work that is in order, or is done.         *)
LEMMA OneWork ==
    ASSUME LogInv, NEW c \in Committers, NEW w \in Works, work' = [work EXCEPT ![c] = w],
           UNCHANGED <<lifeVars, commits, base, basis, delta, writes>>,
           c \in Busy \/ w.branch = 0 \/ Len(commits) + Cardinality(Busy) < MaxCommits,
           w.branch # 0 => WorkInOrder(w)
    PROVE  LogInv'
<1>1. /\ work' \in [Committers -> Works] /\ work'[c] = w
      /\ \A d \in Committers : d # c => work'[d] = work[d]
      /\ Busy' = IF w.branch = 0 THEN Busy \ {c} ELSE Busy \cup {c}
  BY WorkMoves DEF LogInv
<1>2. CommitTypeOK'
  BY <1>1 DEF LogInv, CommitTypeOK
<1>3. Room'
  <2>1. IsFiniteSet(Busy) /\ Cardinality(Busy) \in Nat
    BY BusyFinite
  <2>2. Len(commits) \in Nat /\ MaxCommits \in Nat
    BY LogLength, Numbers DEF LogInv
  <2>3. /\ Cardinality(Busy \cup {c})
              = IF c \in Busy THEN Cardinality(Busy) ELSE Cardinality(Busy) + 1
        /\ Cardinality(Busy \ {c})
              = IF c \in Busy THEN Cardinality(Busy) - 1 ELSE Cardinality(Busy)
    BY <2>1, FS_AddElement, FS_RemoveElement
  <2>4. Len(commits) + Cardinality(Busy) <= MaxCommits
    BY DEF LogInv, Room
  <2>5. CASE w.branch = 0
    BY <1>1, <2>1, <2>2, <2>3, <2>4, <2>5 DEF Room
  <2>6. CASE w.branch # 0
    BY <1>1, <2>1, <2>2, <2>3, <2>4, <2>6 DEF Room
  <2> QED
    BY <2>5, <2>6
<1>4. UNCHANGED <<made, branches, schemas, active, run, session>> /\ Created' = Created
  BY SameBranches
<1>5. WorksInOrder'
  <2> SUFFICES ASSUME NEW d \in Committers, Working(d)' PROVE WorkInOrder(work[d])'
    BY DEF WorksInOrder
  <2>1. WorkInOrder(work'[d])
    BY <1>1 DEF LogInv, WorksInOrder, Working
  <2> QED
    BY <1>4, <2>1 DEF WorkInOrder, InLineage, OnlyLater, Log
<1>6. CommitsInOrder' /\ ForksOverlap'
  BY <1>4 DEF LogInv, CommitsInOrder, ForksOverlap, InLineage, Log
<1>7. BasesInOrder' /\ ReadInOrder'
  BY <1>2, BasesStay DEF Log
<1>8. LifeInv'
  BY LifeInvStays DEF LogInv
<1> QED
  BY <1>2, <1>3, <1>5, <1>6, <1>7, <1>8 DEF LogInv

-----------------------------------------------------------------------------
(* The statements of commit.                                               *)

(* The branch a commit begins with exists.                                 *)
LEMMA BeginKeepsLog ==
    ASSUME LogInv, NEW c \in Committers, CommitBegin(c)
    PROVE  LogInv'
<1> DEFINE sn == SchemaName(active)
           n == Len(commits)
           w == [NoWork EXCEPT !.branch = active, !.schema = sn, !.before = n]
<1>1. /\ active # 0 /\ Len(commits) + Cardinality(Busy) < MaxCommits
      /\ work' = [work EXCEPT ![c] = w]
      /\ UNCHANGED <<lifeVars, commits, base, basis, delta, writes>>
  BY DEF CommitBegin, Busy
<1>2. active \in Created /\ active \in 0..MaxBranches /\ branches[active] \in Branches
  <2>1. active \in 0..made /\ made \in Nat
    BY CreatedIds DEF LogInv, LifeInv
  <2>2. active \in 1..made
    BY <1>1, <2>1
  <2> QED
    BY <2>2, CreatedIds DEF LogInv, LifeInv, TypeOK, Created
<1>3. sn \in Names \cup {"dropped"}
  BY <1>2 DEF SchemaName, Branches
<1>4. n \in 0..MaxCommits /\ n <= Len(commits)
  BY LogLength, Numbers DEF LogInv
<1>5. NoWork.parent = Unread
  BY DEF NoWork
<1> HIDE DEF sn, n
<1>6. w \in Works /\ w.branch = active /\ w.parent = Unread /\ w.before = n
  BY <1>2, <1>3, <1>4, <1>5, NoWorkType DEF Works
<1> HIDE DEF w
<1>7. WorkInOrder(w)
  BY <1>2, <1>4, <1>6 DEF WorkInOrder
<1> QED
  BY <1>1, <1>6, <1>7, OneWork

(* A nonempty set of naturals with an upper bound has a greatest element.  *)
LEMMA GreatestExists ==
    ASSUME NEW T \in SUBSET Nat, T # {}, NEW n \in Nat, \A x \in T : x <= n
    PROVE  \E x \in T : \A y \in T : y <= x
<1> DEFINE Below == OpToRel(<, Nat)
           D == {n - x : x \in T}
<1>1. IsWellFoundedOn(Below, Nat)
  BY NatLessThanWellFounded
<1>2. \A a, b \in Nat : a < b => <<a, b>> \in Below
  BY DEF OpToRel
<1>3. D \subseteq Nat /\ D # {}
  <2>1. \A x \in T : n - x \in Nat
    BY Z3
  <2> QED
    BY <2>1
<1> HIDE DEF Below
<1>4. PICK d \in D : \A e \in D : <<e, d>> \notin Below
  <2> HIDE DEF D
  <2> QED
    BY <1>1, <1>3, WFMin
<1>5. PICK x \in T : d = n - x
  BY <1>4
<1>6. ASSUME NEW y \in T PROVE y <= x
  <2>1. n - y \in D
    OBVIOUS
  <2>2. ~(n - y < d)
    BY <1>2, <1>3, <1>4, <2>1
  <2>3. x \in Nat /\ y \in Nat
    OBVIOUS
  <2> QED
    BY <1>5, <2>2, <2>3
<1> QED
  BY <1>6

(* The latest commit of a branch is one of its commits, and no commit of   *)
(* the branch has it as its parent.                                        *)
LEMMA LatestIsLast ==
    ASSUME LogInv, NEW b
    PROVE  /\ Latest(b) \in 0..MaxCommits
           /\ Latest(b) # 0 => Latest(b) \in Log /\ commits[Latest(b)].branch = b
           /\ \A i \in Log : commits[i].branch = b => Latest(b) # 0 /\ i <= Latest(b)
<1> DEFINE mine == CommitsOf(b)
<1>1. /\ mine \subseteq Log /\ mine \subseteq Nat \ {0}
      /\ Len(commits) \in Nat /\ Log \subseteq 0..MaxCommits
  BY LogLength, Numbers DEF LogInv, CommitsOf, Log
<1>2. CASE mine = {}
  BY <1>2, Numbers DEF Latest, CommitsOf, Log
<1>3. CASE mine # {}
  <2>0. \A i \in mine : i <= Len(commits)
    BY <1>1 DEF CommitsOf
  <2>1. \E i \in mine : \A j \in mine : j <= i
    <3> HIDE DEF mine
    <3> QED
      BY <1>1, <1>3, <2>0, GreatestExists
  <2> QED
    BY <1>1, <1>3, <2>1 DEF Latest, CommitsOf, Log
<1> QED
  BY <1>2, <1>3

(* What a commit reads as its parent is in its lineage, and no commit of   *)
(* its branch has that parent yet.                                         *)
LEMMA ParentKeepsLog ==
    ASSUME LogInv, NEW c \in Committers, CommitParent(c)
    PROVE  LogInv'
<1> DEFINE b == work[c].branch
           last == Latest(b)
           p == IF last # 0 THEN last ELSE base[b]
           w == [work[c] EXCEPT !.parent = p]
<1>1. /\ Working(c)
      /\ work' = [work EXCEPT ![c] = w]
      /\ UNCHANGED <<lifeVars, commits, base, basis, delta, writes>>
  BY DEF CommitParent
<1>2. work[c] \in Works /\ WorkInOrder(work[c]) /\ b \in Created /\ b \in Ids /\ c \in Busy
  BY <1>1, CreatedIds
     DEF LogInv, LifeInv, CommitTypeOK, WorksInOrder, WorkInOrder, Busy
<1>3. base[b] \in 0..MaxCommits /\ IsOf(base[b], branches[b].parent)
  BY <1>2 DEF LogInv, CommitTypeOK, BasesInOrder
<1>4. /\ last \in 0..MaxCommits
      /\ last # 0 => last \in Log /\ commits[last].branch = b
      /\ \A i \in Log : commits[i].branch = b => last # 0 /\ i <= last
  BY LatestIsLast
<1> HIDE DEF last
<1>5. InLineage(p, b)
  BY <1>3, <1>4 DEF InLineage, IsOf
<1>6. \A i \in Log : ~(commits[i].branch = b /\ commits[i].parent = p)
  <2> SUFFICES ASSUME NEW i \in Log, commits[i].branch = b, commits[i].parent = p PROVE FALSE
    OBVIOUS
  <2>1. last # 0 /\ i <= last /\ p = last
    BY <1>4
  <2>2. last < i
    BY <2>1 DEF LogInv, CommitsInOrder
  <2>3. i \in Nat /\ last \in Nat
    BY <1>4, LogLength, Numbers DEF LogInv
  <2> QED
    BY <2>1, <2>2, <2>3
<1>7. p \in 0..Unread
  BY <1>3, <1>4, Numbers DEF Unread
<1> HIDE DEF p
<1>8. w \in Works /\ w.branch = b /\ w.parent = p /\ w.before = work[c].before
  BY <1>2, <1>7 DEF Works
<1> HIDE DEF w, b
<1>9. WorkInOrder(w)
  BY <1>2, <1>5, <1>6, <1>8 DEF WorkInOrder, OnlyLater, b
<1> QED
  BY <1>1, <1>2, <1>8, <1>9, OneWork

(* Without the answer it is the base commit, or no parent.                 *)
LEMMA ParentErrorKeepsLog ==
    ASSUME LogInv, NEW c \in Committers, CommitParentError(c)
    PROVE  LogInv'
<1> DEFINE b == work[c].branch
<1>1. PICK p \in {base[b], 0} : work' = [work EXCEPT ![c].parent = p, ![c].known = FALSE]
  BY DEF CommitParentError
<1>2. Working(c) /\ UNCHANGED <<lifeVars, commits, base, basis, delta, writes>>
  BY DEF CommitParentError
<1> DEFINE w == [work[c] EXCEPT !.parent = p, !.known = FALSE]
<1>3. work[c] \in Works /\ WorkInOrder(work[c]) /\ b \in Created /\ b \in Ids /\ c \in Busy
  BY <1>2, CreatedIds
     DEF LogInv, LifeInv, CommitTypeOK, WorksInOrder, WorkInOrder, Busy
<1>4. work' = [work EXCEPT ![c] = w]
  BY <1>1 DEF LogInv, CommitTypeOK
<1>5. base[b] \in 0..MaxCommits /\ IsOf(base[b], branches[b].parent)
  BY <1>3 DEF LogInv, CommitTypeOK, BasesInOrder
<1>6. p \in 0..Unread /\ InLineage(p, b)
  BY <1>1, <1>5, Numbers DEF InLineage, IsOf, Unread
<1>7. w \in Works /\ w.branch = b /\ w.parent = p /\ w.before = work[c].before /\ ~w.known
  BY <1>3, <1>6 DEF Works
<1> HIDE DEF w, b
<1>8. WorkInOrder(w)
  BY <1>3, <1>6, <1>7 DEF WorkInOrder, b
<1> QED
  BY <1>2, <1>3, <1>4, <1>7, <1>8, OneWork

(* A count query changes counts only.                                      *)
LEMMA CountKeepsLog ==
    ASSUME LogInv, NEW c \in Committers, CommitCount(c)
    PROVE  LogInv'
<1> DEFINE q == work[c].query
           m == MarkOf(q)
           n == work[c].counts[m] + Count(work[c].schema, q)
           f == [work[c].counts EXCEPT ![m] = n]
           quiet == IF q = 1 THEN work[c].branch \in Owner(work[c].schema) ELSE work[c].quiet
           w == [work[c] EXCEPT !.query = q + 1, !.counts = f, !.quiet = quiet]
<1>1. /\ Working(c) /\ q <= Last
      /\ UNCHANGED <<lifeVars, commits, base, basis, delta, writes>>
      /\ work' = [work EXCEPT ![c] = w]
  <2>1. work[c] \in Works
    BY DEF LogInv, CommitTypeOK
  <2> QED
    BY <2>1 DEF CommitCount, Works
<1>2. work[c] \in Works /\ WorkInOrder(work[c]) /\ c \in Busy
  BY <1>1 DEF LogInv, CommitTypeOK, WorksInOrder, Busy
<1>3. q \in 1..(Last + 1) /\ q + 1 \in 1..(Last + 1)
  BY <1>1, <1>2, Numbers DEF Works
<1>4. m \in {"inserted", "updated", "deleted"}
  <2>1. ((q - 1) % 3) + 1 \in 1..3
    BY <1>3, Numbers
  <2> QED
    BY <2>1 DEF MarkOf, Counted
<1>5. Count(work[c].schema, q) \in Nat
  <2> DEFINE marked == UNION {Marked(i, TableOf(q), {MarkOf(q)}) : i \in Owner(work[c].schema)}
  <2>1. marked \in SUBSET RowKeys
    BY DEF Marked
  <2> HIDE DEF marked
  <2>2. IsFiniteSet(marked)
    BY <2>1, CommitAssumption, FS_Subset
  <2>3. Cardinality(marked) \in Nat
    BY <2>2, FS_CardinalityType
  <2> QED
    BY <2>3 DEF Count, marked
<1>6. n \in Nat
  BY <1>2, <1>4, <1>5 DEF Works, Summaries
<1> HIDE DEF n, m
<1>7. f \in Summaries
  BY <1>2, <1>4, <1>6 DEF Works, Summaries
<1>8. quiet \in BOOLEAN
  <2>1. work[c].quiet \in BOOLEAN
    BY <1>2 DEF Works
  <2>2. (work[c].branch \in Owner(work[c].schema)) \in BOOLEAN
    OBVIOUS
  <2> QED
    BY <2>1, <2>2, Zenon
<1> HIDE DEF f, quiet, q
<1>9. /\ w \in Works /\ w.branch = work[c].branch /\ w.parent = work[c].parent
      /\ w.before = work[c].before /\ w.known = work[c].known
  BY <1>2, <1>3, <1>7, <1>8 DEF Works
<1> HIDE DEF w
<1>10. WorkInOrder(w)
  BY <1>2, <1>9 DEF WorkInOrder
<1> QED
  BY <1>1, <1>2, <1>9, <1>10, OneWork

(* A count without an answer changes less.                                 *)
LEMMA CountErrorKeepsLog ==
    ASSUME LogInv, NEW c \in Committers, CommitCountError(c)
    PROVE  LogInv'
<1> DEFINE q == work[c].query + 1
           w == [work[c] EXCEPT !.query = q, !.quiet = FALSE]
<1>1. /\ Working(c) /\ work[c].query <= Last
      /\ UNCHANGED <<lifeVars, commits, base, basis, delta, writes>>
  BY DEF CommitCountError
<1>2. work[c] \in Works /\ WorkInOrder(work[c]) /\ c \in Busy
  BY <1>1 DEF LogInv, CommitTypeOK, WorksInOrder, Busy
<1>3. work' = [work EXCEPT ![c] = w]
  BY DEF CommitCountError, LogInv, CommitTypeOK
<1>4. q \in 1..(Last + 1)
  BY <1>1, <1>2, Numbers DEF Works
<1> HIDE DEF q
<1>5. /\ w \in Works /\ w.branch = work[c].branch /\ w.parent = work[c].parent
      /\ w.before = work[c].before /\ w.known = work[c].known
  BY <1>2, <1>4 DEF Works
<1> HIDE DEF w
<1>6. WorkInOrder(w)
  BY <1>2, <1>5 DEF WorkInOrder
<1> QED
  BY <1>1, <1>2, <1>3, <1>5, <1>6, OneWork

(* A commit that fails leaves the log alone.                               *)
LEMMA FailsKeepLog ==
    ASSUME LogInv, NEW c \in Committers, CommitFails(c)
    PROVE  LogInv'
BY NoWorkType, OneWork DEF CommitFails

(* The commit that ends has only later siblings, and the others under way  *)
(* began before it.                                                        *)
LEMMA InsertKeepsLog ==
    ASSUME LogInv, NEW c \in Committers, CommitInsert(c)
    PROVE  LogInv'
<1> DEFINE w == work[c]
           n == Len(commits)
           new == [branch |-> w.branch, parent |-> w.parent, before |-> w.before,
                   known |-> w.known]
<1>1. /\ Working(c) /\ w.parent # Unread
      /\ commits' = Append(commits, new)
      /\ work' = [work EXCEPT ![c] = NoWork]
      /\ UNCHANGED <<lifeVars, base, basis, delta, writes>>
  BY DEF CommitInsert
<1>2. /\ w \in Works /\ w.branch \in Created /\ w.branch \in Ids /\ c \in Busy
      /\ w.before <= n /\ InLineage(w.parent, w.branch)
      /\ w.known => OnlyLater(w.parent, w.branch, w.before)
  BY <1>1, CreatedIds
     DEF LogInv, LifeInv, CommitTypeOK, WorksInOrder, WorkInOrder, Busy
<1>3. n \in Nat /\ commits \in Seq(Commits) /\ \A i \in Log : i \in Nat /\ i <= n
  BY LogLength DEF LogInv, CommitTypeOK, Log
<1>4. Len(commits) + Cardinality(Busy) <= MaxCommits
  BY DEF LogInv, Room
<1>5. w.parent \in 0..MaxCommits /\ w.parent <= n
  BY <1>1, <1>2, <1>3, Numbers DEF Works, Unread, InLineage
<1>6. new \in Commits
  BY <1>2, <1>5 DEF Works, Commits
<1>7. /\ commits' \in Seq(Commits) /\ Len(commits') = n + 1
      /\ \A i \in Log : commits'[i] = commits[i]
      /\ commits'[n + 1] = new
  BY <1>1, <1>3, <1>6 DEF Log
<1>8. Log' = Log \cup {n + 1} /\ n + 1 \notin Log
  BY <1>3, <1>7 DEF Log
<1>9. /\ work' \in [Committers -> Works] /\ work'[c] = NoWork
      /\ \A d \in Committers : d # c => work'[d] = work[d]
      /\ Busy' = Busy \ {c}
  BY <1>1, NoWorkType, WorkMoves DEF LogInv
<1>10. /\ new.branch = w.branch /\ new.parent = w.parent /\ new.before = w.before
       /\ new.known = w.known
  OBVIOUS
<1> HIDE DEF new, w, n
<1>11. Room' /\ Len(commits') <= MaxCommits
  <2>1. IsFiniteSet(Busy) /\ Cardinality(Busy) \in Nat
    BY BusyFinite
  <2>2. Cardinality(Busy \ {c}) = Cardinality(Busy) - 1
    BY <1>2, <2>1, FS_RemoveElement
  <2>3. IsFiniteSet(Busy \ {c}) /\ Cardinality(Busy \ {c}) \in Nat
    BY <2>1, FS_RemoveElement, FS_CardinalityType
  <2> QED
    BY <1>3, <1>4, <1>7, <1>9, <2>1, <2>2, <2>3, Numbers DEF Room, n
<1>12. CommitTypeOK'
  BY <1>1, <1>7, <1>9, <1>11 DEF LogInv, CommitTypeOK
<1>13. /\ UNCHANGED <<made, branches, schemas, active, run, session>> /\ Created' = Created
       /\ LifeInv'
  BY <1>1, SameBranches, LifeInvStays DEF LogInv
<1>14. ASSUME NEW p, NEW b, InLineage(p, b)
       PROVE  p # 0 => p \in Log' /\ commits'[p].branch \in {b, branches'[b].parent}
  BY <1>7, <1>8, <1>13, <1>14 DEF InLineage
<1>15. CommitsInOrder'
  <2> SUFFICES ASSUME NEW i \in Log'
               PROVE  /\ commits'[i].branch \in Created'
                      /\ commits'[i].parent < i
                      /\ commits'[i].parent # 0 =>
                           /\ commits'[i].parent \in Log'
                           /\ commits'[commits'[i].parent].branch
                                \in {commits'[i].branch, branches'[commits'[i].branch].parent}
    BY DEF CommitsInOrder, InLineage
  <2>1. CASE i \in Log
    BY <1>7, <1>13, <1>14, <2>1 DEF LogInv, CommitsInOrder
  <2>2. CASE i = n + 1
    BY <1>2, <1>3, <1>5, <1>7, <1>10, <1>13, <1>14, <2>2
  <2> QED
    BY <1>8, <2>1, <2>2
<1>16. WorksInOrder'
  <2> SUFFICES ASSUME NEW d \in Committers, Working(d)' PROVE WorkInOrder(work[d])'
    BY DEF WorksInOrder
  <2>1. d # c /\ work'[d] = work[d]
    BY <1>9, NoWorkType DEF Working
  <2> DEFINE v == work[d]
  <2>2. /\ v \in Works /\ v.branch \in Created /\ v.before <= Len(commits)
        /\ v.parent # Unread => /\ InLineage(v.parent, v.branch)
                                /\ v.known => OnlyLater(v.parent, v.branch, v.before)
    BY <2>1 DEF WorkInOrder, LogInv, CommitTypeOK, WorksInOrder, Working
  <2>3. work'[d] = v
    BY <2>1
  <2> HIDE DEF v
  <2>4. v.before \in Nat
    BY <2>2, Numbers DEF Works
  <2>5. v.before <= Len(commits') /\ v.before < n + 1
    BY <1>3, <1>7, <2>2, <2>4 DEF n
  <2>6. v.parent # Unread /\ v.known =>
          \A i \in Log' : commits'[i].branch = v.branch /\ commits'[i].parent = v.parent =>
                             v.before < i
    <3> SUFFICES ASSUME v.parent # Unread, v.known, NEW i \in Log',
                        commits'[i].branch = v.branch, commits'[i].parent = v.parent
                 PROVE  v.before < i
      OBVIOUS
    <3>1. CASE i \in Log
      BY <1>7, <2>2, <3>1 DEF OnlyLater
    <3>2. CASE i = n + 1
      BY <2>5, <3>2
    <3> QED
      BY <1>8, <3>1, <3>2
  <2>7. v.parent # Unread =>
          (v.parent # 0 => /\ v.parent \in Log'
                           /\ commits'[v.parent].branch \in {v.branch, branches'[v.branch].parent})
    BY <1>14, <2>2
  <2> QED
    BY <1>13, <2>2, <2>3, <2>5, <2>6, <2>7 DEF WorkInOrder, InLineage, OnlyLater
<1>17. ForksOverlap'
  <2> SUFFICES ASSUME NEW j \in Log', NEW i \in 1..(j - 1),
                      commits'[i].branch = commits'[j].branch,
                      commits'[i].parent = commits'[j].parent, commits'[j].known
               PROVE  commits'[j].before < i
    BY DEF ForksOverlap, Log
  <2>1. i \in Log
    BY <1>3, <1>8 DEF Log, n
  <2>2. CASE j \in Log
    BY <1>7, <2>1, <2>2 DEF LogInv, ForksOverlap, Log
  <2>3. CASE j = n + 1
    BY <1>2, <1>7, <1>10, <2>1, <2>3 DEF OnlyLater
  <2> QED
    BY <1>8, <2>2, <2>3
<1>18. BasesInOrder' /\ ReadInOrder'
  BY <1>1, <1>7, <1>8, <1>12, BasesStay
<1> QED
  BY <1>11, <1>12, <1>13, <1>15, <1>16, <1>17, <1>18 DEF LogInv

-----------------------------------------------------------------------------
(* The others.                                                             *)

(* A branch write changes no commit.                                       *)
LEMMA WriteKeepsLog ==
    ASSUME LogInv, NEW i \in Ids, NEW t \in 1..TableCount, NEW k \in RowKeys, BranchWrite(i, t, k)
    PROVE  LogInv'
<1>1. /\ writes > 0 /\ writes' = writes - 1
      /\ work' = Disturbed({i})
      /\ UNCHANGED <<lifeVars, commits, base, basis>>
  BY DEF BranchWrite
<1>2. PICK m \in Marks : delta' = [delta EXCEPT ![i][t][k] = m]
  BY DEF BranchWrite
<1>3. delta' \in [Ids -> Deltas]
  <2>1. delta \in [Ids -> [1..TableCount -> [RowKeys -> Marks]]]
    BY DEF LogInv, CommitTypeOK, Deltas
  <2>2. [delta[i][t] EXCEPT ![k] = m] \in [RowKeys -> Marks]
    BY <2>1
  <2> DEFINE rows == [delta[i][t] EXCEPT ![k] = m]
  <2>3. delta' = [delta EXCEPT ![i] = [delta[i] EXCEPT ![t] = rows]]
    BY <1>2, <2>1
  <2> HIDE DEF rows
  <2>4. rows \in [RowKeys -> Marks]
    BY <2>2 DEF rows
  <2>5. [delta[i] EXCEPT ![t] = rows] \in [1..TableCount -> [RowKeys -> Marks]]
    BY <2>1, <2>4
  <2> QED
    BY <2>1, <2>3, <2>5 DEF Deltas
<1>4. writes' \in 0..MaxWrites
  BY <1>1, CommitAssumption DEF LogInv, CommitTypeOK
<1>5. /\ work' \in [Committers -> Works]
      /\ \A c \in Committers : /\ work'[c].branch = work[c].branch
                               /\ work'[c].parent = work[c].parent
                               /\ work'[c].before = work[c].before
                               /\ work'[c].known = work[c].known
  BY <1>1, DisturbedType DEF LogInv
<1>6. CommitTypeOK'
  BY <1>1, <1>3, <1>4, <1>5 DEF LogInv, CommitTypeOK
<1>7. LifeInv' /\ SameLineage
  BY <1>1, LifeInvStays, SameBranches DEF LogInv, SameLineage
<1>8. Room' /\ CommitsInOrder' /\ WorksInOrder' /\ ForksOverlap'
  BY <1>1, <1>5, <1>6, <1>7, SameWorks
<1>9. BasesInOrder' /\ ReadInOrder'
  BY <1>1, <1>6, BasesStay DEF Log
<1> QED
  BY <1>6, <1>7, <1>8, <1>9 DEF LogInv

(* Create reads a commit of the branch it saw active.                      *)
LEMMA ReadBaseKeepsLog ==
    ASSUME LogInv, NEW c \in Clients, CreateReadBase(c)
    PROVE  LogInv'
<1> DEFINE b == IF run[c].seen = 0 THEN 0 ELSE Latest(run[c].seen)
<1>1. /\ run[c].op = "create" /\ basis' = [basis EXCEPT ![c] = b]
      /\ UNCHANGED <<lifeVars, commits, base, delta, work, writes>>
  BY DEF CreateReadBase
<1>2. b \in 0..MaxCommits /\ IsOf(b, run[c].seen)
  BY LatestIsLast, Numbers DEF IsOf
<1> HIDE DEF b
<1>3. b \in 0..Unread
  BY <1>2, Numbers DEF Unread
<1>4. basis \in [Clients -> 0..Unread]
  BY DEF LogInv, CommitTypeOK
<1>5. /\ basis' \in [Clients -> 0..Unread] /\ basis'[c] = b
      /\ \A d \in Clients : d # c => basis'[d] = basis[d]
  BY <1>1, <1>3, <1>4
<1>6. CommitTypeOK'
  BY <1>1, <1>5 DEF LogInv, CommitTypeOK
<1>7. /\ LifeInv' /\ SameLineage
      /\ UNCHANGED <<branches, run>> /\ Created' = Created
  BY <1>1, LifeInvStays, SameBranches DEF LogInv, SameLineage
<1>8. Room' /\ CommitsInOrder' /\ WorksInOrder' /\ ForksOverlap'
  BY <1>1, <1>6, <1>7, SameWorks
<1>9. BasesInOrder'
  BY <1>1, <1>7 DEF LogInv, BasesInOrder, IsOf, Log
<1>10. ReadInOrder'
  <2> SUFFICES ASSUME NEW d \in Clients PROVE BasisInOrder(d)'
    BY DEF ReadInOrder
  <2>1. CASE d = c
    BY <1>1, <1>2, <1>5, <1>7, <2>1 DEF BasisInOrder, IsOf, Log
  <2>2. CASE d # c
    BY <1>1, <1>5, <1>7, <2>2 DEF LogInv, ReadInOrder, BasisInOrder, IsOf, Log
  <2> QED
    BY <2>1, <2>2
<1> QED
  BY <1>6, <1>7, <1>8, <1>9, <1>10 DEF LogInv

(* A branch command gives a new branch the base that its creator has read. *)
LEMMA LifecycleKeepsLog ==
    ASSUME LogInv, LifecycleStep, LifeInv'
    PROVE  LogInv'
<1>1. /\ Next /\ work' = Disturbed(Gone)
      /\ basis' = [c \in Clients |-> IF run'[c].op = "create" THEN basis[c] ELSE Unread]
      /\ delta' = [i \in Ids |-> IF i \in Gone THEN Untouched ELSE delta[i]]
      /\ UNCHANGED <<commits, writes>>
  BY DEF LifecycleStep
<1>2. /\ work' \in [Committers -> Works]
      /\ \A c \in Committers : /\ work'[c].branch = work[c].branch
                               /\ work'[c].parent = work[c].parent
                               /\ work'[c].before = work[c].before
                               /\ work'[c].known = work[c].known
  BY <1>1, DisturbedType DEF LogInv
<1>3. basis' \in [Clients -> 0..Unread]
  BY <1>1, Numbers DEF LogInv, CommitTypeOK
<1>4. delta' \in [Ids -> Deltas]
  <2>1. Untouched \in Deltas
    BY DEF Untouched, Deltas, Marks
  <2> QED
    BY <1>1, <2>1 DEF LogInv, CommitTypeOK
<1>5. ASSUME NEW p, NEW b PROVE IsOf(p, b) => (p # 0 => p \in Log' /\ commits'[p].branch = b)
  BY <1>1 DEF IsOf, Log
<1>6. base \in [Ids -> 0..MaxCommits]
  BY DEF LogInv, CommitTypeOK
<1>7. /\ SameLineage /\ SameSeen /\ base' \in [Ids -> 0..MaxCommits]
      /\ BasesInOrder'
  <2>1. CASE \E c \in Clients : CreateCommit(c)
    <3>1. PICK c \in Clients : CreateCommit(c)
      BY <2>1
    <3>2. /\ made' = made + 1 /\ made' \in Ids /\ Created' = Created \cup {made'}
          /\ branches'[made'].parent = run[c].seen
          /\ run[c].op = "create"
          /\ \A d \in Clients : d # c => run'[d].op = run[d].op
          /\ SameLineage /\ SameSeen
      BY <3>1, CreateMakes DEF LogInv
    <3>3. made' # made /\ made' \notin Created
      BY <3>2, CreatedIds DEF LogInv, LifeInv, Created
    <3>4. /\ basis[c] # Unread /\ base' = [base EXCEPT ![made'] = basis[c]]
      <4>1. PICK d \in Clients : /\ run[d].op = "create" /\ run'[d].op = "none"
                                 /\ basis[d] # Unread
                                 /\ base' = [base EXCEPT ![made'] = basis[d]]
        BY <3>3 DEF LifecycleStep
      <4>2. d = c
        BY <3>2, <4>1
      <4> QED
        BY <4>1, <4>2
    <3>5. IsOf(basis[c], run[c].seen)
      BY <3>2, <3>4 DEF LogInv, ReadInOrder, BasisInOrder
    <3>6. basis[c] \in 0..MaxCommits
      BY <3>4, Numbers DEF LogInv, CommitTypeOK, Unread
    <3>7. base' \in [Ids -> 0..MaxCommits] /\ base'[made'] = basis[c]
          /\ \A i \in Created : base'[i] = base[i]
      <4>1. \A i \in Created : i \in Ids
        BY CreatedIds DEF LogInv, LifeInv
      <4> QED
        BY <1>6, <3>2, <3>3, <3>4, <3>6, <4>1
    <3>8. ASSUME NEW i \in Created'
          PROVE  base'[i] # 0 => /\ base'[i] \in Log'
                                 /\ commits'[base'[i]].branch = branches'[i].parent
      <4>1. CASE i \in Created
        <5>1. IsOf(base[i], branches[i].parent) /\ base'[i] = base[i]
              /\ branches'[i].parent = branches[i].parent
          BY <3>2, <3>7, <4>1 DEF LogInv, BasesInOrder, SameLineage
        <5> QED
          BY <1>5, <5>1
      <4>2. CASE i = made'
        BY <1>5, <3>2, <3>5, <3>7, <4>2
      <4> QED
        BY <3>2, <4>1, <4>2
    <3> QED
      BY <3>2, <3>7, <3>8 DEF BasesInOrder, IsOf
  <2>2. CASE ~ \E c \in Clients : CreateCommit(c)
    <3>1. made' = made /\ SameLineage /\ SameSeen
      BY <1>1, <2>2, OthersKeepLineage DEF LogInv
    <3>2. UNCHANGED base
      BY <3>1 DEF LifecycleStep
    <3>3. BasesInOrder'
      BY <1>1, <3>1, <3>2 DEF LogInv, BasesInOrder, IsOf, Log, SameLineage, Created
    <3> QED
      BY <1>6, <3>1, <3>2, <3>3
  <2> QED
    BY <2>1, <2>2
<1>8. CommitTypeOK'
  BY <1>1, <1>2, <1>3, <1>4, <1>7 DEF LogInv, CommitTypeOK
<1>9. Room' /\ CommitsInOrder' /\ WorksInOrder' /\ ForksOverlap'
  BY <1>1, <1>2, <1>7, <1>8, SameWorks
<1>10. ReadInOrder'
  <2> SUFFICES ASSUME NEW c \in Clients PROVE BasisInOrder(c)'
    BY DEF ReadInOrder
  <2>1. CASE run'[c].op = "create" /\ run[c].op = "create"
    <3>1. basis'[c] = basis[c] /\ run'[c].seen = run[c].seen
      BY <1>1, <1>7, <2>1 DEF SameSeen
    <3> QED
      BY <1>1, <2>1, <3>1 DEF LogInv, ReadInOrder, BasisInOrder, IsOf, Log
  <2>2. CASE run'[c].op = "create" /\ run[c].op # "create"
    BY <1>1, <2>2 DEF LogInv, ReadInOrder, BasisInOrder
  <2>3. CASE run'[c].op # "create"
    BY <1>1, <2>3 DEF BasisInOrder
  <2> QED
    BY <2>1, <2>2, <2>3
<1> QED
  BY <1>7, <1>8, <1>9, <1>10 DEF LogInv

-----------------------------------------------------------------------------
(* The theorems.                                                           *)

(* A commit is no branch command: beside it the branches behave as         *)
(* BranchLifecycle says.                                                   *)
LEMMA CommitsKeepLifecycle == CommitSpec => Spec
<1>1. CommitInit => Init
  BY DEF CommitInit
<1>2. [CommitNext]_commitVars => [Next]_lifeVars
  BY DEF CommitNext, CommitBegin, CommitParent, CommitParentError, CommitCount,
     CommitCountError, CommitInsert, CommitFails, CreateReadBase, BranchWrite, LifecycleStep, commitVars
<1> QED
  BY <1>1, <1>2, PTL DEF CommitSpec, Spec

(* At the start there is no branch and no commit.                          *)
LEMMA InitHasLogInv ==
    ASSUME CommitInit, LifeInv
    PROVE  LogInv
<1>1. /\ commits = <<>> /\ Created = {} /\ Log = {}
      /\ \A c \in Clients : run[c].op = "none" /\ basis[c] = Unread
      /\ \A c \in Committers : work[c] = NoWork
  BY IdleType DEF CommitInit, Init, Created, Log
<1>2. Busy = {}
  BY <1>1, NoWorkType DEF Busy, Working
<1>3. Untouched \in Deltas
  BY DEF Untouched, Deltas, Marks
<1>4. CommitTypeOK
  <2>1. commits \in Seq(Commits) /\ Len(commits) = 0
    BY <1>1
  <2> QED
    BY <1>3, <2>1, Numbers, NoWorkType, CommitAssumption DEF CommitInit, CommitTypeOK
<1>5. Room
  BY <1>1, <1>2, FS_EmptySet, Numbers DEF Room
<1>6. CommitsInOrder /\ WorksInOrder /\ BasesInOrder /\ ReadInOrder /\ ForksOverlap
  BY <1>1, NoWorkType
     DEF CommitsInOrder, WorksInOrder, Working, BasesInOrder, ReadInOrder, BasisInOrder,
         ForksOverlap, Log
<1> QED
  BY <1>4, <1>5, <1>6 DEF LogInv

(* The invariant of the commit log.                                        *)
THEOREM LogInvariance == CommitSpec => []LogInv
<1>1. CommitInit /\ LifeInv => LogInv
  BY InitHasLogInv
<1>2. LogInv /\ LifeInv' /\ [CommitNext]_commitVars => LogInv'
  <2> SUFFICES ASSUME LogInv, LifeInv', [CommitNext]_commitVars PROVE LogInv'
    OBVIOUS
  <2>1. ASSUME NEW c \in Committers,
               CommitBegin(c) \/ CommitParent(c) \/ CommitParentError(c) \/ CommitCount(c)
               \/ CommitCountError(c) \/ CommitInsert(c) \/ CommitFails(c)
        PROVE  LogInv'
    BY <2>1, BeginKeepsLog, ParentKeepsLog, ParentErrorKeepsLog, CountKeepsLog,
       CountErrorKeepsLog, InsertKeepsLog, FailsKeepLog
  <2>2. ASSUME NEW c \in Clients, CreateReadBase(c) PROVE LogInv'
    BY <2>2, ReadBaseKeepsLog
  <2>3. ASSUME NEW i \in Ids, NEW t \in 1..TableCount, NEW k \in RowKeys, BranchWrite(i, t, k)
        PROVE  LogInv'
    BY <2>3, WriteKeepsLog
  <2>4. CASE LifecycleStep
    BY <2>4, LifecycleKeepsLog
  <2>5. CASE UNCHANGED commitVars
    <3>1. UNCHANGED <<lifeVars, commits, base, basis, delta, work, writes>>
      BY <2>5 DEF commitVars, logVars
    <3>2. UNCHANGED <<made, branches, schemas, active, run, session>> /\ Created' = Created
      BY <3>1, SameBranches
    <3>3. CommitTypeOK'
      BY <3>1 DEF LogInv, CommitTypeOK
    <3>4. SameLineage
      BY <3>2 DEF SameLineage
    <3>5. Room' /\ CommitsInOrder' /\ WorksInOrder' /\ ForksOverlap'
      BY <3>1, <3>3, <3>4, SameWorks
    <3>6. BasesInOrder' /\ ReadInOrder'
      BY <3>1, <3>3, BasesStay DEF Log
    <3> QED
      BY <3>3, <3>5, <3>6 DEF LogInv
  <2> QED
    BY <2>1, <2>2, <2>3, <2>4, <2>5 DEF CommitNext
<1> QED
  BY <1>1, <1>2, CommitsKeepLifecycle, LifeInvariance, PTL DEF CommitSpec

(* The commit log and the commands that write it are well typed.           *)
THEOREM CommitTypeCorrect == CommitSpec => []CommitTypeOK
<1>1. LogInv => CommitTypeOK
  BY DEF LogInv
<1> QED
  BY <1>1, LogInvariance, PTL

(* The parent of a commit is an earlier commit of its branch or of the one *)
(* it was forked from, for any number of processes that commit, create,    *)
(* check out, merge and drop at once (main.go:374-389, create.go:43-60).   *)
THEOREM ParentIsInLineage == CommitSpec => []ParentInLineage
<1>1. LogInv => ParentInLineage
  BY DEF LogInv, CommitsInOrder, InLineage, Log, ParentInLineage
<1> QED
  BY <1>1, LogInvariance, PTL

(* Two commits of a branch share a parent only if they overlapped, or if a *)
(* query for the parent of the later one failed (main.go:374-436).         *)
THEOREM OnlyOverlapsFork == CommitSpec => []ForksOverlap
<1>1. LogInv => ForksOverlap
  BY DEF LogInv
<1> QED
  BY <1>1, LogInvariance, PTL

-----------------------------------------------------------------------------
(* The counts of a commit that nothing disturbs.                           *)

(* The queries of table t are 3t - 2 to 3t, one for each mark.             *)
LEMMA QueryPlace ==
    ASSUME NEW q \in 1..Last
    PROVE  /\ TableOf(q) \in 1..TableCount
           /\ MarkOf(q) \in DOMAIN Zero
           /\ q = 3 * (TableOf(q) - 1) + Place(MarkOf(q))
<1> DEFINE d == (q - 1) \div 3
           r == (q - 1) % 3
<1>1. TableCount \in Nat /\ q \in Nat /\ 1 <= q /\ q <= 3 * TableCount
  BY CommitAssumption DEF Last
<1>2. d \in Int /\ r \in 0..2 /\ q - 1 = 3 * d + r
  BY <1>1
<1>3. TableOf(q) = d + 1 /\ MarkOf(q) = Counted[r + 1]
  BY DEF TableOf, MarkOf
<1> HIDE DEF d, r
<1>4. d + 1 \in 1..TableCount
  BY <1>1, <1>2
<1>5. MarkOf(q) \in {"inserted", "updated", "deleted"} /\ Place(MarkOf(q)) = r + 1
  <2>1. r = 0 \/ r = 1 \/ r = 2
    BY <1>2
  <2> QED
    BY <1>3, <2>1 DEF Counted, Place
<1> QED
  BY <1>1, <1>2, <1>3, <1>4, <1>5 DEF Zero

(* The query after q has a table or a mark of its own.                     *)
LEMMA QueryOrder ==
    ASSUME NEW q \in 1..Last, NEW t \in 1..TableCount, NEW m \in DOMAIN Zero
    PROVE  3 * (t - 1) + Place(m) < q + 1 <=>
               \/ 3 * (t - 1) + Place(m) < q
               \/ t = TableOf(q) /\ m = MarkOf(q)
<1> DEFINE u == TableOf(q)
           p == Place(m)
           o == Place(MarkOf(q))
<1>1. q \in Int /\ u \in Int /\ q = 3 * (u - 1) + o /\ MarkOf(q) \in DOMAIN Zero /\ t \in Int
  BY QueryPlace, CommitAssumption DEF Last
<1>2. /\ o \in 1..3 /\ p \in 1..3
      /\ p = o <=> m = MarkOf(q)
  BY <1>1 DEF Place, Zero
<1> HIDE DEF u, p, o
<1>3. 3 * (t - 1) + p < q + 1 <=> 3 * (t - 1) + p < q \/ (t = u /\ p = o)
  BY <1>1, <1>2
<1> QED
  BY <1>2, <1>3 DEF u, p

(* The rows that the queries count are finitely many.                      *)
LEMMA CountedFinite ==
    ASSUME NEW b, NEW m, NEW q, NEW t
    PROVE  /\ IsFiniteSet(CountedRows(b, m, q)) /\ Cardinality(CountedRows(b, m, q)) \in Nat
           /\ IsFiniteSet(Marked(b, t, {m})) /\ Cardinality(Marked(b, t, {m})) \in Nat
<1>1. IsFiniteSet(1..TableCount) /\ IsFiniteSet(RowKeys)
  BY CommitAssumption, FS_Interval
<1>2. IsFiniteSet((1..TableCount) \X RowKeys)
  BY <1>1, FS_Product
<1>3. /\ CountedRows(b, m, q) \in SUBSET ((1..TableCount) \X RowKeys)
      /\ Marked(b, t, {m}) \in SUBSET RowKeys
  BY DEF CountedRows, Marked
<1>4. IsFiniteSet(CountedRows(b, m, q)) /\ IsFiniteSet(Marked(b, t, {m}))
  BY <1>1, <1>2, <1>3, FS_Subset
<1> QED
  BY <1>4, FS_CardinalityType

(* Query q adds the rows of its table with its mark.                       *)
LEMMA CountedStep ==
    ASSUME NEW b, NEW q \in 1..Last, NEW m \in DOMAIN Zero
    PROVE  Cardinality(CountedRows(b, m, q + 1)) =
               Cardinality(CountedRows(b, m, q))
               + (IF m = MarkOf(q) THEN Cardinality(Marked(b, TableOf(q), {m})) ELSE 0)
<1> DEFINE rows == CountedRows(b, m, q)
           marked == Marked(b, TableOf(q), {m})
           more == {TableOf(q)} \X marked
<1>1. /\ IsFiniteSet(rows) /\ Cardinality(rows) \in Nat
      /\ IsFiniteSet(marked) /\ Cardinality(marked) \in Nat
  BY CountedFinite
<1>2. TableOf(q) \in 1..TableCount
  BY QueryPlace
<1>3. CASE m # MarkOf(q)
  <2>1. CountedRows(b, m, q + 1) = rows
    BY <1>3, QueryOrder DEF CountedRows
  <2> QED
    BY <1>1, <1>3, <2>1
<1>4. CASE m = MarkOf(q)
  <2>1. CountedRows(b, m, q + 1) = rows \cup more
    BY <1>2, <1>4, QueryOrder DEF CountedRows, Marked
  <2>2. rows \cap more = {}
    <3>1. 3 * (TableOf(q) - 1) + Place(m) = q /\ ~(q < q)
      BY <1>4, QueryPlace
    <3> QED
      BY <3>1 DEF CountedRows
  <2>3. IsFiniteSet(more) /\ Cardinality(more) = Cardinality(marked)
    <3>1. IsFiniteSet({TableOf(q)}) /\ Cardinality({TableOf(q)}) = 1
      BY FS_Singleton
    <3> HIDE DEF marked
    <3> QED
      BY <1>1, <3>1, FS_Product
  <2> HIDE DEF rows, more, marked
  <2>4. Cardinality(rows \cup more) = Cardinality(rows) + Cardinality(marked) - 0
    BY <1>1, <2>2, <2>3, FS_Union, FS_EmptySet
  <2>5. Cardinality(rows \cup more) =
          Cardinality(rows) + (IF m = MarkOf(q) THEN Cardinality(marked) ELSE 0)
    BY <1>1, <1>4, <2>4
  <2> QED
    BY <2>1, <2>5 DEF rows, marked
<1> QED
  BY <1>3, <1>4

(* Before the first query nothing has been counted.                        *)
LEMMA CountedFirst ==
    ASSUME NEW b, NEW m \in DOMAIN Zero
    PROVE  CountedRows(b, m, 1) = {}
<1>1. Place(m) \in 1..3
  BY DEF Place
<1>2. ASSUME NEW t \in 1..TableCount PROVE ~(3 * (t - 1) + Place(m) < 1)
  BY <1>1
<1> QED
  BY <1>2 DEF CountedRows

(* After the last one everything has.                                      *)
LEMMA CountedLast ==
    ASSUME NEW b, NEW m \in DOMAIN Zero
    PROVE  Cardinality(CountedRows(b, m, Last + 1)) = Total(b, m)
<1>1. Place(m) \in 1..3
  BY DEF Place
<1>2. ASSUME NEW t \in 1..TableCount PROVE 3 * (t - 1) + Place(m) < Last + 1
  BY <1>1, CommitAssumption DEF Last
<1>3. CountedRows(b, m, Last + 1) =
        {r \in (1..TableCount) \X RowKeys : delta[b][r[1]][r[2]] = m}
  BY <1>2 DEF CountedRows
<1> QED
  BY <1>3 DEF Total

(* Live names differ, so a schema has the tables of one branch.            *)
LEMMA CountOfOwner ==
    ASSUME LifeInv, NEW n, NEW b \in Owner(n), NEW q
    PROVE  Count(n, q) = Cardinality(Marked(b, TableOf(q), {MarkOf(q)}))
<1>1. Owner(n) = {b}
  BY DEF Owner, HasTables, LifeInv, LiveNamesDiffer
<1> QED
  BY <1>1 DEF Count

(* The counts stay exact while neither they nor what they count change.    *)
LEMMA ExactStays ==
    ASSUME NEW d \in Committers, WorkIsExact(work[d]), SameLineage,
           work'[d].branch = work[d].branch, work'[d].schema = work[d].schema,
           work'[d].query = work[d].query, work'[d].counts = work[d].counts,
           work'[d].quiet => /\ work[d].quiet
                             /\ HasTables(work[d].branch)'
                             /\ delta'[work[d].branch] = delta[work[d].branch]
    PROVE  WorkIsExact(work[d])'
<1>1. work'[d].query = 1 => work'[d].counts = Zero /\ ~work'[d].quiet
  BY DEF WorkIsExact
<1>2. ASSUME work'[d].quiet
      PROVE  /\ work'[d].branch \in Owner(work[d].schema)'
             /\ \A m \in DOMAIN Zero :
                  work'[d].counts[m]
                      = Cardinality(CountedRows(work[d].branch, m, work[d].query)')
  <2>1. work[d].branch \in Owner(work[d].schema)
    BY <1>2 DEF WorkIsExact
  <2>2. work'[d].branch \in Owner(work[d].schema)'
    BY <1>2, <2>1 DEF Owner, SameLineage
  <2>3. ASSUME NEW m
        PROVE  CountedRows(work[d].branch, m, work[d].query)'
                   = CountedRows(work[d].branch, m, work[d].query)
    BY <1>2 DEF CountedRows
  <2> QED
    BY <1>2, <2>2, <2>3 DEF WorkIsExact
<1> QED
  BY <1>1, <1>2 DEF WorkIsExact

(* A commit that is not quiet and has not begun to count is exact.         *)
LEMMA NothingCounted ==
    ASSUME NEW d \in Committers, work'[d].counts = Zero, ~work'[d].quiet
    PROVE  WorkIsExact(work[d])'
BY DEF WorkIsExact

(* The next query of a quiet commit finds the tables of its branch.        *)
LEMMA CountKeepsExact ==
    ASSUME LogInv, CountsAreExact, NEW c \in Committers, CommitCount(c)
    PROVE  WorkIsExact(work[c])'
<1> DEFINE b == work[c].branch
           s == work[c].schema
           q == work[c].query
           n == Count(s, q)
           k == work[c].counts[MarkOf(q)] + n
           f == [work[c].counts EXCEPT ![MarkOf(q)] = k]
           quiet == IF q = 1 THEN b \in Owner(s) ELSE work[c].quiet
           w == [work[c] EXCEPT !.query = q + 1, !.counts = f, !.quiet = quiet]
<1>1. /\ work[c] \in Works /\ q \in 1..Last /\ q \in Nat
      /\ work' = [work EXCEPT ![c] = w]
      /\ UNCHANGED <<lifeVars, delta>>
  <2>1. work[c] \in Works
    BY DEF LogInv, CommitTypeOK
  <2>2. q <= Last /\ UNCHANGED <<lifeVars, delta>>
    BY DEF CommitCount
  <2>3. work' = [work EXCEPT ![c] = w]
    BY <2>1 DEF CommitCount, Works
  <2> QED
    BY <2>1, <2>2, <2>3, Numbers DEF Works
<1>2. /\ w.branch = b /\ w.schema = s /\ w.query = q + 1
      /\ w.counts = f /\ w.quiet = quiet
  <2> HIDE DEF f, quiet, q
  <2> QED
    BY <1>1 DEF Works
<1>3. work'[c] = w
  BY <1>1 DEF LogInv, CommitTypeOK
<1>4. WorkIsExact(work[c])
  BY DEF CountsAreExact
<1>5. ASSUME quiet
      PROVE  /\ b \in Owner(s)
             /\ \A m \in DOMAIN Zero : work[c].counts[m] = Cardinality(CountedRows(b, m, q))
  <2>1. CASE q = 1
    <3>1. \A m \in DOMAIN Zero : CountedRows(b, m, q) = {} /\ work[c].counts[m] = 0
      BY <1>4, <2>1, CountedFirst DEF WorkIsExact, Zero
    <3> QED
      BY <1>5, <2>1, <3>1, FS_EmptySet
  <2>2. CASE q # 1
    BY <1>4, <1>5, <2>2 DEF WorkIsExact
  <2> QED
    BY <2>1, <2>2
<1>6. ASSUME quiet, NEW m \in DOMAIN Zero
      PROVE  f[m] = Cardinality(CountedRows(b, m, q + 1))
  <2>1. /\ work[c].counts[m] = Cardinality(CountedRows(b, m, q))
        /\ n = Cardinality(Marked(b, TableOf(q), {MarkOf(q)}))
    BY <1>5, <1>6, CountOfOwner DEF LogInv
  <2>2. work[c].counts \in [DOMAIN Zero -> Nat]
    BY <1>1 DEF Works, Summaries, Zero
  <2>3. f[m] = work[c].counts[m] + (IF m = MarkOf(q) THEN n ELSE 0)
    <3> HIDE DEF n
    <3>1. work[c].counts[m] \in Nat
      BY <2>2
    <3> QED
      BY <2>2, <3>1
  <2> HIDE DEF n, f, q, b
  <2>4. Cardinality(CountedRows(b, m, q + 1)) =
               Cardinality(CountedRows(b, m, q))
               + (IF m = MarkOf(q) THEN Cardinality(Marked(b, TableOf(q), {m})) ELSE 0)
    BY <1>1, CountedStep
  <2> QED
    BY <2>1, <2>3, <2>4
<1> HIDE DEF f, quiet, n
<1>7. UNCHANGED <<branches, schemas, delta>> /\ Created' = Created
  BY <1>1, SameBranches
<1>8. Owner(s)' = Owner(work[c].schema) /\ q + 1 # 1
  BY <1>1, <1>2, <1>3, <1>7 DEF Owner, HasTables
<1>9. ASSUME NEW m
      PROVE  CountedRows(work[c].branch, m, work[c].query)' = CountedRows(b, m, q + 1)
  BY <1>2, <1>3, <1>7 DEF CountedRows
<1> QED
  BY <1>2, <1>3, <1>5, <1>6, <1>7, <1>8, <1>9 DEF WorkIsExact

(* A disturbed commit keeps its counts, but is quiet no more.              *)
LEMMA DisturbedCounts ==
    ASSUME CommitTypeOK, NEW is, work' = Disturbed(is), NEW d \in Committers
    PROVE  /\ work'[d].branch = work[d].branch /\ work'[d].schema = work[d].schema
           /\ work'[d].query = work[d].query /\ work'[d].counts = work[d].counts
           /\ work'[d].quiet => work[d].quiet /\ work[d].branch \notin is
<1> DEFINE w == work[d]
<1>1. w \in Works
  BY DEF CommitTypeOK
<1>2. work'[d] = IF w.branch \in is THEN [w EXCEPT !.quiet = FALSE] ELSE w
  BY DEF Disturbed
<1> HIDE DEF w
<1>3. LET v == [w EXCEPT !.quiet = FALSE]
      IN  /\ v.branch = w.branch /\ v.schema = w.schema /\ v.query = w.query
          /\ v.counts = w.counts /\ ~v.quiet
  BY <1>1 DEF Works
<1>4. CASE w.branch \in is
  BY <1>2, <1>3, <1>4 DEF w
<1>5. CASE w.branch \notin is
  BY <1>2, <1>5 DEF w
<1> QED
  BY <1>4, <1>5

(* The steps of one committer leave the branches and the other works.      *)
LEMMA CommitKeepsExact ==
    ASSUME LogInv, CountsAreExact, NEW c \in Committers,
           CommitBegin(c) \/ CommitParent(c) \/ CommitParentError(c) \/ CommitCount(c)
           \/ CommitCountError(c) \/ CommitInsert(c) \/ CommitFails(c)
    PROVE  CountsAreExact'
<1>1. /\ UNCHANGED <<lifeVars, delta>>
      /\ \A d \in Committers : d # c => work'[d] = work[d]
  BY DEF CommitBegin, CommitParent, CommitParentError, CommitCount, CommitCountError,
     CommitInsert, CommitFails, LogInv, CommitTypeOK
<1>2. /\ UNCHANGED <<branches, schemas>> /\ Created' = Created /\ SameLineage
  BY <1>1, SameBranches DEF SameLineage
<1>3. work[c] \in Works /\ work \in [Committers -> Works] /\ WorkIsExact(work[c])
  BY DEF LogInv, CommitTypeOK, CountsAreExact
<1>4. ASSUME work[c].quiet PROVE HasTables(work[c].branch)
  BY <1>3, <1>4 DEF WorkIsExact, Owner
<1>5. WorkIsExact(work[c])'
  <2>1. CASE CommitBegin(c)
    <3> DEFINE v == [NoWork EXCEPT !.branch = active, !.schema = SchemaName(active),
                                   !.before = Len(commits)]
    <3>1. work'[c] = v
      BY <1>3, <2>1 DEF CommitBegin
    <3>2. v.counts = Zero /\ ~v.quiet
      BY DEF NoWork
    <3> HIDE DEF v
    <3> QED
      BY <3>1, <3>2, NothingCounted
  <2>2. CASE CommitParent(c) \/ CommitParentError(c)
    <3>1. PICK p, known : work' = [work EXCEPT ![c] = [work[c] EXCEPT !.parent = p,
                                                                     !.known = known]]
      <4>1. CASE CommitParent(c)
        <5> DEFINE b == work[c].branch
                   p == IF Latest(b) # 0 THEN Latest(b) ELSE base[b]
        <5>1. work' = [work EXCEPT ![c] = [work[c] EXCEPT !.parent = p]]
          BY <4>1 DEF CommitParent
        <5> HIDE DEF p
        <5>2. [work[c] EXCEPT !.parent = p]
                  = [work[c] EXCEPT !.parent = p, !.known = work[c].known]
          BY <1>3 DEF Works
        <5> QED
          BY <5>1, <5>2
      <4>2. CASE CommitParentError(c)
        BY <1>3, <4>2 DEF CommitParentError
      <4> QED
        BY <2>2, <4>1, <4>2
    <3> DEFINE v == [work[c] EXCEPT !.parent = p, !.known = known]
    <3>2. work'[c] = v
      BY <1>3, <3>1
    <3>3. /\ v.branch = work[c].branch /\ v.schema = work[c].schema
          /\ v.query = work[c].query /\ v.counts = work[c].counts
          /\ v.quiet = work[c].quiet
      BY <1>3 DEF Works
    <3> HIDE DEF v
    <3>4. work'[c].quiet => /\ work[c].quiet
                            /\ HasTables(work[c].branch)'
                            /\ delta'[work[c].branch] = delta[work[c].branch]
      BY <1>1, <1>2, <1>4, <3>2, <3>3 DEF HasTables
    <3> QED
      BY <1>2, <1>3, <3>2, <3>3, <3>4, ExactStays
  <2>3. CASE CommitCount(c)
    BY <2>3, CountKeepsExact
  <2>4. CASE CommitInsert(c) \/ CommitFails(c)
    <3>1. work'[c] = NoWork
      BY <1>3, <2>4 DEF CommitInsert, CommitFails
    <3> QED
      BY <3>1, NothingCounted DEF NoWork
  <2>5. CASE CommitCountError(c)
    <3>1. work'[c].query = work[c].query + 1 /\ ~work'[c].quiet /\ work[c].query \in 1..(Last + 1)
      BY <1>3, <2>5 DEF CommitCountError, Works
    <3>2. work'[c].query # 1
      BY <3>1, Numbers
    <3> QED
      BY <3>1, <3>2 DEF WorkIsExact
  <2> QED
    BY <2>1, <2>2, <2>3, <2>4, <2>5
<1>6. ASSUME NEW d \in Committers, d # c PROVE WorkIsExact(work[d])'
  <2>1. WorkIsExact(work[d]) /\ work'[d] = work[d]
    BY <1>1, <1>6 DEF CountsAreExact
  <2>2. work'[d].quiet => /\ work[d].quiet
                          /\ HasTables(work[d].branch)'
                          /\ delta'[work[d].branch] = delta[work[d].branch]
    BY <1>1, <1>2, <2>1 DEF WorkIsExact, Owner, HasTables
  <2> QED
    BY <1>2, <2>1, <2>2, ExactStays
<1> QED
  BY <1>5, <1>6 DEF CountsAreExact

(* A statement that changes a delta table disturbs whoever counts it.      *)
LEMMA WriteKeepsExact ==
    ASSUME LogInv, CountsAreExact,
           NEW i \in Ids, NEW t \in 1..TableCount, NEW k \in RowKeys, BranchWrite(i, t, k)
    PROVE  CountsAreExact'
<1>1. work' = Disturbed({i}) /\ UNCHANGED lifeVars
  BY DEF BranchWrite
<1>2. /\ UNCHANGED <<branches, schemas>> /\ Created' = Created /\ SameLineage
  BY <1>1, SameBranches DEF SameLineage
<1>3. \A j \in Ids : j # i => delta'[j] = delta[j]
  BY DEF BranchWrite, LogInv, CommitTypeOK
<1> SUFFICES ASSUME NEW d \in Committers PROVE WorkIsExact(work[d])'
  BY DEF CountsAreExact
<1>4. WorkIsExact(work[d])
  BY DEF CountsAreExact
<1>5. /\ work'[d].branch = work[d].branch /\ work'[d].schema = work[d].schema
      /\ work'[d].query = work[d].query /\ work'[d].counts = work[d].counts
      /\ work'[d].quiet => work[d].quiet /\ work[d].branch \notin {i}
  BY <1>1, DisturbedCounts DEF LogInv
<1>6. ASSUME work'[d].quiet
      PROVE  HasTables(work[d].branch)' /\ delta'[work[d].branch] = delta[work[d].branch]
  <2>1. work[d].branch \in Created /\ HasTables(work[d].branch) /\ work[d].branch # i
    BY <1>4, <1>5, <1>6 DEF WorkIsExact, Owner
  <2>2. work[d].branch \in Ids
    BY <2>1, CreatedIds DEF LogInv, LifeInv
  <2> QED
    BY <1>2, <1>3, <1>5, <2>1, <2>2 DEF HasTables
<1> QED
  BY <1>2, <1>4, <1>5, <1>6, ExactStays

(* A command that takes the tables of a branch away disturbs them as well. *)
LEMMA LifecycleKeepsExact ==
    ASSUME LogInv, CountsAreExact, LifecycleStep
    PROVE  CountsAreExact'
<1>1. /\ Next /\ work' = Disturbed(Gone)
      /\ delta' = [i \in Ids |-> IF i \in Gone THEN Untouched ELSE delta[i]]
  BY DEF LifecycleStep
<1>2. SameLineage
  BY <1>1, CreateMakes, OthersKeepLineage DEF LogInv
<1> SUFFICES ASSUME NEW d \in Committers PROVE WorkIsExact(work[d])'
  BY DEF CountsAreExact
<1>4. WorkIsExact(work[d])
  BY DEF CountsAreExact
<1>5. /\ work'[d].branch = work[d].branch /\ work'[d].schema = work[d].schema
      /\ work'[d].query = work[d].query /\ work'[d].counts = work[d].counts
      /\ work'[d].quiet => work[d].quiet /\ work[d].branch \notin Gone
  BY <1>1, DisturbedCounts DEF LogInv
<1>6. ASSUME work'[d].quiet
      PROVE  HasTables(work[d].branch)' /\ delta'[work[d].branch] = delta[work[d].branch]
  <2>1. work[d].branch \in Created /\ HasTables(work[d].branch) /\ work[d].branch \notin Gone
    BY <1>4, <1>5, <1>6 DEF WorkIsExact, Owner
  <2>2. work[d].branch \in Ids
    BY <2>1, CreatedIds DEF LogInv, LifeInv
  <2> QED
    BY <1>1, <1>5, <2>1, <2>2 DEF Gone, HasTables
<1> QED
  BY <1>2, <1>4, <1>5, <1>6, ExactStays

(* The counts of the commits that nothing has disturbed are exact.         *)
LEMMA CountsInvariance == CommitSpec => []CountsAreExact
<1>1. CommitInit => CountsAreExact
  <2>1. NoWork.counts = Zero /\ ~NoWork.quiet
    BY DEF NoWork
  <2> QED
    BY <2>1 DEF CommitInit, CountsAreExact, WorkIsExact
<1>2. LogInv /\ CountsAreExact /\ [CommitNext]_commitVars => CountsAreExact'
  <2> SUFFICES ASSUME LogInv, CountsAreExact, [CommitNext]_commitVars PROVE CountsAreExact'
    OBVIOUS
  <2>1. ASSUME NEW c \in Committers,
               CommitBegin(c) \/ CommitParent(c) \/ CommitParentError(c) \/ CommitCount(c)
               \/ CommitCountError(c) \/ CommitInsert(c) \/ CommitFails(c)
        PROVE  CountsAreExact'
    BY <2>1, CommitKeepsExact
  <2>2. ASSUME UNCHANGED <<lifeVars, delta, work>> PROVE CountsAreExact'
    <3>1. UNCHANGED <<branches, schemas>> /\ Created' = Created
      BY <2>2, SameBranches
    <3> QED
      BY <2>2, <3>1 DEF CountsAreExact, WorkIsExact, Owner, HasTables, CountedRows
  <2>3. ASSUME NEW c \in Clients, CreateReadBase(c) PROVE CountsAreExact'
    BY <2>2, <2>3 DEF CreateReadBase
  <2>4. ASSUME NEW i \in Ids, NEW t \in 1..TableCount, NEW k \in RowKeys, BranchWrite(i, t, k)
        PROVE  CountsAreExact'
    BY <2>4, WriteKeepsExact
  <2>5. CASE LifecycleStep
    BY <2>5, LifecycleKeepsExact
  <2>6. CASE UNCHANGED commitVars
    BY <2>2, <2>6 DEF commitVars, logVars
  <2> QED
    BY <2>1, <2>3, <2>4, <2>5, <2>6 DEF CommitNext
<1> QED
  BY <1>1, <1>2, LogInvariance, PTL DEF CommitSpec

(* A commit whose branch nobody wrote to, merged or dropped while its      *)
(* tables were counted, and whose counts were all answered, says how many  *)
(* rows of the branch were inserted, updated and deleted, each counted     *)
(* once (main.go:401-419).                                                 *)
THEOREM QuietCountsExact == CommitSpec => []QuietCountsAreExact
<1>1. LogInv /\ CountsAreExact => QuietCountsAreExact
  <2> SUFFICES ASSUME LogInv, CountsAreExact, NEW c \in Committers,
                      work[c].query = Last + 1, work[c].quiet
               PROVE  work[c].counts = [m \in DOMAIN Zero |-> Total(work[c].branch, m)]
    BY DEF QuietCountsAreExact
  <2>1. work[c].counts \in [DOMAIN Zero -> Nat]
    BY DEF LogInv, CommitTypeOK, Works, Summaries, Zero
  <2>2. \A m \in DOMAIN Zero : work[c].counts[m] = Total(work[c].branch, m)
    BY CountedLast DEF CountsAreExact, WorkIsExact
  <2> QED
    BY <2>1, <2>2
<1> QED
  BY <1>1, CountsInvariance, LogInvariance, PTL

=============================================================================
